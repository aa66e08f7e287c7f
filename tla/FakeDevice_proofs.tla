-------------------------- MODULE FakeDevice_proofs --------------------------
(* The emulated device, for any number of threads, handles, OVERLAPPEDs,   *)
(* ports and frames, and any faults.                                       *)
EXTENDS FakeDevice, FiniteSetTheorems, TLAPS

-----------------------------------------------------------------------------
(* The inductive invariant                                                 *)

\* TypeOK without the length of the queues, which follows from the rest.
Types ==
  /\ LoopbackTypeOK
  /\ active \in BOOLEAN /\ created \in 0..MaxHandles
  /\ list \in SUBSET Blocks
  /\ ctx \in [Blocks -> [h : 0..MaxHandles, mac : Filters,
                         pending : Seq(Requests)]]
  /\ internal \in [Ovs -> BOOLEAN]
  /\ issued \in [Ovs -> 0..MaxHandles]
  /\ orphans \in SUBSET Ports
  /\ pc \in [Threads -> Steps]
  /\ arg \in [Threads -> [b : Blocks \cup {NONE}, h : 0..MaxHandles,
                          ov : Ovs \cup {NONE}, mac : Macs \cup {NONE},
                          req : Requests \cup {NoRequest}]]

\* The steps of the hooks that work on a read.
ReadSteps == {"read_socket", "read_enqueue", "read_pending", "result_check",
              "result_unlink", "result_recv", "result_reinsert",
              "result_done", "result_close"}

\* Thread t has o's request in its hands, or has still to make it.
Working(t, o) ==
  arg[t].ov = o /\ (HoldsRequest(t) \/ pc[t] = "read_socket")

\* The i-th read in the queue of block b is o's.
Waits(o, b, i) ==
  b \in list /\ i \in 1..Len(ctx[b].pending) /\ ctx[b].pending[i].ov = o

\* Every context in the list has an identifier of its own.
Contexts ==
  /\ \A b \in list : ctx[b].h \in 1..created
  /\ \A b, c \in list : ctx[b].h = ctx[c].h => b = c

\* What a thread in the middle of a hook can rely on.
Sound(t) ==
  /\ pc[t] = "idle" => arg[t] = Idle
  /\ pc[t] # "idle" => arg[t].b \in list /\ ctx[arg[t].b].h = arg[t].h
  /\ pc[t] \in ReadSteps => arg[t].ov \in Ovs /\ issued[arg[t].ov] = arg[t].h
  /\ pc[t] \notin ReadSteps => arg[t].ov = NONE
  /\ HoldsRequest(t) => arg[t].req \in Requests /\ arg[t].req.ov = arg[t].ov

Locals == \A t \in Threads : Sound(t)

\* The service's discipline: one call at a time with an OVERLAPPED, and no
\* call on a handle that is being closed.
Apart ==
  \A t, u \in Threads :
    t # u => /\ arg[t].ov # NONE => arg[u].ov # arg[t].ov
             /\ pc[t] = "close" => arg[u].h # arg[t].h

(***************************************************************************)
(* OutstandingReadIsKept place by place: a read issued has a place, in the *)
(* queue of its own handle or in a hook, and no second one.                *)
(***************************************************************************)
Places ==
  /\ \A o \in Ovs, b, c \in list, i, j \in Nat :
       Waits(o, b, i) /\ Waits(o, c, j) => b = c /\ i = j
  /\ \A o \in Ovs, b \in list, i \in Nat : Waits(o, b, i) =>
       /\ issued[o] = ctx[b].h
       /\ \A t \in Threads : ~Working(t, o)
  /\ \A o \in Ovs : issued[o] # 0 =>
       \/ \E b \in list, i \in Nat : Waits(o, b, i)
       \/ \E t \in Threads : Working(t, o)

\* SocketsHaveOneOwner on the requests: with Places, one place is one request.
Sockets ==
  /\ orphans \subseteq open
  /\ \A r \in Reqs : r.sock # NONE => r.sock \in open \ orphans
  /\ \A r, s \in Reqs : r.sock = s.sock /\ r.sock # NONE => r = s
  /\ \A p \in open \ orphans : \E r \in Reqs : r.sock = p

\* An OVERLAPPED is pending from the end of ReadFile to the frame that
\* completes it.
Internals ==
  \A o \in Ovs : issued[o] # 0 =>
    \/ internal[o]
    \/ \E t \in Threads :
         /\ arg[t].ov = o
         /\ pc[t] \in {"read_socket", "read_enqueue", "read_pending",
                       "result_close"}

IInv ==
  /\ Types /\ Contexts /\ Locals /\ Apart /\ Places /\ Sockets /\ Internals

-----------------------------------------------------------------------------
(* Types                                                                   *)

Args == [b : Blocks \cup {NONE}, h : 0..MaxHandles, ov : Ovs \cup {NONE},
         mac : Macs \cup {NONE}, req : Requests \cup {NoRequest}]
Contents == [h : 0..MaxHandles, mac : Filters, pending : Seq(Requests)]

LEMMA WithoutType ==
  ASSUME NEW S, NEW s \in Seq(S), NEW i \in 1..Len(s)
  PROVE  Without(s, i) \in Seq(S) /\ Len(Without(s, i)) = Len(s) - 1
BY DEF Without

LEMMA AppendElements ==
  ASSUME NEW S, NEW s \in Seq(S), NEW x \in S
  PROVE  {Append(s, x)[i] : i \in 1..Len(Append(s, x))}
           = {s[i] : i \in 1..Len(s)} \cup {x}
<1> DEFINE n == Len(s)
           a == Append(s, x)
<1>1. /\ n \in Nat /\ Len(a) = n + 1 /\ a[n + 1] = x
      /\ \A i \in 1..n : a[i] = s[i]
  OBVIOUS
<1> HIDE DEF n, a
<1>2. ASSUME NEW i \in 1..(n + 1) PROVE a[i] \in {s[j] : j \in 1..n} \cup {x}
  <2>1. i = n + 1 \/ i \in 1..n
    BY <1>1
  <2> QED BY <1>1, <2>1
<1>3. ASSUME NEW y \in {s[j] : j \in 1..n} \cup {x}
      PROVE  \E i \in 1..(n + 1) : y = a[i]
  <2>1. n + 1 \in 1..(n + 1) /\ \A j \in 1..n : j \in 1..(n + 1)
    BY <1>1
  <2> QED BY <1>1, <2>1
<1>4. {a[i] : i \in 1..(n + 1)} = {s[i] : i \in 1..n} \cup {x}
  BY <1>2, <1>3
<1> QED BY <1>1, <1>4 DEF n, a

\* Where the j-th element of Without(s, i) was in s.
Was(i, j) == IF j < i THEN j ELSE j + 1

LEMMA WithoutPlaces ==
  ASSUME NEW S, NEW s \in Seq(S), NEW i \in 1..Len(s)
  PROVE  /\ Len(Without(s, i)) = Len(s) - 1
         /\ \A j \in 1..(Len(s) - 1) :
              /\ Without(s, i)[j] = s[Was(i, j)]
              /\ Was(i, j) \in 1..Len(s) /\ Was(i, j) # i
         /\ \A j, k \in 1..(Len(s) - 1) : Was(i, j) = Was(i, k) => j = k
         /\ \A k \in 1..Len(s) : k # i =>
              \E j \in 1..(Len(s) - 1) : Was(i, j) = k
<1> DEFINE n == Len(s)
<1>1. n \in Nat /\ i \in 1..n
  OBVIOUS
<1>2. \A j \in 1..(n - 1) : Without(s, i)[j] = s[Was(i, j)]
  BY DEF Without, Was
<1> HIDE DEF n
<1>3. \A j \in 1..(n - 1) : Was(i, j) \in 1..n /\ Was(i, j) # i
  BY <1>1 DEF Was
<1>4. \A j, k \in 1..(n - 1) : Was(i, j) = Was(i, k) => j = k
  BY <1>1 DEF Was
<1>5. ASSUME NEW k \in 1..n, k # i
      PROVE  \E j \in 1..(n - 1) : Was(i, j) = k
  <2>1. CASE k < i
    BY <1>1, <1>5, <2>1 DEF Was
  <2>2. CASE k > i
    <3>1. k - 1 \in 1..(n - 1) /\ Was(i, k - 1) = k
      BY <1>1, <2>2 DEF Was
    <3> QED BY <3>1
  <2> QED BY <1>1, <1>5, <2>1, <2>2
<1> QED BY <1>2, <1>3, <1>4, <1>5, WithoutType DEF n

LEMMA WithoutElements ==
  ASSUME NEW S, NEW s \in Seq(S), NEW i \in 1..Len(s)
  PROVE  {s[j] : j \in 1..Len(s)}
           = {Without(s, i)[j] : j \in 1..Len(Without(s, i))} \cup {s[i]}
<1> DEFINE n == Len(s)
           w == Without(s, i)
<1>1. /\ Len(w) = n - 1 /\ n \in Nat
      /\ \A j \in 1..(n - 1) : w[j] = s[Was(i, j)] /\ Was(i, j) \in 1..n
      /\ \A k \in 1..n : k # i => \E j \in 1..(n - 1) : Was(i, j) = k
  BY WithoutPlaces
<1>2. i \in 1..n
  OBVIOUS
<1> HIDE DEF n, w
<1>3. ASSUME NEW k \in 1..n PROVE s[k] \in {w[j] : j \in 1..(n - 1)} \cup {s[i]}
  BY <1>1
<1>4. ASSUME NEW y \in {w[j] : j \in 1..(n - 1)} \cup {s[i]}
      PROVE  y \in {s[j] : j \in 1..n}
  <2>1. CASE y = s[i]
    BY <1>2, <2>1
  <2>2. ASSUME NEW j \in 1..(n - 1), y = w[j] PROVE y \in {s[k] : k \in 1..n}
    BY <1>1, <2>2
  <2> QED BY <1>4, <2>1, <2>2
<1>5. {s[j] : j \in 1..n} = {w[j] : j \in 1..(n - 1)} \cup {s[i]}
  BY <1>3, <1>4
<1> QED BY <1>1, <1>5 DEF n, w

LEMMA ArriveType ==
  ASSUME NEW S, NEW s \in Seq(S), NEW f \in S, Len(s) <= RxLimit, NEW n \in Nat
  PROVE  Arrive(s, f, n) \in Seq(S) /\ Len(Arrive(s, f, n)) <= RxLimit
<1> DEFINE m == IF Len(s) + n > RxLimit THEN RxLimit ELSE Len(s) + n
<1>1. m \in Nat /\ m <= RxLimit
  BY LimitsAssumption
<1>2. Arrive(s, f, n) = [i \in 1..m |-> IF i <= Len(s) THEN s[i] ELSE f]
  BY DEF Arrive
<1> HIDE DEF m
<1>3. Arrive(s, f, n) \in [1..m -> S]
  BY <1>1, <1>2
<1> QED BY <1>1, <1>2, <1>3

LEMMA SendType ==
  ASSUME NEW d \in Datagrams, Send(d), LoopbackTypeOK, up' = up
  PROVE  /\ inq' \in Seq(Datagrams) /\ Len(inq') <= InLimit
         /\ up' \/ inq' = <<>>
BY LimitsAssumption DEF Send, LoopbackTypeOK

LEMMA GotoTypes ==
  ASSUME Types, NEW t \in Threads, NEW from, NEW to \in Steps, Goto(t, from, to)
  PROVE  pc' \in [Threads -> Steps]
BY DEF Types, Goto

LEMMA ReturnTypes ==
  ASSUME Types, NEW t \in Threads, NEW from, Return(t, from)
  PROVE  pc' \in [Threads -> Steps] /\ arg' \in [Threads -> Args]
<1>1. Idle \in Args
  BY DeviceAssumption DEF Idle, Args
<1>2. "idle" \in Steps
  BY DEF Steps
<1> QED BY <1>1, <1>2, GotoTypes DEF Return, Types, Args

LEMMA EnterTypes ==
  ASSUME Types, NEW t \in Threads, NEW to \in Steps, NEW h \in 0..MaxHandles,
         NEW o \in Ovs \cup {NONE}, NEW m \in Macs \cup {NONE},
         Enter(t, to, h, o, m)
  PROVE  pc' \in [Threads -> Steps] /\ arg' \in [Threads -> Args]
<1>1. PICK b \in list :
        arg' = [arg EXCEPT ![t] = [b |-> b, h |-> h, ov |-> o, mac |-> m,
                                   req |-> NoRequest]]
  BY DEF Enter
<1>2. [b |-> b, h |-> h, ov |-> o, mac |-> m, req |-> NoRequest] \in Args
  BY DEF Types, Args
<1>3. arg' \in [Threads -> Args]
  BY <1>1, <1>2 DEF Types, Args
<1> QED BY <1>3, GotoTypes DEF Enter

LEMMA AppendTypes ==
  ASSUME Types, NEW t \in Threads, arg[t].b \in Blocks,
         arg[t].req \in Requests, Append2Pending(t)
  PROVE  ctx' \in [Blocks -> Contents]
<1>1. Append(ctx[arg[t].b].pending, arg[t].req) \in Seq(Requests)
  BY DEF Types
<1> QED BY <1>1 DEF Append2Pending, Types, Contents

-----------------------------------------------------------------------------
(* What one thread's step leaves alone                                     *)

\* Queues, requests and sockets are those they were.
SameReads ==
  /\ list' = list /\ issued' = issued /\ open' = open /\ orphans' = orphans
  /\ \A b \in Blocks :
       ctx'[b].pending = ctx[b].pending /\ ctx'[b].h = ctx[b].h
  /\ \A u \in Threads :
       /\ HoldsRequest(u)' <=> HoldsRequest(u)
       /\ HoldsRequest(u) => arg'[u].req = arg[u].req
       /\ \A o \in Ovs : Working(u, o)' <=> Working(u, o)

LEMMA QuietReads == ASSUME IInv, SameReads PROVE Places' /\ Sockets'
<1>1. list \subseteq Blocks
  BY DEF IInv, Types
<1>2. \A o \in Ovs, b \in list, i \in Nat : Waits(o, b, i)' <=> Waits(o, b, i)
  BY <1>1 DEF Waits, SameReads
<1>3. Places'
  BY <1>1, <1>2 DEF IInv, Places, SameReads
<1>4. Reqs' = Reqs
  <2>1. \A b \in list : Queue(b)' = Queue(b)
    BY <1>1 DEF SameReads, Queue
  <2>2. Held' = Held
    BY DEF SameReads, Held
  <2>3. UNION {Queue(b) : b \in list}' = UNION {Queue(b) : b \in list}
    BY <2>1 DEF SameReads
  <2> QED BY <2>2, <2>3 DEF Reqs
<1>5. Sockets'
  BY <1>4 DEF IInv, Sockets, SameReads
<1> QED BY <1>3, <1>5

LEMMA QuietStep ==
  ASSUME IInv, SameReads, created' = created
  PROVE  Contexts' /\ Places' /\ Sockets'
<1>1. Contexts'
  BY DEF IInv, Types, Contexts, SameReads
<1> QED BY <1>1, QuietReads

\* The other threads' locals, while t takes a step.
LEMMA OthersSound ==
  ASSUME IInv, NEW t \in Threads, Sound(t)',
         \A u \in Threads \ {t} :
           /\ pc'[u] = pc[u] /\ arg'[u] = arg[u]
           /\ pc[u] # "idle" => arg[u].b \in list' /\ ctx'[arg[u].b].h = arg[u].h
           /\ arg[u].ov # NONE => issued'[arg[u].ov] = issued[arg[u].ov]
  PROVE  Locals'
<1>1. ASSUME NEW u \in Threads \ {t} PROVE Sound(u)'
  <2>1. Sound(u)
    BY DEF IInv, Locals
  <2>2. pc[u] \in ReadSteps => arg[u].ov # NONE
    BY <2>1, DeviceAssumption DEF Sound
  <2> QED BY <2>1, <2>2 DEF Sound, HoldsRequest
<1> QED BY <1>1 DEF Locals

-----------------------------------------------------------------------------
(* Steps that leave the reads where they are                               *)

LEMMA LocalsStay ==
  ASSUME IInv, NEW t \in Threads, Sound(t)', SameReads,
         \A u \in Threads \ {t} : pc'[u] = pc[u] /\ arg'[u] = arg[u]
  PROVE  Locals'
<1>1. \A u \in Threads \ {t} : pc[u] # "idle" =>
        /\ arg[u].b \in list /\ arg[u].b \in Blocks
        /\ ctx[arg[u].b].h = arg[u].h
  BY DEF IInv, Locals, Sound, Types
<1> QED BY <1>1, OthersSound DEF SameReads

LEMMA PureTypes ==
  ASSUME Types, up' = up, inq' = inq, open' = open, rx' = rx
  PROVE  LoopbackTypeOK'
BY DEF Types, LoopbackTypeOK

LEMMA CloseHandleKeeps ==
  ASSUME IInv, QuietClose, NEW t \in Threads, NEW h \in Handles,
         CloseHandle(t, h), up' = up
  PROVE  IInv'
<1> USE DEF CloseHandle
<1>1. Types /\ h \in 0..MaxHandles /\ h # 0
  BY DEF IInv, Handles
<1>2. Types'
  <2>1. pc' \in [Threads -> Steps] /\ arg' \in [Threads -> Args]
    BY <1>1, EnterTypes DEF Steps
  <2> QED BY <1>1, <2>1, PureTypes DEF Types, Args
<1>3. PICK b \in list :
        /\ ctx[b].h = h /\ pc[t] = "idle" /\ pc' = [pc EXCEPT ![t] = "close"]
        /\ arg' = [arg EXCEPT ![t] = [b |-> b, h |-> h, ov |-> NONE,
                                      mac |-> NONE, req |-> NoRequest]]
  BY DEF Enter, Goto
<1>4. arg[t] = Idle
  BY <1>3 DEF IInv, Locals, Sound
<1>5. SameReads
  BY <1>1, <1>3, <1>4, DeviceAssumption
     DEF SameReads, Types, HoldsRequest, Working, Idle
<1>6. Locals'
  <2>1. Sound(t)'
    BY <1>1, <1>3 DEF Sound, Types, ReadSteps, HoldsRequest
  <2> QED BY <1>1, <1>3, <1>5, <2>1, LocalsStay DEF Types
<1>7. Apart'
  BY <1>1, <1>3, <1>4 DEF IInv, Apart, MayClose, Types
<1>8. Internals'
  BY <1>1, <1>3, <1>4, DeviceAssumption DEF IInv, Internals, Types, Idle
<1> QED BY <1>2, <1>5, <1>6, <1>7, <1>8, QuietStep DEF IInv

LEMMA GetOverlappedResultKeeps ==
  ASSUME IInv, QuietClose, ~SharedOv, NEW t \in Threads, NEW h \in Handles,
         NEW o \in Ovs, GetOverlappedResult(t, h, o), up' = up
  PROVE  IInv'
<1> USE DEF GetOverlappedResult
<1>1. Types /\ h \in 0..MaxHandles /\ h # 0 /\ o # NONE
  BY DeviceAssumption DEF IInv, Handles
<1>2. Types'
  <2>1. pc' \in [Threads -> Steps] /\ arg' \in [Threads -> Args]
    BY <1>1, EnterTypes DEF Steps
  <2> QED BY <1>1, <2>1, PureTypes DEF Types, Args
<1>3. PICK b \in list :
        /\ ctx[b].h = h /\ pc[t] = "idle"
        /\ pc' = [pc EXCEPT ![t] = "result_check"]
        /\ arg' = [arg EXCEPT ![t] = [b |-> b, h |-> h, ov |-> o,
                                      mac |-> NONE, req |-> NoRequest]]
  BY DEF Enter, Goto
<1>4. arg[t] = Idle
  BY <1>3 DEF IInv, Locals, Sound
<1>5. SameReads
  BY <1>1, <1>3, <1>4, DeviceAssumption
     DEF SameReads, Types, HoldsRequest, Working, Idle
<1>6. Locals'
  <2>1. Sound(t)'
    BY <1>1, <1>3 DEF Sound, Types, ReadSteps, HoldsRequest
  <2> QED BY <1>1, <1>3, <1>5, <2>1, LocalsStay DEF Types
<1>7. Apart'
  BY <1>1, <1>3, <1>4 DEF IInv, Apart, MayUse, Unused, Types
<1>8. Internals'
  BY <1>1, <1>3, <1>4, DeviceAssumption DEF IInv, Internals, Types, Idle
<1> QED BY <1>2, <1>5, <1>6, <1>7, <1>8, QuietStep DEF IInv

LEMMA DeviceIoControlKeeps ==
  ASSUME IInv, QuietClose, NEW t \in Threads, NEW h \in Handles,
         NEW m \in Macs, DeviceIoControl(t, h, m), up' = up
  PROVE  IInv'
<1> USE DEF DeviceIoControl
<1>1. Types /\ h \in 0..MaxHandles /\ h # 0
  BY DEF IInv, Handles
<1>2. Types'
  <2>1. pc' \in [Threads -> Steps] /\ arg' \in [Threads -> Args]
    BY <1>1, EnterTypes DEF Steps
  <2> QED BY <1>1, <2>1, PureTypes DEF Types, Args
<1>3. PICK b \in list :
        /\ ctx[b].h = h /\ pc[t] = "idle"
        /\ pc' = [pc EXCEPT ![t] = "ioctl_copy"]
        /\ arg' = [arg EXCEPT ![t] = [b |-> b, h |-> h, ov |-> NONE,
                                      mac |-> m, req |-> NoRequest]]
  BY DEF Enter, Goto
<1>4. arg[t] = Idle
  BY <1>3 DEF IInv, Locals, Sound
<1>5. SameReads
  BY <1>1, <1>3, <1>4, DeviceAssumption
     DEF SameReads, Types, HoldsRequest, Working, Idle
<1>6. Locals'
  <2>1. Sound(t)'
    BY <1>1, <1>3 DEF Sound, Types, ReadSteps, HoldsRequest
  <2> QED BY <1>1, <1>3, <1>5, <2>1, LocalsStay DEF Types
<1>7. Apart'
  BY <1>1, <1>3, <1>4 DEF IInv, Apart, MayUse, Types
<1>8. Internals'
  BY <1>1, <1>3, <1>4, DeviceAssumption DEF IInv, Internals, Types, Idle
<1> QED BY <1>2, <1>5, <1>6, <1>7, <1>8, QuietStep DEF IInv

\* A thread goes on in its hook with what it has.
LEMMA GoOn ==
  ASSUME IInv, NEW t \in Threads, SameReads, arg' = arg,
         NEW to, pc' = [pc EXCEPT ![t] = to],
         pc[t] # "idle", to \notin {"idle", "close"},
         pc[t] \in ReadSteps <=> to \in ReadSteps,
         HoldsRequest(t)' <=> HoldsRequest(t)
  PROVE  Locals' /\ Apart'
<1>1. Types /\ Sound(t)
  BY DEF IInv, Locals
<1>2. Sound(t)'
  BY <1>1 DEF Sound, SameReads, Types
<1>3. Locals'
  BY <1>1, <1>2, LocalsStay DEF Types
<1>4. Apart'
  BY <1>1 DEF IInv, Apart, Types
<1> QED BY <1>3, <1>4

\* A thread returns from its hook.
LEMMA GoHome ==
  ASSUME IInv, NEW t \in Threads, SameReads, NEW from, Return(t, from)
  PROVE  Locals' /\ Apart'
<1>1. Types
  BY DEF IInv
<1>2. Sound(t)'
  BY <1>1 DEF Return, Goto, Sound, Types, Idle, ReadSteps, HoldsRequest
<1>3. Locals'
  BY <1>1, <1>2, LocalsStay DEF Types, Return, Goto
<1>4. Apart'
  <2>1. \A u \in Threads : u # t /\ pc[u] = "close" => arg[u].h # 0
    BY <1>1 DEF IInv, Contexts, Locals, Sound, Types
  <2> QED BY <1>1, <2>1 DEF IInv, Apart, Types, Return, Goto, Idle
<1> QED BY <1>3, <1>4

LEMMA ResultStepKeeps ==
  ASSUME IInv, NEW t \in Threads, up' = up,
         ResultPending(t) \/ ResultNoFrame(t) \/ ResultDone(t)
  PROVE  IInv'
<1> USE DEF ResultPending, ResultNoFrame, ResultDone, Goto
<1>1. Types
  BY DEF IInv
<1>2. Types'
  BY <1>1, PureTypes DEF Types, Steps
<1>3. SameReads
  BY <1>1 DEF SameReads, Types, HoldsRequest, Working
<1>4. Locals' /\ Apart'
  <2>1. PICK to \in {"result_unlink", "result_reinsert", "result_close"} :
          /\ pc' = [pc EXCEPT ![t] = to]
          /\ to = "result_unlink" <=> pc[t] = "result_check"
    OBVIOUS
  <2>2. pc[t] \in {"result_check", "result_recv", "result_done"}
    OBVIOUS
  <2> QED BY <1>1, <1>3, <2>1, <2>2, GoOn DEF ReadSteps, HoldsRequest, Types
<1>5. Internals'
  <2>1. CASE ResultPending(t)
    BY <1>1, <2>1 DEF IInv, Internals, Types
  <2>2. CASE ResultNoFrame(t)
    BY <1>1, <2>2 DEF IInv, Internals, Types
  <2>3. CASE ResultDone(t)
    BY <1>1, <2>3 DEF IInv, Internals, Types
  <2> QED BY <2>1, <2>2, <2>3
<1> QED BY <1>2, <1>3, <1>4, <1>5, QuietStep DEF IInv

LEMMA ResultRecvKeeps ==
  ASSUME IInv, NEW t \in Threads, ResultRecv(t), up' = up
  PROVE  IInv'
<1> USE DEF ResultRecv, Goto
<1>1. Types /\ Sound(t)
  BY DEF IInv, Locals
<1> DEFINE p == arg[t].req.sock
<1>2. p \in Ports
  BY <1>1 DEF Sound, HoldsRequest, Requests
<1>3. Types'
  <2>1. /\ rx[p] \in Seq(Frames) /\ rx[p] # <<>> /\ Len(rx[p]) <= RxLimit
        /\ p \in open
    BY <1>1, <1>2 DEF Types, LoopbackTypeOK
  <2>2. Tail(rx[p]) \in Seq(Frames) /\ Len(Tail(rx[p])) <= RxLimit
    BY <2>1, LimitsAssumption
  <2>3. LoopbackTypeOK'
    BY <1>1, <1>2, <2>1, <2>2 DEF Types, LoopbackTypeOK
  <2> QED BY <1>1, <2>3 DEF Types, Steps
<1>4. SameReads
  BY <1>1 DEF SameReads, Types, HoldsRequest, Working
<1>5. PICK to \in {"result_done", "result_recv"} : pc' = [pc EXCEPT ![t] = to]
  OBVIOUS
<1>6. Locals' /\ Apart'
  BY <1>1, <1>4, <1>5, GoOn DEF ReadSteps, HoldsRequest, Types
<1>7. Internals'
  BY <1>1 DEF IInv, Internals, Types
<1> QED BY <1>3, <1>4, <1>6, <1>7, QuietStep DEF IInv

LEMMA ReadPendingKeeps ==
  ASSUME IInv, NEW t \in Threads, ReadPending(t), up' = up
  PROVE  IInv'
<1> USE DEF ReadPending
<1>1. Types /\ Sound(t) /\ pc[t] = "read_pending"
  BY DEF IInv, Locals, Return, Goto
<1>2. Types'
  <2>1. pc' \in [Threads -> Steps] /\ arg' \in [Threads -> Args]
    BY <1>1, ReturnTypes
  <2> QED BY <1>1, <2>1, PureTypes DEF Types, Args
<1>3. SameReads
  BY <1>1, DeviceAssumption
     DEF SameReads, Types, HoldsRequest, Working, Return, Goto, Idle
<1>4. Locals' /\ Apart'
  BY <1>3, GoHome
<1>5. Internals'
  <2>1. arg[t].ov \in Ovs
    BY <1>1 DEF Sound, ReadSteps
  <2> QED BY <1>1, <2>1 DEF IInv, Internals, Types, Return, Goto
<1> QED BY <1>2, <1>3, <1>4, <1>5, QuietStep DEF IInv

\* Only a read that is no longer outstanding could be taken for completed,
\* and there is none while a thread asks for it.
LEMMA ResultAlreadyKeeps ==
  ASSUME IInv, NEW t \in Threads, ResultAlready(t), up' = up
  PROVE  IInv'
<1> USE DEF ResultAlready
<1>1. Types /\ Sound(t) /\ pc[t] = "result_check"
  BY DEF IInv, Locals, Return, Goto
<1>2. arg[t].ov \in Ovs /\ issued[arg[t].ov] = arg[t].h
  BY <1>1 DEF Sound, ReadSteps
<1>3. arg[t].h # 0
  BY <1>1 DEF Sound, IInv, Contexts, Types
<1>4. PICK u \in Threads :
        /\ arg[u].ov = arg[t].ov
        /\ pc[u] \in {"read_socket", "read_enqueue", "read_pending",
                      "result_close"}
  BY <1>2, <1>3 DEF IInv, Internals
<1>5. u = t
  BY <1>2, <1>4, DeviceAssumption DEF IInv, Apart
<1> QED BY <1>1, <1>4, <1>5

LEMMA MacTypes ==
  ASSUME Types, NEW b \in Blocks, NEW m \in Filters,
         ctx' = [ctx EXCEPT ![b].mac = m]
  PROVE  ctx' \in [Blocks -> Contents]
BY DEF Types, Contents

LEMMA IoctlCopyKeeps ==
  ASSUME IInv, NEW t \in Threads, IoctlCopy(t), up' = up
  PROVE  IInv'
<1> USE DEF IoctlCopy, Goto
<1>1. Types /\ Sound(t) /\ pc[t] = "ioctl_copy"
  BY DEF IInv, Locals
<1>2. Types'
  <2>1. ctx' \in [Blocks -> Contents]
    <3> DEFINE b == arg[t].b
               m == IF ctx[b].mac \in {NONE, arg[t].mac} THEN ctx[b].mac
                    ELSE Torn
    <3>1. ctx' = [ctx EXCEPT ![b].mac = m]
      OBVIOUS
    <3>2. b \in Blocks /\ ctx[b].mac \in Filters
      BY <1>1 DEF Sound, Types
    <3>3. m \in Filters
      BY <3>2 DEF Filters
    <3> HIDE DEF b, m
    <3> QED BY <1>1, <3>1, <3>2, <3>3, MacTypes
  <2> QED BY <1>1, <2>1, PureTypes DEF Types, Steps, Contents
<1>3. SameReads
  BY <1>1 DEF SameReads, Types, HoldsRequest, Working
<1>4. Locals' /\ Apart'
  <2>1. HoldsRequest(t)' <=> HoldsRequest(t)
    BY <1>1 DEF HoldsRequest, Types
  <2>2. pc' = [pc EXCEPT ![t] = "ioctl_set"] /\ "ioctl_set" \notin ReadSteps
    BY DEF ReadSteps
  <2>3. pc[t] \notin ReadSteps
    BY <1>1 DEF ReadSteps
  <2> QED BY <1>1, <1>3, <2>1, <2>2, <2>3, GoOn
<1>5. Internals'
  BY <1>1 DEF IInv, Internals, Types
<1> QED BY <1>2, <1>3, <1>4, <1>5, QuietStep DEF IInv

LEMMA IoctlSetKeeps ==
  ASSUME IInv, NEW t \in Threads, IoctlSet(t), up' = up
  PROVE  IInv'
<1> USE DEF IoctlSet
<1>1. Types /\ Sound(t) /\ pc[t] = "ioctl_set"
  BY DEF IInv, Locals, Return, Goto
<1>2. Types'
  <2>1. pc' \in [Threads -> Steps] /\ arg' \in [Threads -> Args]
    BY <1>1, ReturnTypes
  <2>2. ctx' \in [Blocks -> Contents]
    BY <1>1 DEF Types, Contents, Filters
  <2> QED BY <1>1, <2>1, <2>2, PureTypes DEF Types, Args, Contents
<1>3. SameReads
  BY <1>1, DeviceAssumption
     DEF SameReads, Types, HoldsRequest, Working, Return, Goto, Idle
<1>4. Locals' /\ Apart'
  BY <1>3, GoHome
<1>5. Internals'
  BY <1>1 DEF IInv, Internals, Types, Return, Goto, Sound, ReadSteps
<1> QED BY <1>2, <1>3, <1>4, <1>5, QuietStep DEF IInv

-----------------------------------------------------------------------------
(* Datagrams                                                               *)

\* Nothing but the datagrams waiting, the driver's state or a read's event
\* status changes.
LEMMA DatagramKeeps ==
  ASSUME IInv, LoopbackTypeOK', open' = open, active' \in BOOLEAN,
         internal' \in [Ovs -> BOOLEAN],
         \A o \in Ovs : issued[o] # 0 => internal'[o] = internal[o],
         UNCHANGED <<created, list, ctx, issued, orphans, pc, arg>>
  PROVE  IInv'
<1>1. SameReads
  BY DEF SameReads, HoldsRequest, Working
<1>2. Types'
  BY DEF IInv, Types
<1>3. Locals'
  BY DEF IInv, Locals, Sound, HoldsRequest
<1>4. Apart'
  BY DEF IInv, Apart
<1>5. Internals'
  BY DEF IInv, Internals
<1> QED BY <1>1, <1>2, <1>3, <1>4, <1>5, QuietStep DEF IInv

LEMMA SendLoopback ==
  ASSUME LoopbackTypeOK, NEW d \in Datagrams, Send(d),
         up' = up, rx' = rx, open' = open
  PROVE  LoopbackTypeOK'
BY SendType DEF LoopbackTypeOK

LEMMA InitDriverKeeps == ASSUME IInv, InitDriver, up' = up PROVE IInv'
BY DatagramKeeps, PureTypes DEF InitDriver, IInv, Types

LEMMA TapClientControlKeeps ==
  ASSUME IInv, NEW c \in Commands, TapClientControl(c), up' = up
  PROVE  IInv'
<1>1. LoopbackTypeOK /\ internal \in [Ovs -> BOOLEAN] /\ active \in BOOLEAN
  BY DEF IInv, Types
<1>2. PICK p \in Ports :
        Send([from |-> p, data |-> [type |-> "control", cmd |-> c]])
  BY DEF TapClientControl
<1>3. [from |-> p, data |-> [type |-> "control", cmd |-> c]] \in Datagrams
  BY DEF Datagrams, Payloads
<1>4. LoopbackTypeOK'
  BY <1>1, <1>2, <1>3, SendLoopback DEF TapClientControl
<1> QED BY <1>1, <1>4, DatagramKeeps DEF TapClientControl, device

LEMMA WriteFileKeeps ==
  ASSUME IInv, NEW t \in Threads, NEW h \in Handles, NEW f \in Frames,
         NEW o \in Ovs, WriteFile(t, h, f, o), up' = up
  PROVE  IInv'
<1>1. LoopbackTypeOK /\ internal \in [Ovs -> BOOLEAN] /\ active \in BOOLEAN
  BY DEF IInv, Types
<1>2. LoopbackTypeOK'
  <2>1. CASE inq' = inq
    BY <1>1, <2>1 DEF WriteFile, LoopbackTypeOK
  <2>2. ASSUME NEW p \in Ports,
               Send([from |-> p, data |-> [type |-> "frame", frame |-> f]])
        PROVE  LoopbackTypeOK'
    <3>1. [from |-> p, data |-> [type |-> "frame", frame |-> f]] \in Datagrams
      BY DEF Datagrams, Payloads
    <3> QED BY <1>1, <2>2, <3>1, SendLoopback DEF WriteFile
  <2> QED BY <2>1, <2>2 DEF WriteFile
<1>3. \A x \in Ovs : issued[x] # 0 => internal'[x] = internal[x]
  BY <1>1 DEF WriteFile
<1> QED BY <1>1, <1>2, <1>3, DatagramKeeps DEF WriteFile

LEMMA BridgeSendsKeeps ==
  ASSUME IInv, NEW p \in Ports, NEW f \in Frames, BridgeSends(p, f)
  PROVE  IInv'
<1>1. LoopbackTypeOK /\ internal \in [Ovs -> BOOLEAN] /\ active \in BOOLEAN
  BY DEF IInv, Types
<1>2. LoopbackTypeOK'
  <2>1. Arrive(rx[p], f, 1) \in Seq(Frames) /\ Len(Arrive(rx[p], f, 1)) <= RxLimit
    BY <1>1, ArriveType DEF LoopbackTypeOK
  <2> QED BY <1>1, <2>1 DEF BridgeSends, LoopbackTypeOK
<1> QED BY <1>1, <1>2, DatagramKeeps DEF BridgeSends, device

-----------------------------------------------------------------------------
(* Steps that move a read                                                  *)

LEMMA RequestTypes ==
  ASSUME IInv
  PROVE  /\ \A b \in list : b \in Blocks /\ ctx[b].pending \in Seq(Requests)
         /\ \A b \in list : \A i \in 1..Len(ctx[b].pending) :
              ctx[b].pending[i] \in Requests
         /\ \A t \in Threads : HoldsRequest(t) =>
              arg[t].req \in Requests /\ Working(t, arg[t].req.ov)
<1>1. \A b \in list : b \in Blocks /\ ctx[b].pending \in Seq(Requests)
  BY DEF IInv, Types
<1>2. \A t \in Threads : HoldsRequest(t) =>
        arg[t].req \in Requests /\ Working(t, arg[t].req.ov)
  BY DEF IInv, Locals, Sound, Working
<1> QED BY <1>1, <1>2

\* A request that exists is in a queue or in the hands of a thread.
LEMMA RequestPlace ==
  ASSUME IInv, NEW r \in Reqs
  PROVE  /\ r \in Requests
         /\ \/ \E b \in list, i \in Nat :
                 Waits(r.ov, b, i) /\ r = ctx[b].pending[i]
            \/ \E t \in Threads :
                 HoldsRequest(t) /\ r = arg[t].req /\ Working(t, r.ov)
<1>1. CASE \E b \in list : r \in Queue(b)
  BY <1>1, RequestTypes DEF Queue, Waits
<1>2. CASE \E t \in Threads : HoldsRequest(t) /\ r = arg[t].req
  BY <1>2, RequestTypes
<1>3. \/ \E b \in list : r \in Queue(b)
      \/ \E t \in Threads : HoldsRequest(t) /\ r = arg[t].req
  <2>1. CASE r \in UNION {Queue(b) : b \in list}
    BY <2>1
  <2>2. CASE r \in Held
    BY <2>2 DEF Held
  <2> QED BY <2>1, <2>2 DEF Reqs
<1> QED BY <1>1, <1>2, <1>3

LEMMA HandleNotZero ==
  ASSUME IInv
  PROVE  \A b \in list : ctx[b].h \in Nat /\ ctx[b].h # 0
BY DEF IInv, Types, Contexts

LEMMA CreateFileWKeeps ==
  ASSUME IInv, NEW t \in Threads, CreateFileW(t), up' = up
  PROVE  IInv'
<1> USE DEF CreateFileW
<1>1. Types /\ created' \in 1..MaxHandles /\ created' = created + 1
      /\ created \in Nat
  BY DeviceAssumption DEF IInv, Types
<1>2. Apart' /\ Internals'
  BY DEF IInv, Apart, Internals
<1>3. CASE UNCHANGED <<ctx, list>>
  <2>1. Types'
    BY <1>1, <1>3, PureTypes DEF Types
  <2>2. Contexts'
    BY <1>1, <1>3 DEF IInv, Contexts
  <2>3. SameReads
    BY <1>3 DEF SameReads, HoldsRequest, Working
  <2>4. Locals'
    BY <1>3 DEF IInv, Locals, Sound, HoldsRequest
  <2>5. Places' /\ Sockets'
    BY <2>3, QuietReads
  <2> QED BY <1>2, <2>1, <2>2, <2>4, <2>5 DEF IInv
<1>4. ASSUME NEW b \in Blocks \ list,
             ctx' = [ctx EXCEPT ![b] = NewContext(created + 1)],
             list' = list \cup {b}
      PROVE  IInv'
  <2>1. Types'
    <3>1. NewContext(created + 1) \in Contents
      BY <1>1 DEF NewContext, Contents, Filters
    <3> QED BY <1>1, <1>4, <3>1, PureTypes DEF Types, Contents
  <2>2. /\ ctx'[b].h = created + 1 /\ ctx'[b].pending = <<>>
        /\ \A c \in list : c \in Blocks /\ c # b /\ ctx'[c] = ctx[c]
    BY <1>1, <1>4 DEF NewContext, Types
  <2>3. Contexts'
    BY <1>1, <1>4, <2>2 DEF IInv, Contexts
  <2>4. Locals'
    BY <1>4, <2>2 DEF IInv, Locals, Sound, HoldsRequest
  <2>5. \A o, i : ~Waits(o, b, i)'
    BY <2>2 DEF Waits
  <2>6. \A o, i : \A c \in list : Waits(o, c, i)' <=> Waits(o, c, i)
    BY <1>4, <2>2 DEF Waits
  <2>7. \A u, o : Working(u, o)' <=> Working(u, o)
    BY DEF Working, HoldsRequest
  <2>8. Places'
    BY <1>4, <2>2, <2>5, <2>6, <2>7 DEF IInv, Places
  <2>9. Reqs' = Reqs
    <3>1. Queue(b)' = {}
      BY <2>2 DEF Queue
    <3>2. \A c \in list : Queue(c)' = Queue(c)
      BY <2>2 DEF Queue
    <3>3. \A u : HoldsRequest(u)' <=> HoldsRequest(u)
      BY DEF HoldsRequest
    <3>4. Held' = Held
      BY <3>3 DEF Held
    <3> QED BY <1>4, <3>1, <3>2, <3>4 DEF Reqs
  <2>10. Sockets'
    BY <2>9 DEF IInv, Sockets
  <2> QED BY <1>2, <2>1, <2>3, <2>4, <2>8, <2>10 DEF IInv
<1> QED BY <1>3, <1>4

\* RemoveFakeHandle takes the reads of one handle and their sockets with it;
\* nobody else is using that handle.
LEMMA CloseRemoveKeeps ==
  ASSUME IInv, QuietClose, NEW t \in Threads, CloseRemove(t), up' = up
  PROVE  IInv'
<1> USE DEF CloseRemove
<1> DEFINE b == arg[t].b
           h == arg[t].h
           Sock(p) == \E i \in 1..Len(ctx[b].pending) :
                        ctx[b].pending[i].sock = p
<1>1. Types /\ pc[t] = "close"
  BY DEF IInv, Return, Goto
<1>2. b \in list /\ b \in Blocks /\ ctx[b].h = h /\ h # 0 /\ h \in 0..MaxHandles
  BY <1>1, HandleNotZero DEF IInv, Locals, Sound, Types
<1>3. {c \in list : ctx[c].h = h} = {b}
  BY <1>2 DEF IInv, Contexts
<1>4. /\ list' = list \ {b}
      /\ orphans' = orphans \cup {p \in Ports : Sock(p)}
      /\ issued' = [o \in Ovs |-> IF issued[o] = h THEN 0 ELSE issued[o]]
      /\ pc' = [pc EXCEPT ![t] = "idle"] /\ arg' = [arg EXCEPT ![t] = Idle]
  BY <1>3 DEF Return, Goto
<1>5. \A u \in Threads \ {t} : pc'[u] = pc[u] /\ arg'[u] = arg[u]
  BY <1>1, <1>4 DEF Types
<1>6. /\ pc'[t] = "idle" /\ arg'[t] = Idle
      /\ \A o \in Ovs : issued'[o] = IF issued[o] = h THEN 0 ELSE issued[o]
  BY <1>1, <1>4 DEF Types
<1> HIDE DEF CloseRemove
<1>7. ctx' = ctx /\ created' = created /\ open' = open /\ internal' = internal
  BY DEF CloseRemove
<1>8. \A u \in Threads \ {t} : arg[u].h # h
  BY <1>1 DEF IInv, Apart
<1>9. Types'
  <2>1. pc' \in [Threads -> Steps] /\ arg' \in [Threads -> Args]
    BY <1>1, ReturnTypes DEF CloseRemove
  <2>2. issued' \in [Ovs -> 0..MaxHandles]
    BY <1>1, <1>4, DeviceAssumption DEF Types
  <2>3. orphans' \in SUBSET Ports /\ list' \in SUBSET Blocks
    BY <1>1, <1>4 DEF Types
  <2> QED BY <1>1, <2>1, <2>2, <2>3, PureTypes DEF Types, Args, CloseRemove
<1>10. Contexts'
  BY <1>4, <1>7 DEF IInv, Contexts
<1>11. Locals'
  <2>1. Sound(t)'
    BY <1>6 DEF Sound, ReadSteps, HoldsRequest, Idle
  <2>2. ASSUME NEW u \in Threads \ {t} PROVE Sound(u)'
    <3>1. Sound(u)
      BY DEF IInv, Locals
    <3>2. pc[u] # "idle" => arg[u].b # b
      BY <1>2, <1>8, <3>1 DEF Sound
    <3>3. HoldsRequest(u)' <=> HoldsRequest(u)
      BY <1>5 DEF HoldsRequest
    <3> QED BY <1>4, <1>5, <1>6, <1>7, <1>8, <3>1, <3>2, <3>3 DEF Sound
  <2> QED BY <2>1, <2>2 DEF Locals
<1>12. Apart'
  BY <1>5, <1>6, <1>2, HandleNotZero DEF IInv, Apart, Idle, Locals, Sound
<1>13. \A o, c, i : Waits(o, c, i)' <=> Waits(o, c, i) /\ c # b
  BY <1>4, <1>7 DEF Waits
<1>14. \A u \in Threads, o \in Ovs : Working(u, o)' <=> Working(u, o)
  <2>1. \A o \in Ovs : ~Working(t, o) /\ ~Working(t, o)'
    BY <1>1, <1>6 DEF Working, HoldsRequest
  <2> QED BY <1>5, <2>1 DEF Working, HoldsRequest
<1>15. Places'
  <2>1. \A c \in list : ctx[c].h = h => c = b
    BY <1>3
  <2>2. \A o \in Ovs, c \in list', i \in Nat :
          Waits(o, c, i)' => issued'[o] = ctx'[c].h
    BY <1>4, <1>6, <1>7, <1>13, <2>1 DEF IInv, Places
  <2>3. \A o \in Ovs : issued'[o] # 0 =>
          \/ \E c \in list', i \in Nat : Waits(o, c, i)'
          \/ \E u \in Threads : Working(u, o)'
    <3> SUFFICES ASSUME NEW o \in Ovs, issued'[o] # 0
                 PROVE  \/ \E c \in list', i \in Nat : Waits(o, c, i)'
                        \/ \E u \in Threads : Working(u, o)'
      OBVIOUS
    <3>1. issued[o] # 0 /\ issued[o] # h
      BY <1>6
    <3>2. CASE \E u \in Threads : Working(u, o)
      BY <1>14, <3>2
    <3>3. ASSUME NEW c \in list, NEW i \in Nat, Waits(o, c, i)
          PROVE  c \in list' /\ Waits(o, c, i)'
      <4>1. issued[o] = ctx[c].h
        BY <3>3 DEF IInv, Places
      <4> QED BY <1>2, <1>4, <1>13, <3>1, <3>3, <4>1
    <3> QED BY <3>1, <3>2, <3>3 DEF IInv, Places
  <2> QED BY <1>4, <1>13, <1>14, <2>2, <2>3 DEF IInv, Places
<1>16. Sockets'
  <2>1. Held' = Held
    <3>1. \A u \in Threads : HoldsRequest(u)' <=> HoldsRequest(u)
      BY <1>1, <1>5, <1>6 DEF HoldsRequest
    <3>2. \A u \in Threads : HoldsRequest(u) => arg'[u] = arg[u]
      BY <1>1, <1>5 DEF HoldsRequest
    <3> QED BY <3>1, <3>2 DEF Held
  <2>2. \A c \in list : Queue(c)' = Queue(c)
    BY <1>7 DEF Queue
  <2>3. \A r : r \in Reqs' <=> r \in Held \/ \E c \in list \ {b} : r \in Queue(c)
    BY <1>4, <2>1, <2>2 DEF Reqs
  <2>4. \A r : r \in Reqs <=> r \in Held \/ \E c \in list : r \in Queue(c)
    BY DEF Reqs
  <2>5. \A r \in Queue(b) : r \notin Reqs'
    <3> SUFFICES ASSUME NEW r \in Queue(b), r \in Reqs' PROVE FALSE
      OBVIOUS
    <3>1. PICK i \in 1..Len(ctx[b].pending) : r = ctx[b].pending[i]
      BY DEF Queue
    <3>2. i \in Nat /\ r \in Requests /\ r.ov \in Ovs
      BY <1>2, <3>1, RequestTypes DEF Requests
    <3>3. Waits(r.ov, b, i)
      BY <1>2, <3>1 DEF Waits
    <3>4. CASE r \in Held
      <4>1. PICK u \in Threads : HoldsRequest(u) /\ r = arg[u].req
        BY <3>4 DEF Held
      <4>2. Working(u, r.ov)
        BY <4>1, RequestTypes
      <4> QED BY <1>2, <3>2, <3>3, <4>2 DEF IInv, Places
    <3>5. ASSUME NEW c \in list \ {b}, r \in Queue(c) PROVE FALSE
      <4>1. PICK j \in 1..Len(ctx[c].pending) : r = ctx[c].pending[j]
        BY <3>5 DEF Queue
      <4>2. j \in Nat /\ Waits(r.ov, c, j)
        BY <4>1, RequestTypes DEF Waits
      <4> QED BY <1>2, <3>2, <3>3, <4>2 DEF IInv, Places
    <3> QED BY <2>3, <3>4, <3>5
  <2>6. \A p \in Ports : Sock(p) <=> \E r \in Queue(b) : r.sock = p
    BY DEF Queue
  <2>7. \A p \in Ports : p # NONE
    BY DeviceAssumption
  <2>8. orphans' \subseteq open'
    BY <1>2, <1>4, <1>7, <2>4, <2>6, <2>7 DEF IInv, Sockets
  <2>9. ASSUME NEW r \in Reqs', r.sock # NONE
        PROVE  r.sock \in open' \ orphans'
    <3>1. r \in Reqs /\ r \notin Queue(b)
      BY <2>3, <2>4, <2>5
    <3>2. r.sock \in open \ orphans /\ r.sock \in Ports
      BY <3>1, <2>9, <1>1 DEF IInv, Sockets, Types, LoopbackTypeOK
    <3>3. ~Sock(r.sock)
      BY <1>2, <2>4, <2>6, <2>9, <3>1, <3>2 DEF IInv, Sockets
    <3> QED BY <1>4, <1>7, <3>2, <3>3
  <2>10. \A r, s \in Reqs' : r.sock = s.sock /\ r.sock # NONE => r = s
    BY <2>3, <2>4 DEF IInv, Sockets
  <2>11. ASSUME NEW p \in open' \ orphans'
         PROVE  \E r \in Reqs' : r.sock = p
    <3>1. p \in open \ orphans /\ p \in Ports /\ ~Sock(p)
      BY <1>1, <1>4, <1>7 DEF Types, LoopbackTypeOK
    <3>2. PICK r \in Reqs : r.sock = p
      BY <3>1 DEF IInv, Sockets
    <3>3. r \notin Queue(b)
      BY <2>6, <3>1, <3>2
    <3> QED BY <2>3, <2>4, <3>2, <3>3
  <2> QED BY <2>8, <2>9, <2>10, <2>11 DEF Sockets
<1>17. Internals'
  BY <1>1, <1>5, <1>6, <1>7 DEF IInv, Internals
<1> QED BY <1>9, <1>10, <1>11, <1>12, <1>15, <1>16, <1>17 DEF IInv

LEMMA ReadFileKeeps ==
  ASSUME IInv, QuietClose, NEW t \in Threads, NEW h \in Handles, NEW o \in Ovs,
         ReadFile(t, h, o), up' = up
  PROVE  IInv'
<1> USE DEF ReadFile
<1>1. Types /\ h \in 0..MaxHandles /\ h # 0 /\ o # NONE
  BY DeviceAssumption DEF IInv, Handles
<1>2. PICK b \in list :
        /\ ctx[b].h = h /\ pc[t] = "idle"
        /\ pc' = [pc EXCEPT ![t] = "read_socket"]
        /\ arg' = [arg EXCEPT ![t] = [b |-> b, h |-> h, ov |-> o,
                                      mac |-> NONE, req |-> NoRequest]]
  BY DEF Enter, Goto
<1>3. Types'
  <2>1. pc' \in [Threads -> Steps] /\ arg' \in [Threads -> Args]
    BY <1>1, EnterTypes DEF Steps
  <2>2. issued' \in [Ovs -> 0..MaxHandles]
    BY <1>1 DEF Types
  <2> QED BY <1>1, <2>1, <2>2, PureTypes DEF Types, Args
<1>4. /\ \A u \in Threads \ {t} : pc'[u] = pc[u] /\ arg'[u] = arg[u]
      /\ pc'[t] = "read_socket" /\ arg'[t].ov = o /\ arg'[t].h = h
      /\ arg'[t].b = b
      /\ issued'[o] = h /\ \A x \in Ovs \ {o} : issued'[x] = issued[x]
  BY <1>1, <1>2 DEF Types
<1>5. Contexts'
  BY DEF IInv, Contexts
<1>6. Locals'
  <2>1. Sound(t)'
    BY <1>2, <1>4 DEF Sound, ReadSteps, HoldsRequest
  <2>2. \A u \in Threads \ {t} : pc[u] # "idle" =>
          arg[u].b \in list /\ ctx[arg[u].b].h = arg[u].h
    BY DEF IInv, Locals, Sound
  <2>3. \A u \in Threads \ {t} : arg[u].ov # NONE =>
          issued'[arg[u].ov] = issued[arg[u].ov]
    BY <1>1, <1>4 DEF Types, Unused
  <2> QED BY <1>4, <2>1, <2>2, <2>3, OthersSound
<1>7. Apart'
  BY <1>2, <1>4 DEF IInv, Apart, MayUse, Unused
<1>8. \A x \in Ovs, c \in list, i \in Nat :
        Waits(x, c, i)' <=> Waits(x, c, i) /\ x # o
  <2>1. \A c \in list, i \in Nat : ~Waits(o, c, i)
    BY HandleNotZero DEF IInv, Places
  <2> QED BY <2>1 DEF Waits
<1>9. \A u \in Threads, x \in Ovs :
        Working(u, x)' <=> Working(u, x) \/ (u = t /\ x = o)
  <2>1. \A x \in Ovs : ~Working(t, x)
    BY <1>2 DEF Working, HoldsRequest
  <2> QED BY <1>4, <2>1 DEF Working, HoldsRequest
<1>10. Places'
  BY <1>4, <1>8, <1>9 DEF IInv, Places
<1>11. Sockets'
  <2>1. Held' = Held
    <3>1. \A u \in Threads : HoldsRequest(u)' <=> HoldsRequest(u)
      BY <1>2, <1>4 DEF HoldsRequest
    <3>2. \A u \in Threads : HoldsRequest(u) => arg'[u] = arg[u]
      BY <1>2, <1>4 DEF HoldsRequest
    <3> QED BY <3>1, <3>2 DEF Held
  <2>2. Reqs' = Reqs
    BY <2>1 DEF Reqs, Queue
  <2> QED BY <2>2 DEF IInv, Sockets
<1>12. Internals'
  BY <1>2, <1>4 DEF IInv, Internals
<1> QED BY <1>3, <1>5, <1>6, <1>7, <1>10, <1>11, <1>12 DEF IInv

LEMMA ReadSocketKeeps ==
  ASSUME IInv, NEW t \in Threads, ReadSocket(t), up' = up
  PROVE  IInv'
<1> USE DEF ReadSocket
<1>1. Types /\ Sound(t) /\ pc[t] = "read_socket"
      /\ pc' = [pc EXCEPT ![t] = "read_enqueue"]
  BY DEF IInv, Locals, Goto
<1>2. arg[t].ov \in Ovs
  BY <1>1 DEF Sound, ReadSteps
<1>3. PICK p \in (Ports \ open) \cup {NONE} :
        /\ arg' = [arg EXCEPT ![t].req = [ov |-> arg[t].ov, sock |-> p]]
        /\ open' = open \cup ({p} \ {NONE})
        /\ inq' = inq \/ (p \in Ports /\
             Send([from |-> p, data |-> [type |-> "register"]]))
  BY DeviceAssumption
<1> DEFINE r == [ov |-> arg[t].ov, sock |-> p]
<1>4. r \in Requests /\ r.ov = arg[t].ov /\ r.sock = p
  BY <1>2, <1>3 DEF Requests
<1>5. /\ \A u \in Threads \ {t} : pc'[u] = pc[u] /\ arg'[u] = arg[u]
      /\ pc'[t] = "read_enqueue" /\ arg'[t].req = r
      /\ arg'[t].ov = arg[t].ov /\ arg'[t].h = arg[t].h /\ arg'[t].b = arg[t].b
  BY <1>1, <1>3 DEF Types
<1> HIDE DEF r
<1>6. list' = list /\ ctx' = ctx /\ issued' = issued /\ orphans' = orphans
      /\ internal' = internal /\ created' = created
  OBVIOUS
<1>7. Types'
  <2>1. arg' \in [Threads -> Args]
    <3>1. [arg[t] EXCEPT !.req = r] \in Args
      BY <1>1, <1>4 DEF Types, Args
    <3>2. arg' = [arg EXCEPT ![t] = [arg[t] EXCEPT !.req = r]]
      BY <1>3 DEF r
    <3> QED BY <1>1, <3>1, <3>2 DEF Types, Args
  <2>2. inq' \in Seq(Datagrams) /\ Len(inq') <= InLimit /\ (up' \/ inq' = <<>>)
    <3>1. CASE inq' = inq
      BY <1>1, <3>1 DEF Types, LoopbackTypeOK
    <3>2. CASE p \in Ports /\ Send([from |-> p, data |-> [type |-> "register"]])
      <4>1. [from |-> p, data |-> [type |-> "register"]] \in Datagrams
        BY <3>2 DEF Datagrams, Payloads
      <4> QED BY <1>1, <3>2, <4>1, SendType DEF Types
    <3> QED BY <1>3, <3>1, <3>2
  <2>3. LoopbackTypeOK'
    BY <1>1, <1>3, <2>2 DEF Types, LoopbackTypeOK
  <2> QED BY <1>1, <2>1, <2>3 DEF Types, Args, Steps
<1>8. Contexts'
  BY <1>6 DEF IInv, Contexts
<1>9. Locals'
  <2>1. Sound(t)'
    BY <1>1, <1>2, <1>4, <1>5, <1>6 DEF Sound, ReadSteps, HoldsRequest
  <2>2. \A u \in Threads \ {t} : pc[u] # "idle" =>
          arg[u].b \in list /\ ctx[arg[u].b].h = arg[u].h
    BY DEF IInv, Locals, Sound
  <2> QED BY <1>5, <1>6, <2>1, <2>2, OthersSound
<1>10. Apart'
  BY <1>1, <1>5 DEF IInv, Apart
<1>11. \A u \in Threads, o \in Ovs : Working(u, o)' <=> Working(u, o)
  BY <1>1, <1>5 DEF Working, HoldsRequest
<1>12. Places'
  BY <1>6, <1>11 DEF IInv, Places, Waits
<1>13. Sockets'
  <2>1. Held' = Held \cup {r}
    <3>1. \A u \in Threads \ {t} : HoldsRequest(u)' <=> HoldsRequest(u)
      BY <1>5 DEF HoldsRequest
    <3>2. ~HoldsRequest(t) /\ HoldsRequest(t)'
      BY <1>1, <1>5 DEF HoldsRequest
    <3> QED BY <1>5, <3>1, <3>2 DEF Held
  <2>2. Reqs' = Reqs \cup {r}
    BY <1>6, <2>1 DEF Reqs, Queue
  <2>3. p # NONE => p \notin orphans /\ \A s \in Reqs : s.sock # p
    BY <1>3 DEF IInv, Sockets
  <2>4. orphans' \subseteq open'
    BY <1>3, <1>6 DEF IInv, Sockets
  <2>5. \A s \in Reqs' : s.sock # NONE => s.sock \in open' \ orphans'
    BY <1>3, <1>4, <1>6, <2>2, <2>3 DEF IInv, Sockets
  <2>6. \A s, x \in Reqs' : s.sock = x.sock /\ s.sock # NONE => s = x
    BY <1>4, <2>2, <2>3 DEF IInv, Sockets
  <2>7. \A q \in open' \ orphans' : \E s \in Reqs' : s.sock = q
    BY <1>3, <1>4, <1>6, <2>2 DEF IInv, Sockets
  <2> QED BY <2>4, <2>5, <2>6, <2>7 DEF Sockets
<1>14. Internals'
  BY <1>1, <1>5, <1>6 DEF IInv, Internals
<1> QED BY <1>7, <1>8, <1>9, <1>10, <1>12, <1>13, <1>14 DEF IInv

\* A thread puts the request it holds at the end of its handle's queue.
LEMMA EnqueueStep ==
  ASSUME IInv, NEW t \in Threads, HoldsRequest(t), Append2Pending(t),
         pc'[t] \in {"idle", "read_pending"},
         \A u \in Threads \ {t} : pc'[u] = pc[u] /\ arg'[u] = arg[u],
         UNCHANGED <<created, list, issued, orphans, open>>
  PROVE  /\ ctx' \in [Blocks -> Contents] /\ Contexts' /\ Places' /\ Sockets'
         /\ \A c \in list : ctx'[c].h = ctx[c].h
<1>1. Types /\ Sound(t)
  BY DEF IInv, Locals
<1>b. PICK b, r : b = arg[t].b /\ r = arg[t].req
  OBVIOUS
<1> DEFINE n == Len(ctx[b].pending) + 1
<1>2. /\ b \in list /\ b \in Blocks /\ ctx[b].pending \in Seq(Requests)
      /\ r \in Requests /\ r.ov = arg[t].ov /\ r.ov \in Ovs
      /\ ctx[b].h = issued[r.ov]
  BY <1>1, <1>b DEF Sound, HoldsRequest, Types, ReadSteps
<1>3. ctx' \in [Blocks -> Contents]
  BY <1>1, <1>2, <1>b, AppendTypes
<1>4. /\ ctx'[b].pending = Append(ctx[b].pending, r) /\ ctx'[b].h = ctx[b].h
      /\ \A c \in Blocks \ {b} : ctx'[c] = ctx[c]
  BY <1>1, <1>2, <1>b DEF Append2Pending, Types
<1>5. \A c \in list : c \in Blocks /\ ctx'[c].h = ctx[c].h
  BY <1>1, <1>4 DEF Types
<1>6. Contexts'
  BY <1>5 DEF IInv, Contexts
<1>7. n \in Nat /\ n \notin 1..Len(ctx[b].pending)
  BY <1>2
<1>8. \A c \in list, o \in Ovs, i \in Nat :
        Waits(o, c, i)' <=> Waits(o, c, i) \/ (c = b /\ i = n /\ o = r.ov)
  <2>1. \A c \in list \ {b}, o \in Ovs, i \in Nat : Waits(o, c, i)' <=> Waits(o, c, i)
    BY <1>4, <1>5 DEF Waits
  <2>2. /\ Len(ctx'[b].pending) = n /\ ctx'[b].pending[n] = r
        /\ \A i \in 1..Len(ctx[b].pending) : ctx'[b].pending[i] = ctx[b].pending[i]
    BY <1>2, <1>4
  <2>3. 1..n = (1..Len(ctx[b].pending)) \cup {n}
    BY <1>2
  <2> HIDE DEF n
  <2>4. \A o \in Ovs, i \in Nat : Waits(o, b, i)' <=> Waits(o, b, i) \/ (i = n /\ o = r.ov)
    <3>1. \A o, i : Waits(o, b, i)' <=> i \in 1..n /\ ctx'[b].pending[i].ov = o
      BY <1>2, <2>2 DEF Waits
    <3>2. \A o, i : Waits(o, b, i)
            <=> i \in 1..Len(ctx[b].pending) /\ ctx[b].pending[i].ov = o
      BY <1>2 DEF Waits
    <3> QED BY <1>7, <2>2, <2>3, <3>1, <3>2
  <2> QED BY <2>1, <2>4
<1>9. \A u \in Threads, o \in Ovs : Working(u, o)' <=> Working(u, o) /\ u # t
  <2>1. \A o : ~Working(t, o)'
    BY DEF Working, HoldsRequest
  <2> QED BY <2>1 DEF Working, HoldsRequest
<1>10. Working(t, r.ov) /\ \A o \in Ovs : Working(t, o) => o = r.ov
  BY <1>2 DEF Working
<1>11. \A u \in Threads \ {t} : ~Working(u, r.ov)
  BY <1>2, DeviceAssumption DEF Working, IInv, Apart
<1>12. \A c \in list, i \in Nat : ~Waits(r.ov, c, i)
  BY <1>2, <1>10 DEF IInv, Places
<1>13. Places'
  <2>1. \A o \in Ovs, c, d \in list, i, j \in Nat :
          Waits(o, c, i)' /\ Waits(o, d, j)' => c = d /\ i = j
    BY <1>8, <1>12 DEF IInv, Places
  <2>2. \A o \in Ovs, c \in list, i \in Nat : Waits(o, c, i)' =>
          issued[o] = ctx'[c].h /\ \A u \in Threads : ~Working(u, o)'
    BY <1>2, <1>5, <1>8, <1>9, <1>11 DEF IInv, Places
  <2>3. \A o \in Ovs : issued[o] # 0 =>
          \/ \E c \in list, i \in Nat : Waits(o, c, i)'
          \/ \E u \in Threads : Working(u, o)'
    BY <1>2, <1>7, <1>8, <1>9, <1>10 DEF IInv, Places
  <2> QED BY <2>1, <2>2, <2>3 DEF Places
<1>14. Sockets'
  <2>1. \A s : s \in Held <=> s \in Held' \/ s = r
    <3>1. Held = Held' \cup {r}
      <4>1. \A u \in Threads : HoldsRequest(u)' <=> HoldsRequest(u) /\ u # t
        BY DEF HoldsRequest
      <4> QED BY <1>b, <4>1 DEF Held
    <3> QED BY <3>1
  <2>2. Queue(b)' = Queue(b) \cup {r}
    <3>1. Queue(b)' = {Append(ctx[b].pending, r)[i] :
                         i \in 1..Len(Append(ctx[b].pending, r))}
      BY <1>4 DEF Queue
    <3>2. {Append(ctx[b].pending, r)[i] :
             i \in 1..Len(Append(ctx[b].pending, r))}
            = {ctx[b].pending[i] : i \in 1..Len(ctx[b].pending)} \cup {r}
      BY <1>2, AppendElements
    <3> QED BY <3>1, <3>2 DEF Queue
  <2>3. \A c \in list \ {b} : Queue(c)' = Queue(c)
    BY <1>4, <1>5 DEF Queue
  <2>4. \A s : s \in Reqs <=> s \in Held \/ \E c \in list : s \in Queue(c)
    BY DEF Reqs
  <2>5. \A s : s \in Reqs' <=> s \in Held' \/ \E c \in list : s \in Queue(c)'
    BY DEF Reqs
  <2>6. \A s : s \in Reqs' <=> s \in Reqs
    BY <1>2, <2>1, <2>2, <2>3, <2>4, <2>5
  <2>7. Reqs' = Reqs
    BY <2>6
  <2> QED BY <2>7 DEF IInv, Sockets
<1> QED BY <1>3, <1>5, <1>6, <1>13, <1>14

LEMMA ReadEnqueueKeeps ==
  ASSUME IInv, NEW t \in Threads, ReadEnqueue(t), up' = up
  PROVE  IInv'
<1> USE DEF ReadEnqueue
<1>1. Types /\ Sound(t) /\ pc[t] = "read_enqueue"
      /\ pc' = [pc EXCEPT ![t] = "read_pending"]
  BY DEF IInv, Locals, Goto
<1>2. HoldsRequest(t)
  BY <1>1 DEF HoldsRequest
<1>3. /\ \A u \in Threads \ {t} : pc'[u] = pc[u] /\ arg'[u] = arg[u]
      /\ pc'[t] = "read_pending"
      /\ arg'[t].ov = arg[t].ov /\ arg'[t].h = arg[t].h /\ arg'[t].b = arg[t].b
  BY <1>1 DEF Types
<1>4. /\ ctx' \in [Blocks -> Contents] /\ Contexts' /\ Places' /\ Sockets'
      /\ \A c \in list : ctx'[c].h = ctx[c].h
  BY <1>2, <1>3, EnqueueStep
<1>5. Types'
  <2>1. arg' \in [Threads -> Args]
    <3>1. [arg[t] EXCEPT !.req = NoRequest] \in Args
      BY <1>1 DEF Types, Args
    <3>2. arg' = [arg EXCEPT ![t] = [arg[t] EXCEPT !.req = NoRequest]]
      OBVIOUS
    <3> QED BY <1>1, <3>1, <3>2 DEF Types, Args
  <2> QED BY <1>1, <1>4, <2>1, PureTypes DEF Types, Args, Contents, Steps
<1>6. Locals'
  <2>1. Sound(t)'
    BY <1>1, <1>3, <1>4 DEF Sound, ReadSteps, HoldsRequest
  <2>2. \A u \in Threads \ {t} : pc[u] # "idle" =>
          arg[u].b \in list /\ ctx'[arg[u].b].h = arg[u].h
    BY <1>4 DEF IInv, Locals, Sound
  <2> QED BY <1>3, <2>1, <2>2, OthersSound
<1>7. Apart'
  BY <1>1, <1>3 DEF IInv, Apart
<1>8. Internals'
  BY <1>1, <1>3 DEF IInv, Internals
<1> QED BY <1>4, <1>5, <1>6, <1>7, <1>8 DEF IInv

LEMMA ResultReinsertKeeps ==
  ASSUME IInv, NEW t \in Threads, ResultReinsert(t), up' = up
  PROVE  IInv'
<1> USE DEF ResultReinsert
<1>1. Types /\ Sound(t) /\ pc[t] = "result_reinsert"
      /\ pc' = [pc EXCEPT ![t] = "idle"] /\ arg' = [arg EXCEPT ![t] = Idle]
  BY DEF IInv, Locals, Return, Goto
<1>2. HoldsRequest(t)
  BY <1>1 DEF HoldsRequest
<1>3. /\ \A u \in Threads \ {t} : pc'[u] = pc[u] /\ arg'[u] = arg[u]
      /\ pc'[t] = "idle" /\ arg'[t] = Idle
  BY <1>1 DEF Types
<1>4. /\ ctx' \in [Blocks -> Contents] /\ Contexts' /\ Places' /\ Sockets'
      /\ \A c \in list : ctx'[c].h = ctx[c].h
  BY <1>2, <1>3, EnqueueStep
<1>5. Types'
  <2>1. pc' \in [Threads -> Steps] /\ arg' \in [Threads -> Args]
    BY <1>1, ReturnTypes
  <2> QED BY <1>1, <1>4, <2>1, PureTypes DEF Types, Args, Contents
<1>6. Locals'
  <2>1. Sound(t)'
    BY <1>3 DEF Sound, ReadSteps, HoldsRequest, Idle
  <2>2. \A u \in Threads \ {t} : pc[u] # "idle" =>
          arg[u].b \in list /\ ctx'[arg[u].b].h = arg[u].h
    BY <1>4 DEF IInv, Locals, Sound
  <2> QED BY <1>3, <2>1, <2>2, OthersSound
<1>7. Apart'
  BY <1>3, HandleNotZero DEF IInv, Apart, Idle, Locals, Sound
<1>8. Internals'
  BY <1>1, <1>3 DEF IInv, Internals
<1> QED BY <1>4, <1>5, <1>6, <1>7, <1>8 DEF IInv

\* A request goes from its place in a queue to the thread that asked for it.
LEMMA UnlinkStep ==
  ASSUME IInv, NEW t \in Threads, pc[t] = "result_unlink",
         NEW b, b = arg[t].b, NEW i \in 1..Len(ctx[b].pending),
         ctx[b].pending[i].ov = arg[t].ov,
         ctx' = [ctx EXCEPT ![b].pending = Without(ctx[b].pending, i)],
         arg' = [arg EXCEPT ![t].req = ctx[b].pending[i]],
         pc' = [pc EXCEPT ![t] = "result_recv"],
         up' = up,
         UNCHANGED <<active, created, list, internal, issued, orphans,
                     inq, open, rx>>
  PROVE  IInv'
<1>1. Types /\ Sound(t)
  BY DEF IInv, Locals
<1>2. PICK r : r = ctx[b].pending[i]
  OBVIOUS
<1>3. PICK s : s = ctx[b].pending
  OBVIOUS
<1>4. /\ b \in list /\ b \in Blocks /\ s \in Seq(Requests) /\ i \in 1..Len(s)
      /\ r = s[i] /\ r \in Requests /\ r.ov = arg[t].ov /\ r.ov \in Ovs
      /\ i \in Nat
  BY <1>1, <1>2, <1>3 DEF Sound, Types, ReadSteps
<1>5. PICK w : w = Without(s, i)
  OBVIOUS
<1>6. w \in Seq(Requests) /\ Len(w) = Len(s) - 1
  BY <1>4, <1>5, WithoutType
<1>7. /\ ctx'[b].pending = w /\ ctx'[b].h = ctx[b].h
      /\ \A c \in Blocks \ {b} : ctx'[c] = ctx[c]
  BY <1>1, <1>3, <1>4, <1>5 DEF Types
<1>8. /\ \A u \in Threads \ {t} : pc'[u] = pc[u] /\ arg'[u] = arg[u]
      /\ pc'[t] = "result_recv" /\ arg'[t].req = r
      /\ arg'[t].ov = arg[t].ov /\ arg'[t].h = arg[t].h /\ arg'[t].b = arg[t].b
  BY <1>1, <1>2 DEF Types
<1>9. \A c \in list : c \in Blocks /\ ctx'[c].h = ctx[c].h
  BY <1>1, <1>7 DEF Types
<1>10. Types'
  <2>1. ctx' \in [Blocks -> Contents]
    <3>1. ctx' = [ctx EXCEPT ![b] = [ctx[b] EXCEPT !.pending = w]]
      BY <1>3, <1>5
    <3>2. [ctx[b] EXCEPT !.pending = w] \in Contents
      BY <1>1, <1>4, <1>6 DEF Types, Contents
    <3> QED BY <1>1, <3>1, <3>2 DEF Types, Contents
  <2>2. arg' \in [Threads -> Args]
    <3>1. arg' = [arg EXCEPT ![t] = [arg[t] EXCEPT !.req = r]]
      BY <1>2
    <3>2. [arg[t] EXCEPT !.req = r] \in Args
      BY <1>1, <1>4 DEF Types, Args
    <3> QED BY <1>1, <3>1, <3>2 DEF Types, Args
  <2> QED BY <1>1, <2>1, <2>2, PureTypes DEF Types, Args, Contents, Steps
<1>11. Contexts'
  BY <1>9 DEF IInv, Contexts
<1>12. Locals'
  <2>1. Sound(t)'
    BY <1>1, <1>4, <1>8, <1>9 DEF Sound, ReadSteps, HoldsRequest
  <2>2. \A u \in Threads \ {t} : pc[u] # "idle" =>
          arg[u].b \in list /\ ctx'[arg[u].b].h = arg[u].h
    BY <1>9 DEF IInv, Locals, Sound
  <2> QED BY <1>8, <2>1, <2>2, OthersSound
<1>13. Apart'
  BY <1>8 DEF IInv, Apart
<1>14. /\ \A c \in list \ {b}, o \in Ovs, j \in Nat :
            Waits(o, c, j)' <=> Waits(o, c, j)
       /\ \A o \in Ovs, j \in Nat : Waits(o, b, j)' <=>
            j \in 1..Len(w) /\ Waits(o, b, Was(i, j))
  <2>1. \A c \in list \ {b}, o \in Ovs, j \in Nat :
          Waits(o, c, j)' <=> Waits(o, c, j)
    BY <1>7, <1>9 DEF Waits
  <2>2. \A o, j : Waits(o, b, j)' <=> j \in 1..Len(w) /\ w[j].ov = o
    BY <1>4, <1>7 DEF Waits
  <2>3. \A o, j : Waits(o, b, j) <=> j \in 1..Len(s) /\ s[j].ov = o
    BY <1>3, <1>4 DEF Waits
  <2>4. \A j \in 1..Len(w) : w[j] = s[Was(i, j)] /\ Was(i, j) \in 1..Len(s)
    <3>1. \A j \in 1..(Len(s) - 1) :
            /\ Without(s, i)[j] = s[Was(i, j)]
            /\ Was(i, j) \in 1..Len(s)
      <4>1. s \in Seq(Requests) /\ i \in 1..Len(s)
        BY <1>4
      <4> QED BY ONLY <4>1, WithoutPlaces
    <3> QED BY <1>5, <1>6, <3>1
  <2> QED BY <2>1, <2>2, <2>3, <2>4
<1>15. /\ \A j \in 1..Len(w) : Was(i, j) \in Nat /\ Was(i, j) # i
       /\ \A j, k \in 1..Len(w) : Was(i, j) = Was(i, k) => j = k
       /\ \A k \in 1..Len(s) : k # i =>
            \E j \in 1..Len(w) : j \in Nat /\ Was(i, j) = k
  <2>1. \A j : (j \in 1..Len(w) \/ j \in 1..Len(s)) => j \in Nat
    BY <1>4, <1>6
  <2>2. /\ \A j \in 1..Len(w) : Was(i, j) \in 1..Len(s) /\ Was(i, j) # i
        /\ \A j, k \in 1..Len(w) : Was(i, j) = Was(i, k) => j = k
        /\ \A k \in 1..Len(s) : k # i => \E j \in 1..Len(w) : Was(i, j) = k
    BY <1>4, <1>6, WithoutPlaces
  <2> QED BY <2>1, <2>2
<1>16. Waits(r.ov, b, i)
  BY <1>2, <1>3, <1>4 DEF Waits
<1>17. /\ \A c \in list, j \in Nat : Waits(r.ov, c, j) => c = b /\ j = i
       /\ \A u \in Threads : ~Working(u, r.ov)
       /\ issued[r.ov] = ctx[b].h
  BY <1>4, <1>16 DEF IInv, Places
<1>18. \A c \in list, j \in Nat : ~Waits(r.ov, c, j)'
  BY <1>4, <1>14, <1>15, <1>17
<1>19. \A u \in Threads, o \in Ovs :
         Working(u, o)' <=> Working(u, o) \/ (u = t /\ o = r.ov)
  <2>1. \A o : ~Working(t, o)
    BY DEF Working, HoldsRequest
  <2>2. \A o : Working(t, o)' <=> o = r.ov
    BY <1>4, <1>8 DEF Working, HoldsRequest
  <2> QED BY <1>8, <2>1, <2>2 DEF Working, HoldsRequest
<1>20. Places'
  <2>1. \A o \in Ovs, c \in list, j \in Nat : Waits(o, c, j)' =>
          \E k \in Nat : Waits(o, c, k) /\ (c = b => k = Was(i, j))
    BY <1>4, <1>14, <1>15
  <2>2. \A o \in Ovs, c, d \in list, j, k \in Nat :
          Waits(o, c, j)' /\ Waits(o, d, k)' => c = d /\ j = k
    <3> SUFFICES ASSUME NEW o \in Ovs, NEW c \in list, NEW d \in list,
                        NEW j \in Nat, NEW k \in Nat,
                        Waits(o, c, j)', Waits(o, d, k)'
                 PROVE  c = d /\ j = k
      OBVIOUS
    <3>1. c = d
      BY <2>1 DEF IInv, Places
    <3>2. CASE c = b
      BY <1>4, <1>14, <1>15, <3>1, <3>2 DEF IInv, Places
    <3>3. CASE c # b
      BY <1>14, <3>1, <3>3 DEF IInv, Places
    <3> QED BY <3>1, <3>2, <3>3
  <2>3. \A o \in Ovs, c \in list, j \in Nat : Waits(o, c, j)' =>
          issued[o] = ctx'[c].h /\ \A u \in Threads : ~Working(u, o)'
    BY <1>9, <1>18, <1>19, <2>1 DEF IInv, Places
  <2>4. ASSUME NEW o \in Ovs, issued[o] # 0
        PROVE  \/ \E c \in list, j \in Nat : Waits(o, c, j)'
               \/ \E u \in Threads : Working(u, o)'
    <3>1. CASE \E u \in Threads : Working(u, o)
      BY <1>19, <3>1
    <3>2. CASE o = r.ov
      BY <1>19, <3>2
    <3>3. ASSUME NEW c \in list \ {b}, NEW j \in Nat, Waits(o, c, j)
          PROVE  Waits(o, c, j)'
      BY <1>14, <3>3
    <3>4. ASSUME NEW j \in Nat, Waits(o, b, j), o # r.ov
          PROVE  \E k \in Nat : Waits(o, b, k)'
      <4>1. j \in 1..Len(s) /\ j # i
        BY <1>3, <1>4, <3>4 DEF Waits
      <4> QED BY <1>14, <1>15, <3>4, <4>1
    <3> QED BY <1>4, <2>4, <3>1, <3>2, <3>3, <3>4 DEF IInv, Places
  <2> QED BY <2>2, <2>3, <2>4 DEF Places
<1>21. Sockets'
  <2>1. Held' = Held \cup {r}
    <3>1. \A u \in Threads \ {t} : HoldsRequest(u)' <=> HoldsRequest(u)
      BY <1>8 DEF HoldsRequest
    <3>2. ~HoldsRequest(t) /\ HoldsRequest(t)'
      BY <1>8 DEF HoldsRequest
    <3> QED BY <1>8, <3>1, <3>2 DEF Held
  <2>2. Queue(b) = Queue(b)' \cup {r}
    <3>1. {s[j] : j \in 1..Len(s)} = {w[j] : j \in 1..Len(w)} \cup {r}
      <4>1. {s[j] : j \in 1..Len(s)}
              = {Without(s, i)[j] : j \in 1..Len(Without(s, i))} \cup {s[i]}
        BY <1>4, WithoutElements
      <4> QED BY <1>4, <1>5, <4>1
    <3>2. Queue(b) = {s[j] : j \in 1..Len(s)}
      BY <1>3 DEF Queue
    <3>3. Queue(b)' = {w[j] : j \in 1..Len(w)}
      BY <1>7 DEF Queue
    <3> QED BY <3>1, <3>2, <3>3
  <2>3. \A c \in list \ {b} : Queue(c)' = Queue(c)
    BY <1>7, <1>9 DEF Queue
  <2>4. \A x : x \in Reqs <=> x \in Held \/ \E c \in list : x \in Queue(c)
    BY DEF Reqs
  <2>5. \A x : x \in Reqs' <=> x \in Held' \/ \E c \in list : x \in Queue(c)'
    BY DEF Reqs
  <2>6. \A x : x \in Reqs' <=> x \in Reqs
    BY <1>4, <2>1, <2>2, <2>3, <2>4, <2>5
  <2>7. Reqs' = Reqs
    BY <2>6
  <2> QED BY <2>7 DEF IInv, Sockets
<1>22. Internals'
  BY <1>8 DEF IInv, Internals
<1> QED BY <1>10, <1>11, <1>12, <1>13, <1>20, <1>21, <1>22 DEF IInv

LEMMA ResultUnlinkKeeps ==
  ASSUME IInv, NEW t \in Threads, ResultUnlink(t), up' = up
  PROVE  IInv'
<1>1. pc[t] = "result_unlink" /\ Types
  BY DEF ResultUnlink, IInv
<1> DEFINE b == arg[t].b
           s == ctx[b].pending
<1>2. ASSUME NEW i \in 1..Len(s), s[i].ov = arg[t].ov,
             Goto(t, "result_unlink", "result_recv"),
             ctx' = [ctx EXCEPT ![b].pending = Without(s, i)],
             arg' = [arg EXCEPT ![t].req = s[i]]
      PROVE  IInv'
  <2>1. pc' = [pc EXCEPT ![t] = "result_recv"]
    BY <1>2 DEF Goto
  <2> QED BY <1>1, <1>2, <2>1, UnlinkStep DEF ResultUnlink
<1>3. CASE Return(t, "result_unlink") /\ UNCHANGED ctx
  <2> USE <1>3 DEF ResultUnlink
  <2>1. pc' \in [Threads -> Steps] /\ arg' \in [Threads -> Args]
    BY <1>1, ReturnTypes
  <2>2. Types'
    BY <1>1, <2>1, PureTypes DEF Types, Args
  <2>3. SameReads
    BY <1>1, DeviceAssumption
       DEF SameReads, Types, HoldsRequest, Working, Return, Goto, Idle
  <2>4. Locals' /\ Apart'
    BY <2>3, GoHome
  <2>5. Internals'
    BY <1>1 DEF IInv, Internals, Types, Return, Goto
  <2> QED BY <2>2, <2>3, <2>4, <2>5, QuietStep DEF IInv
<1> QED BY <1>2, <1>3 DEF ResultUnlink

\* A read ends: its request and its socket go, and its OVERLAPPED is free.
LEMMA ResultCloseKeeps ==
  ASSUME IInv, NEW t \in Threads, ResultClose(t), up' = up
  PROVE  IInv'
<1>1. Types /\ Sound(t) /\ pc[t] = "result_close"
      /\ pc' = [pc EXCEPT ![t] = "idle"] /\ arg' = [arg EXCEPT ![t] = Idle]
  BY DEF IInv, Locals, ResultClose, Return, Goto
<1>2. PICK r, p, o : r = arg[t].req /\ p = r.sock /\ o = arg[t].ov
  OBVIOUS
<1>3. /\ r \in Requests /\ r.ov = o /\ o \in Ovs /\ o # NONE
      /\ HoldsRequest(t) /\ Working(t, o) /\ p \in Ports \cup {NONE}
  BY <1>1, <1>2, DeviceAssumption
     DEF Sound, HoldsRequest, Working, ReadSteps, Requests
<1>4. /\ open' = open \ {p} /\ rx' = [rx EXCEPT ![p] = <<>>]
      /\ issued' = [issued EXCEPT ![o] = 0]
      /\ UNCHANGED <<active, created, list, ctx, internal, orphans, inq>>
  BY <1>2 DEF ResultClose
<1>5. /\ \A u \in Threads \ {t} : pc'[u] = pc[u] /\ arg'[u] = arg[u]
      /\ pc'[t] = "idle" /\ arg'[t] = Idle
      /\ issued'[o] = 0 /\ \A x \in Ovs \ {o} : issued'[x] = issued[x]
  BY <1>1, <1>3, <1>4 DEF Types
<1>6. \A u \in Threads \ {t} : arg[u].ov # o
  BY <1>2, <1>3 DEF IInv, Apart
<1>7. Types'
  <2>1. pc' \in [Threads -> Steps] /\ arg' \in [Threads -> Args]
    BY <1>1, ReturnTypes DEF ResultClose
  <2>2. LoopbackTypeOK'
    <3>1. rx' \in [Ports -> Seq(Frames)]
      <4>1. <<>> \in Seq(Frames)
        OBVIOUS
      <4> QED BY <1>1, <1>4, <4>1 DEF Types, LoopbackTypeOK
    <3>2. \A q \in Ports : rx'[q] = IF q = p THEN <<>> ELSE rx[q]
      BY <1>1, <1>4 DEF Types, LoopbackTypeOK
    <3>3. \A q \in Ports : Len(rx'[q]) <= RxLimit /\ (q \notin open' => rx'[q] = <<>>)
      BY <1>1, <1>4, <3>2, LimitsAssumption DEF Types, LoopbackTypeOK
    <3> QED BY <1>1, <1>4, <3>1, <3>3 DEF Types, LoopbackTypeOK
  <2>3. issued' \in [Ovs -> 0..MaxHandles]
    <3>1. 0 \in 0..MaxHandles
      BY DeviceAssumption
    <3> QED BY <1>1, <1>3, <1>4, <3>1 DEF Types
  <2> QED BY <1>1, <1>4, <2>1, <2>2, <2>3 DEF Types, Args
<1>8. Contexts'
  BY <1>4 DEF IInv, Contexts
<1>9. Locals'
  <2>1. Sound(t)'
    BY <1>5 DEF Sound, ReadSteps, HoldsRequest, Idle
  <2>2. \A u \in Threads \ {t} : pc[u] # "idle" =>
          arg[u].b \in list /\ ctx[arg[u].b].h = arg[u].h
    BY DEF IInv, Locals, Sound
  <2>3. \A u \in Threads \ {t} : arg[u].ov # NONE =>
          issued'[arg[u].ov] = issued[arg[u].ov]
    BY <1>1, <1>5, <1>6 DEF Types
  <2> QED BY <1>4, <1>5, <2>1, <2>2, <2>3, OthersSound
<1>10. Apart'
  BY <1>5, HandleNotZero DEF IInv, Apart, Idle, Locals, Sound
<1>11. \A c, x, i : Waits(x, c, i)' <=> Waits(x, c, i)
  BY <1>4 DEF Waits
<1>12. \A c \in list, i \in Nat : ~Waits(o, c, i)
  BY <1>3 DEF IInv, Places
<1>13. \A u \in Threads, x \in Ovs : Working(u, x)' <=> Working(u, x) /\ x # o
  <2>1. \A x \in Ovs : ~Working(t, x)' /\ (Working(t, x) => x = o)
    BY <1>2, <1>5 DEF Working, HoldsRequest
  <2>2. \A u \in Threads \ {t} : ~Working(u, o)
    BY <1>6 DEF Working
  <2> QED BY <1>5, <2>1, <2>2 DEF Working, HoldsRequest
<1>14. Places'
  <2>1. \A x \in Ovs, c, d \in list, i, j \in Nat :
          Waits(x, c, i)' /\ Waits(x, d, j)' => c = d /\ i = j
    BY <1>11 DEF IInv, Places
  <2>2. \A x \in Ovs, c \in list, i \in Nat : Waits(x, c, i)' =>
          issued'[x] = ctx'[c].h /\ \A u \in Threads : ~Working(u, x)'
    BY <1>4, <1>5, <1>11, <1>12, <1>13 DEF IInv, Places
  <2>3. \A x \in Ovs : issued'[x] # 0 =>
          \/ \E c \in list, i \in Nat : Waits(x, c, i)'
          \/ \E u \in Threads : Working(u, x)'
    BY <1>5, <1>11, <1>13 DEF IInv, Places
  <2> QED BY <1>4, <2>1, <2>2, <2>3 DEF Places
<1>15. Sockets'
  <2>1. Held = Held' \cup {r}
    <3>1. \A u \in Threads : HoldsRequest(u)' <=> HoldsRequest(u) /\ u # t
      BY <1>5 DEF HoldsRequest
    <3> QED BY <1>2, <1>3, <1>5, <3>1 DEF Held
  <2>2. Reqs = Reqs' \cup {r}
    BY <1>4, <2>1 DEF Reqs, Queue
  <2>3. r \notin Reqs'
    <3>1. r \notin Held'
      <4> SUFFICES ASSUME r \in Held' PROVE FALSE
        OBVIOUS
      <4>1. PICK u \in Threads : HoldsRequest(u)' /\ r = arg'[u].req
        BY DEF Held
      <4>2. u # t /\ HoldsRequest(u) /\ r = arg[u].req
        BY <1>5, <4>1 DEF HoldsRequest
      <4>3. arg[u].ov = o
        BY <1>3, <4>2 DEF IInv, Locals, Sound
      <4> QED BY <1>6, <4>2, <4>3
    <3>2. ASSUME NEW c \in list, r \in Queue(c) PROVE FALSE
      <4>1. PICK i \in 1..Len(ctx[c].pending) : r = ctx[c].pending[i]
        BY <3>2 DEF Queue
      <4>2. i \in Nat /\ Waits(o, c, i)
        BY <1>3, <4>1, RequestTypes DEF Waits
      <4> QED BY <1>12, <4>2
    <3>3. \A s : s \in Reqs' <=> s \in Held' \/ \E c \in list : s \in Queue(c)
      BY <1>4 DEF Reqs, Queue
    <3> QED BY <3>1, <3>2, <3>3
  <2>4. \A s \in Reqs' : s.sock # NONE => s.sock # p
    BY <2>2, <2>3, <1>2 DEF IInv, Sockets
  <2>5. p # NONE => p \in open \ orphans
    BY <1>2, <2>2 DEF IInv, Sockets
  <2>6. NONE \notin open
    BY <1>1, DeviceAssumption DEF Types, LoopbackTypeOK
  <2>7. orphans' \subseteq open'
    BY <1>4, <2>5, <2>6 DEF IInv, Sockets
  <2>8. \A s \in Reqs' : s.sock # NONE => s.sock \in open' \ orphans'
    BY <1>4, <2>2, <2>4 DEF IInv, Sockets
  <2>9. \A s, x \in Reqs' : s.sock = x.sock /\ s.sock # NONE => s = x
    BY <2>2 DEF IInv, Sockets
  <2>10. \A q \in open' \ orphans' : \E s \in Reqs' : s.sock = q
    BY <1>2, <1>4, <2>2 DEF IInv, Sockets
  <2> QED BY <2>7, <2>8, <2>9, <2>10 DEF Sockets
<1>16. Internals'
  BY <1>2, <1>4, <1>5 DEF IInv, Internals
<1> QED BY <1>7, <1>8, <1>9, <1>10, <1>14, <1>15, <1>16 DEF IInv

-----------------------------------------------------------------------------
(* The whole of it                                                         *)

\* A process that has just started, whatever waits at the bridge.
Fresh ==
  /\ active = FALSE /\ created = 0 /\ list = {}
  /\ ctx = [b \in Blocks |-> NewContext(0)]
  /\ internal = [o \in Ovs |-> FALSE] /\ issued = [o \in Ovs |-> 0]
  /\ orphans = {} /\ pc = [t \in Threads |-> "idle"]
  /\ arg = [t \in Threads |-> Idle]
  /\ open = {} /\ rx = [p \in Ports |-> <<>>]
  /\ up \in BOOLEAN /\ inq \in Seq(Datagrams) /\ Len(inq) <= InLimit
  /\ up \/ inq = <<>>

LEMMA FreshIInv == Fresh => IInv
<1> SUFFICES ASSUME Fresh PROVE IInv
  OBVIOUS
<1> USE DEF Fresh
<1>1. Types
  <2>1. 0 \in 0..MaxHandles
    BY DeviceAssumption
  <2>2. ctx \in [Blocks -> Contents]
    BY <2>1 DEF NewContext, Contents, Filters
  <2>3. arg \in [Threads -> Args]
    BY <2>1 DEF Idle, Args
  <2>4. LoopbackTypeOK
    BY LimitsAssumption DEF LoopbackTypeOK
  <2> QED BY <2>1, <2>2, <2>3, <2>4 DEF Types, Contents, Args, Steps
<1>2. Contexts /\ Apart /\ Internals
  BY DEF Contexts, Apart, Internals, Idle
<1>3. \A t \in Threads : ~HoldsRequest(t)
  BY DEF HoldsRequest
<1>4. Locals
  BY <1>3 DEF Locals, Sound, Idle, ReadSteps
<1>5. Places
  BY DEF Places
<1>6. Reqs = {}
  BY <1>3 DEF Reqs, Held
<1>7. Sockets
  BY <1>6 DEF Sockets
<1> QED BY <1>1, <1>2, <1>4, <1>5, <1>7 DEF IInv

LEMMA InitIInv == Init => IInv
<1> SUFFICES ASSUME Init PROVE IInv
  OBVIOUS
<1>1. <<>> \in Seq(Datagrams) /\ Len(<<>>) <= InLimit
  BY LimitsAssumption
<1> QED BY <1>1, FreshIInv DEF Init, Fresh

LEMMA ServiceRestartKeeps ==
  ASSUME IInv, ServiceRestart, up' = up
  PROVE  IInv'
<1>1. /\ up' \in BOOLEAN /\ inq' \in Seq(Datagrams) /\ Len(inq') <= InLimit
      /\ up' \/ inq' = <<>>
  BY DEF IInv, Types, LoopbackTypeOK, ServiceRestart
<1>2. Fresh'
  BY <1>1 DEF ServiceRestart, Fresh
<1>3. Fresh' => IInv'
  BY FreshIInv, PTL
<1> QED BY <1>2, <1>3

LEMMA DeviceNextKeeps ==
  ASSUME IInv, QuietClose, ~SharedOv, DeviceNext
  PROVE  IInv'
<1> USE DEF DeviceNext
<1>1. up' = up
  OBVIOUS
<1>2. CASE InitDriver
  BY <1>1, <1>2, InitDriverKeeps
<1>3. ASSUME NEW t \in Threads, Call(t) PROVE IInv'
  <2>1. CASE CreateFileW(t)
    BY <1>1, <2>1, CreateFileWKeeps
  <2>2. ASSUME NEW h \in Handles, CloseHandle(t, h) PROVE IInv'
    BY <1>1, <2>2, CloseHandleKeeps
  <2>3. ASSUME NEW h \in Handles, NEW o \in Ovs, ReadFile(t, h, o) PROVE IInv'
    BY <1>1, <2>3, ReadFileKeeps
  <2>4. ASSUME NEW h \in Handles, NEW o \in Ovs, GetOverlappedResult(t, h, o)
        PROVE  IInv'
    BY <1>1, <2>4, GetOverlappedResultKeeps
  <2>5. ASSUME NEW h \in Handles, NEW m \in Macs, DeviceIoControl(t, h, m)
        PROVE  IInv'
    BY <1>1, <2>5, DeviceIoControlKeeps
  <2> QED BY <1>3, <2>1, <2>2, <2>3, <2>4, <2>5 DEF Call
<1>4. ASSUME NEW t \in Threads, HookStep(t) PROVE IInv'
  BY <1>1, <1>4, CloseRemoveKeeps, ReadSocketKeeps, ReadEnqueueKeeps,
     ReadPendingKeeps, ResultAlreadyKeeps, ResultStepKeeps, ResultUnlinkKeeps,
     ResultRecvKeeps, ResultReinsertKeeps, ResultCloseKeeps, IoctlCopyKeeps,
     IoctlSetKeeps DEF HookStep
<1>5. ASSUME NEW c \in Commands, TapClientControl(c) PROVE IInv'
  BY <1>1, <1>5, TapClientControlKeeps
<1>6. CASE ServiceRestart
  BY <1>1, <1>6, ServiceRestartKeeps
<1> QED BY <1>2, <1>3, <1>4, <1>5, <1>6

LEMMA NextKeeps ==
  ASSUME IInv, QuietClose, ~SharedOv, [Next]_vars
  PROVE  IInv'
<1>1. CASE DeviceNext
  BY <1>1, DeviceNextKeeps
<1>2. ASSUME NEW f \in Frames, ServiceWrites(f) PROVE IInv'
  BY <1>2, WriteFileKeeps DEF ServiceWrites
<1>3. ASSUME NEW p \in Ports, NEW f \in Frames, BridgeSends(p, f) PROVE IInv'
  BY <1>3, BridgeSendsKeeps
<1>4. CASE UNCHANGED vars
  <2>1. LoopbackTypeOK'
    BY <1>4 DEF vars, IInv, Types, LoopbackTypeOK
  <2>2. active' \in BOOLEAN /\ internal' \in [Ovs -> BOOLEAN]
        /\ \A o \in Ovs : internal'[o] = internal[o]
    BY <1>4 DEF vars, device, IInv, Types
  <2> QED BY <1>4, <2>1, <2>2, DatagramKeeps DEF vars, device
<1> QED BY <1>1, <1>2, <1>3, <1>4 DEF Next

LEMMA Invariance == ASSUME QuietClose, ~SharedOv PROVE Spec => []IInv
<1>1. IInv /\ [Next]_vars => IInv'
  BY NextKeeps
<1> QED BY InitIInv, <1>1, PTL DEF Spec

-----------------------------------------------------------------------------
(* What the runs check                                                     *)

LEMMA NoneOrOne ==
  ASSUME NEW S, \A x, y \in S : x = y
  PROVE  Cardinality(S) = IF S = {} THEN 0 ELSE 1
<1>1. CASE S = {}
  BY <1>1, FS_EmptySet
<1>2. ASSUME NEW x \in S PROVE Cardinality(S) = 1
  <2>1. S = {x}
    OBVIOUS
  <2> QED BY <2>1, FS_Singleton
<1> QED BY <1>1, <1>2

\* No more reads wait for a handle than there are OVERLAPPEDs.
LEMMA QueueBound ==
  ASSUME IInv, NEW b \in list
  PROVE  Len(ctx[b].pending) <= Cardinality(Ovs)
<1> DEFINE n == Len(ctx[b].pending)
           f == [i \in 1..n |-> ctx[b].pending[i].ov]
<1>1. n \in Nat
  BY RequestTypes
<1>2. IsFiniteSet(Ovs) /\ Cardinality(Ovs) \in Nat
  BY DeviceAssumption, FS_CardinalityType
<1>3. IsFiniteSet(1..n) /\ Cardinality(1..n) = n
  BY <1>1, FS_Interval
<1>4. f \in [1..n -> Ovs]
  BY RequestTypes DEF Requests
<1>5. \A i, j \in 1..n : f[i] = f[j] => i = j
  BY <1>1, <1>4 DEF IInv, Places, Waits
<1> HIDE DEF f
<1>6. ~(Cardinality(Ovs) < Cardinality(1..n))
  BY <1>2, <1>3, <1>4, <1>5, FS_PigeonHole
<1> QED BY <1>1, <1>2, <1>3, <1>6

LEMMA PendingPlaces ==
  ASSUME IInv
  PROVE  /\ \A x \in Pending : /\ x[1] \in list /\ x[2] \in Nat
                               /\ x = <<x[1], x[2]>>
                               /\ At(x) \in Reqs
                               /\ At(x).ov \in Ovs
                               /\ Waits(At(x).ov, x[1], x[2])
         /\ \A o, b, i : Waits(o, b, i) =>
              <<b, i>> \in Pending /\ At(<<b, i>>) = ctx[b].pending[i]
<1>1. ASSUME NEW x \in Pending
      PROVE  /\ x[1] \in list /\ x[2] \in Nat /\ x = <<x[1], x[2]>>
             /\ At(x) \in Reqs /\ At(x).ov \in Ovs
             /\ Waits(At(x).ov, x[1], x[2])
  <2>1. PICK b \in list, i \in 1..Cardinality(Ovs) :
          x = <<b, i>> /\ i <= Len(ctx[b].pending)
    BY DEF Pending
  <2>2. i \in Nat /\ i \in 1..Len(ctx[b].pending)
    BY <2>1, RequestTypes
  <2>3. At(x) = ctx[b].pending[i] /\ At(x) \in Queue(b) /\ At(x) \in Requests
    BY <2>1, <2>2, RequestTypes DEF At, Queue
  <2> QED BY <2>1, <2>2, <2>3 DEF Waits, Reqs, Requests
<1>2. ASSUME NEW o, NEW b, NEW i, Waits(o, b, i)
      PROVE  <<b, i>> \in Pending /\ At(<<b, i>>) = ctx[b].pending[i]
  <2>1. b \in list /\ i \in 1..Len(ctx[b].pending)
    BY <1>2 DEF Waits
  <2>2. Len(ctx[b].pending) \in Nat /\ Cardinality(Ovs) \in Nat
        /\ Len(ctx[b].pending) <= Cardinality(Ovs)
    BY <2>1, QueueBound, RequestTypes, DeviceAssumption, FS_CardinalityType
  <2> QED BY <2>1, <2>2 DEF Pending, At
<1> QED BY <1>1, <1>2

\* The types of the device's state, and the bound of each queue: a read
\* leaves its OVERLAPPED with the driver, so no queue of pending reads
\* (inject.c, Hook_ReadFile) outgrows the OVERLAPPEDs of the service.
THEOREM TypeCorrect == ASSUME QuietClose, ~SharedOv PROVE Spec => []TypeOK
<1>1. IInv => TypeOK
  BY QueueBound DEF IInv, Types, TypeOK
<1> QED BY Invariance, <1>1, PTL

\* A pointer given out by GetHandleContext stays good for the whole hook,
\* although nothing counts it: the block is in the list and is the handle's,
\* as long as the service closes no handle that is in use.
THEOREM PointersStayGood ==
  ASSUME QuietClose, ~SharedOv PROVE Spec => []ContextIsTheHandles
<1>1. IInv => ContextIsTheHandles
  BY DEF IInv, Locals, Sound, ContextIsTheHandles
<1> QED BY Invariance, <1>1, PTL

\* Hook_GetOverlappedResult does not take a read for completed when Internal
\* was not set yet, or was reset for another read: whoever finds it other
\* than STATUS_PENDING asks for a read that is no longer outstanding.
THEOREM CompletionsAreReal ==
  ASSUME QuietClose, ~SharedOv PROVE Spec => []NoFalseCompletion
<1>1. IInv => NoFalseCompletion
  <2> SUFFICES ASSUME IInv, NEW t \in Threads, pc[t] = "result_check",
                      issued[arg[t].ov] # 0
               PROVE  internal[arg[t].ov]
    BY DEF NoFalseCompletion
  <2>1. arg[t].ov \in Ovs /\ arg[t].ov # NONE
    BY DeviceAssumption DEF IInv, Locals, Sound, ReadSteps
  <2>2. \A u \in Threads : arg[u].ov = arg[t].ov => u = t
    BY <2>1 DEF IInv, Apart
  <2> QED BY <2>1, <2>2 DEF IInv, Internals
<1> QED BY Invariance, <1>1, PTL

LEMMA ReadIsKept == ASSUME IInv PROVE OutstandingReadIsKept
<1> SUFFICES ASSUME NEW o \in Ovs
             PROVE  LET waiting == {x \in Pending : At(x).ov = o}
                        working == {t \in Threads : arg[t].ov = o /\
                          (HoldsRequest(t) \/ pc[t] = "read_socket")}
                    IN  /\ Cardinality(waiting) + Cardinality(working)
                             = IF issued[o] = 0 THEN 0 ELSE 1
                        /\ \A x \in waiting : ctx[x[1]].h = issued[o]
  BY DEF OutstandingReadIsKept
<1> DEFINE waiting == {x \in Pending : At(x).ov = o}
           working == {t \in Threads : arg[t].ov = o /\
                         (HoldsRequest(t) \/ pc[t] = "read_socket")}
<1>1. \A t : t \in working <=> t \in Threads /\ Working(t, o)
  BY DEF Working
<1>2. \A x \in waiting : /\ x[1] \in list /\ x[2] \in Nat
                         /\ x = <<x[1], x[2]>> /\ Waits(o, x[1], x[2])
  BY PendingPlaces
<1>3. \A b, i : Waits(o, b, i) => <<b, i>> \in waiting
  BY PendingPlaces DEF Waits
<1> HIDE DEF waiting, working
<1>4. \A x, y \in waiting : x = y
  BY <1>2 DEF IInv, Places
<1>5. \A t, u \in working : t = u
  BY <1>1, DeviceAssumption DEF Working, IInv, Apart
<1>6. waiting = {} \/ working = {}
  BY <1>1, <1>2 DEF IInv, Places
<1>7. issued[o] # 0 => waiting # {} \/ working # {}
  BY <1>1, <1>3 DEF IInv, Places
<1>8. \A x \in waiting : ctx[x[1]].h = issued[o] /\ issued[o] # 0
  BY <1>2, HandleNotZero DEF IInv, Places
<1>9. \A t \in working : issued[o] # 0
  <2> SUFFICES ASSUME NEW t \in working PROVE issued[o] # 0
    OBVIOUS
  <2>1. t \in Threads /\ arg[t].ov = o /\ pc[t] \in ReadSteps
    BY <1>1 DEF Working, HoldsRequest, ReadSteps
  <2>2. issued[o] = arg[t].h /\ pc[t] # "idle"
    BY <2>1 DEF IInv, Locals, Sound, ReadSteps
  <2> QED BY <2>1, <2>2, HandleNotZero DEF IInv, Locals, Sound
<1>10. /\ Cardinality(waiting) = IF waiting = {} THEN 0 ELSE 1
       /\ Cardinality(working) = IF working = {} THEN 0 ELSE 1
  BY <1>4, <1>5, NoneOrOne
<1>11. Cardinality(waiting) + Cardinality(working)
         = IF issued[o] = 0 THEN 0 ELSE 1
  BY <1>6, <1>7, <1>8, <1>9, <1>10
<1> QED BY <1>8, <1>11 DEF waiting, working

\* A read that Hook_ReadFile answered with ERROR_IO_PENDING is in exactly one
\* place until it ends, the queue of its own handle or one hook, through
\* every unlink and every re-insertion: none is lost, none is doubled.
THEOREM ReadsAreKept ==
  ASSUME QuietClose, ~SharedOv PROVE Spec => []OutstandingReadIsKept
<1>1. IInv => OutstandingReadIsKept
  BY ReadIsKept
<1> QED BY Invariance, <1>1, PTL

LEMMA OneOwner == ASSUME IInv PROVE SocketsHaveOneOwner
<1> SUFFICES ASSUME NEW p \in Ports
             PROVE  LET waiting == {x \in Pending : At(x).sock = p}
                        working == {t \in Threads :
                                      HoldsRequest(t) /\ arg[t].req.sock = p}
                        dropped == {p} \cap orphans
                    IN  Cardinality(waiting) + Cardinality(working)
                          + Cardinality(dropped) = IF p \in open THEN 1 ELSE 0
  BY DEF SocketsHaveOneOwner
<1> DEFINE waiting == {x \in Pending : At(x).sock = p}
           working == {t \in Threads : HoldsRequest(t) /\ arg[t].req.sock = p}
           dropped == {p} \cap orphans
<1>1. p # NONE
  BY DeviceAssumption
<1>2. \A x \in waiting : /\ x[1] \in list /\ x[2] \in Nat
                         /\ x = <<x[1], x[2]>>
                         /\ At(x) \in Reqs /\ At(x).sock = p
                         /\ At(x).ov \in Ovs /\ Waits(At(x).ov, x[1], x[2])
  BY PendingPlaces
<1>3. \A t \in working : /\ t \in Threads /\ HoldsRequest(t)
                         /\ arg[t].req \in Reqs /\ arg[t].req.sock = p
                         /\ arg[t].req.ov \in Ovs
                         /\ Working(t, arg[t].req.ov)
  BY RequestTypes DEF Reqs, Held, Requests
<1>4. \A r \in Reqs : r.sock = p => waiting # {} \/ working # {}
  <2> SUFFICES ASSUME NEW r \in Reqs, r.sock = p
               PROVE  waiting # {} \/ working # {}
    OBVIOUS
  <2>1. ASSUME NEW b \in list, NEW i \in Nat,
               Waits(r.ov, b, i), r = ctx[b].pending[i]
        PROVE  waiting # {}
    <3>1. <<b, i>> \in Pending /\ At(<<b, i>>) = r
      BY <2>1, PendingPlaces
    <3> QED BY <3>1
  <2>2. ASSUME NEW t \in Threads, HoldsRequest(t), r = arg[t].req
        PROVE  working # {}
    BY <2>2
  <2> QED BY <2>1, <2>2, RequestPlace
<1> HIDE DEF waiting, working
<1>5. \A r, s \in Reqs : r.sock = p /\ s.sock = p => r = s
  BY <1>1 DEF IInv, Sockets
<1>6. \A x, y \in waiting : x = y
  <2> SUFFICES ASSUME NEW x \in waiting, NEW y \in waiting PROVE x = y
    OBVIOUS
  <2>1. At(x) = At(y)
    BY <1>2, <1>5
  <2>2. x[1] = y[1] /\ x[2] = y[2]
    BY <1>2, <2>1 DEF IInv, Places
  <2> QED BY <1>2, <2>2
<1>7. \A t, u \in working : t = u
  <2> SUFFICES ASSUME NEW t \in working, NEW u \in working PROVE t = u
    OBVIOUS
  <2>1. arg[t].req = arg[u].req
    BY <1>3, <1>5
  <2>2. arg[t].ov = arg[u].ov /\ arg[t].ov # NONE
    BY <1>3, <2>1, DeviceAssumption DEF Working
  <2> QED BY <1>3, <2>2 DEF IInv, Apart
<1>8. waiting = {} \/ working = {}
  <2> SUFFICES ASSUME NEW x \in waiting, NEW t \in working PROVE FALSE
    OBVIOUS
  <2>1. At(x) = arg[t].req
    BY <1>2, <1>3, <1>5
  <2> QED BY <1>2, <1>3, <2>1 DEF IInv, Places
<1>9. waiting # {} \/ working # {} => p \in open \ orphans
  BY <1>1, <1>2, <1>3 DEF IInv, Sockets
<1>10. p \in open \ orphans => waiting # {} \/ working # {}
  BY <1>4 DEF IInv, Sockets
<1>11. p \in orphans => p \in open
  BY DEF IInv, Sockets
<1>12. /\ Cardinality(waiting) = IF waiting = {} THEN 0 ELSE 1
       /\ Cardinality(working) = IF working = {} THEN 0 ELSE 1
       /\ Cardinality(dropped) = IF dropped = {} THEN 0 ELSE 1
  BY <1>6, <1>7, NoneOrOne
<1>13. dropped = {} <=> p \notin orphans
  OBVIOUS
<1> HIDE DEF dropped
<1>14. Cardinality(waiting) + Cardinality(working) + Cardinality(dropped)
         = IF p \in open THEN 1 ELSE 0
  BY <1>8, <1>9, <1>10, <1>11, <1>12, <1>13
<1> QED BY <1>14 DEF waiting, working, dropped

\* A socket made by Hook_ReadFile is closed by the completion of its read or
\* is still that read's, and no other's; the only ones nobody will close are
\* those of the reads that RemoveFakeHandle dropped.
THEOREM SocketsAreOwned ==
  ASSUME QuietClose, ~SharedOv PROVE Spec => []SocketsHaveOneOwner
<1>1. IInv => SocketsHaveOneOwner
  BY OneOwner
<1> QED BY Invariance, <1>1, PTL
==============================================================================
