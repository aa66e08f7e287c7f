---------------------------- MODULE PendingQueue ----------------------------
(***************************************************************************)
(* What the queue of pending reads of one device handle promises to the    *)
(* hooks of inject.c that use it: requests leave it by their OVERLAPPED,   *)
(* the first match wins, and a request that could not be completed goes    *)
(* back behind the ones already waiting.  PendingList shows that the       *)
(* linked list of inject.c keeps this promise; FakeDevice uses queues.     *)
(***************************************************************************)
EXTENDS Naturals, Sequences

CONSTANTS
  Reads,   (* PENDING_READ nodes, reused after HeapFree                    *)
  Ovs      (* OVERLAPPED structures of the caller                          *)

VARIABLES
  queue,   (* the requests in the order a search visits them               *)
  held,    (* requests taken out by a GetOverlappedResult still running    *)
  ov       (* the OVERLAPPED a request was issued with                     *)

vars == <<queue, held, ov>>

Queued == {queue[i] : i \in 1..Len(queue)}

\* i is where a search for the OVERLAPPED o stops.
FirstAt(i, o) ==
  /\ i \in 1..Len(queue)
  /\ ov[queue[i]] = o
  /\ \A j \in 1..(i - 1) : ov[queue[j]] # o

Without(i) ==
  [j \in 1..(Len(queue) - 1) |-> IF j < i THEN queue[j] ELSE queue[j + 1]]

Init ==
  /\ queue = <<>>
  /\ held = {}
  /\ ov \in [Reads -> Ovs]

Enqueue(r, o) ==
  /\ r \notin Queued \cup held
  /\ queue' = Append(queue, r)
  /\ ov' = [ov EXCEPT ![r] = o]
  /\ UNCHANGED held

Take(o) ==
  /\ \E i \in 1..Len(queue) :
       /\ FirstAt(i, o)
       /\ queue' = Without(i)
       /\ held' = held \cup {queue[i]}
  /\ UNCHANGED ov

PutBack(r) ==
  /\ r \in held
  /\ held' = held \ {r}
  /\ queue' = Append(queue, r)
  /\ UNCHANGED ov

Complete(r) ==
  /\ r \in held
  /\ held' = held \ {r}
  /\ UNCHANGED <<queue, ov>>

Next ==
  \/ \E r \in Reads, o \in Ovs : Enqueue(r, o)
  \/ \E o \in Ovs : Take(o)
  \/ \E r \in Reads : PutBack(r) \/ Complete(r)

Spec == Init /\ [][Next]_vars
=============================================================================
