----------------------------- MODULE PendingList -----------------------------
(***************************************************************************)
(* The singly linked list of PENDING_READ requests of one HANDLE_CONTEXT   *)
(* (inject.c): head, tail and next pointers, appended to by Hook_ReadFile  *)
(* and by the re-insertion of Hook_GetOverlappedResult, searched and       *)
(* unlinked by Hook_GetOverlappedResult.  Every access holds               *)
(* g_HandleListLock; the search is modelled one pointer at a time so that  *)
(* its loop has an invariant of its own.                                   *)
(*                                                                         *)
(* q and pos are auxiliary: the queue the pointers should represent and    *)
(* the place of the search in it.  No guard reads them.                    *)
(***************************************************************************)
EXTENDS Naturals, Sequences

CONSTANTS
  Reads,   (* PENDING_READ nodes, reused after HeapFree                    *)
  Ovs,     (* OVERLAPPED structures of the caller                          *)
  NIL      (* the null pointer                                             *)

ASSUME NilIsNoRead == NIL \notin Reads

VARIABLES
  head, tail,   (* ctx->pending_head, ctx->pending_tail                    *)
  next,         (* req->next of every node, stale in the free ones         *)
  ov,           (* req->ov                                                 *)
  held,         (* unlinked by a GetOverlappedResult that has not ended    *)
  searching,    (* a search is under way, its thread holds the lock        *)
  target,       (* the OVERLAPPED searched for                             *)
  prev, req,    (* the cursor of the search                                *)
  q, pos        (* auxiliary                                               *)

list == <<head, tail, next>>
cursor == <<searching, target, prev, req, pos>>
vars == <<list, ov, held, cursor, q>>

Null == Reads \cup {NIL}
Queued == {q[i] : i \in 1..Len(q)}
Free == Reads \ (Queued \cup held)

Init ==
  /\ head = NIL /\ tail = NIL
  /\ next = [r \in Reads |-> NIL]
  /\ ov \in [Reads -> Ovs]
  /\ held = {}
  /\ searching = FALSE
  /\ target \in Ovs
  /\ prev = NIL /\ req = NIL
  /\ q = <<>> /\ pos = 0

\* req->next = NULL and the two branches that follow, in both hooks.
LinkAtTail(r) ==
  /\ tail' = r
  /\ \/ /\ tail # NIL
        /\ next' = [next EXCEPT ![r] = NIL, ![tail] = r]
        /\ UNCHANGED head
     \/ /\ tail = NIL
        /\ head' = r
        /\ next' = [next EXCEPT ![r] = NIL]
  /\ q' = Append(q, r)

\* Faulty variant: req->ov is never assigned in the zeroed node.
ReadFileEnqueueNoOv(r, o) ==
  /\ ~searching
  /\ r \in Free
  /\ ov' = [ov EXCEPT ![r] = NIL]
  /\ LinkAtTail(r)
  /\ UNCHANGED <<held, cursor>>

ReadFileEnqueue(r, o) ==
  /\ ~searching
  /\ r \in Free
  /\ ov' = [ov EXCEPT ![r] = o]
  /\ LinkAtTail(r)
  /\ UNCHANGED <<held, cursor>>

\* A GetOverlappedResult that received no matching frame.
Reinsert(r) ==
  /\ ~searching
  /\ r \in held
  /\ held' = held \ {r}
  /\ LinkAtTail(r)
  /\ UNCHANGED <<ov, cursor>>

\* HeapFree after a completed read: the node may be handed out again.
CompleteRead(r) ==
  /\ r \in held
  /\ held' = held \ {r}
  /\ UNCHANGED <<list, ov, cursor, q>>

\* Faulty variant: the search starts at the tail.
SearchBeginAtTail(o) ==
  /\ ~searching
  /\ searching' = TRUE
  /\ target' = o
  /\ prev' = NIL
  /\ req' = tail
  /\ pos' = 1
  /\ UNCHANGED <<list, ov, held, q>>

SearchBegin(o) ==
  /\ ~searching
  /\ searching' = TRUE
  /\ target' = o
  /\ prev' = NIL
  /\ req' = head
  /\ pos' = 1
  /\ UNCHANGED <<list, ov, held, q>>

\* Faulty variant: the search may walk past a request that matches.
SearchNextPastMatch ==
  /\ searching
  /\ req # NIL
  /\ prev' = req
  /\ req' = next[req]
  /\ pos' = pos + 1
  /\ UNCHANGED <<list, ov, held, searching, target, q>>

SearchNext ==
  /\ searching
  /\ req # NIL
  /\ ov[req] # target
  /\ prev' = req
  /\ req' = next[req]
  /\ pos' = pos + 1
  /\ UNCHANGED <<list, ov, held, searching, target, q>>

\* Faulty variants: nothing is unlinked; the tail is not moved.
UnlinkNothing == UNCHANGED <<list, q>>

UnlinkStaleTail ==
  /\ head' = IF prev = NIL THEN next[req] ELSE head
  /\ next' = IF prev = NIL THEN next ELSE [next EXCEPT ![prev] = next[req]]
  /\ tail' = tail
  /\ q' = [j \in 1..(Len(q) - 1) |-> IF j < pos THEN q[j] ELSE q[j + 1]]

\* Take the request under the cursor out of the list.
Unlink ==
  /\ \/ /\ prev # NIL
        /\ next' = [next EXCEPT ![prev] = next[req]]
        /\ UNCHANGED head
     \/ /\ prev = NIL
        /\ head' = next[req]
        /\ UNCHANGED next
  /\ tail' = IF req = tail THEN prev ELSE tail
  /\ q' = [j \in 1..(Len(q) - 1) |-> IF j < pos THEN q[j] ELSE q[j + 1]]

SearchFound ==
  /\ searching
  /\ req # NIL
  /\ ov[req] = target
  /\ Unlink
  /\ held' = held \cup {req}
  /\ searching' = FALSE
  /\ UNCHANGED <<ov, target, prev, req, pos>>

\* ERROR_INVALID_PARAMETER: the search ran off the end.
SearchFailed ==
  /\ searching
  /\ req = NIL
  /\ searching' = FALSE
  /\ UNCHANGED <<list, ov, held, target, prev, req, pos, q>>

Next ==
  \/ \E r \in Reads, o \in Ovs : ReadFileEnqueue(r, o)
  \/ \E r \in Reads : Reinsert(r) \/ CompleteRead(r)
  \/ \E o \in Ovs : SearchBegin(o)
  \/ SearchNext \/ SearchFound \/ SearchFailed

Spec == Init /\ [][Next]_vars

-----------------------------------------------------------------------------
(* Properties *)

TypeOK ==
  /\ head \in Null /\ tail \in Null
  /\ next \in [Reads -> Null]
  /\ ov \in [Reads -> Ovs]
  /\ held \in SUBSET Reads
  /\ searching \in BOOLEAN
  /\ target \in Ovs
  /\ prev \in Null /\ req \in Null
  /\ q \in Seq(Reads)
  /\ pos \in Nat

\* A request is in the list at most once, and never while a
\* GetOverlappedResult call holds it.
NoRequestTwice ==
  /\ \A i, j \in 1..Len(q) : q[i] = q[j] => i = j
  /\ Queued \cap held = {}

\* The pointers represent q: the chain from pending_head visits the
\* queue's requests in order and ends at pending_tail with a null next.
ListRepresentsQueue ==
  /\ (q = <<>>) => head = NIL /\ tail = NIL
  /\ (q # <<>>) => head = q[1] /\ tail = q[Len(q)]
  /\ \A i \in 1..Len(q) :
       next[q[i]] = IF i = Len(q) THEN NIL ELSE q[i + 1]

\* The loop invariant of the search: the cursor is at pos, prev is one
\* behind, and no request before it matches.
CursorInPlace ==
  searching =>
    /\ pos \in 1..(Len(q) + 1)
    /\ req = IF pos = Len(q) + 1 THEN NIL ELSE q[pos]
    /\ prev = IF pos = 1 THEN NIL ELSE q[pos - 1]
    /\ \A j \in 1..(pos - 1) : ov[q[j]] # target

\* ERROR_INVALID_PARAMETER is returned only when no queued request has the
\* caller's OVERLAPPED.
FailsOnlyWhenAbsent ==
  searching /\ req = NIL => \A r \in Queued : ov[r] # target

\* The abstract queue the list implements.
Abstract == INSTANCE PendingQueue WITH queue <- q
AbstractSpec == Abstract!Spec
=============================================================================
