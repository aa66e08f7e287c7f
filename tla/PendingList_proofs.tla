------------------------- MODULE PendingList_proofs -------------------------
(***************************************************************************)
(* Proofs about PendingList for any set of requests: its pointers always   *)
(* represent the auxiliary queue q, and that queue behaves as PendingQueue *)
(* promises.                                                               *)
(***************************************************************************)
EXTENDS PendingList, TLAPS

IInv ==
  /\ TypeOK
  /\ NoRequestTwice
  /\ ListRepresentsQueue
  /\ CursorInPlace

-----------------------------------------------------------------------------
(* What appending and taking out do to a queue. *)

\* Only the empty queue has no elements.
LEMMA EmptyFacts ==
  ASSUME NEW s \in Seq(Reads)
  PROVE  Len(s) \in Nat /\ (s = <<>> <=> Len(s) = 0)
  OBVIOUS

\* Appending r to the queue: its length and the place of every element.
LEMMA AppendFacts ==
  ASSUME NEW s \in Seq(Reads), NEW r \in Reads
  PROVE  /\ Append(s, r) \in Seq(Reads)
         /\ Len(Append(s, r)) = Len(s) + 1
         /\ Append(s, r)[Len(s) + 1] = r
         /\ \A i \in 1..Len(s) : Append(s, r)[i] = s[i]
  OBVIOUS

\* Taking the element at k out of the queue, the way SearchFound does.
LEMMA WithoutFacts ==
  ASSUME NEW s \in Seq(Reads), NEW k \in 1..Len(s), NEW w,
         w = [j \in 1..(Len(s) - 1) |-> IF j < k THEN s[j] ELSE s[j + 1]]
  PROVE  /\ w \in Seq(Reads)
         /\ Len(w) = Len(s) - 1
         /\ \A j \in 1..(Len(s) - 1) :
              w[j] = IF j < k THEN s[j] ELSE s[j + 1]
<1>1. Len(s) - 1 \in Nat
  OBVIOUS
<1>2. \A j \in 1..(Len(s) - 1) : w[j] \in Reads
  OBVIOUS
<1>3. w \in Seq(Reads)
  BY <1>1, <1>2
<1>4. Len(w) = Len(s) - 1
  BY <1>1, <1>3
<1>5. QED
  BY <1>3, <1>4

-----------------------------------------------------------------------------
(* The invariant *)

\* The list is empty and nothing is searched when the context is created.
LEMMA InitIInv == Init => IInv
<1> SUFFICES ASSUME Init PROVE IInv
  OBVIOUS
<1>1. q \in Seq(Reads) /\ Len(q) = 0
  BY DEF Init
<1>2. TypeOK
  BY <1>1 DEF Init, TypeOK, Null
<1>3. NoRequestTwice /\ CursorInPlace
  BY <1>1 DEF Init, NoRequestTwice, CursorInPlace, Queued
<1>4. ListRepresentsQueue
  BY <1>1 DEF Init, ListRepresentsQueue
<1>5. QED
  BY <1>2, <1>3, <1>4 DEF IInv

\* Both hooks append the same way: r comes from outside the queue.
LEMMA LinkAtTailKeeps ==
  ASSUME IInv, NEW r \in Reads, r \notin Queued, ~searching, LinkAtTail(r),
         held' = held \ {r}, ov' \in [Reads -> Ovs], UNCHANGED cursor
  PROVE  IInv'
<1> USE DEF IInv, TypeOK, Null, Queued, LinkAtTail, cursor
<1>0. /\ q' \in Seq(Reads) /\ Len(q') = Len(q) + 1 /\ q'[Len(q) + 1] = r
      /\ \A i \in 1..Len(q) : q'[i] = q[i]
  BY AppendFacts
<1>a. (q = <<>> <=> Len(q) = 0) /\ (q' = <<>> <=> Len(q') = 0)
      /\ Len(q) \in Nat
  BY <1>0, EmptyFacts
<1>1. TypeOK'
  BY <1>0
<1>2. NoRequestTwice'
  BY <1>0 DEF NoRequestTwice
<1>3. ListRepresentsQueue'
  <2>1. CASE q = <<>>
    <3>1. tail = NIL /\ Len(q) = 0
      BY <2>1 DEF ListRepresentsQueue
    <3>2. head' = r /\ tail' = r /\ next' = [next EXCEPT ![r] = NIL]
      BY <3>1
    <3>3. Len(q') = 1 /\ q' # <<>> /\ q'[1] = r /\ next'[r] = NIL
      BY <1>0, <1>a, <3>1, <3>2
    <3>4. \A i \in 1..Len(q') : i = 1
      BY <3>3
    <3>5. QED
      BY <3>2, <3>3, <3>4 DEF ListRepresentsQueue
  <2>2. CASE q # <<>>
    <3>1. Len(q) >= 1 /\ head = q[1] /\ tail = q[Len(q)] /\ tail \in Reads
      BY <2>2 DEF ListRepresentsQueue
    <3>2. /\ head' = head /\ tail' = r
          /\ next' = [next EXCEPT ![r] = NIL, ![tail] = r]
      BY <3>1, NilIsNoRead
    <3>3. next'[r] = NIL /\ next'[tail] = r
      BY <3>1, <3>2
    <3>4. ASSUME NEW i \in 1..(Len(q) - 1)
          PROVE  next'[q[i]] = q[i + 1]
      <4>1. q[i] # r /\ q[i] # tail
        BY <3>1 DEF NoRequestTwice
      <4>2. next[q[i]] = q[i + 1]
        BY <3>1 DEF ListRepresentsQueue
      <4>3. QED
        BY <3>2, <4>1, <4>2
    <3>5. QED
      BY <1>0, <3>1, <3>2, <3>3, <3>4 DEF ListRepresentsQueue
  <2>3. QED
    BY <2>1, <2>2
<1>4. CursorInPlace'
  BY DEF CursorInPlace
<1>5. QED
  BY <1>1, <1>2, <1>3, <1>4

\* Unlinking: the request under the cursor leaves list and queue together.
LEMMA SearchFoundKeeps ==
  ASSUME IInv, SearchFound
  PROVE  IInv'
<1>1. /\ q \in Seq(Reads) /\ Len(q) \in Nat
      /\ pos \in 1..Len(q) /\ req = q[pos] /\ req \in Reads
      /\ prev = IF pos = 1 THEN NIL ELSE q[pos - 1]
  BY NilIsNoRead DEF IInv, TypeOK, CursorInPlace, SearchFound
<1>2. /\ \A i, j \in 1..Len(q) : q[i] = q[j] => i = j
      /\ \A i \in 1..Len(q) : q[i] \notin held
  BY DEF IInv, NoRequestTwice, Queued
<1>3. /\ q # <<>> /\ head = q[1] /\ tail = q[Len(q)]
      /\ \A i \in 1..Len(q) :
           next[q[i]] = IF i = Len(q) THEN NIL ELSE q[i + 1]
  BY <1>1, EmptyFacts DEF IInv, ListRepresentsQueue
<1>4. /\ q' \in Seq(Reads)
      /\ Len(q') = Len(q) - 1
      /\ \A j \in 1..(Len(q) - 1) :
           q'[j] = IF j < pos THEN q[j] ELSE q[j + 1]
  BY <1>1, WithoutFacts DEF SearchFound, Unlink
<1>5. q' = <<>> <=> Len(q) = 1
  BY <1>1, <1>4, EmptyFacts
<1>6. tail' = IF pos = Len(q) THEN prev ELSE tail
  <2>1. tail' = IF req = tail THEN prev ELSE tail
    BY DEF SearchFound, Unlink
  <2>2. req = tail <=> pos = Len(q)
    BY <1>1, <1>2, <1>3
  <2>3. QED
    BY <2>1, <2>2
<1>7. ASSUME pos = 1
      PROVE  ListRepresentsQueue' /\ TypeOK'
  <2>1. head' = next[q[1]] /\ next' = next /\ prev = NIL
    BY <1>1, <1>7, NilIsNoRead DEF SearchFound, Unlink
  <2>2. q' = <<>> => head' = NIL /\ tail' = NIL
    BY <1>1, <1>3, <1>5, <1>6, <1>7, <2>1
  <2>3. q' # <<>> => head' = q'[1] /\ tail' = q'[Len(q')]
    BY <1>1, <1>3, <1>4, <1>5, <1>6, <1>7, <2>1
  <2>4. ASSUME NEW j \in 1..Len(q')
        PROVE  next'[q'[j]] = IF j = Len(q') THEN NIL ELSE q'[j + 1]
    <3>1. q'[j] = q[j + 1] /\ (j # Len(q') => q'[j + 1] = q[j + 2])
      BY <1>1, <1>4, <1>7
    <3>2. next[q[j + 1]] = IF j + 1 = Len(q) THEN NIL ELSE q[j + 2]
      BY <1>1, <1>3, <1>4
    <3>3. QED
      BY <1>1, <1>4, <2>1, <3>1, <3>2
  <2>5. ListRepresentsQueue'
    BY <2>2, <2>3, <2>4 DEF ListRepresentsQueue
  <2>6. TypeOK'
    BY <1>1, <1>4, <1>6, <2>1 DEF SearchFound, Unlink, IInv, TypeOK, Null
  <2>7. QED
    BY <2>5, <2>6
<1>8. ASSUME pos > 1
      PROVE  ListRepresentsQueue' /\ TypeOK'
  <2>1. /\ prev = q[pos - 1] /\ prev \in Reads /\ head' = head
        /\ next' = [next EXCEPT ![prev] = next[req]]
    BY <1>1, <1>8, NilIsNoRead DEF SearchFound, Unlink
  <2>2. next'[prev] = next[req] /\ \A r \in Reads : r # prev => next'[r] = next[r]
    BY <2>1 DEF IInv, TypeOK
  <2>3. q' # <<>> /\ head' = q'[1] /\ tail' = q'[Len(q')]
    <3>1. Len(q) >= 2 /\ q' # <<>> /\ Len(q') \in 1..(Len(q) - 1)
      BY <1>1, <1>4, <1>5, <1>8
    <3>2. q'[1] = q[1]
      BY <1>4, <1>8, <3>1
    <3>3. head' = q'[1]
      BY <1>1, <1>3, <2>1, <3>1, <3>2
    <3>4. q'[Len(q')] = IF pos = Len(q) THEN q[Len(q) - 1] ELSE q[Len(q)]
      BY <1>1, <1>4, <1>5, <3>1
    <3>5. tail' = IF pos = Len(q) THEN q[Len(q) - 1] ELSE q[Len(q)]
      <4>1. CASE pos = Len(q)
        BY <1>1, <1>3, <1>6, <2>1, <4>1
      <4>2. CASE pos # Len(q)
        BY <1>1, <1>2, <1>3, <1>6, <2>1, <4>2
      <4>3. QED
        BY <4>1, <4>2
    <3>6. QED
      BY <3>1, <3>3, <3>4, <3>5
  <2>4. ASSUME NEW j \in 1..Len(q')
        PROVE  next'[q'[j]] = IF j = Len(q') THEN NIL ELSE q'[j + 1]
    <3>1. CASE j < pos - 1
      <4>1. q'[j] = q[j] /\ q'[j + 1] = q[j + 1] /\ j # Len(q')
        BY <1>1, <1>4, <3>1
      <4>2. q[j] # prev /\ q[j] \in Reads
        BY <1>1, <1>2, <2>1, <3>1
      <4>3. next[q[j]] = q[j + 1]
        BY <1>1, <1>3, <3>1
      <4>4. QED
        BY <2>2, <4>1, <4>2, <4>3
    <3>2. CASE j = pos - 1
      <4>1. q'[j] = prev /\ (j # Len(q') => q'[j + 1] = q[pos + 1])
        BY <1>1, <1>4, <2>1, <3>2
      <4>2. next[req] = IF pos = Len(q) THEN NIL ELSE q[pos + 1]
        BY <1>1, <1>3
      <4>3. QED
        BY <1>1, <1>4, <2>2, <3>2, <4>1, <4>2
    <3>3. CASE j > pos - 1
      <4>1. q'[j] = q[j + 1] /\ (j # Len(q') => q'[j + 1] = q[j + 2])
        BY <1>1, <1>4, <3>3
      <4>2. q[j + 1] # prev /\ q[j + 1] \in Reads
        <5>1. j + 1 \in 1..Len(q) /\ pos - 1 \in 1..Len(q) /\ j + 1 # pos - 1
          BY <1>1, <1>4, <1>8, <3>3
        <5>2. QED
          BY <1>1, <1>2, <2>1, <5>1
      <4>3. next[q[j + 1]] = IF j + 1 = Len(q) THEN NIL ELSE q[j + 2]
        BY <1>1, <1>3, <1>4
      <4>4. QED
        BY <1>1, <1>4, <2>2, <4>1, <4>2, <4>3
    <3>4. QED
      BY <1>1, <1>4, <3>1, <3>2, <3>3
  <2>5. ListRepresentsQueue'
    BY <2>3, <2>4 DEF ListRepresentsQueue
  <2>6. next' \in [Reads -> Null] /\ head' \in Null /\ tail' \in Null
    BY <1>1, <1>6, <2>1 DEF IInv, TypeOK, Null
  <2>7. TypeOK'
    BY <1>1, <1>4, <2>6 DEF SearchFound, Unlink, IInv, TypeOK
  <2>8. QED
    BY <2>5, <2>7
<1>9. NoRequestTwice'
  <2>1. ASSUME NEW i \in 1..Len(q'), NEW j \in 1..Len(q'), q'[i] = q'[j]
        PROVE  i = j
    <3> DEFINE place(k) == IF k < pos THEN k ELSE k + 1
    <3>1. /\ place(i) \in 1..Len(q) /\ q'[i] = q[place(i)]
          /\ place(j) \in 1..Len(q) /\ q'[j] = q[place(j)]
      BY <1>1, <1>4
    <3>2. place(i) = place(j)
      <4> HIDE DEF place
      <4> QED BY <1>2, <2>1, <3>1
    <3>3. QED
      BY <1>1, <1>4, <3>2
  <2>2. ASSUME NEW i \in 1..Len(q') PROVE q'[i] \notin held'
    <3>1. PICK k \in 1..Len(q) : q'[i] = q[k] /\ k # pos
      <4>1. CASE i < pos
        BY <1>1, <1>4, <4>1
      <4>2. CASE i >= pos
        <5>1. i + 1 \in 1..Len(q) /\ q'[i] = q[i + 1] /\ i + 1 # pos
          BY <1>1, <1>4, <4>2
        <5>2. QED
          BY <5>1
      <4>3. QED
        BY <1>1, <1>4, <4>1, <4>2
    <3>2. q[k] # req /\ q[k] \notin held
      BY <1>1, <1>2, <3>1
    <3>3. QED
      BY <3>1, <3>2 DEF SearchFound, Unlink
  <2>3. QED
    BY <2>1, <2>2 DEF NoRequestTwice, Queued
<1>10. CursorInPlace'
  BY DEF SearchFound, Unlink, CursorInPlace
<1>11. QED
  BY <1>1, <1>7, <1>8, <1>9, <1>10 DEF IInv

\* Every step keeps the invariant.
LEMMA NextIInv == IInv /\ [Next]_vars => IInv'
<1> SUFFICES ASSUME IInv, [Next]_vars PROVE IInv'
  OBVIOUS
<1>1. ASSUME NEW r \in Reads, NEW o \in Ovs, ReadFileEnqueue(r, o)
      PROVE  IInv'
  <2>1. r \in Reads /\ r \notin Queued /\ held = held \ {r}
    BY <1>1 DEF ReadFileEnqueue, Free
  <2>2. ov' \in [Reads -> Ovs]
    BY <1>1 DEF ReadFileEnqueue, IInv, TypeOK
  <2>3. QED
    BY <1>1, <2>1, <2>2, LinkAtTailKeeps DEF ReadFileEnqueue
<1>2. ASSUME NEW r \in Reads, Reinsert(r)
      PROVE  IInv'
  <2>1. r \notin Queued
    BY <1>2 DEF Reinsert, IInv, NoRequestTwice
  <2>2. ov' \in [Reads -> Ovs]
    BY <1>2 DEF Reinsert, IInv, TypeOK
  <2>3. QED
    BY <1>2, <2>1, <2>2, LinkAtTailKeeps DEF Reinsert
<1>3. ASSUME NEW r \in Reads, CompleteRead(r)
      PROVE  IInv'
  BY <1>3 DEF CompleteRead, IInv, TypeOK, NoRequestTwice,
     ListRepresentsQueue, CursorInPlace, Queued, Null, list, cursor
<1>4. ASSUME NEW o \in Ovs, SearchBegin(o)
      PROVE  IInv'
  <2>1. Len(q) \in Nat /\ (Len(q) = 0 <=> q = <<>>)
    BY DEF IInv, TypeOK
  <2>2. CursorInPlace'
    BY <1>4, <2>1 DEF SearchBegin, IInv, ListRepresentsQueue, CursorInPlace,
                      list
  <2>3. TypeOK' /\ NoRequestTwice' /\ ListRepresentsQueue'
    BY <1>4 DEF SearchBegin, IInv, TypeOK, NoRequestTwice, Queued,
       ListRepresentsQueue, Null, list
  <2>4. QED
    BY <2>2, <2>3 DEF IInv
<1>5. ASSUME SearchNext
      PROVE  IInv'
  <2>1. pos \in 1..Len(q) /\ req = q[pos] /\ Len(q) \in Nat
    BY <1>5, NilIsNoRead DEF SearchNext, IInv, TypeOK, CursorInPlace
  <2>2. req' = IF pos = Len(q) THEN NIL ELSE q[pos + 1]
    BY <1>5, <2>1 DEF SearchNext, IInv, ListRepresentsQueue
  <2>3. CursorInPlace'
    BY <1>5, <2>1, <2>2
       DEF SearchNext, IInv, CursorInPlace, list
  <2>4. TypeOK' /\ NoRequestTwice' /\ ListRepresentsQueue'
    BY <1>5, <2>1 DEF SearchNext, IInv, TypeOK, NoRequestTwice, Queued,
       ListRepresentsQueue, Null, list
  <2>5. QED
    BY <2>3, <2>4 DEF IInv
<1>6. ASSUME SearchFound
      PROVE  IInv'
  BY <1>6, SearchFoundKeeps
<1>7. ASSUME SearchFailed
      PROVE  IInv'
  <2>1. /\ UNCHANGED <<list, ov, held, target, prev, req, pos, q>>
        /\ searching' = FALSE
    BY <1>7 DEF SearchFailed
  <2>2. TypeOK'
    BY <2>1 DEF IInv, TypeOK, Null, list
  <2>3. NoRequestTwice'
    BY <2>1 DEF IInv, NoRequestTwice, Queued
  <2>4. ListRepresentsQueue' /\ CursorInPlace'
    BY <2>1 DEF IInv, ListRepresentsQueue, CursorInPlace, list
  <2>5. QED
    BY <2>2, <2>3, <2>4 DEF IInv
<1>8. CASE UNCHANGED vars
  BY <1>8 DEF vars, list, cursor, IInv, TypeOK, NoRequestTwice, Queued,
     ListRepresentsQueue, CursorInPlace, Null
<1>9. QED
  BY <1>1, <1>2, <1>3, <1>4, <1>5, <1>6, <1>7, <1>8 DEF Next

\* The strengthened invariant holds in every reachable state.
THEOREM Invariance == Spec => []IInv
  BY InitIInv, NextIInv, PTL DEF Spec

-----------------------------------------------------------------------------
(* Results *)

\* The variables of the list and of a running search keep their types: no
\* pointer of it ever leads out of the nodes (inject.c:586-612).
THEOREM ListTypes == Spec => []TypeOK
  BY Invariance, PTL DEF IInv

\* Hook_ReadFile and Hook_GetOverlappedResult keep head, tail and next a
\* faithful picture of the queue, whatever is appended and unlinked.
THEOREM ListIsQueue == Spec => []ListRepresentsQueue
  BY Invariance, PTL DEF IInv

\* No request is ever in the list twice, or in the list and in the hands of
\* a GetOverlappedResult call.
THEOREM RequestsNotShared == Spec => []NoRequestTwice
  BY Invariance, PTL DEF IInv

\* The search fails only when no queued request has the OVERLAPPED.
THEOREM SearchIsComplete == Spec => []FailsOnlyWhenAbsent
<1>1. IInv => FailsOnlyWhenAbsent
  <2> SUFFICES ASSUME IInv, searching, req = NIL, NEW r \in Queued
               PROVE  ov[r] # target
    BY DEF FailsOnlyWhenAbsent
  <2>1. pos = Len(q) + 1 /\ Len(q) \in Nat
    BY NilIsNoRead DEF IInv, TypeOK, CursorInPlace
  <2>2. PICK i \in 1..Len(q) : q[i] = r
    BY DEF Queued
  <2>3. QED
    BY <2>1, <2>2 DEF IInv, CursorInPlace
<1>2. QED
  BY <1>1, Invariance, PTL

\* The linked list implements the abstract queue: each step of the pointer
\* code is a step of PendingQueue or changes nothing there.
THEOREM Refinement == Spec => AbstractSpec
<1> USE DEF Abstract!Queued, Queued
<1>1. Init => Abstract!Init
  BY DEF Init, Abstract!Init
<1>2. IInv /\ [Next]_vars => [Abstract!Next]_(Abstract!vars)
  <2> SUFFICES ASSUME IInv, [Next]_vars
               PROVE  [Abstract!Next]_(Abstract!vars)
    OBVIOUS
  <2>1. ASSUME NEW r \in Reads, NEW o \in Ovs, ReadFileEnqueue(r, o)
        PROVE  Abstract!Enqueue(r, o)
    BY <2>1 DEF ReadFileEnqueue, Free, LinkAtTail, Abstract!Enqueue
  <2>2. ASSUME NEW r \in Reads, Reinsert(r)
        PROVE  Abstract!PutBack(r)
    BY <2>2 DEF Reinsert, LinkAtTail, Abstract!PutBack
  <2>3. ASSUME NEW r \in Reads, CompleteRead(r)
        PROVE  Abstract!Complete(r)
    BY <2>3 DEF CompleteRead, Abstract!Complete
  <2>4. ASSUME SearchFound
        PROVE  Abstract!Take(target)
    <3>1. pos \in 1..Len(q) /\ req = q[pos]
      BY <2>4, NilIsNoRead
         DEF SearchFound, Unlink, IInv, TypeOK, CursorInPlace
    <3>2. Abstract!FirstAt(pos, target)
      BY <2>4, <3>1 DEF SearchFound, Unlink, IInv, CursorInPlace, Abstract!FirstAt
    <3>3. q' = Abstract!Without(pos)
      BY <2>4 DEF SearchFound, Unlink, Abstract!Without
    <3>4. QED
      BY <2>4, <3>1, <3>2, <3>3 DEF SearchFound, Unlink, Abstract!Take
  <2>5. ASSUME \/ \E o \in Ovs : SearchBegin(o)
               \/ SearchNext \/ SearchFailed \/ UNCHANGED vars
        PROVE  UNCHANGED Abstract!vars
    BY <2>5 DEF SearchBegin, SearchNext, SearchFailed, vars, Abstract!vars
  <2>6. target \in Ovs
    BY DEF IInv, TypeOK
  <2>7. QED
    BY <2>1, <2>2, <2>3, <2>4, <2>5, <2>6 DEF Next, Abstract!Next
<1>3. QED
  BY <1>1, <1>2, Invariance, PTL DEF Spec, AbstractSpec, Abstract!Spec
=============================================================================
