-------------------------- MODULE ComObjects_proofs --------------------------
(* The invariants of ComObjects, for any number of threads, blocks and     *)
(* pointers.                                                               *)
EXTENDS ComObjects, FiniteSetTheorems, TLAPS

-----------------------------------------------------------------------------
(* The inductive invariant                                                 *)

\* The threads that have still to decrement the count of o, and those that
\* have still to set its alreadyReturned.
Late(o) == {t \in Threads : work[t].step = "drop" /\ work[t].obj = o}
Nexts(o) == {t \in Threads : work[t].step = "next" /\ work[t].obj = o}

\* What o's count is above the references to it.
Surplus(o) ==
  heap[o].count - Cardinality(Refs(o)) - Cardinality(Holders(o))
    - Cardinality({o} \cap kept) - Cardinality(Late(o))

(***************************************************************************)
(* CountIsReferences, and the same for immortal objects: the count of a    *)
(* mortal object is what refers to it, of an immortal one at least that.   *)
(***************************************************************************)
Balance ==
  \A o \in Blocks \ free :
    /\ Surplus(o) >= 0
    /\ heap[o].class.mortal => Surplus(o) = 0

\* Pointers lead to blocks in use; an object held holds nothing itself.
Live ==
  /\ \A p \in Ptrs : ptr[p] \notin free
  /\ \A b \in Blocks :
       /\ heap[b].child \notin free
       /\ heap[b].child # NIL => /\ b \notin free
                                 /\ heap[heap[b].child].child = NIL
  /\ \A o \in kept : o \notin free /\ heap[o].child = NIL
  /\ radmin \in kept \cup {NIL}

Torn(o) == o \in Blocks \ free /\ heap[o].class.mortal /\ heap[o].count = 0

\* What a thread in the middle of a call can rely on.
WorkSound(w) ==
  /\ w.step = "idle" => w = Idle
  /\ w.step \in {"patch", "drop"} =>
       w.obj \in Blocks \ free /\ ~heap[w.obj].class.mortal
  /\ w.step \in {"publish", "collect"} => w.obj \in kept \cup {NIL}
  /\ w.step = "next" => /\ w.via \in Ptrs /\ w.obj \in Blocks
                        /\ ptr[w.via] = w.obj /\ ~heap[w.obj].returned
  /\ w.step \in {"child", "free"} => Torn(w.obj)
  /\ w.step = "free" => heap[w.obj].child = NIL
  /\ w.outer # NIL => /\ w.step \in {"drop", "free"}
                      /\ Torn(w.outer) /\ heap[w.outer].child = NIL
                      /\ w.outer # w.obj

\* An object is torn down, and an enumerator used, by one thread.
Exclusive ==
  /\ \A o \in Blocks : Torn(o) => \E t \in Threads : Tears(t, o)
  /\ \A o \in Blocks, t, u \in Threads : Tears(t, o) /\ Tears(u, o) => t = u
  /\ \A o \in Blocks, t, u \in Threads : t \in Nexts(o) /\ u \in Nexts(o) => t = u

Gives ==
  \A o \in Blocks \ free :
    heap[o].class.once =>
      given[o] = IF heap[o].returned \/ Nexts(o) # {} THEN 1 ELSE 0

IInv ==
  /\ TypeOK /\ Balance /\ Live
  /\ \A t \in Threads : WorkSound(work[t])
  /\ Exclusive /\ Gives

-----------------------------------------------------------------------------
(* Counting: a step moves one pointer, one child and one thread.           *)

LEMMA OneLess ==
  ASSUME NEW A, IsFiniteSet(A), NEW p
  PROVE  /\ Cardinality(A) \in Nat /\ Cardinality(A \ {p}) \in Nat
         /\ Cardinality(A) = Cardinality(A \ {p}) + (IF p \in A THEN 1 ELSE 0)
<1>1. IsFiniteSet(A \ {p})
  BY FS_Subset
<1>2. Cardinality(A) \in Nat /\ Cardinality(A \ {p}) \in Nat
  BY <1>1, FS_CardinalityType
<1>3. CASE p \in A
  <2>1. Cardinality(A \ {p}) = Cardinality(A) - 1
    BY <1>3, FS_RemoveElement
  <2> QED BY <1>2, <1>3, <2>1
<1>4. CASE p \notin A
  <2>1. A \ {p} = A
    BY <1>4
  <2>2. Cardinality(A \ {p}) = Cardinality(A)
    BY <2>1, Zenon
  <2> QED BY <1>2, <1>4, <2>2
<1> QED BY <1>3, <1>4

LEMMA OneMoves ==
  ASSUME NEW S, IsFiniteSet(S), NEW F \in SUBSET S, NEW G \in SUBSET S, NEW p,
         F \ {p} = G \ {p}
  PROVE  /\ Cardinality(F) \in Nat /\ Cardinality(G) \in Nat
         /\ Cardinality(G) = Cardinality(F) + (IF p \in G THEN 1 ELSE 0)
                                            - (IF p \in F THEN 1 ELSE 0)
         /\ Cardinality(G) <= Cardinality(S)
<1>1. IsFiniteSet(F) /\ IsFiniteSet(G)
  BY FS_Subset
<1>2. Cardinality(G) <= Cardinality(S)
  BY FS_Subset
<1>3. /\ Cardinality(F) \in Nat /\ Cardinality(F \ {p}) \in Nat
      /\ Cardinality(F) = Cardinality(F \ {p}) + (IF p \in F THEN 1 ELSE 0)
  BY <1>1, OneLess
<1>4. /\ Cardinality(G) \in Nat
      /\ Cardinality(G) = Cardinality(G \ {p}) + (IF p \in G THEN 1 ELSE 0)
  BY <1>1, OneLess
<1>5. Cardinality(F \ {p}) = Cardinality(G \ {p})
  BY Zenon
<1> QED BY <1>2, <1>3, <1>4, <1>5

\* What a set of actors that meet a condition counts, after one of them moved.
LEMMA RefsMove ==
  ASSUME NEW p, \A q \in Ptrs \ {p} : ptr'[q] = ptr[q], NEW x
  PROVE  /\ Cardinality(Refs(x)) \in Nat /\ Cardinality(Refs(x)') \in Nat
         /\ Cardinality(Refs(x)') = Cardinality(Refs(x))
              + (IF p \in Ptrs /\ ptr'[p] = x THEN 1 ELSE 0)
              - (IF p \in Ptrs /\ ptr[p] = x THEN 1 ELSE 0)
<1>1. Refs(x) \in SUBSET Ptrs /\ Refs(x)' \in SUBSET Ptrs
  BY DEF Refs
<1>2. Refs(x) \ {p} = Refs(x)' \ {p}
  BY DEF Refs
<1>3. (p \in Refs(x)') <=> p \in Ptrs /\ ptr'[p] = x
  BY DEF Refs
<1>4. (p \in Refs(x)) <=> p \in Ptrs /\ ptr[p] = x
  BY DEF Refs
<1> QED BY <1>1, <1>2, <1>3, <1>4, OneMoves, ComAssumption

LEMMA HoldersMove ==
  ASSUME NEW b, \A y \in Blocks \ {b} : heap'[y].child = heap[y].child, NEW x
  PROVE  /\ Cardinality(Holders(x)) \in Nat /\ Cardinality(Holders(x)') \in Nat
         /\ Cardinality(Holders(x)') = Cardinality(Holders(x))
              + (IF b \in Blocks /\ heap'[b].child = x THEN 1 ELSE 0)
              - (IF b \in Blocks /\ heap[b].child = x THEN 1 ELSE 0)
<1>1. Holders(x) \in SUBSET Blocks /\ Holders(x)' \in SUBSET Blocks
  BY DEF Holders
<1>2. Holders(x) \ {b} = Holders(x)' \ {b}
  BY DEF Holders
<1>3. (b \in Holders(x)') <=> b \in Blocks /\ heap'[b].child = x
  BY DEF Holders
<1>4. (b \in Holders(x)) <=> b \in Blocks /\ heap[b].child = x
  BY DEF Holders
<1> QED BY <1>1, <1>2, <1>3, <1>4, OneMoves, ComAssumption

LEMMA LateMoves ==
  ASSUME NEW t \in Threads, \A u \in Threads \ {t} : work'[u] = work[u], NEW x
  PROVE  /\ Cardinality(Late(x)) \in Nat /\ Cardinality(Late(x)') \in Nat
         /\ Cardinality(Late(x)') = Cardinality(Late(x))
              + (IF work'[t].step = "drop" /\ work'[t].obj = x THEN 1 ELSE 0)
              - (IF work[t].step = "drop" /\ work[t].obj = x THEN 1 ELSE 0)
<1>1. Late(x) \in SUBSET Threads /\ Late(x)' \in SUBSET Threads
  BY DEF Late
<1>2. Late(x) \ {t} = Late(x)' \ {t}
  BY DEF Late
<1>3. (t \in Late(x)') <=> work'[t].step = "drop" /\ work'[t].obj = x
  BY DEF Late
<1>4. (t \in Late(x)) <=> work[t].step = "drop" /\ work[t].obj = x
  BY DEF Late
<1> QED BY <1>1, <1>2, <1>3, <1>4, OneMoves, ComAssumption

LEMMA KeptCounts ==
  ASSUME NEW x, NEW K
  PROVE  Cardinality({x} \cap K) = IF x \in K THEN 1 ELSE 0
<1>1. CASE x \in K
  <2>1. {x} \cap K = {x}
    BY <1>1
  <2> QED BY <1>1, <2>1, FS_Singleton
<1>2. CASE x \notin K
  <2>1. {x} \cap K = {}
    BY <1>2
  <2> QED BY <1>2, <2>1, FS_EmptySet
<1> QED BY <1>1, <1>2

\* What the three moves and kept do to the surplus.
LEMMA SurplusMoves ==
  ASSUME TypeOK, TypeOK', NEW x \in Blocks,
         NEW p, \A q \in Ptrs \ {p} : ptr'[q] = ptr[q],
         NEW b, \A y \in Blocks \ {b} : heap'[y].child = heap[y].child,
         NEW t \in Threads, \A u \in Threads \ {t} : work'[u] = work[u]
  PROVE  /\ Surplus(x) \in Int /\ heap[x].count \in Int /\ heap'[x].count \in Int
         /\ Surplus(x)' = Surplus(x) + (heap'[x].count - heap[x].count)
              - (IF p \in Ptrs /\ ptr'[p] = x THEN 1 ELSE 0)
              + (IF p \in Ptrs /\ ptr[p] = x THEN 1 ELSE 0)
              - (IF b \in Blocks /\ heap'[b].child = x THEN 1 ELSE 0)
              + (IF b \in Blocks /\ heap[b].child = x THEN 1 ELSE 0)
              - (IF x \in kept' THEN 1 ELSE 0) + (IF x \in kept THEN 1 ELSE 0)
              - (IF work'[t].step = "drop" /\ work'[t].obj = x THEN 1 ELSE 0)
              + (IF work[t].step = "drop" /\ work[t].obj = x THEN 1 ELSE 0)
<1>1. heap[x].count \in Int /\ heap'[x].count \in Int
  BY DEF TypeOK
<1>2. /\ Cardinality(Refs(x)) \in Nat /\ Cardinality(Refs(x)') \in Nat
      /\ Cardinality(Refs(x)') = Cardinality(Refs(x))
              + (IF p \in Ptrs /\ ptr'[p] = x THEN 1 ELSE 0)
              - (IF p \in Ptrs /\ ptr[p] = x THEN 1 ELSE 0)
  BY RefsMove
<1>3. /\ Cardinality(Holders(x)) \in Nat /\ Cardinality(Holders(x)') \in Nat
      /\ Cardinality(Holders(x)') = Cardinality(Holders(x))
              + (IF b \in Blocks /\ heap'[b].child = x THEN 1 ELSE 0)
              - (IF b \in Blocks /\ heap[b].child = x THEN 1 ELSE 0)
  BY HoldersMove
<1>4. /\ Cardinality(Late(x)) \in Nat /\ Cardinality(Late(x)') \in Nat
      /\ Cardinality(Late(x)') = Cardinality(Late(x))
              + (IF work'[t].step = "drop" /\ work'[t].obj = x THEN 1 ELSE 0)
              - (IF work[t].step = "drop" /\ work[t].obj = x THEN 1 ELSE 0)
  BY LateMoves
<1>5. /\ Cardinality({x} \cap kept) = IF x \in kept THEN 1 ELSE 0
      /\ Cardinality({x} \cap kept') = IF x \in kept' THEN 1 ELSE 0
  BY KeptCounts
<1> QED BY <1>1, <1>2, <1>3, <1>4, <1>5 DEF Surplus

-----------------------------------------------------------------------------
(* Types                                                                   *)

LEMMA ClassFacts ==
  /\ Unused \in Classes /\ \A c \in Classes : c.mortal \in BOOLEAN
  /\ WbemLocator \in Classes \ {Unused} /\ ~WbemLocator.mortal
  /\ Unused.mortal
  /\ {WbemServices, WbemClassObject, NetAdapterObject, EnumWbemClassObject,
      NetSharingManager, NetSharingConfiguration, ConnectionCollection,
      VarEnumerator, NetConnection, NetworkListManager,
      EnumNetworkConnections, NetworkConnection, Network}
       \in SUBSET (Classes \ {Unused, WbemLocator})
BY DEF Classes, Unused, WbemLocator, WbemServices, WbemClassObject,
       NetAdapterObject, EnumWbemClassObject, NetSharingManager,
       NetSharingConfiguration, ConnectionCollection, VarEnumerator,
       NetConnection, NetworkListManager, EnumNetworkConnections,
       NetworkConnection, Network

Objects ==
  [class : Classes, count : Int, child : Null, returned : BOOLEAN]
Works == [step : Steps, obj : Null, outer : Null, via : Ptrs \cup {NIL}]

LEMMA CreateTypes ==
  ASSUME TypeOK, NEW p \in Ptrs, NEW b \in Blocks, NEW c \in Classes,
         NEW k \in Null, Create(p, b, c, k), radmin' \in Null, slot' \in BOOLEAN,
         work' \in [Threads -> Works], kept' \in SUBSET Blocks
  PROVE  TypeOK'
<1>1. ASSUME NEW x \in Blocks
      PROVE  heap'[x] \in Objects
  <2>1. heap[x] \in Objects
    BY DEF TypeOK, Objects
  <2>2. Object(c, k) \in Objects
    BY DEF Object, Objects
  <2>3. [heap[x] EXCEPT !.count = @ + 1] \in Objects
    BY <2>1 DEF Objects
  <2> QED BY <2>1, <2>2, <2>3 DEF Create
<1>2. heap' \in [Blocks -> Objects]
  BY <1>1 DEF Create
<1> QED BY <1>2 DEF TypeOK, Create, Null, Works, Objects

LEMMA HeapTypes ==
  ASSUME NEW h \in [Blocks -> Objects], NEW x
  PROVE  /\ [h EXCEPT ![x].count = @ + 1] \in [Blocks -> Objects]
         /\ [h EXCEPT ![x].count = @ - 1] \in [Blocks -> Objects]
         /\ [h EXCEPT ![x].child = NIL] \in [Blocks -> Objects]
         /\ \A v \in BOOLEAN : [h EXCEPT ![x].returned = v] \in [Blocks -> Objects]
<1>1. CASE x \in Blocks
  <2>1. h[x] \in Objects
    BY <1>1
  <2>2. /\ [h[x] EXCEPT !.count = @ + 1] \in Objects
        /\ [h[x] EXCEPT !.count = @ - 1] \in Objects
        /\ [h[x] EXCEPT !.child = NIL] \in Objects
        /\ \A v \in BOOLEAN : [h[x] EXCEPT !.returned = v] \in Objects
    BY <2>1 DEF Objects, Null
  <2>3. \A y \in Objects : [h EXCEPT ![x] = y] \in [Blocks -> Objects]
    OBVIOUS
  <2> QED BY <2>2, <2>3
<1>2. CASE x \notin Blocks
  <2>1. \A y : [h EXCEPT ![x] = y] = h
    BY <1>2
  <2> QED BY <2>1
<1> QED BY <1>1, <1>2

LEMMA WorkTypes ==
  /\ \A s \in Steps, o, q \in Null : Step(s, o, q) \in Works
  /\ \A s \in Steps, o \in Null, p \in Ptrs : Within(s, o, p) \in Works
  /\ Idle \in Works
  /\ \A q \in Null : Resume(q) \in Works
BY DEF Works, Steps, Null, Idle, Step, Within, Resume

LEMMA InitTypes == Init => TypeOK
<1> SUFFICES ASSUME Init PROVE TypeOK
  OBVIOUS
<1>1. Free \in Objects
  BY ClassFacts DEF Free, Objects, Null
<1>2. Fresh.work \in [Threads -> Works] /\ Fresh.ptr \in [Ptrs -> Null]
  BY WorkTypes DEF Fresh, Null
<1>3. Fresh.heap \in [Blocks -> Objects] /\ Fresh.given \in [Blocks -> Nat]
  BY <1>1 DEF Fresh
<1> QED BY <1>2, <1>3 DEF Init, TypeOK, Objects, Works, Null

LEMMA RestartTypes == Restart => TypeOK'
<1> SUFFICES ASSUME Restart PROVE TypeOK'
  OBVIOUS
<1>1. Free \in Objects
  BY ClassFacts DEF Free, Objects, Null
<1>2. Fresh.work \in [Threads -> Works] /\ Fresh.ptr \in [Ptrs -> Null]
  BY WorkTypes DEF Fresh, Null
<1>3. Fresh.heap \in [Blocks -> Objects] /\ Fresh.given \in [Blocks -> Nat]
  BY <1>1 DEF Fresh
<1> QED BY <1>2, <1>3 DEF Restart, TypeOK, Objects, Works, Null

LEMMA StepTypes ==
  ASSUME TypeOK, NEW t \in Threads, NEW p \in Ptrs, NEW q \in Ptrs,
         work[t].step = "child" => work[t].obj \in Blocks
  PROVE  /\ CoCreateInstance(t, p) => TypeOK'
         /\ CreateLocator(t, p) => TypeOK'
         /\ Collect(t, p) => TypeOK'
         /\ EnumEveryConnection(t, p) => TypeOK'
         /\ Reset(t, p) => TypeOK'
         /\ ReleaseMortal(t, p) => TypeOK'
         /\ ReleaseImmortal(t, p) => TypeOK'
         /\ ConnectServer(t, q, p) => TypeOK'
         /\ GetObject(t, q, p) => TypeOK'
         /\ CreateInstanceEnum(t, q, p) => TypeOK'
         /\ ExecQuery(t, q, p) => TypeOK'
         /\ get_INetSharingConfiguration(t, q, p) => TypeOK'
         /\ get_NewEnum(t, q, p) => TypeOK'
         /\ Invoke(t, q, p) => TypeOK'
         /\ GetNetworkConnections(t, q, p) => TypeOK'
         /\ GetNetwork(t, q, p) => TypeOK'
         /\ NextObject(t, q, p) => TypeOK'
         /\ AddRef(t, q, p) => TypeOK'
         /\ PatchWbemLocator(t) => TypeOK'
         /\ Publish(t) => TypeOK'
         /\ NextReturned(t) => TypeOK'
         /\ Drop(t) => TypeOK'
         /\ ReleaseChild(t) => TypeOK'
         /\ HeapFree(t) => TypeOK'
<1>0. /\ heap \in [Blocks -> Objects] /\ ptr \in [Ptrs -> Null]
      /\ radmin \in Null /\ slot \in BOOLEAN /\ work \in [Threads -> Works]
      /\ kept \in SUBSET Blocks /\ given \in [Blocks -> Nat]
  BY DEF TypeOK, Objects, Works
<1>00. TypeOK' <=>
        /\ heap' \in [Blocks -> Objects] /\ ptr' \in [Ptrs -> Null]
        /\ radmin' \in Null /\ slot' \in BOOLEAN /\ work' \in [Threads -> Works]
        /\ kept' \in SUBSET Blocks /\ given' \in [Blocks -> Nat]
  BY DEF TypeOK, Objects, Works
<1>a. NIL \in Null /\ free \in SUBSET Blocks /\ Blocks \in SUBSET Null
  BY DEF Null, free
<1>1. CoCreateInstance(t, p) => TypeOK'
  BY <1>0, <1>a, CreateTypes, ClassFacts DEF CoCreateInstance
<1>2. CreateLocator(t, p) => TypeOK'
  <2> SUFFICES ASSUME CreateLocator(t, p) PROVE TypeOK'
    OBVIOUS
  <2>1. PICK b \in free : /\ Create(p, b, WbemLocator, NIL)
                          /\ work' = [work EXCEPT ![t] = Within("patch", b, p)]
    BY DEF CreateLocator
  <2>2. work' \in [Threads -> Works]
    BY <1>0, <1>a, <2>1, WorkTypes DEF Steps
  <2> QED BY <1>0, <1>a, <2>1, <2>2, CreateTypes, ClassFacts DEF CreateLocator
<1>3. Collect(t, p) => TypeOK'
  <2> SUFFICES ASSUME Collect(t, p) PROVE TypeOK'
    OBVIOUS
  <2>1. work' \in [Threads -> Works]
    BY <1>0, WorkTypes DEF Collect
  <2>2. Found(t) \in SUBSET Null
    BY <1>0 DEF Found, Works
  <2> QED BY <1>0, <1>00, <1>a, <2>1, <2>2, CreateTypes, ClassFacts DEF Collect
<1>4. EnumEveryConnection(t, p) => TypeOK'
  <2> SUFFICES ASSUME EnumEveryConnection(t, p) PROVE TypeOK'
    OBVIOUS
  <2>1. work' \in [Threads -> Works]
    BY <1>0, <1>a, WorkTypes DEF EnumEveryConnection, Steps
  <2>2. Object(NetConnection, NIL) \in Objects
    BY <1>a, ClassFacts DEF Object, Objects
  <2> QED BY <1>0, <1>00, <1>a, <2>1, <2>2 DEF EnumEveryConnection
<1>5. Reset(t, p) => TypeOK'
  <2>1. [heap EXCEPT ![ptr[p]].returned = FALSE] \in [Blocks -> Objects]
    BY <1>0, HeapTypes
  <2> QED BY <1>0, <1>00, <1>a, <2>1 DEF Reset, Null, Call
<1>6. ReleaseMortal(t, p) => TypeOK'
  <2> SUFFICES ASSUME ReleaseMortal(t, p) PROVE TypeOK'
    OBVIOUS
  <2>1. work' \in [Threads -> Works]
    BY <1>0, <1>a, WorkTypes DEF ReleaseMortal, GivenBack, Steps
  <2> QED BY <1>0, <1>00, <1>a, <2>1, HeapTypes DEF ReleaseMortal, GivenBack
<1>7. ReleaseImmortal(t, p) => TypeOK'
  <2> SUFFICES ASSUME ReleaseImmortal(t, p) PROVE TypeOK'
    OBVIOUS
  <2>1. work' \in [Threads -> Works]
    BY <1>0, <1>a, WorkTypes DEF ReleaseImmortal, GivenBack, Steps
  <2> QED BY <1>0, <1>00, <1>a, <2>1 DEF ReleaseImmortal, GivenBack
<1>8. ConnectServer(t, q, p) => TypeOK'
  BY <1>0, <1>a, CreateTypes, ClassFacts DEF ConnectServer
<1>9. GetObject(t, q, p) => TypeOK'
  BY <1>0, <1>a, CreateTypes, ClassFacts DEF GetObject
<1>10. ASSUME NEW c \in Classes, Enumerate(t, q, p, c)
       PROVE  TypeOK'
  <2>1. \A b \in Blocks : /\ Object(c, NIL) \in Objects
                          /\ Object(EnumWbemClassObject, b) \in Objects
    BY <1>a, ClassFacts DEF Object, Objects
  <2> QED BY <1>0, <1>00, <1>10, <1>a, <2>1 DEF Enumerate
<1>11. get_INetSharingConfiguration(t, q, p) => TypeOK'
  BY <1>0, <1>a, CreateTypes, ClassFacts DEF get_INetSharingConfiguration
<1>12. get_NewEnum(t, q, p) => TypeOK'
  <2>1. ptr[q] # NIL => heap[ptr[q]].child \in Null
    BY <1>0 DEF Objects, Null
  <2> QED BY <1>0, <1>a, <2>1, CreateTypes, ClassFacts DEF get_NewEnum, Call
<1>13. ASSUME NEW o \in Null, Share(p, o)
       PROVE  ptr' \in [Ptrs -> Null] /\ heap' \in [Blocks -> Objects]
  BY <1>0, <1>13, HeapTypes DEF Share
<1>14. Invoke(t, q, p) => TypeOK'
  <2>1. ptr[q] # NIL => heap[ptr[q]].child \in Null
    BY <1>0 DEF Objects, Null
  <2> QED BY <1>0, <1>00, <1>13, <2>1 DEF Invoke, Call
<1>15. GetNetworkConnections(t, q, p) => TypeOK'
  <2>1. \A b \in Blocks : /\ Object(NetworkConnection, NIL) \in Objects
                          /\ Object(EnumNetworkConnections, b) \in Objects
    BY <1>a, ClassFacts DEF Object, Objects
  <2> QED BY <1>0, <1>00, <1>a, <2>1 DEF GetNetworkConnections
<1>16. GetNetwork(t, q, p) => TypeOK'
  BY <1>0, <1>a, CreateTypes, ClassFacts DEF GetNetwork
<1>17. NextObject(t, q, p) => TypeOK'
  <2> SUFFICES ASSUME NextObject(t, q, p) PROVE TypeOK'
    OBVIOUS
  <2>1. ptr[q] \in Blocks /\ heap[ptr[q]].child \in Null
    BY <1>0 DEF Objects, Null, NextObject, Call
  <2>2. work' \in [Threads -> Works]
    BY <1>0, <1>a, <2>1, WorkTypes DEF NextObject, Steps
  <2>3. ptr' \in [Ptrs -> Null] /\ heap' \in [Blocks -> Objects]
    BY <1>13, <2>1 DEF NextObject
  <2>4. given' \in [Blocks -> Nat]
    BY <1>0, <2>1 DEF NextObject
  <2> QED BY <1>0, <1>00, <2>2, <2>3, <2>4 DEF NextObject
<1>18. AddRef(t, q, p) => TypeOK'
  BY <1>0, <1>00, <1>13 DEF AddRef
<1>19. PatchWbemLocator(t) => TypeOK'
  <2>1. PatchWbemLocator(t) => work' \in [Threads -> Works]
    BY <1>0, WorkTypes DEF PatchWbemLocator
  <2> QED BY <1>0, <1>00, <2>1 DEF PatchWbemLocator
<1>20. Publish(t) => TypeOK'
  <2>1. Publish(t) => work' \in [Threads -> Works]
    BY <1>0 DEF Publish, Works, Steps
  <2>2. work[t].obj \in Null
    BY <1>0 DEF Works
  <2> QED BY <1>0, <1>00, <2>1, <2>2 DEF Publish
<1>21. NextReturned(t) => TypeOK'
  <2>1. NextReturned(t) => work' \in [Threads -> Works]
    BY <1>0, WorkTypes DEF NextReturned
  <2>2. [heap EXCEPT ![work[t].obj].returned = TRUE] \in [Blocks -> Objects]
    BY <1>0, HeapTypes
  <2> QED BY <1>0, <1>00, <2>1, <2>2 DEF NextReturned
<1>22. work[t].outer \in Null /\ Resume(work[t].outer) \in Works
  BY <1>0, WorkTypes DEF Works
<1>23. Drop(t) => TypeOK'
  <2>1. Drop(t) => work' \in [Threads -> Works]
    BY <1>0, <1>22 DEF Drop
  <2>2. [heap EXCEPT ![work[t].obj].count = @ - 1] \in [Blocks -> Objects]
    BY <1>0, HeapTypes
  <2> QED BY <1>0, <1>00, <2>1, <2>2 DEF Drop
<1>24. ReleaseChild(t) => TypeOK'
  <2> SUFFICES ASSUME ReleaseChild(t) PROVE TypeOK'
    OBVIOUS
  <2>1. work[t].obj \in Blocks /\ NIL \in Null
    BY DEF Null, ReleaseChild
  <2>2. work' \in [Threads -> Works] /\ heap' \in [Blocks -> Objects]
    <3> DEFINE o == work[t].obj
               k == heap[o].child
    <3>1. CASE k = NIL
      BY <1>0, <1>a, <2>1, <3>1, WorkTypes DEF ReleaseChild, Steps
    <3>2. CASE k # NIL
      <4>1. k \in Null
        BY <1>0, <2>1 DEF Objects
      <4>2. work' \in [Threads -> Works]
        BY <1>0, <1>a, <2>1, <3>2, <4>1, WorkTypes DEF ReleaseChild, Steps
      <4>3. \/ heap' = [[heap EXCEPT ![k].count = @ - 1] EXCEPT ![o].child = NIL]
            \/ heap' = [heap EXCEPT ![o].child = NIL]
        BY <3>2 DEF ReleaseChild
      <4> HIDE DEF k, o
      <4>4. /\ [heap EXCEPT ![k].count = @ - 1] \in [Blocks -> Objects]
            /\ [heap EXCEPT ![o].child = NIL] \in [Blocks -> Objects]
        BY <1>0, HeapTypes
      <4>5. [[heap EXCEPT ![k].count = @ - 1] EXCEPT ![o].child = NIL]
              \in [Blocks -> Objects]
        BY <4>4, HeapTypes
      <4>6. heap' \in [Blocks -> Objects]
        BY <4>3, <4>4, <4>5
      <4> QED BY <4>2, <4>6
    <3> QED BY <3>1, <3>2
  <2> QED BY <1>0, <1>00, <2>2 DEF ReleaseChild
<1>25. HeapFree(t) => TypeOK'
  <2>1. HeapFree(t) => work' \in [Threads -> Works]
    BY <1>0, <1>22 DEF HeapFree
  <2>2. Free \in Objects
    BY <1>a, ClassFacts DEF Free, Objects
  <2> QED BY <1>0, <1>00, <2>1, <2>2 DEF HeapFree
<1> QED BY <1>1, <1>2, <1>3, <1>4, <1>5, <1>6, <1>7, <1>8, <1>9, <1>10, <1>11,
           <1>12, <1>14, <1>15, <1>16, <1>17, <1>18, <1>19, <1>20, <1>21, <1>23,
           <1>24, <1>25, ClassFacts DEF CreateInstanceEnum, ExecQuery

-----------------------------------------------------------------------------
(* What the invariant says of blocks that are free, and of threads         *)

LEMMA FreeFacts ==
  ASSUME IInv, NEW b \in free
  PROVE  /\ b \in Blocks /\ b # NIL /\ b \notin kept /\ b # radmin
         /\ heap[b].child = NIL
         /\ \A p \in Ptrs : ptr[p] # b
         /\ \A y \in Blocks : heap[y].child # b
         /\ \A u \in Threads : work[u].obj # b /\ work[u].outer # b
<1>1. /\ b \in Blocks /\ b # NIL /\ b \notin kept /\ b # radmin
      /\ heap[b].child = NIL
      /\ \A p \in Ptrs : ptr[p] # b
      /\ \A y \in Blocks : heap[y].child # b
  BY ComAssumption DEF IInv, Live, free
<1>2. ASSUME NEW u \in Threads
      PROVE  work[u].obj # b /\ work[u].outer # b
  <2>1. WorkSound(work[u]) /\ work[u].step \in Steps
    BY DEF IInv, TypeOK
  <2> QED BY <1>1, <2>1 DEF WorkSound, Steps, Torn, Idle
<1> QED BY <1>1, <1>2

LEMMA FreeCounts ==
  ASSUME IInv, NEW b \in free
  PROVE  /\ Cardinality(Refs(b)) = 0 /\ Cardinality(Holders(b)) = 0
         /\ Cardinality({b} \cap kept) = 0 /\ Cardinality(Late(b)) = 0
<1>1. Refs(b) = {} /\ Holders(b) = {} /\ {b} \cap kept = {} /\ Late(b) = {}
  BY FreeFacts DEF Refs, Holders, Late
<1> QED BY <1>1, FS_EmptySet, Zenon

\* The count of an object that can die, in full.
LEMMA MortalCount ==
  ASSUME IInv, NEW o \in Blocks \ free, heap[o].class.mortal
  PROVE  /\ heap[o].count = Cardinality(Refs(o)) + Cardinality(Holders(o))
                              + Cardinality({o} \cap kept)
         /\ Cardinality(Refs(o)) \in Nat /\ Cardinality(Holders(o)) \in Nat
         /\ Refs(o) # {} => Cardinality(Refs(o)) > 0
         /\ Holders(o) # {} => Cardinality(Holders(o)) > 0
         /\ Cardinality({o} \cap kept) = IF o \in kept THEN 1 ELSE 0
         /\ heap[o].count \in Nat
         /\ Late(o) = {} /\ Cardinality(Late(o)) = 0
<1>1. /\ IsFiniteSet(Refs(o)) /\ IsFiniteSet(Holders(o))
  <2>1. Refs(o) \in SUBSET Ptrs /\ Holders(o) \in SUBSET Blocks
    BY DEF Refs, Holders
  <2> QED BY <2>1, FS_Subset, ComAssumption
<1>2. /\ Cardinality(Refs(o)) \in Nat /\ Cardinality(Holders(o)) \in Nat
      /\ Refs(o) # {} => Cardinality(Refs(o)) > 0
      /\ Holders(o) # {} => Cardinality(Holders(o)) > 0
  BY <1>1, FS_CardinalityType, FS_EmptySet
<1>3. Cardinality({o} \cap kept) = IF o \in kept THEN 1 ELSE 0
  BY KeptCounts
<1>4. Late(o) = {}
  BY DEF Late, IInv, WorkSound
<1>5. Cardinality(Late(o)) = 0
  BY <1>4, FS_EmptySet
<1>6. Surplus(o) = 0 /\ heap[o].count \in Int
  BY DEF IInv, Balance, TypeOK
<1>7. heap[o].count - Cardinality(Refs(o)) - Cardinality(Holders(o))
        - Cardinality({o} \cap kept) - Cardinality(Late(o)) = 0
  BY <1>6 DEF Surplus
<1> QED BY <1>2, <1>3, <1>4, <1>5, <1>6, <1>7

\* Nothing refers to an object that is torn down.
LEMMA TornAlone ==
  ASSUME IInv, NEW o, Torn(o)
  PROVE  /\ \A p \in Ptrs : ptr[p] # o
         /\ \A y \in Blocks : heap[y].child # o
         /\ o \notin kept /\ o # radmin /\ o # NIL /\ o \in Blocks \ free
         /\ \A u \in Threads : ~(work[u].step = "drop" /\ work[u].obj = o)
<1>1. o \in Blocks \ free /\ heap[o].class.mortal /\ heap[o].count = 0
  BY DEF Torn
<1>2. Refs(o) = {} /\ Holders(o) = {} /\ Late(o) = {} /\ o \notin kept
  <2>1. 0 = Cardinality(Refs(o)) + Cardinality(Holders(o))
              + (IF o \in kept THEN 1 ELSE 0)
    BY <1>1, MortalCount
  <2>2. /\ Cardinality(Refs(o)) \in Nat /\ Cardinality(Holders(o)) \in Nat
        /\ Refs(o) # {} => Cardinality(Refs(o)) > 0
        /\ Holders(o) # {} => Cardinality(Holders(o)) > 0
        /\ Late(o) = {}
    BY <1>1, MortalCount
  <2> QED BY <2>1, <2>2
<1>3. o # NIL
  BY <1>1, ComAssumption
<1> QED BY <1>1, <1>2, <1>3 DEF Refs, Holders, Late, IInv, Live

\* A thread's place stays sound when what it relies on stays.
LEMMA WorkStays ==
  ASSUME NEW u \in Threads, work[u] \in Works, WorkSound(work[u]),
         work'[u] = work[u],
         \A x \in Blocks \ free : heap'[x].class = heap[x].class,
         kept \in SUBSET kept',
         work[u].step = "next" =>
           /\ ptr'[work[u].via] = ptr[work[u].via]
           /\ heap'[work[u].obj].returned = heap[work[u].obj].returned,
         work[u].step \in {"child", "free"} =>
           /\ heap'[work[u].obj].count = heap[work[u].obj].count
           /\ work[u].step = "free" =>
                heap'[work[u].obj].child = heap[work[u].obj].child,
         work[u].outer # NIL =>
           /\ heap'[work[u].outer].count = heap[work[u].outer].count
           /\ heap'[work[u].outer].child = heap[work[u].outer].child
  PROVE  WorkSound(work[u])'
<1>1. \A x \in Blocks \ free : x \notin free'
  BY DEF free
<1> QED BY <1>1 DEF WorkSound, Torn, Works

\* A step that begins and ends no teardown and no call of Next.
LEMMA QuietStep ==
  ASSUME NEW t \in Threads, \A u \in Threads \ {t} : work'[u] = work[u],
         \/ work'[t] = work[t]
         \/ /\ work[t].step \notin {"child", "free", "next", "drop"}
            /\ work'[t].step \notin {"child", "free", "next", "drop"}
            /\ work[t].outer = NIL /\ work'[t].outer = NIL
  PROVE  /\ \A o \in Blocks, u \in Threads : Tears(u, o)' <=> Tears(u, o)
         /\ \A o \in Blocks : Nexts(o)' = Nexts(o)
<1>1. \A o \in Blocks, u \in Threads : Tears(u, o)' <=> Tears(u, o)
  BY ComAssumption DEF Tears
<1>2. \A o \in Blocks : Nexts(o)' = Nexts(o)
  BY DEF Nexts
<1> QED BY <1>1, <1>2

LEMMA ExclusiveStays ==
  ASSUME IInv, \A o \in Blocks, u \in Threads : Tears(u, o)' <=> Tears(u, o),
         \A o \in Blocks : Nexts(o)' = Nexts(o),
         \A o \in Blocks : Torn(o)' => Torn(o)
  PROVE  Exclusive'
<1>1. \A o \in Blocks : Torn(o)' => \E u \in Threads : Tears(u, o)'
  BY DEF IInv, Exclusive
<1>2. \A o \in Blocks, u, v \in Threads : Tears(u, o)' /\ Tears(v, o)' => u = v
  BY DEF IInv, Exclusive
<1>3. \A o \in Blocks, u, v \in Threads :
        u \in Nexts(o)' /\ v \in Nexts(o)' => u = v
  BY DEF IInv, Exclusive
<1> QED BY <1>1, <1>2, <1>3 DEF Exclusive

-----------------------------------------------------------------------------
(* The steps, by what they do to the objects                               *)

\* A new object in a pointer.
LEMMA CreateKeeps ==
  ASSUME IInv, TypeOK', NEW t \in Threads, NEW p \in Ptrs, NEW b \in Blocks,
         NEW c \in Classes \ {Unused}, NEW k \in Null,
         k \notin free, k # NIL => heap[k].child = NIL /\ ~Torn(k),
         Create(p, b, c, k), UNCHANGED <<radmin, kept>>,
         \A u \in Threads \ {t} : work'[u] = work[u],
         \/ work'[t] = work[t]
         \/ work[t].step \in {"idle", "collect"} /\ work'[t] = Idle
         \/ /\ work[t].step = "idle"
            /\ work'[t] = Within("patch", b, p) /\ ~c.mortal
  PROVE  IInv'
<1>1. /\ \A x \in Blocks : x # b /\ x # k => heap'[x] = heap[x]
      /\ heap'[b].class = c /\ heap'[b].count = 1 /\ heap'[b].child = k
      /\ heap'[b].returned = FALSE
      /\ k # b
  BY DEF Create, Object
<1>2. ASSUME k # NIL
      PROVE  /\ heap'[k].class = heap[k].class
             /\ heap'[k].child = heap[k].child
             /\ heap'[k].returned = heap[k].returned
             /\ heap'[k].count = heap[k].count + 1
  <2>1. heap[k] \in Objects /\ heap'[k] = [heap[k] EXCEPT !.count = @ + 1]
    BY <1>2, <1>1 DEF IInv, TypeOK, Objects, Create, Null
  <2> QED BY <2>1 DEF Objects
<1>3. free' = free \ {b} /\ b \in free
  BY <1>1, <1>2 DEF free, Create, Null
<1>4. /\ ptr[p] = NIL /\ ptr'[p] = b
      /\ \A q \in Ptrs \ {p} : ptr'[q] = ptr[q]
  BY DEF Create, IInv, TypeOK
<1>5. \/ work'[t] = work[t]
      \/ /\ work[t].step \in {"idle", "collect"} /\ work[t].outer = NIL
         /\ work'[t].step \in {"idle", "patch"} /\ work'[t].outer = NIL
  BY DEF Idle, Within, IInv, WorkSound
<1>6. /\ \A x \in Blocks \ {b} : heap'[x].class = heap[x].class
                              /\ heap'[x].child = heap[x].child
                              /\ heap'[x].returned = heap[x].returned
      /\ b # NIL
  BY <1>1, <1>2, ComAssumption DEF Null
<1>7. Balance'
  <2> SUFFICES ASSUME NEW x \in Blocks, x \notin free'
               PROVE  /\ Surplus(x)' >= 0
                      /\ heap'[x].class.mortal => Surplus(x)' = 0
    BY DEF Balance
  <2>1. /\ Surplus(x) \in Int /\ heap[x].count \in Int /\ heap'[x].count \in Int
        /\ Surplus(x)' = Surplus(x) + (heap'[x].count - heap[x].count)
              - (IF b = x THEN 1 ELSE 0)
              - (IF k = x THEN 1 ELSE 0)
    <3>1. TypeOK
      BY DEF IInv
    <3>2. \A y \in Blocks \ {b} : heap'[y].child = heap[y].child
      BY <1>6
    <3>3. \A q \in Ptrs \ {p} : ptr'[q] = ptr[q]
      BY <1>4
    <3>4. /\ Surplus(x) \in Int /\ heap[x].count \in Int /\ heap'[x].count \in Int
          /\ Surplus(x)' = Surplus(x) + (heap'[x].count - heap[x].count)
              - (IF p \in Ptrs /\ ptr'[p] = x THEN 1 ELSE 0)
              + (IF p \in Ptrs /\ ptr[p] = x THEN 1 ELSE 0)
              - (IF b \in Blocks /\ heap'[b].child = x THEN 1 ELSE 0)
              + (IF b \in Blocks /\ heap[b].child = x THEN 1 ELSE 0)
              - (IF x \in kept' THEN 1 ELSE 0) + (IF x \in kept THEN 1 ELSE 0)
              - (IF work'[t].step = "drop" /\ work'[t].obj = x THEN 1 ELSE 0)
              + (IF work[t].step = "drop" /\ work[t].obj = x THEN 1 ELSE 0)
      BY <3>1, <3>2, <3>3, SurplusMoves
    <3>5. heap[b].child = NIL /\ x # NIL
      BY <1>3, FreeFacts, ComAssumption
    <3> QED BY <1>1, <1>4, <1>5, <3>4, <3>5
  <2>2. CASE x = b
    <3>0. x \in free
      BY <2>2, <1>3
    <3>1. Surplus(x) = heap[x].count
      BY <2>1, <3>0, FreeCounts DEF Surplus
    <3>2. Surplus(x)' = 0
      BY <1>1, <2>1, <2>2, <3>1
    <3> QED BY <3>2
  <2>3. CASE x # b
    <3>1. x \notin free /\ heap'[x].class = heap[x].class
      BY <1>3, <1>6, <2>3
    <3>2. /\ Surplus(x) >= 0
          /\ heap[x].class.mortal => Surplus(x) = 0
      BY <3>1 DEF IInv, Balance
    <3>3. Surplus(x)' = Surplus(x)
      BY <1>1, <1>2, <2>1, <2>3, ComAssumption DEF Null
    <3> HIDE DEF Surplus
    <3> QED BY <3>1, <3>2, <3>3
  <2> QED BY <2>2, <2>3
<1>8. Live'
  BY <1>1, <1>3, <1>4, <1>6, FreeFacts DEF IInv, Live, Null, TypeOK
<1>9. ASSUME NEW u \in Threads
      PROVE  WorkSound(work[u])'
  <2>1. WorkSound(work[u]) /\ work[u] \in Works
    BY DEF IInv, TypeOK, Works
  <2>2. CASE work'[u] = work[u]
    <3>1. \A o \in Blocks \ free : Torn(o) => /\ heap'[o].count = heap[o].count
                                             /\ heap'[o].child = heap[o].child
      BY <1>1, <1>3, <1>6, ComAssumption
    <3>2. work[u].step = "next" =>
             /\ ptr'[work[u].via] = ptr[work[u].via]
             /\ heap'[work[u].obj].returned = heap[work[u].obj].returned
      BY <1>3, <1>4, <1>6, <2>1, FreeFacts, ComAssumption DEF WorkSound, Works
    <3> QED BY <1>3, <1>6, <2>1, <2>2, <3>1, <3>2, WorkStays
            DEF WorkSound, Torn
  <2>3. CASE work'[u] # work[u]
    BY <1>1, <1>3, <2>3 DEF WorkSound, Idle, Within
  <2> QED BY <2>2, <2>3
<1>10. /\ \A o \in Blocks, u \in Threads : Tears(u, o)' <=> Tears(u, o)
       /\ \A o \in Blocks : Nexts(o)' = Nexts(o)
  BY <1>5, QuietStep
<1>11. \A o \in Blocks : Torn(o)' => Torn(o)
  <2> SUFFICES ASSUME NEW o \in Blocks, Torn(o)' PROVE Torn(o)
    OBVIOUS
  <2>1. o # b
    BY <1>1 DEF Torn
  <2>2. heap'[o].class = heap[o].class /\ o \notin free
    BY <1>3, <1>6, <2>1 DEF Torn
  <2>3. CASE o = k
    <3>1. heap[o].count \in Nat
      BY <2>2, MortalCount DEF Torn
    <3> QED BY <1>2, <2>3, <3>1, ComAssumption DEF Torn
  <2>4. CASE o # k
    BY <1>1, <2>1, <2>2, <2>4 DEF Torn
  <2> QED BY <2>3, <2>4
<1>12. Exclusive'
  BY <1>10, <1>11, ExclusiveStays
<1>13. Gives'
  <2> SUFFICES ASSUME NEW o \in Blocks, o \notin free', heap'[o].class.once
               PROVE  given'[o] = IF heap'[o].returned \/ Nexts(o)' # {}
                                  THEN 1 ELSE 0
    BY DEF Gives
  <2>1. Nexts(o)' = Nexts(o)
    BY <1>10
  <2>2. o = b => Nexts(o) = {} /\ given'[o] = 0
    BY <1>3, FreeFacts DEF Nexts, Create, IInv, TypeOK
  <2>3. o # b => given'[o] = given[o] /\ o \notin free
    BY <1>3 DEF Create, IInv, TypeOK
  <2> QED BY <1>1, <1>6, <2>1, <2>2, <2>3 DEF IInv, Gives
<1> QED BY <1>7, <1>8, <1>9, <1>12, <1>13 DEF IInv

\* A new object that a second new one, an enumerator in a pointer, holds.
Pair(p, b, e, c, d) ==
  /\ ptr[p] = NIL /\ ptr' = [ptr EXCEPT ![p] = e]
  /\ heap' = [heap EXCEPT ![b] = Object(c, NIL), ![e] = Object(d, b)]
  /\ given' = [given EXCEPT ![e] = 0]

LEMMA PairKeeps ==
  ASSUME IInv, TypeOK', NEW p \in Ptrs, NEW b \in free, NEW e \in free \ {b},
         NEW t \in Threads,
         NEW c \in Classes \ {Unused}, NEW d \in Classes \ {Unused},
         ~c.once, Pair(p, b, e, c, d), UNCHANGED <<radmin, work, kept>>
  PROVE  IInv'
<1>1. /\ \A x \in Blocks \ {b, e} : heap'[x] = heap[x]
      /\ heap'[e].class = d /\ heap'[e].count = 1 /\ heap'[e].child = b
      /\ heap'[e].returned = FALSE
      /\ heap'[b].class = c /\ heap'[b].count = 1 /\ heap'[b].child = NIL
      /\ heap'[b].returned = FALSE
      /\ b \in Blocks /\ e \in Blocks /\ b # e /\ b # NIL /\ e # NIL
  BY ComAssumption DEF Pair, IInv, TypeOK, Object, free
<1>2. free' = free \ {b, e}
  BY <1>1 DEF free
<1>3. /\ ptr[p] = NIL /\ ptr'[p] = e
      /\ \A q \in Ptrs \ {p} : ptr'[q] = ptr[q]
  BY DEF Pair, IInv, TypeOK
<1>4. Balance'
  <2> SUFFICES ASSUME NEW x \in Blocks, x \notin free'
               PROVE  /\ Surplus(x)' >= 0
                      /\ heap'[x].class.mortal => Surplus(x)' = 0
    BY DEF Balance
  <2>1. /\ Surplus(x) \in Int /\ heap[x].count \in Int /\ heap'[x].count \in Int
        /\ Surplus(x)' = Surplus(x) + (heap'[x].count - heap[x].count)
              - (IF e = x THEN 1 ELSE 0)
              - (IF b = x THEN 1 ELSE 0)
    <3>1. TypeOK
      BY DEF IInv
    <3>2. heap[b].child = NIL /\ heap[e].child = NIL /\ x # NIL
      BY FreeFacts, ComAssumption
    <3>3. \A y \in Blocks \ {e} : heap'[y].child = heap[y].child
      BY <1>1, <3>2
    <3>5. \A u \in Threads \ {t} : work'[u] = work[u]
      OBVIOUS
    <3>4. /\ Surplus(x) \in Int /\ heap[x].count \in Int /\ heap'[x].count \in Int
          /\ Surplus(x)' = Surplus(x) + (heap'[x].count - heap[x].count)
              - (IF p \in Ptrs /\ ptr'[p] = x THEN 1 ELSE 0)
              + (IF p \in Ptrs /\ ptr[p] = x THEN 1 ELSE 0)
              - (IF e \in Blocks /\ heap'[e].child = x THEN 1 ELSE 0)
              + (IF e \in Blocks /\ heap[e].child = x THEN 1 ELSE 0)
              - (IF x \in kept' THEN 1 ELSE 0) + (IF x \in kept THEN 1 ELSE 0)
              - (IF work'[t].step = "drop" /\ work'[t].obj = x THEN 1 ELSE 0)
              + (IF work[t].step = "drop" /\ work[t].obj = x THEN 1 ELSE 0)
      BY <3>1, <3>3, <3>5, <1>3, SurplusMoves
    <3> QED BY <1>1, <1>3, <3>2, <3>4
  <2>3. CASE x \in {b, e}
    <3>1. x \in free
      BY <2>3
    <3>2. Surplus(x) = heap[x].count /\ Cardinality(Late(x)) = 0
      BY <2>1, <3>1, FreeCounts DEF Surplus
    <3>3. heap'[x].count = 1 /\ Surplus(x)' = 0
      BY <1>1, <2>1, <2>3, <3>2
    <3> QED BY <3>3
  <2>4. CASE x \notin {b, e}
    <3>1. x \notin free /\ heap'[x] = heap[x]
      BY <1>1, <1>2, <2>4
    <3>2. Surplus(x)' = Surplus(x)
      BY <2>1, <2>4, <3>1
    <3> QED BY <3>1, <3>2 DEF IInv, Balance
  <2> QED BY <2>3, <2>4
<1>5. Live'
  <2>1. \A q \in Ptrs : ptr'[q] \notin free'
    BY <1>2, <1>3 DEF IInv, Live
  <2>2. ASSUME NEW x \in Blocks
        PROVE  /\ heap'[x].child \notin free'
               /\ heap'[x].child # NIL => /\ x \notin free'
                                          /\ heap'[heap'[x].child].child = NIL
    <3>1. CASE x \in {b, e}
      BY <1>1, <1>2, <3>1, ComAssumption DEF free
    <3>2. CASE x \notin {b, e}
      <4>1. heap'[x] = heap[x] /\ heap[x].child \notin {b, e}
        BY <1>1, <3>2, FreeFacts
      <4>2. heap[x].child # NIL => heap[x].child \in Blocks
        BY DEF IInv, TypeOK, Null
      <4>3. heap[x].child # NIL =>
              heap'[heap[x].child] = heap[heap[x].child]
        BY <1>1, <4>1, <4>2
      <4> QED BY <1>2, <4>1, <4>3 DEF IInv, Live
    <3> QED BY <3>1, <3>2
  <2>3. \A o \in kept' : o \notin free' /\ heap'[o].child = NIL
    BY <1>1, <1>2 DEF IInv, Live, TypeOK
  <2> QED BY <2>1, <2>2, <2>3 DEF IInv, Live
<1>6. ASSUME NEW u \in Threads
      PROVE  WorkSound(work[u])'
  <2>1. WorkSound(work[u]) /\ work[u] \in Works /\ work'[u] = work[u]
    BY DEF IInv, TypeOK, Works
  <2>2. work[u].step = "next" => ptr'[work[u].via] = ptr[work[u].via]
                                 /\ work[u].obj \notin free
    BY <1>3, <2>1, FreeFacts, ComAssumption DEF WorkSound
  <2>3. \A x \in Blocks \ free : heap'[x] = heap[x]
    BY <1>1
  <2> QED BY <2>1, <2>2, <2>3, WorkStays DEF WorkSound, Torn
<1>7. Exclusive'
  <2>1. \A o \in Blocks : Torn(o)' => Torn(o)
    BY <1>1, <1>2 DEF Torn
  <2> QED BY <2>1, QuietStep, ExclusiveStays
<1>8. Gives'
  <2> SUFFICES ASSUME NEW o \in Blocks, o \notin free', heap'[o].class.once
               PROVE  given'[o] = IF heap'[o].returned \/ Nexts(o)' # {}
                                  THEN 1 ELSE 0
    BY DEF Gives
  <2>1. Nexts(o)' = Nexts(o)
    BY DEF Nexts
  <2>2. o # b
    BY <1>1
  <2>3. CASE o = e
    BY <1>1, <2>1, <2>3, FreeFacts DEF Pair, Nexts, IInv, TypeOK
  <2>4. CASE o # e
    BY <1>1, <1>2, <2>1, <2>2, <2>4 DEF Pair, IInv, Gives, TypeOK
  <2> QED BY <2>3, <2>4
<1> QED BY <1>4, <1>5, <1>6, <1>7, <1>8 DEF IInv

\* A new object in no pointer: one that stays for ever, or the connection that
\* g_FakeRadminConnection is going to keep.
Orphan(b, c) ==
  /\ heap' = [heap EXCEPT ![b] = Object(c, NIL)]
  /\ kept' = IF c.mortal THEN kept \cup {b} ELSE kept

LEMMA OrphanKeeps ==
  ASSUME IInv, TypeOK', NEW b \in free, NEW t \in Threads, NEW m \in Ptrs,
         NEW c \in Classes \ {Unused}, ~c.once, Orphan(b, c),
         UNCHANGED <<ptr, radmin, given>>,
         \A u \in Threads \ {t} : work'[u] = work[u],
         \/ work'[t] = work[t]
         \/ /\ work[t].step = "idle" /\ c.mortal
            /\ work'[t] = Within("publish", b, m)
  PROVE  IInv'
<1>1. /\ \A x \in Blocks \ {b} : heap'[x] = heap[x]
      /\ heap'[b].class = c /\ heap'[b].count = 1 /\ heap'[b].child = NIL
      /\ heap'[b].returned = FALSE
      /\ b \in Blocks /\ b # NIL
  BY ComAssumption DEF Orphan, IInv, TypeOK, Object, free
<1>2. free' = free \ {b}
  BY <1>1 DEF free
<1>3. kept' = IF c.mortal THEN kept \cup {b} ELSE kept
  BY DEF Orphan
<1>4. \/ work'[t] = work[t]
      \/ /\ work[t].step = "idle" /\ work[t].outer = NIL
         /\ work'[t].step = "publish" /\ work'[t].outer = NIL
  BY DEF Idle, Within, IInv, WorkSound
<1>5. \A x \in Blocks : heap'[x].child = heap[x].child
  BY <1>1, FreeFacts
<1>6. Balance'
  <2> SUFFICES ASSUME NEW x \in Blocks, x \notin free'
               PROVE  /\ Surplus(x)' >= 0
                      /\ heap'[x].class.mortal => Surplus(x)' = 0
    BY DEF Balance
  <2>1. /\ Surplus(x) \in Int /\ heap[x].count \in Int /\ heap'[x].count \in Int
        /\ Surplus(x)' = Surplus(x) + (heap'[x].count - heap[x].count)
              - (IF x \in kept' THEN 1 ELSE 0) + (IF x \in kept THEN 1 ELSE 0)
    <3>1. TypeOK
      BY DEF IInv
    <3>2. \A y \in Blocks \ {b} : heap'[y].child = heap[y].child
      BY <1>5
    <3>3. \A q \in Ptrs \ {m} : ptr'[q] = ptr[q]
      OBVIOUS
    <3>4. /\ Surplus(x) \in Int /\ heap[x].count \in Int /\ heap'[x].count \in Int
          /\ Surplus(x)' = Surplus(x) + (heap'[x].count - heap[x].count)
              - (IF m \in Ptrs /\ ptr'[m] = x THEN 1 ELSE 0)
              + (IF m \in Ptrs /\ ptr[m] = x THEN 1 ELSE 0)
              - (IF b \in Blocks /\ heap'[b].child = x THEN 1 ELSE 0)
              + (IF b \in Blocks /\ heap[b].child = x THEN 1 ELSE 0)
              - (IF x \in kept' THEN 1 ELSE 0) + (IF x \in kept THEN 1 ELSE 0)
              - (IF work'[t].step = "drop" /\ work'[t].obj = x THEN 1 ELSE 0)
              + (IF work[t].step = "drop" /\ work[t].obj = x THEN 1 ELSE 0)
      BY <3>1, <3>2, <3>3, SurplusMoves
    <3> QED BY <1>1, <1>4, <1>5, <3>4
  <2>3. CASE x = b
    <3>1. x \in free
      BY <2>3
    <3>2. Surplus(x) = heap[x].count /\ Cardinality(Late(x)) = 0
      BY <2>1, <3>1, FreeCounts DEF Surplus
    <3>3. /\ heap'[x].count = 1 /\ Surplus(x)' \in {0, 1}
          /\ heap'[x].class.mortal => Surplus(x)' = 0
      BY <1>1, <1>3, <2>1, <2>3, <3>2, FreeFacts
    <3> QED BY <3>3
  <2>4. CASE x # b
    <3>1. x \notin free /\ heap'[x] = heap[x]
      BY <1>1, <1>2, <2>4
    <3>2. Surplus(x)' = Surplus(x)
      BY <1>3, <2>1, <2>4, <3>1
    <3> QED BY <3>1, <3>2 DEF IInv, Balance
  <2> QED BY <2>3, <2>4
<1>7. Live'
  <2>1. \A x \in Blocks : heap'[x].child \notin free'
    BY <1>2, <1>5 DEF IInv, Live
  <2>2. ASSUME NEW x \in Blocks, heap'[x].child # NIL
        PROVE  x \notin free' /\ heap'[heap'[x].child].child = NIL
    BY <1>2, <1>5, <2>2 DEF IInv, Live, TypeOK, Null
  <2>3. \A o \in kept' : o \notin free' /\ heap'[o].child = NIL
    BY <1>1, <1>2, <1>3, <1>5 DEF IInv, Live, TypeOK
  <2> QED BY <1>2, <1>3, <2>1, <2>2, <2>3 DEF IInv, Live
<1>8. ASSUME NEW u \in Threads
      PROVE  WorkSound(work[u])'
  <2>1. WorkSound(work[u]) /\ work[u] \in Works
    BY DEF IInv, TypeOK, Works
  <2>2. CASE work'[u] = work[u]
    <3>1. work[u].step = "next" => work[u].obj \in Blocks \ free
      BY <2>1, FreeFacts DEF WorkSound
    <3>2. \A x \in Blocks \ free : heap'[x] = heap[x]
      BY <1>1
    <3> QED BY <1>3, <2>1, <2>2, <3>1, <3>2, WorkStays DEF WorkSound, Torn
  <2>3. CASE work'[u] # work[u]
    BY <1>3, <2>3 DEF WorkSound, Within
  <2> QED BY <2>2, <2>3
<1>9. Exclusive'
  <2>1. \A o \in Blocks : Torn(o)' => Torn(o)
    BY <1>1, <1>2 DEF Torn
  <2> QED BY <1>4, <2>1, QuietStep, ExclusiveStays
<1>10. Gives'
  <2> SUFFICES ASSUME NEW o \in Blocks, o \notin free', heap'[o].class.once
               PROVE  given'[o] = IF heap'[o].returned \/ Nexts(o)' # {}
                                  THEN 1 ELSE 0
    BY DEF Gives
  <2>1. Nexts(o)' = Nexts(o)
    BY <1>4 DEF Nexts
  <2>2. o # b
    BY <1>1
  <2> QED BY <1>1, <1>2, <2>1, <2>2 DEF IInv, Gives
<1> QED BY <1>6, <1>7, <1>8, <1>9, <1>10 DEF IInv

\* A second pointer to an object in use.
LEMMA ShareCounts ==
  ASSUME IInv, TypeOK', NEW t \in Threads, NEW p \in Ptrs, NEW o \in Null \ free,
         Share(p, o), UNCHANGED <<radmin, kept>>,
         \A u \in Threads \ {t} : work'[u] = work[u],
         work[t].step # "drop", work'[t].step # "drop"
  PROVE  /\ Balance' /\ Live' /\ free' = free
         /\ ptr[p] = NIL /\ ptr'[p] = o /\ \A q \in Ptrs \ {p} : ptr'[q] = ptr[q]
         /\ \A x \in Blocks :
              /\ heap'[x].class = heap[x].class
              /\ heap'[x].child = heap[x].child
              /\ heap'[x].returned = heap[x].returned
              /\ heap'[x].count = heap[x].count + (IF x = o THEN 1 ELSE 0)
<1>1. \A x \in Blocks :
              /\ heap'[x].class = heap[x].class
              /\ heap'[x].child = heap[x].child
              /\ heap'[x].returned = heap[x].returned
              /\ heap'[x].count = heap[x].count + (IF x = o THEN 1 ELSE 0)
  BY DEF Share, IInv, TypeOK
<1>2. free' = free
  BY <1>1 DEF free
<1>3. ptr[p] = NIL /\ ptr'[p] = o /\ \A q \in Ptrs \ {p} : ptr'[q] = ptr[q]
  BY DEF Share, IInv, TypeOK
<1>4. Balance'
  <2> SUFFICES ASSUME NEW x \in Blocks, x \notin free'
               PROVE  /\ Surplus(x)' >= 0
                      /\ heap'[x].class.mortal => Surplus(x)' = 0
    BY DEF Balance
  <2>1. TypeOK
    BY DEF IInv
  <2>2. \A y \in Blocks \ {x} : heap'[y].child = heap[y].child
    BY <1>1
  <2>3. /\ Surplus(x) \in Int /\ heap[x].count \in Int /\ heap'[x].count \in Int
        /\ Surplus(x)' = Surplus(x) + (heap'[x].count - heap[x].count)
            - (IF p \in Ptrs /\ ptr'[p] = x THEN 1 ELSE 0)
            + (IF p \in Ptrs /\ ptr[p] = x THEN 1 ELSE 0)
            - (IF x \in Blocks /\ heap'[x].child = x THEN 1 ELSE 0)
            + (IF x \in Blocks /\ heap[x].child = x THEN 1 ELSE 0)
            - (IF x \in kept' THEN 1 ELSE 0) + (IF x \in kept THEN 1 ELSE 0)
            - (IF work'[t].step = "drop" /\ work'[t].obj = x THEN 1 ELSE 0)
            + (IF work[t].step = "drop" /\ work[t].obj = x THEN 1 ELSE 0)
    BY <2>1, <2>2, <1>3, SurplusMoves
  <2>4. x # NIL
    BY ComAssumption
  <2>5. Surplus(x)' = Surplus(x)
    BY <1>1, <1>3, <2>3, <2>4
  <2>6. /\ Surplus(x) >= 0
        /\ heap[x].class.mortal => Surplus(x) = 0
    BY <1>2 DEF IInv, Balance
  <2>7. heap'[x].class = heap[x].class
    BY <1>1
  <2> QED BY <2>5, <2>6, <2>7
<1>5. Live'
  <2>1. \A x \in Blocks :
          /\ heap'[x].child \notin free'
          /\ heap'[x].child # NIL =>
               x \notin free' /\ heap'[heap'[x].child].child = NIL
    BY <1>1, <1>2 DEF IInv, Live, TypeOK, Null
  <2>2. \A x \in kept' : x \notin free' /\ heap'[x].child = NIL
    BY <1>1, <1>2 DEF IInv, Live, TypeOK
  <2> QED BY <1>2, <1>3, <2>1, <2>2 DEF IInv, Live
<1> QED BY <1>1, <1>2, <1>3, <1>4, <1>5

LEMMA ShareKeeps ==
  ASSUME IInv, TypeOK', NEW t \in Threads, NEW p \in Ptrs, NEW o \in Null \ free,
         o # NIL => ~Torn(o), Ready(t),
         Share(p, o), UNCHANGED <<radmin, work, kept, given>>
  PROVE  IInv'
<1>1. work[t].step = "idle"
  BY DEF Ready, Idle
<1>2. /\ Balance' /\ Live' /\ free' = free
      /\ ptr[p] = NIL /\ ptr'[p] = o /\ \A q \in Ptrs \ {p} : ptr'[q] = ptr[q]
      /\ \A x \in Blocks :
           /\ heap'[x].class = heap[x].class
           /\ heap'[x].child = heap[x].child
           /\ heap'[x].returned = heap[x].returned
           /\ heap'[x].count = heap[x].count + (IF x = o THEN 1 ELSE 0)
  BY <1>1, ShareCounts
<1>3. \A x \in Blocks : Torn(x) => heap'[x].count = heap[x].count
  BY <1>2, ComAssumption DEF IInv, TypeOK
<1>4. ASSUME NEW u \in Threads
      PROVE  WorkSound(work[u])'
  <2>1. WorkSound(work[u]) /\ work[u] \in Works /\ work'[u] = work[u]
    BY DEF IInv, TypeOK, Works
  <2>2. work[u].step = "next" => ptr'[work[u].via] = ptr[work[u].via]
    BY <1>2, <2>1, ComAssumption DEF WorkSound
  <2>3. work[u].step = "next" => work[u].obj \in Blocks
    BY <2>1 DEF WorkSound
  <2> QED BY <1>2, <1>3, <2>1, <2>2, <2>3, WorkStays DEF WorkSound, Torn
<1>5. \A x \in Blocks : Torn(x)' => Torn(x)
  <2> SUFFICES ASSUME NEW x \in Blocks, Torn(x)' PROVE Torn(x)
    OBVIOUS
  <2>1. heap'[x].class.mortal /\ heap'[x].count = 0 /\ x \notin free
    BY <1>2 DEF Torn
  <2>2. heap[x].class.mortal /\ heap[x].count \in Nat
    BY <1>2, <2>1, MortalCount
  <2> QED BY <1>2, <2>1, <2>2 DEF Torn
<1>6. Exclusive'
  BY <1>5, QuietStep, ExclusiveStays
<1>7. \A x \in Blocks : Nexts(x)' = Nexts(x)
  BY QuietStep
<1>8. Gives'
  BY <1>2, <1>7 DEF IInv, Gives
<1> QED BY <1>2, <1>4, <1>6, <1>8 DEF IInv

\* A step that changes neither objects nor pointers.
LEMMA WorkKeeps ==
  ASSUME IInv, TypeOK', NEW t \in Threads, NEW w \in Works,
         UNCHANGED <<heap, ptr, kept, given>>, radmin' \in kept \cup {NIL},
         work' = [work EXCEPT ![t] = w],
         WorkSound(w), w.outer = NIL, work[t].outer = NIL,
         w.step \notin {"child", "free", "next", "drop"},
         work[t].step \notin {"child", "free", "next", "drop"}
  PROVE  IInv'
<1>1. work'[t] = w /\ \A u \in Threads \ {t} : work'[u] = work[u]
  BY DEF IInv, TypeOK
<1>2. /\ \A o \in Blocks, u \in Threads : Tears(u, o)' <=> Tears(u, o)
      /\ \A o \in Blocks : Nexts(o)' = Nexts(o)
  BY <1>1, QuietStep
<1>3. free' = free
  BY DEF free
<1>4. \A o : (Torn(o)' <=> Torn(o))
  BY <1>3 DEF Torn
<1>5. \A o : Refs(o)' = Refs(o) /\ Holders(o)' = Holders(o)
  BY DEF Refs, Holders
<1>6. \A o : Late(o)' = Late(o)
  BY <1>1 DEF Late
<1>7. Balance'
  BY <1>3, <1>5, <1>6 DEF IInv, Balance, Surplus
<1>8. Live'
  BY <1>3 DEF IInv, Live
<1>9. ASSUME NEW u \in Threads
      PROVE  WorkSound(work[u])'
  <2>1. WorkSound(work'[u])
    BY <1>1 DEF IInv
  <2> QED BY <1>3, <1>4, <2>1 DEF WorkSound
<1>10. Exclusive'
  BY <1>2, <1>4, ExclusiveStays
<1>11. Gives'
  BY <1>2, <1>3 DEF IInv, Gives
<1> QED BY <1>7, <1>8, <1>9, <1>10, <1>11 DEF IInv

LEMMA NextObjectKeeps ==
  ASSUME IInv, TypeOK', NEW t \in Threads, NEW e \in Ptrs, NEW p \in Ptrs,
         NextObject(t, e, p)
  PROVE  IInv'
<1> DEFINE o == ptr[e]
           k == heap[o].child
<1>1. /\ o \in Blocks \ free /\ work[t] = Idle /\ ~heap[o].returned
      /\ k \in Null \ free
      /\ \A u \in Threads : work[u].step = "next" => work[u].obj # o
  BY DEF NextObject, Call, Ready, Alone, IInv, Live, TypeOK, Null
<1>2. k # NIL => ~Torn(k)
  BY <1>1, TornAlone
<1>3. Share(p, k) /\ UNCHANGED <<radmin, kept>>
  BY DEF NextObject
<1>4. /\ work'[t] = Within("next", o, e)
      /\ \A u \in Threads \ {t} : work'[u] = work[u]
      /\ given'[o] = given[o] + 1
      /\ \A x \in Blocks \ {o} : given'[x] = given[x]
  BY <1>1 DEF NextObject, IInv, TypeOK
<1>5. work[t].step = "idle" /\ work[t].outer = NIL
      /\ work'[t] = [step |-> "next", obj |-> o, outer |-> NIL, via |-> e]
  BY <1>1, <1>4 DEF Idle, Within
<1> HIDE DEF k, o
<1>6. /\ Balance' /\ Live' /\ free' = free
      /\ ptr[p] = NIL /\ ptr'[p] = k /\ \A q \in Ptrs \ {p} : ptr'[q] = ptr[q]
      /\ \A x \in Blocks :
           /\ heap'[x].class = heap[x].class
           /\ heap'[x].child = heap[x].child
           /\ heap'[x].returned = heap[x].returned
           /\ heap'[x].count = heap[x].count + (IF x = k THEN 1 ELSE 0)
  BY <1>1, <1>3, <1>4, <1>5, ShareCounts
<1>7. \A x \in Blocks : Torn(x) => heap'[x].count = heap[x].count
  <2>1. \A x \in Blocks : Torn(x) => x # k
    BY <1>2, ComAssumption
  <2>2. \A x \in Blocks : heap[x].count \in Int
    BY DEF IInv, TypeOK
  <2> QED BY <1>6, <2>1, <2>2
<1>8. ASSUME NEW u \in Threads
      PROVE  WorkSound(work[u])'
  <2>1. CASE u # t
    <3>1. WorkSound(work[u]) /\ work[u] \in Works /\ work'[u] = work[u]
      BY <1>4, <2>1 DEF IInv, TypeOK, Works
    <3>2. work[u].step = "next" => ptr'[work[u].via] = ptr[work[u].via]
      BY <1>6, <3>1, ComAssumption DEF WorkSound
    <3>3. work[u].step = "next" => work[u].obj \in Blocks
      BY <3>1 DEF WorkSound
    <3> QED BY <1>3, <1>6, <1>7, <3>1, <3>2, <3>3, WorkStays DEF WorkSound, Torn
  <2>2. CASE u = t
    <3>1. ptr[e] = o /\ o # NIL
      BY <1>1, ComAssumption DEF o
    <3>2. ptr'[e] = o /\ ~heap'[o].returned
      BY <1>1, <1>6, <3>1
    <3> QED BY <1>1, <1>5, <2>2, <3>2 DEF WorkSound
  <2> QED BY <2>1, <2>2
<1>9. \A x \in Blocks : Torn(x)' => Torn(x)
  <2> SUFFICES ASSUME NEW x \in Blocks, Torn(x)' PROVE Torn(x)
    OBVIOUS
  <2>1. heap'[x].class.mortal /\ heap'[x].count = 0 /\ x \notin free
    BY <1>6 DEF Torn
  <2>2. heap[x].class.mortal /\ heap[x].count \in Nat
    BY <1>6, <2>1, MortalCount
  <2> QED BY <1>6, <2>1, <2>2 DEF Torn
<1>10. \A x \in Blocks, u \in Threads : Tears(u, x)' <=> Tears(u, x)
  BY <1>4, <1>5, ComAssumption DEF Tears
<1>11. \A x \in Blocks, u \in Threads :
         (u \in Nexts(x)') <=> (u \in Nexts(x) \/ (u = t /\ x = o))
  BY <1>4, <1>5 DEF Nexts
<1>12. Nexts(o) = {}
  BY <1>1 DEF Nexts
<1>13. Exclusive'
  <2>1. \A x \in Blocks : Torn(x)' => \E u \in Threads : Tears(u, x)'
    BY <1>9, <1>10 DEF IInv, Exclusive
  <2>2. \A x \in Blocks, u, v \in Threads : Tears(u, x)' /\ Tears(v, x)' => u = v
    BY <1>10 DEF IInv, Exclusive
  <2>3. \A x \in Blocks, u, v \in Threads :
          u \in Nexts(x)' /\ v \in Nexts(x)' => u = v
    BY <1>11, <1>12 DEF IInv, Exclusive
  <2> QED BY <2>1, <2>2, <2>3 DEF Exclusive
<1>14. Gives'
  <2> SUFFICES ASSUME NEW x \in Blocks, x \notin free', heap'[x].class.once
               PROVE  given'[x] = IF heap'[x].returned \/ Nexts(x)' # {}
                                  THEN 1 ELSE 0
    BY DEF Gives
  <2>1. x \in Blocks \ free /\ heap[x].class.once
        /\ heap'[x].returned = heap[x].returned
    BY <1>6
  <2>2. given[x] = IF heap[x].returned \/ Nexts(x) # {} THEN 1 ELSE 0
    BY <2>1 DEF IInv, Gives
  <2>3. CASE x = o
    <3>1. Nexts(x)' # {}
      BY <1>11, <2>3
    <3> QED BY <1>1, <1>4, <1>12, <2>2, <2>3, <3>1
  <2>4. CASE x # o
    <3>1. Nexts(x)' = Nexts(x)
      BY <1>11, <2>4 DEF Nexts
    <3> QED BY <1>4, <2>1, <2>2, <2>4, <3>1
  <2> QED BY <2>3, <2>4
<1> QED BY <1>6, <1>8, <1>13, <1>14 DEF IInv

LEMMA NextReturnedKeeps ==
  ASSUME IInv, TypeOK', NEW t \in Threads, NextReturned(t)
  PROVE  IInv'
<1> DEFINE o == work[t].obj
<1>1. /\ WorkSound(work[t]) /\ work[t].step = "next"
      /\ o \in Blocks \ free /\ work[t].outer = NIL
  <2>1. WorkSound(work[t]) /\ work[t].step = "next"
    BY DEF NextReturned, IInv
  <2> QED BY <2>1, FreeFacts DEF WorkSound
<1>2. /\ work'[t] = Idle /\ \A u \in Threads \ {t} : work'[u] = work[u]
      /\ Idle.step = "idle" /\ Idle.outer = NIL
  BY DEF NextReturned, IInv, TypeOK, Idle
<1>3. /\ UNCHANGED <<ptr, radmin, kept, given>>
      /\ heap'[o].returned = TRUE
      /\ \A x \in Blocks :
           /\ heap'[x].class = heap[x].class
           /\ heap'[x].child = heap[x].child
           /\ x # o => heap'[x].returned = heap[x].returned
           /\ heap'[x].count = heap[x].count
  BY <1>1 DEF NextReturned, IInv, TypeOK
<1> HIDE DEF o
<1>4. free' = free
  BY <1>3 DEF free
<1>5. \A x : (Torn(x)' <=> Torn(x))
  BY <1>3, <1>4 DEF Torn
<1>6. \A x : Refs(x)' = Refs(x) /\ Holders(x)' = Holders(x)
  BY <1>3 DEF Refs, Holders
<1>7. \A x : Late(x)' = Late(x)
  BY <1>1, <1>2 DEF Late
<1>8. Balance'
  BY <1>3, <1>4, <1>6, <1>7 DEF IInv, Balance, Surplus
<1>9. Live'
  BY <1>3, <1>4 DEF IInv, Live, TypeOK, Null
<1>10. \A u \in Threads : u \in Nexts(o) => u = t
  BY <1>1 DEF Nexts, IInv, Exclusive, o
<1>11. ASSUME NEW u \in Threads
       PROVE  WorkSound(work[u])'
  <2>1. CASE u # t
    <3>1. WorkSound(work[u]) /\ work[u] \in Works /\ work'[u] = work[u]
      BY <1>2, <2>1 DEF IInv, TypeOK, Works
    <3>2. work[u].step = "next" =>
            heap'[work[u].obj].returned = heap[work[u].obj].returned
      BY <1>3, <1>10, <2>1, <3>1 DEF Nexts, WorkSound
    <3> QED BY <1>3, <3>1, <3>2, WorkStays DEF WorkSound, Torn
  <2>2. CASE u = t
    BY <1>2, <2>2 DEF WorkSound, Idle
  <2> QED BY <2>1, <2>2
<1>12. \A x \in Blocks, u \in Threads : Tears(u, x)' <=> Tears(u, x)
  BY <1>1, <1>2, ComAssumption DEF Tears
<1>13. \A x \in Blocks : Nexts(x)' = Nexts(x) \ {t}
  BY <1>1, <1>2 DEF Nexts
<1>14. \A x \in Blocks \ {o} : Nexts(x)' = Nexts(x)
  BY <1>1, <1>2 DEF Nexts, o
<1>15. Exclusive'
  <2>1. \A x \in Blocks : Torn(x)' => \E u \in Threads : Tears(u, x)'
    BY <1>5, <1>12 DEF IInv, Exclusive
  <2>2. \A x \in Blocks, u, v \in Threads : Tears(u, x)' /\ Tears(v, x)' => u = v
    BY <1>12 DEF IInv, Exclusive
  <2>3. \A x \in Blocks, u, v \in Threads :
          u \in Nexts(x)' /\ v \in Nexts(x)' => u = v
    BY <1>13 DEF IInv, Exclusive
  <2> QED BY <2>1, <2>2, <2>3 DEF Exclusive
<1>16. Gives'
  <2> SUFFICES ASSUME NEW x \in Blocks, x \notin free', heap'[x].class.once
               PROVE  given'[x] = IF heap'[x].returned \/ Nexts(x)' # {}
                                  THEN 1 ELSE 0
    BY DEF Gives
  <2>1. given[x] = IF heap[x].returned \/ Nexts(x) # {} THEN 1 ELSE 0
    BY <1>3, <1>4 DEF IInv, Gives
  <2>2. CASE x = o
    <3>1. t \in Nexts(x)
      BY <1>1, <2>2 DEF Nexts, o
    <3> QED BY <1>3, <2>1, <2>2, <3>1
  <2>3. CASE x # o
    BY <1>3, <1>14, <2>1, <2>3
  <2> QED BY <2>2, <2>3
<1> QED BY <1>8, <1>9, <1>11, <1>15, <1>16 DEF IInv

LEMMA ResetKeeps ==
  ASSUME IInv, TypeOK', NEW t \in Threads, NEW e \in Ptrs, Reset(t, e)
  PROVE  IInv'
<1> DEFINE o == ptr[e]
<1>1. /\ o \in Blocks \ free
      /\ \A u \in Threads : work[u].step = "next" => work[u].obj # o
  BY DEF Reset, Call, Alone, IInv, Live, TypeOK, Null
<1>2. /\ UNCHANGED <<ptr, radmin, work, kept>>
      /\ heap'[o].returned = FALSE /\ given'[o] = 0
      /\ \A x \in Blocks :
           /\ heap'[x].class = heap[x].class
           /\ heap'[x].child = heap[x].child
           /\ x # o => /\ heap'[x].returned = heap[x].returned
                       /\ given'[x] = given[x]
           /\ heap'[x].count = heap[x].count
  <2>1. heap' = [heap EXCEPT ![o].returned = FALSE] /\ given' = [given EXCEPT ![o] = 0]
        /\ UNCHANGED <<ptr, radmin, work, kept>>
    BY DEF Reset
  <2> HIDE DEF o
  <2>2. given'[o] = 0 /\ \A x \in Blocks : x # o => given'[x] = given[x]
    BY <1>1, <2>1 DEF IInv, TypeOK
  <2>3. /\ heap'[o].returned = FALSE
        /\ \A x \in Blocks :
              /\ heap'[x].class = heap[x].class
              /\ heap'[x].child = heap[x].child
              /\ x # o => heap'[x].returned = heap[x].returned
              /\ heap'[x].count = heap[x].count
    BY <1>1, <2>1 DEF IInv, TypeOK
  <2> QED BY <2>1, <2>2, <2>3
<1> HIDE DEF o
<1>3. free' = free
  BY <1>2 DEF free
<1>4. \A x : (Torn(x)' <=> Torn(x))
  BY <1>2, <1>3 DEF Torn
<1>5. \A x : Refs(x)' = Refs(x) /\ Holders(x)' = Holders(x) /\ Late(x)' = Late(x)
  BY <1>2 DEF Refs, Holders, Late
<1>6. Balance'
  BY <1>2, <1>3, <1>5 DEF IInv, Balance, Surplus
<1>7. Live'
  BY <1>2, <1>3 DEF IInv, Live, TypeOK, Null
<1>8. ASSUME NEW u \in Threads
      PROVE  WorkSound(work[u])'
  <2>1. WorkSound(work[u]) /\ work[u] \in Works /\ work'[u] = work[u]
    BY <1>2 DEF IInv, TypeOK, Works
  <2>2. work[u].step = "next" =>
          heap'[work[u].obj].returned = heap[work[u].obj].returned
    BY <1>1, <1>2, <2>1 DEF WorkSound
  <2> QED BY <1>2, <2>1, <2>2, WorkStays DEF WorkSound, Torn
<1>9. /\ \A x \in Blocks, u \in Threads : Tears(u, x)' <=> Tears(u, x)
      /\ \A x \in Blocks : Nexts(x)' = Nexts(x)
  BY <1>2, QuietStep
<1>10. Exclusive'
  BY <1>4, <1>9, ExclusiveStays
<1>11. Gives'
  <2>1. Nexts(o) = {}
    BY <1>1 DEF Nexts
  <2> QED BY <1>1, <1>2, <1>3, <1>9, <2>1 DEF IInv, Gives
<1> QED BY <1>6, <1>7, <1>8, <1>10, <1>11 DEF IInv

-----------------------------------------------------------------------------
(* Releases                                                                *)

LEMMA ReleaseMortalKeeps ==
  ASSUME IInv, TypeOK', NEW t \in Threads, NEW p \in Ptrs, ReleaseMortal(t, p)
  PROVE  IInv'
<1> DEFINE o == ptr[p]
<1>1. /\ o \in Blocks \ free /\ heap[o].class.mortal /\ work[t] = Idle
      /\ \A u \in Threads : work[u].via # p
      /\ UNCHANGED <<radmin, kept, given>>
  BY DEF ReleaseMortal, GivenBack, Ready, IInv, Live, TypeOK, Null
<1>2. /\ \A x \in Blocks :
           /\ heap'[x].class = heap[x].class
           /\ heap'[x].child = heap[x].child
           /\ heap'[x].returned = heap[x].returned
           /\ heap'[x].count = IF x = o THEN heap[x].count - 1 ELSE heap[x].count
      /\ ptr'[p] = NIL /\ \A q \in Ptrs \ {p} : ptr'[q] = ptr[q]
  <2>1. heap' = [heap EXCEPT ![o].count = @ - 1] /\ ptr' = [ptr EXCEPT ![p] = NIL]
    BY DEF ReleaseMortal, GivenBack
  <2> HIDE DEF o
  <2> QED BY <1>1, <2>1 DEF IInv, TypeOK
<1>3. /\ \A u \in Threads \ {t} : work'[u] = work[u]
      /\ heap[o].count = 1 =>
           work'[t] = [step |-> "child", obj |-> o, outer |-> NIL, via |-> NIL]
      /\ heap[o].count # 1 => work'[t] = work[t]
  BY DEF ReleaseMortal, IInv, TypeOK, Step
<1>4. ptr[p] = o /\ o # NIL
  BY <1>1, ComAssumption
<1> HIDE DEF o
<1>5. work[t].step = "idle" /\ work[t].outer = NIL /\ work[t].obj = NIL
  BY <1>1 DEF Idle
<1>6. heap[o].count \in Nat \ {0} /\ ~Torn(o)
  <2>1. ~Torn(o)
    BY <1>4, TornAlone
  <2> QED BY <1>1, <2>1, MortalCount DEF Torn
<1>7. free' = free
  BY <1>2 DEF free
<1>8. Balance'
  <2> SUFFICES ASSUME NEW x \in Blocks, x \notin free'
               PROVE  /\ Surplus(x)' >= 0
                      /\ heap'[x].class.mortal => Surplus(x)' = 0
    BY DEF Balance
  <2>1. TypeOK
    BY DEF IInv
  <2>2. \A y \in Blocks \ {x} : heap'[y].child = heap[y].child
    BY <1>2
  <2>3. /\ Surplus(x) \in Int /\ heap[x].count \in Int /\ heap'[x].count \in Int
        /\ Surplus(x)' = Surplus(x) + (heap'[x].count - heap[x].count)
            - (IF p \in Ptrs /\ ptr'[p] = x THEN 1 ELSE 0)
            + (IF p \in Ptrs /\ ptr[p] = x THEN 1 ELSE 0)
            - (IF x \in Blocks /\ heap'[x].child = x THEN 1 ELSE 0)
            + (IF x \in Blocks /\ heap[x].child = x THEN 1 ELSE 0)
            - (IF x \in kept' THEN 1 ELSE 0) + (IF x \in kept THEN 1 ELSE 0)
            - (IF work'[t].step = "drop" /\ work'[t].obj = x THEN 1 ELSE 0)
            + (IF work[t].step = "drop" /\ work[t].obj = x THEN 1 ELSE 0)
    BY <1>2, <1>3, <2>1, <2>2, SurplusMoves
  <2>4. x # NIL
    BY ComAssumption
  <2>5. work'[t].step # "drop"
    BY <1>3, <1>5
  <2>6. Surplus(x)' = Surplus(x)
    BY <1>1, <1>2, <1>4, <1>5, <2>3, <2>4, <2>5
  <2>7. /\ Surplus(x) >= 0
        /\ heap[x].class.mortal => Surplus(x) = 0
    BY <1>7 DEF IInv, Balance
  <2>8. heap'[x].class = heap[x].class
    BY <1>1, <1>2
  <2> QED BY <2>6, <2>7, <2>8
<1>9. Live'
  <2>1. \A x \in Blocks :
          /\ heap'[x].child \notin free'
          /\ heap'[x].child # NIL =>
               x \notin free' /\ heap'[heap'[x].child].child = NIL
    BY <1>2, <1>7 DEF IInv, Live, TypeOK, Null
  <2>2. \A x \in kept' : x \notin free' /\ heap'[x].child = NIL
    BY <1>1, <1>2, <1>7 DEF IInv, Live, TypeOK
  <2>3. NIL \notin free
    BY ComAssumption DEF free
  <2> QED BY <1>1, <1>2, <1>7, <2>1, <2>2, <2>3 DEF IInv, Live
<1>10. \A x \in Blocks : Torn(x)' <=> Torn(x) \/ (x = o /\ heap[o].count = 1)
  BY <1>1, <1>2, <1>6, <1>7 DEF Torn
<1>11. ASSUME NEW u \in Threads
       PROVE  WorkSound(work[u])'
  <2>1. CASE work'[u] = work[u]
    <3>1. WorkSound(work[u]) /\ work[u] \in Works
      BY DEF IInv, TypeOK, Works
    <3>2. work[u].step = "next" =>
            work[u].obj \in Blocks /\ ptr'[work[u].via] = ptr[work[u].via]
      BY <1>1, <1>2, <3>1 DEF WorkSound
    <3>3. \A x \in Blocks : Torn(x) => heap'[x].count = heap[x].count
      BY <1>2, <1>6
    <3> QED BY <1>1, <1>2, <2>1, <3>1, <3>2, <3>3, WorkStays DEF WorkSound, Torn
  <2>2. CASE work'[u] # work[u]
    <3>1. u = t /\ heap[o].count = 1
      BY <1>3, <2>2
    <3>2. /\ o \in Blocks /\ o \notin free'
          /\ heap'[o].class.mortal /\ heap'[o].count = 0
      BY <1>1, <1>2, <1>7, <3>1
    <3> QED BY <1>3, <3>1, <3>2 DEF WorkSound, Torn
  <2> QED BY <2>1, <2>2
<1>12. \A x \in Blocks, u \in Threads :
         Tears(u, x)' <=> Tears(u, x) \/ (u = t /\ x = o /\ heap[o].count = 1)
  BY <1>3, <1>5, ComAssumption DEF Tears
<1>13. \A x \in Blocks, u \in Threads : Tears(u, x) => Torn(x)
  BY ComAssumption DEF Tears, IInv, WorkSound
<1>14. \A x \in Blocks : Nexts(x)' = Nexts(x)
  BY <1>3, <1>5 DEF Nexts
<1>15. Exclusive'
  <2>1. \A x \in Blocks : Torn(x)' => \E u \in Threads : Tears(u, x)'
    BY <1>10, <1>12 DEF IInv, Exclusive
  <2>2. \A x \in Blocks, u, v \in Threads : Tears(u, x)' /\ Tears(v, x)' => u = v
    BY <1>6, <1>12, <1>13 DEF IInv, Exclusive
  <2>3. \A x \in Blocks, u, v \in Threads :
          u \in Nexts(x)' /\ v \in Nexts(x)' => u = v
    BY <1>14 DEF IInv, Exclusive
  <2> QED BY <2>1, <2>2, <2>3 DEF Exclusive
<1>16. Gives'
  BY <1>1, <1>2, <1>7, <1>14 DEF IInv, Gives
<1> QED BY <1>8, <1>9, <1>11, <1>15, <1>16 DEF IInv

LEMMA ReleaseImmortalKeeps ==
  ASSUME IInv, TypeOK', NEW t \in Threads, NEW p \in Ptrs, ReleaseImmortal(t, p)
  PROVE  IInv'
<1> DEFINE o == ptr[p]
<1>1. /\ o \in Blocks \ free /\ ~heap[o].class.mortal /\ work[t] = Idle
      /\ \A u \in Threads : work[u].via # p
      /\ UNCHANGED <<heap, radmin, kept, given>>
  BY DEF ReleaseImmortal, GivenBack, Ready, IInv, Live, TypeOK, Null
<1>2. ptr'[p] = NIL /\ \A q \in Ptrs \ {p} : ptr'[q] = ptr[q]
  BY DEF ReleaseImmortal, GivenBack, IInv, TypeOK
<1>3. /\ \A u \in Threads \ {t} : work'[u] = work[u]
      /\ heap[o].count > 1 =>
           work'[t] = [step |-> "drop", obj |-> o, outer |-> NIL, via |-> NIL]
      /\ ~(heap[o].count > 1) => work'[t] = work[t]
  BY DEF ReleaseImmortal, IInv, TypeOK, Step
<1>4. ptr[p] = o /\ o # NIL
  BY <1>1, ComAssumption
<1> HIDE DEF o
<1>5. work[t].step = "idle" /\ work[t].outer = NIL /\ work[t].obj = NIL
  BY <1>1 DEF Idle
<1>6. free' = free
  BY <1>1 DEF free
<1>7. Balance'
  <2> SUFFICES ASSUME NEW x \in Blocks, x \notin free'
               PROVE  /\ Surplus(x)' >= 0
                      /\ heap'[x].class.mortal => Surplus(x)' = 0
    BY DEF Balance
  <2>1. TypeOK
    BY DEF IInv
  <2>2. \A y \in Blocks \ {x} : heap'[y].child = heap[y].child
    BY <1>1
  <2>3. /\ Surplus(x) \in Int /\ heap[x].count \in Int /\ heap'[x].count \in Int
        /\ Surplus(x)' = Surplus(x) + (heap'[x].count - heap[x].count)
            - (IF p \in Ptrs /\ ptr'[p] = x THEN 1 ELSE 0)
            + (IF p \in Ptrs /\ ptr[p] = x THEN 1 ELSE 0)
            - (IF x \in Blocks /\ heap'[x].child = x THEN 1 ELSE 0)
            + (IF x \in Blocks /\ heap[x].child = x THEN 1 ELSE 0)
            - (IF x \in kept' THEN 1 ELSE 0) + (IF x \in kept THEN 1 ELSE 0)
            - (IF work'[t].step = "drop" /\ work'[t].obj = x THEN 1 ELSE 0)
            + (IF work[t].step = "drop" /\ work[t].obj = x THEN 1 ELSE 0)
    BY <1>2, <1>3, <2>1, <2>2, SurplusMoves
  <2>4. x # NIL /\ heap'[x] = heap[x]
    BY <1>1, ComAssumption
  <2>6. /\ Surplus(x) >= 0
        /\ heap[x].class.mortal => Surplus(x) = 0
    BY <1>6 DEF IInv, Balance
  <2>7. CASE x = o /\ heap[o].count > 1
    BY <1>1, <1>2, <1>3, <1>4, <1>5, <2>3, <2>4, <2>6, <2>7
  <2>8. CASE ~(x = o /\ heap[o].count > 1)
    <3>1. ~(work'[t].step = "drop" /\ work'[t].obj = x)
      BY <1>3, <1>5, <2>8
    <3>2. Surplus(x)' = Surplus(x) + (IF x = o THEN 1 ELSE 0)
      BY <1>1, <1>2, <1>4, <1>5, <2>3, <2>4, <3>1
    <3>3. Surplus(x)' >= 0
      BY <2>3, <2>6, <3>2
    <3>4. CASE x = o
      <4>1. ~heap'[x].class.mortal
        BY <1>1, <2>4, <3>4
      <4> QED BY <3>3, <4>1
    <3>5. CASE x # o
      BY <2>3, <2>4, <2>6, <3>2, <3>3, <3>5
    <3> QED BY <3>4, <3>5
  <2> QED BY <2>7, <2>8
<1>8. Live'
  <2>1. NIL \notin free
    BY ComAssumption DEF free
  <2> QED BY <1>1, <1>2, <1>6, <2>1 DEF IInv, Live
<1>9. \A x : (Torn(x)' <=> Torn(x))
  BY <1>1, <1>6 DEF Torn
<1>10. ASSUME NEW u \in Threads
       PROVE  WorkSound(work[u])'
  <2>1. CASE work'[u] = work[u]
    <3>1. WorkSound(work[u]) /\ work[u] \in Works
      BY DEF IInv, TypeOK, Works
    <3>2. work[u].step = "next" => ptr'[work[u].via] = ptr[work[u].via]
      BY <1>1, <1>2, <3>1 DEF WorkSound
    <3> QED BY <1>1, <2>1, <3>1, <3>2, WorkStays
  <2>2. CASE work'[u] # work[u]
    BY <1>1, <1>3, <1>6, <2>2 DEF WorkSound
  <2> QED BY <2>1, <2>2
<1>11. \A x \in Blocks, u \in Threads : Tears(u, x)' <=> Tears(u, x)
  BY <1>3, <1>5, ComAssumption DEF Tears
<1>12. \A x \in Blocks : Nexts(x)' = Nexts(x)
  BY <1>3, <1>5 DEF Nexts
<1>13. Exclusive'
  BY <1>9, <1>11, <1>12, ExclusiveStays
<1>14. Gives'
  BY <1>1, <1>6, <1>12 DEF IInv, Gives
<1> QED BY <1>7, <1>8, <1>10, <1>13, <1>14 DEF IInv

LEMMA DropKeeps ==
  ASSUME IInv, TypeOK', NEW t \in Threads, Drop(t)
  PROVE  IInv'
<1> DEFINE o == work[t].obj
           q == work[t].outer
<1>1. /\ WorkSound(work[t]) /\ work[t].step = "drop"
      /\ o \in Blocks \ free /\ ~heap[o].class.mortal
      /\ q \in Null /\ UNCHANGED <<ptr, radmin, kept, given>>
  BY DEF Drop, IInv, WorkSound, TypeOK
<1>2. /\ \A u \in Threads \ {t} : work'[u] = work[u]
      /\ q = NIL => work'[t] = Idle
      /\ q # NIL => work'[t] = [step |-> "free", obj |-> q, outer |-> NIL,
                                via |-> NIL]
  BY DEF Drop, Resume, Step, IInv, TypeOK
<1>3. \A x \in Blocks :
        /\ heap'[x].class = heap[x].class
        /\ heap'[x].child = heap[x].child
        /\ heap'[x].returned = heap[x].returned
        /\ heap'[x].count = IF x = o THEN heap[x].count - 1 ELSE heap[x].count
  <2>1. heap' = [heap EXCEPT ![o].count = @ - 1]
    BY DEF Drop
  <2> HIDE DEF o
  <2> QED BY <1>1, <2>1 DEF IInv, TypeOK
<1>4. /\ work[t].obj = o /\ work[t].outer = q
      /\ q # NIL => Torn(q) /\ heap[q].child = NIL /\ q \in Blocks \ free /\ q # o
  BY <1>1 DEF WorkSound, Torn
<1> HIDE DEF o, q
<1>5. free' = free
  BY <1>3 DEF free
<1>6. Idle.step = "idle" /\ Idle.outer = NIL /\ Idle.obj = NIL
  BY DEF Idle
<1>7. Balance'
  <2> SUFFICES ASSUME NEW x \in Blocks, x \notin free'
               PROVE  /\ Surplus(x)' >= 0
                      /\ heap'[x].class.mortal => Surplus(x)' = 0
    BY DEF Balance
  <2>1. TypeOK
    BY DEF IInv
  <2>2. \A y \in Blocks \ {x} : heap'[y].child = heap[y].child
    BY <1>3
  <2>a. \A r \in Ptrs \ {x} : ptr'[r] = ptr[r]
    BY <1>1
  <2>3. /\ Surplus(x) \in Int /\ heap[x].count \in Int /\ heap'[x].count \in Int
        /\ Surplus(x)' = Surplus(x) + (heap'[x].count - heap[x].count)
            - (IF x \in Ptrs /\ ptr'[x] = x THEN 1 ELSE 0)
            + (IF x \in Ptrs /\ ptr[x] = x THEN 1 ELSE 0)
            - (IF x \in Blocks /\ heap'[x].child = x THEN 1 ELSE 0)
            + (IF x \in Blocks /\ heap[x].child = x THEN 1 ELSE 0)
            - (IF x \in kept' THEN 1 ELSE 0) + (IF x \in kept THEN 1 ELSE 0)
            - (IF work'[t].step = "drop" /\ work'[t].obj = x THEN 1 ELSE 0)
            + (IF work[t].step = "drop" /\ work[t].obj = x THEN 1 ELSE 0)
    BY <1>2, <2>1, <2>2, <2>a, SurplusMoves
  <2>5. work'[t].step # "drop"
    BY <1>2, <1>6
  <2>6. Surplus(x)' = Surplus(x)
    BY <1>1, <1>3, <1>4, <2>3, <2>5
  <2>8. /\ Surplus(x) >= 0
        /\ heap[x].class.mortal => Surplus(x) = 0
    BY <1>5 DEF IInv, Balance
  <2>9. heap'[x].class = heap[x].class
    BY <1>3
  <2> QED BY <2>6, <2>8, <2>9
<1>8. Live'
  <2>1. \A x \in Blocks :
          /\ heap'[x].child \notin free'
          /\ heap'[x].child # NIL =>
               x \notin free' /\ heap'[heap'[x].child].child = NIL
    BY <1>3, <1>5 DEF IInv, Live, TypeOK, Null
  <2>2. \A x \in kept' : x \notin free' /\ heap'[x].child = NIL
    BY <1>1, <1>3, <1>5 DEF IInv, Live, TypeOK
  <2> QED BY <1>1, <1>5, <2>1, <2>2 DEF IInv, Live
<1>9. \A x \in Blocks : Torn(x) => heap'[x].count = heap[x].count
  BY <1>1, <1>3 DEF Torn
<1>10. \A x \in Blocks : Torn(x)' => Torn(x)
  <2> SUFFICES ASSUME NEW x \in Blocks, Torn(x)' PROVE Torn(x)
    OBVIOUS
  <2>1. heap[x].class.mortal /\ x \notin free /\ x # o
    BY <1>1, <1>3, <1>5 DEF Torn
  <2> QED BY <1>3, <2>1 DEF Torn
<1>11. ASSUME NEW u \in Threads
       PROVE  WorkSound(work[u])'
  <2>1. CASE u # t
    <3>1. WorkSound(work[u]) /\ work[u] \in Works /\ work'[u] = work[u]
      BY <1>2, <2>1 DEF IInv, TypeOK, Works
    <3>2. work[u].step = "next" => work[u].obj \in Blocks
      BY <3>1 DEF WorkSound
    <3> QED BY <1>1, <1>3, <1>9, <3>1, <3>2, WorkStays DEF WorkSound, Torn
  <2>2. CASE u = t /\ q = NIL
    BY <1>2, <1>6, <2>2 DEF WorkSound
  <2>3. CASE u = t /\ q # NIL
    <3>1. /\ q \in Blocks /\ q \notin free' /\ heap'[q].child = NIL
          /\ heap'[q].class.mortal /\ heap'[q].count = 0
      BY <1>3, <1>4, <1>5, <1>9, <2>3 DEF Torn
    <3> QED BY <1>2, <2>3, <3>1 DEF WorkSound, Torn
  <2> QED BY <2>1, <2>2, <2>3
<1>12. \A x \in Blocks, u \in Threads : Tears(u, x)' <=> Tears(u, x)
  BY <1>1, <1>2, <1>4, <1>6, ComAssumption DEF Tears
<1>13. \A x \in Blocks : Nexts(x)' = Nexts(x)
  BY <1>1, <1>2, <1>6 DEF Nexts
<1>14. Exclusive'
  BY <1>10, <1>12, <1>13, ExclusiveStays
<1>15. Gives'
  BY <1>1, <1>3, <1>5, <1>13 DEF IInv, Gives
<1> QED BY <1>7, <1>8, <1>11, <1>14, <1>15 DEF IInv

LEMMA HeapFreeKeeps ==
  ASSUME IInv, TypeOK', NEW t \in Threads, HeapFree(t)
  PROVE  IInv'
<1> DEFINE o == work[t].obj
           q == work[t].outer
<1>1. /\ WorkSound(work[t]) /\ work[t].step = "free"
      /\ Torn(o) /\ o \in Blocks \ free /\ heap[o].child = NIL
      /\ q \in Null /\ UNCHANGED <<ptr, radmin, kept, given>>
  BY DEF HeapFree, IInv, WorkSound, TypeOK, Torn
<1>2. /\ \A u \in Threads \ {t} : work'[u] = work[u]
      /\ q = NIL => work'[t] = Idle
      /\ q # NIL => work'[t] = [step |-> "free", obj |-> q, outer |-> NIL,
                                via |-> NIL]
  BY DEF HeapFree, Resume, Step, IInv, TypeOK
<1>3. /\ heap'[o].class = Unused /\ heap'[o].child = NIL
      /\ \A x \in Blocks \ {o} : heap'[x] = heap[x]
  <2>1. heap' = [heap EXCEPT ![o] = Free]
    BY DEF HeapFree
  <2> HIDE DEF o
  <2> QED BY <1>1, <2>1 DEF IInv, TypeOK, Free
<1>4. /\ work[t].obj = o /\ work[t].outer = q
      /\ q # NIL => Torn(q) /\ heap[q].child = NIL /\ q \in Blocks \ free /\ q # o
  BY <1>1 DEF WorkSound, Torn
<1> HIDE DEF o, q
<1>5. free' = free \cup {o}
  BY <1>1, <1>3 DEF free
<1>6. Idle.step = "idle" /\ Idle.outer = NIL /\ Idle.obj = NIL
  BY DEF Idle
<1>7. /\ \A p \in Ptrs : ptr[p] # o
      /\ \A y \in Blocks : heap[y].child # o
      /\ o \notin kept /\ o # radmin /\ o # NIL
  BY <1>1, TornAlone
<1>8. \A x \in Blocks : heap'[x].child = heap[x].child
  BY <1>1, <1>3
<1>9. Balance'
  <2>1. \A x : Refs(x)' = Refs(x) /\ Holders(x)' = Holders(x)
    BY <1>1, <1>8 DEF Refs, Holders
  <2>2. \A x : Late(x)' = Late(x)
    BY <1>1, <1>2, <1>6 DEF Late
  <2>3. \A x \in Blocks : x \notin free' => x \notin free /\ heap'[x] = heap[x]
    BY <1>3, <1>5
  <2> QED BY <1>1, <2>1, <2>2, <2>3 DEF IInv, Balance, Surplus
<1>10. Live'
  <2>1. \A x \in Blocks :
          /\ heap'[x].child \notin free'
          /\ heap'[x].child # NIL =>
               x \notin free' /\ heap'[heap'[x].child].child = NIL
    BY <1>1, <1>5, <1>7, <1>8 DEF IInv, Live, TypeOK, Null
  <2>2. \A x \in kept' : x \notin free' /\ heap'[x].child = NIL
    BY <1>1, <1>5, <1>7, <1>8 DEF IInv, Live, TypeOK
  <2> QED BY <1>1, <1>5, <1>7, <2>1, <2>2 DEF IInv, Live
<1>11. \A x \in Blocks : Torn(x)' <=> Torn(x) /\ x # o
  BY <1>3, <1>5 DEF Torn
<1>12. \A u \in Threads \ {t} : /\ work[u].obj # o /\ work[u].outer # o
  <2> SUFFICES ASSUME NEW u \in Threads \ {t}
               PROVE  work[u].obj # o /\ work[u].outer # o
    OBVIOUS
  <2>1. Tears(t, o) /\ ~Tears(u, o)
    BY <1>1, <1>4 DEF Tears, IInv, Exclusive
  <2>2. WorkSound(work[u]) /\ work[u].step \in Steps
    BY DEF IInv, TypeOK
  <2>3. heap[o].class.mortal
    BY <1>1 DEF Torn
  <2> QED BY <1>7, <2>1, <2>2, <2>3 DEF Tears, WorkSound, Steps, Idle
<1>13. ASSUME NEW u \in Threads
       PROVE  WorkSound(work[u])'
  <2>1. CASE u # t
    <3>1. /\ WorkSound(work[u]) /\ work[u] \in Works /\ work'[u] = work[u]
          /\ work[u].obj # o /\ work[u].outer # o
      BY <1>2, <1>12, <2>1 DEF IInv, TypeOK, Works
    <3>2. kept' = kept /\ ptr' = ptr
      BY <1>1
    <3>3. \A x \in Blocks \ free : x # o => x \notin free' /\ heap'[x] = heap[x]
      BY <1>3, <1>5
    <3>4. work[u].step = "next" => work[u].obj \in Blocks \ free
      BY <3>1, FreeFacts DEF WorkSound
    <3> QED BY <3>1, <3>2, <3>3, <3>4 DEF WorkSound, Torn
  <2>2. CASE u = t /\ q = NIL
    BY <1>2, <1>6, <2>2 DEF WorkSound
  <2>3. CASE u = t /\ q # NIL
    <3>1. /\ q \in Blocks /\ q \notin free' /\ heap'[q].child = NIL
          /\ heap'[q].class.mortal /\ heap'[q].count = 0
      BY <1>3, <1>4, <1>5, <2>3 DEF Torn
    <3> QED BY <1>2, <2>3, <3>1 DEF WorkSound, Torn
  <2> QED BY <2>1, <2>2, <2>3
<1>14. \A x \in Blocks, u \in Threads : Tears(u, x)' <=> Tears(u, x) /\ x # o
  <2>1. \A x \in Blocks, u \in Threads \ {t} : Tears(u, x)' <=> Tears(u, x) /\ x # o
    BY <1>2, <1>12 DEF Tears
  <2>2. \A x \in Blocks : Tears(t, x)' <=> Tears(t, x) /\ x # o
    BY <1>1, <1>2, <1>4, <1>6, ComAssumption DEF Tears
  <2> QED BY <2>1, <2>2
<1>15. \A x \in Blocks : Nexts(x)' = Nexts(x)
  BY <1>1, <1>2, <1>6 DEF Nexts
<1>16. Exclusive'
  <2>1. \A x \in Blocks : Torn(x)' => \E u \in Threads : Tears(u, x)'
    BY <1>11, <1>14 DEF IInv, Exclusive
  <2>2. \A x \in Blocks, u, v \in Threads : Tears(u, x)' /\ Tears(v, x)' => u = v
    BY <1>14 DEF IInv, Exclusive
  <2>3. \A x \in Blocks, u, v \in Threads :
          u \in Nexts(x)' /\ v \in Nexts(x)' => u = v
    BY <1>15 DEF IInv, Exclusive
  <2> QED BY <2>1, <2>2, <2>3 DEF Exclusive
<1>17. Gives'
  BY <1>1, <1>3, <1>5, <1>15 DEF IInv, Gives
<1> QED BY <1>9, <1>10, <1>13, <1>16, <1>17 DEF IInv

LEMMA ReleaseChildKeeps ==
  ASSUME IInv, TypeOK', NEW t \in Threads, ReleaseChild(t)
  PROVE  IInv'
<1> DEFINE o == work[t].obj
           k == heap[o].child
           Dies == k # NIL /\ heap[k].class.mortal /\ heap[k].count = 1
           Drops == k # NIL /\ ~heap[k].class.mortal /\ heap[k].count > 1
<1>1. /\ WorkSound(work[t]) /\ work[t].step = "child"
      /\ Torn(o) /\ o \in Blocks \ free /\ o # NIL /\ work[t].outer = NIL
      /\ UNCHANGED <<ptr, radmin, kept, given>>
  BY ComAssumption DEF ReleaseChild, IInv, WorkSound, Torn
<1>2. /\ k \in Null \ free
      /\ k # NIL => /\ k \in Blocks \ free /\ heap[k].child = NIL
                    /\ k # o /\ ~Torn(k)
  <2>1. k \in Null \ free
    BY <1>1 DEF IInv, Live, TypeOK
  <2>2. k # NIL => ~Torn(k)
    BY <1>1, TornAlone
  <2> QED BY <1>1, <2>1, <2>2 DEF IInv, Live, Null
<1>3. /\ heap'[o].child = NIL
      /\ \A x \in Blocks :
           /\ heap'[x].class = heap[x].class
           /\ x # o => heap'[x].child = heap[x].child
           /\ heap'[x].returned = heap[x].returned
           /\ heap'[x].count = IF x = k /\ heap[x].class.mortal
                               THEN heap[x].count - 1 ELSE heap[x].count
  <2>1. CASE k = NIL
    <3>1. heap' = heap
      BY <2>1 DEF ReleaseChild
    <3> QED BY <1>1, <2>1, <3>1, ComAssumption
  <2>2. CASE k # NIL /\ heap[k].class.mortal
    <3>1. heap' = [heap EXCEPT ![k].count = @ - 1, ![o].child = NIL]
      BY <2>2 DEF ReleaseChild
    <3>2. o \in Blocks /\ k \in Blocks /\ k # o
      BY <1>1, <1>2, <2>2
    <3>3. k # NIL /\ heap[k].class.mortal
      BY <2>2
    <3> HIDE DEF o, k, Dies, Drops
    <3> QED BY <3>1, <3>2, <3>3 DEF IInv, TypeOK
  <2>3. CASE k # NIL /\ ~heap[k].class.mortal
    <3>1. heap' = [heap EXCEPT ![o].child = NIL]
      BY <2>3 DEF ReleaseChild
    <3>2. o \in Blocks /\ k \in Blocks /\ k # o
      BY <1>1, <1>2, <2>3
    <3>3. ~heap[k].class.mortal
      BY <2>3
    <3> HIDE DEF o, k, Dies, Drops
    <3> QED BY <3>1, <3>2, <3>3 DEF IInv, TypeOK
  <2> QED BY <2>1, <2>2, <2>3
<1>4. /\ \A u \in Threads \ {t} : work'[u] = work[u]
      /\ Dies => work'[t] = [step |-> "free", obj |-> k, outer |-> o, via |-> NIL]
      /\ Drops => work'[t] = [step |-> "drop", obj |-> k, outer |-> o, via |-> NIL]
      /\ ~Dies /\ ~Drops =>
           work'[t] = [step |-> "free", obj |-> o, outer |-> NIL, via |-> NIL]
  BY DEF ReleaseChild, Step, IInv, TypeOK
<1>5. work[t].obj = o /\ heap[o].child = k
  OBVIOUS
<1>6. /\ Dies => k # NIL /\ heap[k].class.mortal /\ heap[k].count = 1
      /\ Drops => k # NIL /\ ~heap[k].class.mortal /\ heap[k].count > 1
      /\ k # NIL /\ heap[k].class.mortal /\ heap[k].count = 1 => Dies
      /\ ~(Dies /\ Drops)
  OBVIOUS
<1> HIDE DEF o, k, Dies, Drops
<1>7. free' = free
  BY <1>3 DEF free
<1>8. Balance'
  <2> SUFFICES ASSUME NEW x \in Blocks, x \notin free'
               PROVE  /\ Surplus(x)' >= 0
                      /\ heap'[x].class.mortal => Surplus(x)' = 0
    BY DEF Balance
  <2>1. TypeOK
    BY DEF IInv
  <2>2. \A y \in Blocks \ {o} : heap'[y].child = heap[y].child
    BY <1>3
  <2>a. \A r \in Ptrs \ {x} : ptr'[r] = ptr[r]
    BY <1>1
  <2>3. /\ Surplus(x) \in Int /\ heap[x].count \in Int /\ heap'[x].count \in Int
        /\ Surplus(x)' = Surplus(x) + (heap'[x].count - heap[x].count)
            - (IF x \in Ptrs /\ ptr'[x] = x THEN 1 ELSE 0)
            + (IF x \in Ptrs /\ ptr[x] = x THEN 1 ELSE 0)
            - (IF o \in Blocks /\ heap'[o].child = x THEN 1 ELSE 0)
            + (IF o \in Blocks /\ heap[o].child = x THEN 1 ELSE 0)
            - (IF x \in kept' THEN 1 ELSE 0) + (IF x \in kept THEN 1 ELSE 0)
            - (IF work'[t].step = "drop" /\ work'[t].obj = x THEN 1 ELSE 0)
            + (IF work[t].step = "drop" /\ work[t].obj = x THEN 1 ELSE 0)
    BY <1>4, <2>1, <2>2, <2>a, SurplusMoves
  <2>4. x # NIL
    BY ComAssumption
  <2>5. Surplus(x)' = Surplus(x) + (heap'[x].count - heap[x].count)
          + (IF k = x THEN 1 ELSE 0)
          - (IF work'[t].step = "drop" /\ work'[t].obj = x THEN 1 ELSE 0)
    BY <1>1, <1>3, <1>5, <2>3, <2>4
  <2>7. /\ Surplus(x) >= 0
        /\ heap[x].class.mortal => Surplus(x) = 0
    BY <1>7 DEF IInv, Balance
  <2>8. /\ heap'[x].class = heap[x].class
        /\ heap'[x].count = IF x = k /\ heap[x].class.mortal
                            THEN heap[x].count - 1 ELSE heap[x].count
    BY <1>3
  <2>9. (work'[t].step = "drop" /\ work'[t].obj = x) <=> (Drops /\ x = k)
    BY <1>4, <1>6
  <2>10. CASE x # k
    <3>1. Surplus(x)' = Surplus(x)
      BY <1>1, <2>3, <2>5, <2>8, <2>9, <2>10
    <3> QED BY <2>7, <2>8, <3>1
  <2>11. CASE x = k /\ heap[x].class.mortal
    <3>1. ~Drops /\ heap'[x].count = heap[x].count - 1
      BY <1>6, <2>8, <2>11
    <3>2. Surplus(x)' = Surplus(x)
      BY <2>3, <2>5, <2>9, <2>11, <3>1
    <3> QED BY <2>7, <2>8, <2>11, <3>2
  <2>12. CASE x = k /\ ~heap[x].class.mortal /\ Drops
    <3>1. Surplus(x)' = Surplus(x)
      BY <2>3, <2>5, <2>8, <2>9, <2>12
    <3> QED BY <2>7, <2>8, <2>12, <3>1
  <2>13. CASE x = k /\ ~heap[x].class.mortal /\ ~Drops
    <3>1. Surplus(x)' = Surplus(x) + 1
      BY <2>3, <2>5, <2>8, <2>9, <2>13
    <3>2. Surplus(x)' >= 0
      BY <2>3, <2>7, <3>1
    <3>3. ~heap'[x].class.mortal
      BY <2>8, <2>13
    <3> QED BY <3>2, <3>3
  <2> QED BY <2>10, <2>11, <2>12, <2>13
<1>9. Live'
  <2>1. \A x \in Blocks :
          /\ heap'[x].child \notin free'
          /\ heap'[x].child # NIL =>
               x \notin free' /\ heap'[heap'[x].child].child = NIL
    <3> SUFFICES ASSUME NEW x \in Blocks
                 PROVE  /\ heap'[x].child \notin free'
                        /\ heap'[x].child # NIL =>
                             x \notin free' /\ heap'[heap'[x].child].child = NIL
      OBVIOUS
    <3>1. NIL \notin free
      BY ComAssumption DEF free
    <3>2. CASE x = o
      BY <1>3, <1>7, <3>1, <3>2
    <3>3. CASE x # o
      <4>1. heap'[x].child = heap[x].child
        BY <1>3, <3>3
      <4>2. /\ heap[x].child \notin free /\ heap[x].child \in Null
            /\ heap[x].child # NIL => /\ x \notin free
                                      /\ heap[heap[x].child].child = NIL
        BY DEF IInv, Live, TypeOK
      <4>3. \A y \in Blocks : heap[y].child = NIL => heap'[y].child = NIL
        BY <1>3
      <4> QED BY <1>7, <4>1, <4>2, <4>3 DEF Null
    <3> QED BY <3>2, <3>3
  <2>2. \A x \in kept' : x \notin free' /\ heap'[x].child = NIL
    BY <1>1, <1>3, <1>7 DEF IInv, Live, TypeOK
  <2> QED BY <1>1, <1>7, <2>1, <2>2 DEF IInv, Live
<1>10. \A x \in Blocks : Torn(x)' <=> Torn(x) \/ (x = k /\ Dies)
  <2> SUFFICES ASSUME NEW x \in Blocks
               PROVE  Torn(x)' <=> Torn(x) \/ (x = k /\ Dies)
    OBVIOUS
  <2>1. heap[x].count \in Int
    BY DEF IInv, TypeOK
  <2>2. Torn(x)' <=> x \notin free /\ heap[x].class.mortal /\ heap'[x].count = 0
    BY <1>3, <1>7 DEF Torn
  <2>3. CASE x = k
    <3>1. k # NIL /\ ~Torn(x) /\ x \notin free
      BY <1>2, <2>3, ComAssumption
    <3> QED BY <1>3, <1>6, <2>1, <2>2, <2>3, <3>1
  <2>4. CASE x # k
    BY <1>3, <2>2, <2>4 DEF Torn
  <2> QED BY <2>3, <2>4
<1>11. ASSUME NEW u \in Threads
       PROVE  WorkSound(work[u])'
  <2>1. /\ o \in Blocks /\ o \notin free' /\ heap'[o].child = NIL
        /\ heap'[o].class.mortal /\ heap'[o].count = 0
    BY <1>1, <1>2, <1>3, <1>7 DEF Torn
  <2>2. CASE u # t
    <3>1. WorkSound(work[u]) /\ work[u] \in Works /\ work'[u] = work[u]
      BY <1>4, <2>2 DEF IInv, TypeOK, Works
    <3>2. \A x \in Blocks : Torn(x) => heap'[x].count = heap[x].count
      BY <1>2, <1>3, ComAssumption
    <3>3. \A x \in Blocks : heap[x].child = NIL => heap'[x].child = NIL
      BY <1>3
    <3>4. work[u].step = "next" => work[u].obj \in Blocks
      BY <3>1 DEF WorkSound
    <3> QED BY <1>1, <1>3, <3>1, <3>2, <3>3, <3>4, WorkStays DEF WorkSound, Torn
  <2>3. CASE u = t /\ Dies
    <3>1. /\ k \in Blocks /\ k \notin free' /\ heap'[k].child = NIL /\ k # o
          /\ heap'[k].class.mortal /\ heap'[k].count = 0
      BY <1>2, <1>3, <1>6, <1>7, <2>3
    <3> QED BY <1>1, <1>4, <2>1, <2>3, <3>1 DEF WorkSound, Torn
  <2>4. CASE u = t /\ Drops
    <3>1. /\ k \in Blocks /\ k \notin free' /\ k # o /\ ~heap'[k].class.mortal
      BY <1>2, <1>3, <1>6, <1>7, <2>4
    <3> QED BY <1>1, <1>4, <2>1, <2>4, <3>1 DEF WorkSound, Torn
  <2>5. CASE u = t /\ ~Dies /\ ~Drops
    BY <1>4, <2>1, <2>5 DEF WorkSound, Torn
  <2> QED BY <2>2, <2>3, <2>4, <2>5
<1>12. \A x \in Blocks, u \in Threads :
         Tears(u, x)' <=> Tears(u, x) \/ (u = t /\ x = k /\ Dies)
  <2>1. \A x \in Blocks, u \in Threads \ {t} : Tears(u, x)' <=> Tears(u, x)
    BY <1>4 DEF Tears
  <2>2. \A x \in Blocks : Tears(t, x) <=> x = o
    BY <1>1, <1>5, ComAssumption DEF Tears
  <2>3. \A x \in Blocks : Tears(t, x)' <=> x = o \/ (x = k /\ Dies)
    BY <1>1, <1>4, <1>6, ComAssumption DEF Tears
  <2> QED BY <2>1, <2>2, <2>3
<1>13. \A x \in Blocks, u \in Threads : Tears(u, x) => Torn(x)
  BY ComAssumption DEF Tears, IInv, WorkSound
<1>14. \A x \in Blocks : Nexts(x)' = Nexts(x)
  BY <1>1, <1>4 DEF Nexts
<1>15. Exclusive'
  <2>1. \A x \in Blocks : Torn(x)' => \E u \in Threads : Tears(u, x)'
    BY <1>10, <1>12 DEF IInv, Exclusive
  <2>2. \A x \in Blocks, u, v \in Threads : Tears(u, x)' /\ Tears(v, x)' => u = v
    BY <1>2, <1>12, <1>13, ComAssumption DEF IInv, Exclusive
  <2>3. \A x \in Blocks, u, v \in Threads :
          u \in Nexts(x)' /\ v \in Nexts(x)' => u = v
    BY <1>14 DEF IInv, Exclusive
  <2> QED BY <2>1, <2>2, <2>3 DEF Exclusive
<1>16. Gives'
  BY <1>1, <1>3, <1>7, <1>14 DEF IInv, Gives
<1> QED BY <1>8, <1>9, <1>11, <1>15, <1>16 DEF IInv

-----------------------------------------------------------------------------
(* The start, and the theorems                                             *)

\* A process that begins has no objects.
Begun ==
  /\ heap = Fresh.heap /\ ptr = Fresh.ptr /\ radmin = NIL /\ slot = FALSE
  /\ work = Fresh.work /\ kept = {} /\ given = Fresh.given

LEMMA BegunHolds == TypeOK /\ Begun => IInv
<1> SUFFICES ASSUME TypeOK, Begun PROVE IInv
  OBVIOUS
<1>1. /\ \A b \in Blocks : heap[b].class = Unused /\ heap[b].child = NIL
      /\ \A p \in Ptrs : ptr[p] = NIL
      /\ \A t \in Threads : work[t] = Idle
      /\ kept = {} /\ radmin = NIL
  BY DEF Begun, Fresh, Free
<1>2. free = Blocks
  BY <1>1 DEF free
<1>3. Balance /\ Live /\ Gives
  BY <1>1, <1>2, ComAssumption DEF Balance, Live, Gives
<1>4. \A t \in Threads : WorkSound(work[t])
  BY <1>1 DEF WorkSound, Idle
<1>5. Exclusive
  <2>1. \A o \in Blocks : ~Torn(o)
    BY <1>2 DEF Torn
  <2>2. \A o \in Blocks, t \in Threads : ~Tears(t, o) /\ t \notin Nexts(o)
    BY <1>1, ComAssumption DEF Tears, Nexts, Idle
  <2> QED BY <2>1, <2>2 DEF Exclusive
<1> QED BY <1>3, <1>4, <1>5 DEF IInv

LEMMA RestartKeeps == Restart => IInv'
<1> SUFFICES ASSUME Restart PROVE IInv'
  OBVIOUS
<1>1. TypeOK' /\ Begun'
  <2>1. Fresh' = Fresh
    BY DEF Fresh, Idle, Free, Unused
  <2> QED BY <2>1, RestartTypes DEF Restart, Begun
<1>2. (TypeOK /\ Begun => IInv)'
  BY BegunHolds, PTL
<1> QED BY <1>1, <1>2

-----------------------------------------------------------------------------
(* Every step keeps the invariant                                          *)

LEMMA MadeClasses ==
  /\ ~WbemClassObject.mortal /\ ~NetAdapterObject.mortal
  /\ ~WbemClassObject.once /\ ~NetAdapterObject.once
  /\ NetConnection.mortal /\ ~NetConnection.once /\ ~NetworkConnection.once
BY DEF WbemClassObject, NetAdapterObject, NetConnection, NetworkConnection

LEMMA StepTypesHere ==
  ASSUME IInv, NEW t \in Threads
  PROVE  TypeOK /\ (work[t].step = "child" => work[t].obj \in Blocks)
BY DEF IInv, WorkSound, Torn

\* A call that makes an object which holds nothing.
LEMMA MakesOne ==
  ASSUME IInv, TypeOK', NEW t \in Threads, NEW p \in Ptrs, NEW b \in free,
         NEW c \in Classes \ {Unused}, Create(p, b, c, NIL),
         UNCHANGED <<radmin, work, kept>>
  PROVE  IInv'
BY CreateKeeps, ComAssumption DEF free, Null

LEMMA CallKeeps ==
  ASSUME IInv, NEW t \in Threads, NEW p \in Ptrs, NEW q \in Ptrs, TypeOK'
  PROVE  /\ CoCreateInstance(t, p) => IInv'
         /\ CreateLocator(t, p) => IInv'
         /\ ConnectServer(t, q, p) => IInv'
         /\ GetObject(t, q, p) => IInv'
         /\ CreateInstanceEnum(t, q, p) => IInv'
         /\ ExecQuery(t, q, p) => IInv'
         /\ get_INetSharingConfiguration(t, q, p) => IInv'
         /\ get_NewEnum(t, q, p) => IInv'
         /\ Invoke(t, q, p) => IInv'
         /\ GetNetworkConnections(t, q, p) => IInv'
         /\ GetNetwork(t, q, p) => IInv'
         /\ AddRef(t, q, p) => IInv'
<1>1. CoCreateInstance(t, p) => IInv'
  BY MakesOne, ClassFacts DEF CoCreateInstance
<1>2. CreateLocator(t, p) => IInv'
  <2> SUFFICES ASSUME CreateLocator(t, p) PROVE IInv'
    OBVIOUS
  <2>1. PICK b \in free : /\ Create(p, b, WbemLocator, NIL)
                          /\ work' = [work EXCEPT ![t] = Within("patch", b, p)]
    BY DEF CreateLocator
  <2>2. /\ work'[t] = Within("patch", b, p)
        /\ \A u \in Threads \ {t} : work'[u] = work[u]
        /\ work[t].step = "idle" /\ UNCHANGED <<radmin, kept>>
    BY <2>1 DEF CreateLocator, Ready, Idle, IInv, TypeOK
  <2>3. b \in Blocks /\ NIL \in Null /\ NIL \notin free
    BY ComAssumption DEF free, Null
  <2> QED BY <2>1, <2>2, <2>3, CreateKeeps, ClassFacts
<1>3. ConnectServer(t, q, p) => IInv'
  BY MakesOne, ClassFacts DEF ConnectServer
<1>4. GetObject(t, q, p) => IInv'
  BY MakesOne, ClassFacts DEF GetObject
<1>5. ASSUME NEW c \in {WbemClassObject, NetAdapterObject},
             Enumerate(t, q, p, c)
      PROVE  IInv'
  <2>1. /\ c \in Classes \ {Unused} /\ ~c.mortal /\ ~c.once
        /\ EnumWbemClassObject \in Classes \ {Unused}
    BY ClassFacts, MadeClasses
  <2>2. ptr[p] = NIL /\ UNCHANGED <<radmin, work, kept>>
    BY <1>5 DEF Enumerate
  <2>3. PICK b \in free :
          \/ \E e \in free \ {b} : Pair(p, b, e, c, EnumWbemClassObject)
          \/ /\ heap' = [heap EXCEPT ![b] = Object(c, NIL)]
             /\ UNCHANGED <<ptr, given>>
    BY <1>5 DEF Enumerate, Pair
  <2>4. ASSUME NEW e \in free \ {b}, Pair(p, b, e, c, EnumWbemClassObject)
        PROVE  IInv'
    BY <2>1, <2>2, <2>4, PairKeeps
  <2>5. ASSUME heap' = [heap EXCEPT ![b] = Object(c, NIL)],
               UNCHANGED <<ptr, given>>
        PROVE  IInv'
    <3>1. Orphan(b, c)
      BY <2>1, <2>2, <2>5 DEF Orphan
    <3>2. UNCHANGED <<ptr, radmin, given>> /\ work' = work
      BY <2>2, <2>5
    <3> QED BY <2>1, <3>1, <3>2, OrphanKeeps
  <2> QED BY <2>3, <2>4, <2>5
<1>6. get_INetSharingConfiguration(t, q, p) => IInv'
  BY MakesOne, ClassFacts DEF get_INetSharingConfiguration
<1>7. ASSUME ptr[q] # NIL
      PROVE  LET k == heap[ptr[q]].child
             IN  /\ k \in Null \ free
                 /\ k # NIL => heap[k].child = NIL /\ ~Torn(k)
  <2>1. ptr[q] \in Blocks
    BY <1>7 DEF IInv, TypeOK, Null
  <2> QED BY <2>1, TornAlone DEF IInv, Live, TypeOK
<1>8. get_NewEnum(t, q, p) => IInv'
  <2> SUFFICES ASSUME get_NewEnum(t, q, p) PROVE IInv'
    OBVIOUS
  <2>1. PICK b \in free : Create(p, b, VarEnumerator, heap[ptr[q]].child)
    BY DEF get_NewEnum
  <2>2. ptr[q] # NIL /\ UNCHANGED <<radmin, kept>> /\ work' = work
    BY DEF get_NewEnum, Call
  <2>3. b \in Blocks
    BY DEF free
  <2> QED BY <1>7, <2>1, <2>2, <2>3, CreateKeeps, ClassFacts
<1>9. Invoke(t, q, p) => IInv'
  BY <1>7, ShareKeeps DEF Invoke, Call
<1>10. GetNetworkConnections(t, q, p) => IInv'
  <2> SUFFICES ASSUME GetNetworkConnections(t, q, p) PROVE IInv'
    OBVIOUS
  <2>1. PICK b \in free, e \in free :
          b # e /\ Pair(p, b, e, NetworkConnection, EnumNetworkConnections)
    BY DEF GetNetworkConnections, Pair
  <2>2. UNCHANGED <<radmin, work, kept>>
    BY DEF GetNetworkConnections
  <2> QED BY <2>1, <2>2, PairKeeps, ClassFacts, MadeClasses
<1>11. GetNetwork(t, q, p) => IInv'
  BY MakesOne, ClassFacts DEF GetNetwork
<1>12. AddRef(t, q, p) => IInv'
  <2> SUFFICES ASSUME AddRef(t, q, p) PROVE IInv'
    OBVIOUS
  <2>1. ptr[q] \in Null \ free /\ ~Torn(ptr[q])
    BY TornAlone DEF IInv, Live, TypeOK
  <2> QED BY <2>1, ShareKeeps DEF AddRef
<1> QED BY <1>1, <1>2, <1>3, <1>4, <1>5, <1>6, <1>8, <1>9, <1>10, <1>11, <1>12
        DEF CreateInstanceEnum, ExecQuery

\* The steps of get_EnumEveryConnection and the end of PatchWbemLocator.
LEMMA InsideKeeps ==
  ASSUME IInv, NEW t \in Threads, NEW p \in Ptrs, TypeOK'
  PROVE  /\ EnumEveryConnection(t, p) => IInv'
         /\ Publish(t) => IInv'
         /\ Collect(t, p) => IInv'
         /\ PatchWbemLocator(t) => IInv'
<1>1. /\ WorkSound(work[t]) /\ work[t] \in Works
      /\ radmin \in kept \cup {NIL} /\ kept \in SUBSET Blocks
      /\ NIL \in Null /\ Blocks \in SUBSET Null
  BY DEF IInv, Live, TypeOK, Works, Null
<1>2. /\ Idle \in Works /\ WorkSound(Idle)
      /\ Idle.step = "idle" /\ Idle.outer = NIL
  BY WorkTypes DEF WorkSound, Idle
<1>3. EnumEveryConnection(t, p) => IInv'
  <2> SUFFICES ASSUME EnumEveryConnection(t, p) PROVE IInv'
    OBVIOUS
  <2>1. /\ work[t].step = "idle" /\ work[t].outer = NIL
        /\ UNCHANGED <<ptr, radmin, given>>
    BY DEF EnumEveryConnection, Call, Ready, Idle
  <2>2. ASSUME NEW s \in {"collect", "publish"}, NEW o \in kept \cup {NIL},
               work' = [work EXCEPT ![t] = Within(s, o, p)],
               UNCHANGED <<heap, kept>>
        PROVE  IInv'
    <3>1. Within(s, o, p) \in Works
      BY <1>1, WorkTypes DEF Steps
    <3>2. /\ Within(s, o, p).step = s /\ Within(s, o, p).outer = NIL
          /\ WorkSound(Within(s, o, p))
      BY DEF Within, WorkSound
    <3>3. UNCHANGED <<heap, ptr, kept, given>> /\ radmin' \in kept \cup {NIL}
      BY <1>1, <2>1, <2>2
    <3>4. s \notin {"child", "free", "next", "drop", "idle"}
      BY <2>2
    <3> QED BY <2>1, <2>2, <3>1, <3>2, <3>3, <3>4, WorkKeeps
  <2>3. ASSUME NEW b \in free,
               heap' = [heap EXCEPT ![b] = Object(NetConnection, NIL)],
               kept' = kept \cup {b},
               work' = [work EXCEPT ![t] = Within("publish", b, p)]
        PROVE  IInv'
    <3>1. Orphan(b, NetConnection)
      BY <2>3, MadeClasses DEF Orphan
    <3>2. /\ work'[t] = Within("publish", b, p)
          /\ \A u \in Threads \ {t} : work'[u] = work[u]
      BY <2>3 DEF IInv, TypeOK
    <3> QED BY <2>1, <3>1, <3>2, OrphanKeeps, ClassFacts, MadeClasses
  <2>4. \/ /\ work' = [work EXCEPT ![t] = Within("collect", radmin, p)]
           /\ UNCHANGED <<heap, kept>>
        \/ \E b \in free :
             /\ heap' = [heap EXCEPT ![b] = Object(NetConnection, NIL)]
             /\ kept' = kept \cup {b}
             /\ work' = [work EXCEPT ![t] = Within("publish", b, p)]
        \/ /\ work' = [work EXCEPT ![t] = Within("publish", NIL, p)]
           /\ UNCHANGED <<heap, kept>>
    BY DEF EnumEveryConnection
  <2> QED BY <1>1, <2>2, <2>3, <2>4
<1>4. Publish(t) => IInv'
  <2> SUFFICES ASSUME Publish(t) PROVE IInv'
    OBVIOUS
  <2> DEFINE w == [work[t] EXCEPT !.step = "collect"]
  <2>1. /\ work[t].step = "publish" /\ radmin' = work[t].obj
        /\ UNCHANGED <<heap, ptr, kept, given>>
        /\ work' = [work EXCEPT ![t] = w]
    BY DEF Publish
  <2>2. work[t].obj \in kept \cup {NIL} /\ work[t].outer = NIL
    BY <1>1, <2>1 DEF WorkSound
  <2>3. /\ w \in Works /\ w.step = "collect" /\ w.outer = NIL
        /\ w.obj = work[t].obj
    BY <1>1, <2>2 DEF Works, Steps
  <2> HIDE DEF w
  <2>4. WorkSound(w)
    BY <2>2, <2>3 DEF WorkSound
  <2> QED BY <2>1, <2>2, <2>3, <2>4, WorkKeeps
<1>5. Collect(t, p) => IInv'
  <2> SUFFICES ASSUME Collect(t, p) PROVE IInv'
    OBVIOUS
  <2>1. /\ work[t].step = "collect" /\ work' = [work EXCEPT ![t] = Idle]
        /\ UNCHANGED <<radmin, kept>>
    BY DEF Collect
  <2>2. work[t].outer = NIL /\ work[t].obj \in kept \cup {NIL}
    BY <1>1, <2>1 DEF WorkSound
  <2>3. ASSUME NEW a \in Found(t), NEW b \in free, a # NIL,
               Create(p, b, ConnectionCollection, a)
        PROVE  IInv'
    <3>1. a \in kept
      BY <1>1, <2>2, <2>3 DEF Found
    <3>2. /\ a \in Null /\ a \notin free /\ heap[a].child = NIL /\ ~Torn(a)
      BY <1>1, <3>1, TornAlone DEF IInv, Live
    <3>3. work'[t] = Idle /\ \A u \in Threads \ {t} : work'[u] = work[u]
      BY <2>1 DEF IInv, TypeOK
    <3>4. b \in Blocks
      BY DEF free
    <3> QED BY <2>1, <2>3, <3>2, <3>3, <3>4, CreateKeeps, ClassFacts
  <2>4. ASSUME UNCHANGED <<heap, ptr, given>>
        PROVE  IInv'
    <3>1. UNCHANGED <<heap, ptr, kept, given>> /\ radmin' \in kept \cup {NIL}
      BY <1>1, <2>1, <2>4
    <3> QED BY <1>2, <2>1, <2>2, <3>1, WorkKeeps
  <2> QED BY <2>3, <2>4 DEF Collect
<1>6. PatchWbemLocator(t) => IInv'
  <2> SUFFICES ASSUME PatchWbemLocator(t) PROVE IInv'
    OBVIOUS
  <2>1. /\ work[t].step = "patch" /\ work' = [work EXCEPT ![t] = Idle]
        /\ UNCHANGED <<heap, ptr, kept, given>> /\ radmin' \in kept \cup {NIL}
    BY <1>1 DEF PatchWbemLocator
  <2>2. work[t].outer = NIL
    BY <1>1, <2>1 DEF WorkSound
  <2> QED BY <1>2, <2>1, <2>2, WorkKeeps
<1> QED BY <1>3, <1>4, <1>5, <1>6

LEMMA Stutter == IInv /\ UNCHANGED vars => IInv'
<1> SUFFICES ASSUME IInv, UNCHANGED vars PROVE IInv'
  OBVIOUS
<1>1. /\ heap' = heap /\ ptr' = ptr /\ radmin' = radmin /\ slot' = slot
      /\ work' = work /\ kept' = kept /\ given' = given
  BY DEF vars
<1>2. free' = free
  BY <1>1 DEF free
<1>3. TypeOK'
  BY <1>1 DEF IInv, TypeOK
<1>4. Balance'
  <2>1. \A x : Refs(x)' = Refs(x) /\ Holders(x)' = Holders(x) /\ Late(x)' = Late(x)
    BY <1>1 DEF Refs, Holders, Late
  <2> QED BY <1>1, <1>2, <2>1 DEF IInv, Balance, Surplus
<1>5. Live'
  BY <1>1, <1>2 DEF IInv, Live
<1>6. \A x : (Torn(x)' <=> Torn(x))
  BY <1>1, <1>2 DEF Torn
<1>7. ASSUME NEW u \in Threads
      PROVE  WorkSound(work[u])'
  BY <1>1, <1>2, <1>6 DEF IInv, WorkSound
<1>8. /\ \A x \in Blocks, u \in Threads : Tears(u, x)' <=> Tears(u, x)
      /\ \A x \in Blocks : Nexts(x)' = Nexts(x)
  BY <1>1 DEF Tears, Nexts
<1>9. Exclusive'
  BY <1>6, <1>8, ExclusiveStays
<1>10. Gives'
  BY <1>1, <1>2, <1>8 DEF IInv, Gives
<1> QED BY <1>3, <1>4, <1>5, <1>7, <1>9, <1>10 DEF IInv

LEMMA StepKeeps == IInv /\ [Next]_vars => IInv'
<1> SUFFICES ASSUME IInv, Next PROVE IInv'
  BY Stutter
<1>1. ASSUME NEW t \in Threads, NEW p \in Ptrs, NEW q \in Ptrs
      PROVE  /\ CoCreateInstance(t, p) => IInv'
             /\ CreateLocator(t, p) => IInv'
             /\ Collect(t, p) => IInv'
             /\ EnumEveryConnection(t, p) => IInv'
             /\ Reset(t, p) => IInv'
             /\ ReleaseMortal(t, p) => IInv'
             /\ ReleaseImmortal(t, p) => IInv'
             /\ ConnectServer(t, q, p) => IInv'
             /\ GetObject(t, q, p) => IInv'
             /\ CreateInstanceEnum(t, q, p) => IInv'
             /\ ExecQuery(t, q, p) => IInv'
             /\ get_INetSharingConfiguration(t, q, p) => IInv'
             /\ get_NewEnum(t, q, p) => IInv'
             /\ Invoke(t, q, p) => IInv'
             /\ GetNetworkConnections(t, q, p) => IInv'
             /\ GetNetwork(t, q, p) => IInv'
             /\ NextObject(t, q, p) => IInv'
             /\ AddRef(t, q, p) => IInv'
  BY StepTypesHere, StepTypes, CallKeeps, InsideKeeps, ResetKeeps,
     ReleaseMortalKeeps, ReleaseImmortalKeeps, NextObjectKeeps
<1>2. ASSUME NEW t \in Threads
      PROVE  /\ PatchWbemLocator(t) => IInv'
             /\ Publish(t) => IInv'
             /\ NextReturned(t) => IInv'
             /\ Drop(t) => IInv'
             /\ ReleaseChild(t) => IInv'
             /\ HeapFree(t) => IInv'
  <2>1. PICK p \in Ptrs : TRUE
    BY ComAssumption
  <2> QED BY <2>1, StepTypesHere, StepTypes, InsideKeeps, NextReturnedKeeps,
             DropKeeps, ReleaseChildKeeps, HeapFreeKeeps
<1> QED BY <1>1, <1>2, RestartKeeps DEF Next

-----------------------------------------------------------------------------
(* Theorems                                                                *)

\* The invariant of the objects' life: counts that are the references, pointers
\* to live objects only, one thread for each teardown.
THEOREM Invariance == Spec => []IInv
<1>1. Init => IInv
  BY InitTypes, BegunHolds DEF Init, Begun
<1> QED BY <1>1, StepKeeps, PTL DEF Spec

\* Every variable stays in its type (the globals of emulate_driver_running.c).
THEOREM ObjectTypes == Spec => []TypeOK
<1>1. IInv => TypeOK
  BY DEF IInv
<1> QED BY <1>1, Invariance, PTL

\* The count of an object that can die is the number of references to it, in
\* whatever order the threads AddRef and Release.
THEOREM CountsAreReferences == Spec => []CountIsReferences
<1>1. IInv => CountIsReferences
  BY MortalCount DEF CountIsReferences
<1> QED BY <1>1, Invariance, PTL

\* No pointer of the service, of another object or of a thread inside a call
\* leads to a freed block, nor a reference to an object being torn down.
THEOREM NothingDangles == Spec => []NoUseAfterFree
<1>1. IInv => NoUseAfterFree
  <2> SUFFICES ASSUME IInv PROVE NoUseAfterFree
    OBVIOUS
  <2>1. ASSUME NEW o \in Blocks,
               Refs(o) # {} \/ Holders(o) # {} \/ o \in kept \/ o = radmin
        PROVE  o \notin free /\ (heap[o].class.mortal => heap[o].count > 0)
    <3>1. o \notin free
      BY <2>1, FreeFacts DEF Refs, Holders
    <3>2. ~Torn(o)
      BY <2>1, TornAlone DEF Refs, Holders
    <3>3. heap[o].class.mortal => heap[o].count \in Nat
      BY <3>1, MortalCount
    <3> QED BY <3>1, <3>2, <3>3 DEF Torn
  <2>2. \A t \in Threads : work[t].obj \notin free /\ work[t].outer \notin free
    BY FreeFacts
  <2> QED BY <2>1, <2>2 DEF NoUseAfterFree
<1> QED BY <1>1, Invariance, PTL

\* An object without references is torn down by exactly one thread: racing
\* Releases neither free it twice nor forget it.
THEOREM OneTearsDown == Spec => []TornDownOnce
<1>1. IInv => TornDownOnce
  BY DEF IInv, Exclusive, Torn, TornDownOnce
<1> QED BY <1>1, Invariance, PTL

\* Between two resets an enumerator hands out its object once, also while the
\* thread in Next has not yet set alreadyReturned.
THEOREM GivesOnce == Spec => []EnumeratorGivesOnce
<1>1. IInv => EnumeratorGivesOnce
  <2> SUFFICES ASSUME IInv, NEW o \in Blocks \ free, heap[o].class.once
               PROVE  given[o] = (IF heap[o].returned THEN 1 ELSE 0)
                                   + Cardinality(Nexts(o))
    BY DEF EnumeratorGivesOnce, Nexts
  <2>1. given[o] = IF heap[o].returned \/ Nexts(o) # {} THEN 1 ELSE 0
    BY DEF IInv, Gives
  <2>2. CASE Nexts(o) = {}
    <3>1. Cardinality(Nexts(o)) = 0
      BY <2>2, FS_EmptySet
    <3> QED BY <2>1, <2>2, <3>1
  <2>3. CASE Nexts(o) # {}
    <3>1. PICK t \in Nexts(o) : TRUE
      BY <2>3
    <3>2. Nexts(o) = {t}
      BY <3>1 DEF IInv, Exclusive, Nexts
    <3>3. Cardinality(Nexts(o)) = 1
      BY <3>2, FS_Singleton
    <3>4. ~heap[o].returned
      BY <3>1 DEF IInv, Nexts, WorkSound
    <3> QED BY <2>1, <2>3, <3>3, <3>4
  <2> QED BY <2>2, <2>3
<1> QED BY <1>1, Invariance, PTL

-----------------------------------------------------------------------------
(* The vtable that all locators share                                      *)

\* A step that leaves the slot, the threads inside PatchWbemLocator and the
\* set of locators as they are, or makes the last one smaller.
Aside ==
  /\ slot' = slot
  /\ \A u \in Threads : work[u].step = "patch" => work'[u] = work[u]
  /\ \A b \in Blocks : heap'[b].class = WbemLocator => heap[b].class = WbemLocator

LEMMA AsideConnects == LocatorConnects /\ Aside => LocatorConnects'
BY DEF LocatorConnects, Aside

LEMMA CreateAside ==
  ASSUME TypeOK, NEW p, NEW b \in Blocks, NEW c, c # WbemLocator, NEW k,
         Create(p, b, c, k)
  PROVE  \A x \in Blocks : heap'[x].class = WbemLocator => heap[x].class = WbemLocator
<1> SUFFICES ASSUME NEW x \in Blocks, heap'[x].class = WbemLocator
             PROVE  heap[x].class = WbemLocator
  OBVIOUS
<1>1. heap[x] \in Objects
  BY DEF TypeOK, Objects
<1>2. x # b
  BY DEF Create, Object
<1>3. heap'[x] \in {heap[x], [heap[x] EXCEPT !.count = @ + 1]}
  BY <1>2 DEF Create
<1> QED BY <1>1, <1>3 DEF Objects

LEMMA StepsAside ==
  ASSUME IInv, NEW t \in Threads, NEW p \in Ptrs, NEW q \in Ptrs
  PROVE  /\ CoCreateInstance(t, p) => Aside
         /\ Collect(t, p) => Aside
         /\ EnumEveryConnection(t, p) => Aside
         /\ Reset(t, p) => Aside
         /\ ReleaseMortal(t, p) => Aside
         /\ ReleaseImmortal(t, p) => Aside
         /\ ConnectServer(t, q, p) => Aside
         /\ GetObject(t, q, p) => Aside
         /\ CreateInstanceEnum(t, q, p) => Aside
         /\ ExecQuery(t, q, p) => Aside
         /\ get_INetSharingConfiguration(t, q, p) => Aside
         /\ get_NewEnum(t, q, p) => Aside
         /\ Invoke(t, q, p) => Aside
         /\ GetNetworkConnections(t, q, p) => Aside
         /\ GetNetwork(t, q, p) => Aside
         /\ NextObject(t, q, p) => Aside
         /\ AddRef(t, q, p) => Aside
         /\ Publish(t) => Aside
         /\ NextReturned(t) => Aside
         /\ Drop(t) => Aside
         /\ ReleaseChild(t) => Aside
         /\ HeapFree(t) => Aside
<1>0. /\ heap \in [Blocks -> Objects] /\ work \in [Threads -> Works]
      /\ TypeOK /\ free \in SUBSET Blocks
  BY DEF IInv, TypeOK, Objects, Works, free
<1>a. /\ Idle.step = "idle" /\ \A c, k : Object(c, k).class = c
      /\ Free.class = Unused
  BY DEF Idle, Object, Free
<1>1. CoCreateInstance(t, p) => Aside
  BY <1>0, CreateAside, ClassFacts DEF CoCreateInstance, Aside
<1>2. Collect(t, p) => Aside
  <2> SUFFICES ASSUME Collect(t, p) PROVE Aside
    OBVIOUS
  <2>1. /\ \A u \in Threads : work[u].step = "patch" => work'[u] = work[u]
        /\ slot' = slot
    BY <1>0 DEF Collect
  <2>2. ASSUME NEW x \in Blocks, heap'[x].class = WbemLocator
        PROVE  heap[x].class = WbemLocator
    BY <1>0, <2>2, CreateAside, ClassFacts DEF Collect
  <2> QED BY <2>1, <2>2 DEF Aside
<1>3. EnumEveryConnection(t, p) => Aside
  <2> SUFFICES ASSUME EnumEveryConnection(t, p) PROVE Aside
    OBVIOUS
  <2>1. /\ \A u \in Threads : work[u].step = "patch" => work'[u] = work[u]
        /\ slot' = slot
    BY <1>0, <1>a DEF EnumEveryConnection, Call, Ready
  <2>2. ASSUME NEW x \in Blocks, heap'[x].class = WbemLocator
        PROVE  heap[x].class = WbemLocator
    BY <1>0, <1>a, <2>2, ClassFacts DEF EnumEveryConnection
  <2> QED BY <2>1, <2>2 DEF Aside
<1>4. Reset(t, p) => Aside
  BY <1>0 DEF Reset, Aside, Objects
<1>5. ReleaseMortal(t, p) => Aside
  <2> SUFFICES ASSUME ReleaseMortal(t, p) PROVE Aside
    OBVIOUS
  <2>1. \A u \in Threads : work[u].step = "patch" => work'[u] = work[u]
    BY <1>0, <1>a DEF ReleaseMortal, GivenBack, Ready
  <2> QED BY <1>0, <2>1 DEF ReleaseMortal, GivenBack, Aside, Objects
<1>6. ReleaseImmortal(t, p) => Aside
  BY <1>0, <1>a DEF ReleaseImmortal, GivenBack, Ready, Aside
<1>7. ConnectServer(t, q, p) => Aside
  BY <1>0, CreateAside, ClassFacts DEF ConnectServer, Aside
<1>8. GetObject(t, q, p) => Aside
  BY <1>0, CreateAside, ClassFacts DEF GetObject, Aside
<1>9. ASSUME NEW c \in Classes \ {WbemLocator}, Enumerate(t, q, p, c)
      PROVE  Aside
  <2>1. slot' = slot /\ work' = work
    BY <1>9 DEF Enumerate
  <2>2. ASSUME NEW x \in Blocks, heap'[x].class = WbemLocator
        PROVE  heap[x].class = WbemLocator
    BY <1>0, <1>9, <1>a, <2>2, ClassFacts DEF Enumerate
  <2> QED BY <2>1, <2>2 DEF Aside
<1>10. get_INetSharingConfiguration(t, q, p) => Aside
  BY <1>0, CreateAside, ClassFacts DEF get_INetSharingConfiguration, Aside
<1>11. get_NewEnum(t, q, p) => Aside
  BY <1>0, CreateAside, ClassFacts DEF get_NewEnum, Aside
<1>12. \A o : Share(p, o) => \A x \in Blocks : heap'[x].class = heap[x].class
  BY <1>0 DEF Share, Objects
<1>13. Invoke(t, q, p) => Aside
  BY <1>12 DEF Invoke, Aside
<1>14. GetNetworkConnections(t, q, p) => Aside
  <2> SUFFICES ASSUME GetNetworkConnections(t, q, p) PROVE Aside
    OBVIOUS
  <2>1. slot' = slot /\ work' = work
    BY DEF GetNetworkConnections
  <2>2. ASSUME NEW x \in Blocks, heap'[x].class = WbemLocator
        PROVE  heap[x].class = WbemLocator
    BY <1>0, <1>a, <2>2, ClassFacts DEF GetNetworkConnections
  <2> QED BY <2>1, <2>2 DEF Aside
<1>15. GetNetwork(t, q, p) => Aside
  BY <1>0, CreateAside, ClassFacts DEF GetNetwork, Aside
<1>16. NextObject(t, q, p) => Aside
  <2> SUFFICES ASSUME NextObject(t, q, p) PROVE Aside
    OBVIOUS
  <2>1. \A u \in Threads : work[u].step = "patch" => work'[u] = work[u]
    BY <1>0, <1>a DEF NextObject, Call, Ready
  <2>2. slot' = slot /\ Share(p, heap[ptr[q]].child)
    BY DEF NextObject
  <2> QED BY <1>12, <2>1, <2>2 DEF Aside
<1>17. AddRef(t, q, p) => Aside
  BY <1>12 DEF AddRef, Aside
<1>18. Publish(t) => Aside
  BY <1>0 DEF Publish, Aside
<1>19. NextReturned(t) => Aside
  BY <1>0 DEF NextReturned, Aside, Objects
<1>20. Drop(t) => Aside
  BY <1>0 DEF Drop, Aside, Objects
<1>21. ReleaseChild(t) => Aside
  <2> SUFFICES ASSUME ReleaseChild(t) PROVE Aside
    OBVIOUS
  <2>1. /\ \A u \in Threads : work[u].step = "patch" => work'[u] = work[u]
        /\ slot' = slot
    BY <1>0 DEF ReleaseChild
  <2>2. \A x \in Blocks : heap'[x].class = heap[x].class
    BY <1>0 DEF ReleaseChild, Objects
  <2> QED BY <2>1, <2>2 DEF Aside
<1>22. HeapFree(t) => Aside
  <2> SUFFICES ASSUME HeapFree(t) PROVE Aside
    OBVIOUS
  <2>1. /\ \A u \in Threads : work[u].step = "patch" => work'[u] = work[u]
        /\ slot' = slot
    BY <1>0 DEF HeapFree
  <2>2. ASSUME NEW x \in Blocks, heap'[x].class = WbemLocator
        PROVE  heap[x].class = WbemLocator
    BY <1>0, <1>a, <2>2, ClassFacts DEF HeapFree
  <2> QED BY <2>1, <2>2 DEF Aside
<1> QED BY <1>1, <1>2, <1>3, <1>4, <1>5, <1>6, <1>7, <1>8, <1>9, <1>10, <1>11,
           <1>13, <1>14, <1>15, <1>16, <1>17, <1>18, <1>19, <1>20, <1>21, <1>22,
           ClassFacts DEF CreateInstanceEnum, ExecQuery

\* ConnectServer's slot is empty only while a thread creates a locator.
THEOREM LocatorsConnect == Spec => []LocatorConnects
<1>1. Init => LocatorConnects
  BY ClassFacts DEF Init, Fresh, Free, LocatorConnects
<1>2. IInv /\ LocatorConnects /\ [Next]_vars => LocatorConnects'
  <2> SUFFICES ASSUME IInv, LocatorConnects, Next PROVE LocatorConnects'
    BY DEF LocatorConnects, vars
  <2>1. ASSUME NEW t \in Threads, NEW p \in Ptrs, CreateLocator(t, p)
        PROVE  LocatorConnects'
    <3>1. work'[t].step = "patch"
      BY <2>1 DEF CreateLocator, Within, IInv, TypeOK
    <3> QED BY <3>1 DEF LocatorConnects
  <2>2. ASSUME NEW t \in Threads, PatchWbemLocator(t)
        PROVE  LocatorConnects'
    BY <2>2 DEF PatchWbemLocator, LocatorConnects
  <2>3. CASE Restart
    BY <2>3, ClassFacts DEF Restart, Fresh, Free, LocatorConnects
  <2>4. PICK r \in Ptrs : TRUE
    BY ComAssumption
  <2> QED BY <2>1, <2>2, <2>3, <2>4, StepsAside, AsideConnects DEF Next
<1> QED BY <1>1, <1>2, Invariance, PTL DEF Spec
=============================================================================
