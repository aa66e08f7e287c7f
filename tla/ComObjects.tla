----------------------------- MODULE ComObjects -----------------------------
(***************************************************************************)
(* The COM objects that emulate_driver_running.c hands to the VPN service: *)
(* WMI, the sharing manager, the network list manager and what they return.*)
(* Every object is a heap block with a reference count of its own, changed *)
(* by the service's threads without a lock.  A step of a thread is one     *)
(* interlocked operation with the local work around it, one read or write  *)
(* of shared memory, or one HeapFree.                                      *)
(*                                                                         *)
(* The service owes COM's rules: it calls through pointers it holds, and   *)
(* gives a pointer back once, when no call through it is running.          *)
(***************************************************************************)
EXTENDS Integers, FiniteSets

CONSTANTS
  Threads,      (* threads of the service                                  *)
  Blocks,       (* bound: heap blocks for objects                          *)
  Ptrs,         (* bound: pointer variables of the service                 *)
  NIL           (* the null pointer                                        *)

ASSUME ComAssumption ==
  /\ NIL \notin Blocks /\ Ptrs # {}
  /\ IsFiniteSet(Threads) /\ IsFiniteSet(Blocks) /\ IsFiniteSet(Ptrs)

-----------------------------------------------------------------------------
(* The classes: mortal objects are freed by their last Release, the others *)
(* never; once means that the flag alreadyReturned is kept; methods are the*)
(* slots of the vtable whose functions change a count, make an object or   *)
(* move an enumerator.  All other slots return constants.                  *)

Unused == [name |-> "unused", mortal |-> TRUE, once |-> FALSE, methods |-> {}]

WbemLocator ==
  [name |-> "WbemLocator", mortal |-> FALSE, once |-> FALSE,
   methods |-> {"ConnectServer"}]

WbemServices ==
  [name |-> "WbemServices", mortal |-> TRUE, once |-> FALSE,
   methods |-> {"GetObject", "Enumerate"}]

WbemClassObject ==
  [name |-> "WbemClassObject", mortal |-> FALSE, once |-> FALSE, methods |-> {}]

\* Its own AddRef and Release are not in its vtable: the first three slots
\* are copied from the locator's.
NetAdapterObject ==
  [name |-> "NetAdapterObject", mortal |-> FALSE, once |-> FALSE,
   methods |-> {}]

EnumWbemClassObject ==
  [name |-> "EnumWbemClassObject", mortal |-> TRUE, once |-> TRUE,
   methods |-> {"Next", "Reset"}]

NetSharingManager ==
  [name |-> "NetSharingManager", mortal |-> TRUE, once |-> FALSE,
   methods |-> {"SharingConfiguration", "EnumEveryConnection"}]

NetSharingConfiguration ==
  [name |-> "NetSharingConfiguration", mortal |-> TRUE, once |-> FALSE,
   methods |-> {}]

ConnectionCollection ==
  [name |-> "ConnectionCollection", mortal |-> TRUE, once |-> FALSE,
   methods |-> {"Invoke", "NewEnum"}]

VarEnumerator ==
  [name |-> "VarEnumerator", mortal |-> TRUE, once |-> TRUE,
   methods |-> {"Next", "Reset"}]

NetConnection ==
  [name |-> "NetConnection", mortal |-> TRUE, once |-> FALSE, methods |-> {}]

NetworkListManager ==
  [name |-> "NetworkListManager", mortal |-> FALSE, once |-> FALSE,
   methods |-> {"GetNetworkConnections"}]

EnumNetworkConnections ==
  [name |-> "EnumNetworkConnections", mortal |-> TRUE, once |-> TRUE,
   methods |-> {"Next", "Reset"}]

NetworkConnection ==
  [name |-> "NetworkConnection", mortal |-> TRUE, once |-> FALSE,
   methods |-> {"GetNetwork"}]

Network ==
  [name |-> "Network", mortal |-> TRUE, once |-> FALSE, methods |-> {}]

Classes ==
  {Unused, WbemLocator, WbemServices, WbemClassObject, NetAdapterObject,
   EnumWbemClassObject, NetSharingManager, NetSharingConfiguration,
   ConnectionCollection, VarEnumerator, NetConnection, NetworkListManager,
   EnumNetworkConnections, NetworkConnection, Network}

-----------------------------------------------------------------------------
VARIABLES
  heap,        (* the objects: class, refCount, fakeObject/fakeConnection, *)
               (*   alreadyReturned                                        *)
  ptr,         (* the pointers the service holds                           *)
  radmin,      (* g_FakeRadminConnection                                   *)
  slot,        (* patchedLocatorVtable[3] is Hook_..._ConnectServer        *)
  work,        (* what a thread inside a call does next                    *)
  kept,        (* auxiliary: connections whose first reference was for     *)
               (*   g_FakeRadminConnection                                 *)
  given        (* auxiliary: objects handed out since creation or Reset    *)

vars == <<heap, ptr, radmin, slot, work, kept, given>>

\* The object c as its Create function leaves it, holding k.
Object(c, k) == [class |-> c, count |-> 1, child |-> k, returned |-> FALSE]

Free == [class |-> Unused, count |-> 0, child |-> NIL, returned |-> FALSE]

\* A thread's step, the object it is about, the enclosing object whose
\* teardown waits for it, and the pointer the call was made through.
Idle == [step |-> "idle", obj |-> NIL, outer |-> NIL, via |-> NIL]
Step(s, o, q) == [step |-> s, obj |-> o, outer |-> q, via |-> NIL]
Within(s, o, p) == [step |-> s, obj |-> o, outer |-> NIL, via |-> p]

\* Release of an object that ends the teardown of another, or a call.
Resume(q) == IF q = NIL THEN Idle ELSE Step("free", q, NIL)

Fresh ==
  [heap |-> [b \in Blocks |-> Free], ptr |-> [p \in Ptrs |-> NIL],
   work |-> [t \in Threads |-> Idle], given |-> [b \in Blocks |-> 0]]

Init ==
  /\ heap = Fresh.heap /\ ptr = Fresh.ptr
  /\ radmin = NIL /\ slot = FALSE
  /\ work = Fresh.work
  /\ kept = {} /\ given = Fresh.given

free == {b \in Blocks : heap[b].class = Unused}

-----------------------------------------------------------------------------
(* Helpers *)

Ready(t) == work[t] = Idle

\* A call of method m through p by an idle thread.
Call(t, p, m) ==
  /\ Ready(t)
  /\ ptr[p] # NIL
  /\ m \in heap[ptr[p]].class.methods

\* HeapAlloc found b: a new object of class c in p, with a reference to k.
Create(p, b, c, k) ==
  /\ ptr[p] = NIL
  /\ b \in free
  /\ ptr' = [ptr EXCEPT ![p] = b]
  /\ heap' = [x \in Blocks |->
                IF x = b THEN Object(c, k)
                ELSE IF x = k THEN [heap[x] EXCEPT !.count = @ + 1]
                ELSE heap[x]]
  /\ given' = [given EXCEPT ![b] = 0]

\* A second pointer to o, with a reference of its own.
Share(p, o) ==
  /\ ptr[p] = NIL
  /\ ptr' = [ptr EXCEPT ![p] = o]
  /\ heap' = [heap EXCEPT ![o].count = @ + 1]

-----------------------------------------------------------------------------
(* Hook_CoCreateInstance: a locator is patched, the sharing manager and the *)
(* network list manager are replaced.  HeapAlloc may always fail: then a   *)
(* call returns an error and, where no step says otherwise, changes nothing*)

CoCreateInstance(t, p) ==
  /\ Ready(t)
  /\ \E b \in free, c \in {NetSharingManager, NetworkListManager} :
       Create(p, b, c, NIL)
  /\ UNCHANGED <<radmin, slot, work, kept>>

\* PatchWbemLocator copies the dummy vtable, whose slot 3 is empty, over the
\* one patched vtable that all locators share ...
CreateLocator(t, p) ==
  /\ Ready(t)
  /\ \E b \in free : /\ Create(p, b, WbemLocator, NIL)
                     /\ work' = [work EXCEPT ![t] = Within("patch", b, p)]
  /\ slot' = FALSE
  /\ UNCHANGED <<radmin, kept>>

\* Faulty variant: the slot of ConnectServer is not patched.
PatchQueryInterfaceOnly(t) ==
  /\ work[t].step = "patch"
  /\ work' = [work EXCEPT ![t] = Idle]
  /\ UNCHANGED <<heap, ptr, radmin, slot, kept, given>>

\* ... and fills the slot.
PatchWbemLocator(t) ==
  /\ work[t].step = "patch"
  /\ slot' = TRUE
  /\ work' = [work EXCEPT ![t] = Idle]
  /\ UNCHANGED <<heap, ptr, radmin, kept, given>>

\* The service does not use a locator before CoCreateInstance has returned it.
Returned(p) == \A t \in Threads : work[t].step = "patch" => work[t].via # p

\* There never is a real ConnectServer: the dummy's slot was empty.
ConnectServer(t, l, p) ==
  /\ Call(t, l, "ConnectServer")
  /\ Returned(l)
  /\ slot
  /\ \E b \in free : Create(p, b, WbemServices, NIL)
  /\ UNCHANGED <<radmin, slot, work, kept>>

-----------------------------------------------------------------------------
(* WMI *)

\* Other paths than those of the two adapter classes call a null pointer.
GetObject(t, s, p) ==
  /\ Call(t, s, "GetObject")
  /\ \E b \in free, c \in {WbemClassObject, NetAdapterObject} :
       Create(p, b, c, NIL)
  /\ UNCHANGED <<radmin, slot, work, kept>>

\* CreateInstanceEnum and ExecQuery make an object, an enumerator that adds a
\* reference to it, and release their own.
Enumerate(t, s, p, c) ==
  /\ Call(t, s, "Enumerate")
  /\ ptr[p] = NIL
  /\ \E b \in free :
       \/ \E e \in free \ {b} :
            /\ heap' = [heap EXCEPT ![b] = Object(c, NIL),
                                    ![e] = Object(EnumWbemClassObject, b)]
            /\ ptr' = [ptr EXCEPT ![p] = e]
            /\ given' = [given EXCEPT ![e] = 0]
       \/ /\ heap' = [heap EXCEPT ![b] = Object(c, NIL)]
          /\ UNCHANGED <<ptr, given>>    \* no enumerator: b stays for ever
  /\ UNCHANGED <<radmin, slot, work, kept>>

CreateInstanceEnum(t, s, p) == Enumerate(t, s, p, WbemClassObject)

\* A query with another adapter's GUID has no result and no effect.
ExecQuery(t, s, p) == Enumerate(t, s, p, NetAdapterObject)

-----------------------------------------------------------------------------
(* Network sharing *)

get_INetSharingConfiguration(t, m, p) ==
  /\ Call(t, m, "SharingConfiguration")
  /\ \E b \in free : Create(p, b, NetSharingConfiguration, NIL)
  /\ UNCHANGED <<radmin, slot, work, kept>>

\* get_EnumEveryConnection: GetOrCreateFakeRadminConnection finds the
\* connection, makes one, or has no memory for it.
EnumEveryConnection(t, m) ==
  /\ Call(t, m, "EnumEveryConnection")
  /\ \/ /\ radmin # NIL
        /\ work' = [work EXCEPT ![t] = Within("collect", radmin, m)]
        /\ UNCHANGED <<heap, kept>>
     \/ /\ radmin = NIL
        /\ \E b \in free :
             /\ heap' = [heap EXCEPT ![b] = Object(NetConnection, NIL)]
             /\ kept' = kept \cup {b}
             /\ work' = [work EXCEPT ![t] = Within("publish", b, m)]
     \/ /\ radmin = NIL
        /\ work' = [work EXCEPT ![t] = Within("publish", NIL, m)]
        /\ UNCHANGED <<heap, kept>>
  /\ UNCHANGED <<ptr, radmin, slot, given>>

\* Faulty variant: the address of the local variable is assigned.
PublishAddress(t) ==
  /\ work[t].step = "publish"
  /\ radmin' = work[t]
  /\ work' = [work EXCEPT ![t].step = "collect"]
  /\ UNCHANGED <<heap, ptr, slot, kept, given>>

\* The assignment, which may overwrite the connection of another thread.
Publish(t) ==
  /\ work[t].step = "publish"
  /\ radmin' = work[t].obj
  /\ work' = [work EXCEPT ![t].step = "collect"]
  /\ UNCHANGED <<heap, ptr, slot, kept, given>>

\* What GetOrCreate returns: its own value, or the variable read again.
Found(t) == {work[t].obj, radmin}

\* CreateConnectionCollection, or E_OUTOFMEMORY.
Collect(t, p) ==
  /\ work[t].step = "collect"
  /\ work' = [work EXCEPT ![t] = Idle]
  /\ \/ \E a \in Found(t), b \in free :
          a # NIL /\ Create(p, b, ConnectionCollection, a)
     \/ UNCHANGED <<heap, ptr, given>>
  /\ UNCHANGED <<radmin, slot, kept>>

\* get__NewEnum of a collection.
get_NewEnum(t, c, p) ==
  /\ Call(t, c, "NewEnum")
  /\ \E b \in free : Create(p, b, VarEnumerator, heap[ptr[c]].child)
  /\ UNCHANGED <<radmin, slot, work, kept>>

\* Invoke with DISPID_VALUE returns the collection's connection.
Invoke(t, c, p) ==
  /\ Call(t, c, "Invoke")
  /\ Share(p, heap[ptr[c]].child)
  /\ UNCHANGED <<radmin, slot, work, kept, given>>

-----------------------------------------------------------------------------
(* Network list *)

\* The enumerator takes over the first reference of its connection, or
\* releases it when there is no memory left for itself.
GetNetworkConnections(t, n, p) ==
  /\ Call(t, n, "GetNetworkConnections")
  /\ ptr[p] = NIL
  /\ \E b, e \in free :
       /\ b # e
       /\ heap' = [heap EXCEPT ![b] = Object(NetworkConnection, NIL),
                               ![e] = Object(EnumNetworkConnections, b)]
       /\ ptr' = [ptr EXCEPT ![p] = e]
       /\ given' = [given EXCEPT ![e] = 0]
  /\ UNCHANGED <<radmin, slot, work, kept>>

GetNetwork(t, n, p) ==
  /\ Call(t, n, "GetNetwork")
  /\ \E b \in free : Create(p, b, Network, NIL)
  /\ UNCHANGED <<radmin, slot, work, kept>>

-----------------------------------------------------------------------------
(* Enumerators.  The service does not use one from two threads at once.    *)

Alone(o) == \A u \in Threads : work[u].step = "next" => work[u].obj # o

\* Faulty variant: the object is handed out without a reference.
NextBorrowing(t, e, p) ==
  LET o == ptr[e] IN
  /\ Call(t, e, "Next")
  /\ Alone(o)
  /\ ~heap[o].returned
  /\ ptr[p] = NIL
  /\ ptr' = [ptr EXCEPT ![p] = heap[o].child]
  /\ given' = [given EXCEPT ![o] = @ + 1]
  /\ work' = [work EXCEPT ![t] = Within("next", o, e)]
  /\ UNCHANGED <<heap, radmin, slot, kept>>

\* Next hands out the object with a reference ...
NextObject(t, e, p) ==
  LET o == ptr[e] IN
  /\ Call(t, e, "Next")
  /\ Alone(o)
  /\ ~heap[o].returned              \* else S_FALSE
  /\ Share(p, heap[o].child)
  /\ given' = [given EXCEPT ![o] = @ + 1]
  /\ work' = [work EXCEPT ![t] = Within("next", o, e)]
  /\ UNCHANGED <<radmin, slot, kept>>

\* Faulty variant: the flag is not set.
NextForgets(t) ==
  /\ work[t].step = "next"
  /\ work' = [work EXCEPT ![t] = Idle]
  /\ UNCHANGED <<heap, ptr, radmin, slot, kept, given>>

\* ... and sets alreadyReturned.
NextReturned(t) ==
  /\ work[t].step = "next"
  /\ heap' = [heap EXCEPT ![work[t].obj].returned = TRUE]
  /\ work' = [work EXCEPT ![t] = Idle]
  /\ UNCHANGED <<ptr, radmin, slot, kept, given>>

Reset(t, e) ==
  /\ Call(t, e, "Reset")
  /\ Alone(ptr[e])
  /\ heap' = [heap EXCEPT ![ptr[e]].returned = FALSE]
  /\ given' = [given EXCEPT ![ptr[e]] = 0]
  /\ UNCHANGED <<ptr, radmin, slot, work, kept>>

-----------------------------------------------------------------------------
(* Counting.  QueryInterface for an interface the object has is an AddRef  *)
(* and a copy of the pointer, for another one it does nothing.             *)

\* Faulty variant: the copy is not counted.
QueryInterfaceUncounted(t, p, q) ==
  /\ Ready(t)
  /\ ptr[p] # NIL /\ ptr[q] = NIL /\ Returned(p)
  /\ ptr' = [ptr EXCEPT ![q] = ptr[p]]
  /\ UNCHANGED <<heap, radmin, slot, work, kept, given>>

AddRef(t, p, q) ==
  /\ Ready(t)
  /\ ptr[p] # NIL /\ Returned(p)
  /\ Share(q, ptr[p])
  /\ UNCHANGED <<radmin, slot, work, kept, given>>

\* The service gives p back, when no call through it is running.
GivenBack(t, p) ==
  /\ Ready(t)
  /\ ptr[p] # NIL
  /\ \A u \in Threads : work[u].via # p
  /\ ptr' = [ptr EXCEPT ![p] = NIL]
  /\ UNCHANGED <<radmin, slot, kept, given>>

\* Faulty variant: the count before the decrement is compared with 0.
ReleaseOldCount(t, p) ==
  LET o == ptr[p] IN
  /\ GivenBack(t, p)
  /\ heap[o].class.mortal
  /\ heap' = [heap EXCEPT ![o].count = @ - 1]
  /\ work' = IF heap[o].count = 0
             THEN [work EXCEPT ![t] = Step("child", o, NIL)] ELSE work

\* Release of a mortal object: one interlocked decrement, whose result tells
\* the thread to tear the object down.
ReleaseMortal(t, p) ==
  LET o == ptr[p] IN
  /\ GivenBack(t, p)
  /\ heap[o].class.mortal
  /\ heap' = [heap EXCEPT ![o].count = @ - 1]
  /\ work' = IF heap[o].count = 1
             THEN [work EXCEPT ![t] = Step("child", o, NIL)] ELSE work

\* Release of an immortal object reads the count, and decrements it in a
\* second step if it was above 1.
ReleaseImmortal(t, p) ==
  LET o == ptr[p] IN
  /\ GivenBack(t, p)
  /\ ~heap[o].class.mortal
  /\ work' = IF heap[o].count > 1
             THEN [work EXCEPT ![t] = Step("drop", o, NIL)] ELSE work
  /\ UNCHANGED heap

Drop(t) ==
  /\ work[t].step = "drop"
  /\ heap' = [heap EXCEPT ![work[t].obj].count = @ - 1]
  /\ work' = [work EXCEPT ![t] = Resume(work[t].outer)]
  /\ UNCHANGED <<ptr, radmin, slot, kept, given>>

\* Faulty variant: the last Release frees the object and not its child's
\* reference.
ReleaseChildNever(t) ==
  LET o == work[t].obj IN
  /\ work[t].step = "child"
  /\ work' = [work EXCEPT ![t] = Step("free", o, NIL)]
  /\ heap' = [heap EXCEPT ![o].child = NIL]
  /\ UNCHANGED <<ptr, radmin, slot, kept, given>>

\* The last Release of an object first releases the object it holds.
ReleaseChild(t) ==
  LET o == work[t].obj
      k == heap[o].child
  IN
  /\ work[t].step = "child"
  /\ \/ /\ k = NIL
        /\ work' = [work EXCEPT ![t] = Step("free", o, NIL)]
        /\ UNCHANGED heap
     \/ /\ k # NIL /\ heap[k].class.mortal
        /\ heap' = [heap EXCEPT ![k].count = @ - 1, ![o].child = NIL]
        /\ work' = [work EXCEPT ![t] = IF heap[k].count = 1
                                       THEN Step("free", k, o)
                                       ELSE Step("free", o, NIL)]
     \/ /\ k # NIL /\ ~heap[k].class.mortal
        /\ heap' = [heap EXCEPT ![o].child = NIL]
        /\ work' = [work EXCEPT ![t] = IF heap[k].count > 1
                                       THEN Step("drop", k, o)
                                       ELSE Step("free", o, NIL)]
  /\ UNCHANGED <<ptr, radmin, slot, kept, given>>

HeapFree(t) ==
  /\ work[t].step = "free"
  /\ heap' = [heap EXCEPT ![work[t].obj] = Free]
  /\ work' = [work EXCEPT ![t] = Resume(work[t].outer)]
  /\ UNCHANGED <<ptr, radmin, slot, kept, given>>

-----------------------------------------------------------------------------
\* The service calls ConnectServer of a locator whose slot is empty, while
\* another one is created ...
EmptySlotCall(t) ==
  \E l \in Ptrs : Call(t, l, "ConnectServer") /\ Returned(l) /\ ~slot

\* ... or CreateConnectionCollection calls AddRef of a connection there was no
\* memory for.
NullConnection(t) == work[t].step = "collect" /\ NIL \in Found(t)

\* The process ends between calls, or in one through a null pointer, and is
\* started again.
Restart ==
  /\ \/ work = Fresh.work
     \/ \E t \in Threads : EmptySlotCall(t) \/ NullConnection(t)
  /\ heap' = Fresh.heap /\ ptr' = Fresh.ptr
  /\ radmin' = NIL /\ slot' = FALSE
  /\ work' = Fresh.work
  /\ kept' = {} /\ given' = Fresh.given

Next ==
  \/ \E t \in Threads :
       \/ \E p \in Ptrs :
            \/ CoCreateInstance(t, p) \/ CreateLocator(t, p)
            \/ Collect(t, p)
            \/ EnumEveryConnection(t, p) \/ Reset(t, p)
            \/ ReleaseMortal(t, p) \/ ReleaseImmortal(t, p)
            \/ \E q \in Ptrs :
                 \/ ConnectServer(t, q, p) \/ GetObject(t, q, p)
                 \/ CreateInstanceEnum(t, q, p) \/ ExecQuery(t, q, p)
                 \/ get_INetSharingConfiguration(t, q, p)
                 \/ get_NewEnum(t, q, p) \/ Invoke(t, q, p)
                 \/ GetNetworkConnections(t, q, p) \/ GetNetwork(t, q, p)
                 \/ NextObject(t, q, p)
                 \/ AddRef(t, q, p)
       \/ PatchWbemLocator(t) \/ Publish(t) \/ NextReturned(t)
       \/ Drop(t) \/ ReleaseChild(t) \/ HeapFree(t)
  \/ Restart

Spec == Init /\ [][Next]_vars

-----------------------------------------------------------------------------
(* Properties *)

Null == Blocks \cup {NIL}
Steps == {"idle", "patch", "publish", "collect", "next", "drop", "child",
          "free"}

TypeOK ==
  /\ heap \in [Blocks -> [class : Classes, count : Int, child : Null,
                          returned : BOOLEAN]]
  /\ ptr \in [Ptrs -> Null]
  /\ radmin \in Null /\ slot \in BOOLEAN
  /\ work \in [Threads -> [step : Steps, obj : Null, outer : Null,
                           via : Ptrs \cup {NIL}]]
  /\ kept \in SUBSET Blocks
  /\ given \in [Blocks -> Nat]

Refs(o) == {p \in Ptrs : ptr[p] = o}
Holders(o) == {b \in Blocks : heap[b].child = o}

\* The count of an object that can die is the number of references to it:
\* the service's, other objects', and one of every connection that was made
\* for g_FakeRadminConnection.  None is forgotten by a Release and none counted
\* twice, so nothing dies early (the Release functions, e.g.
\* emulate_driver_running.c:149).  A connection that another thread's
\* assignment replaced keeps the first reference, which nobody can give back.
CountIsReferences ==
  \A o \in Blocks \ free :
    heap[o].class.mortal =>
      heap[o].count = Cardinality(Refs(o)) + Cardinality(Holders(o))
                        + Cardinality({o} \cap kept)

\* Whatever points to an object points to one that is not freed, nor being
\* torn down.
NoUseAfterFree ==
  /\ \A o \in Blocks :
       Refs(o) # {} \/ Holders(o) # {} \/ o \in kept \/ o = radmin
         => /\ o \notin free
            /\ heap[o].class.mortal => heap[o].count > 0
  /\ \A t \in Threads : work[t].obj \notin free /\ work[t].outer \notin free

Tears(t, o) ==
  \/ work[t].step \in {"child", "free"} /\ work[t].obj = o
  \/ work[t].outer = o

\* An object without references is torn down by exactly one thread.
TornDownOnce ==
  \A o \in Blocks \ free :
    heap[o].class.mortal /\ heap[o].count = 0 =>
      \E t \in Threads :
        /\ Tears(t, o)
        /\ \A u \in Threads : Tears(u, o) => u = t

\* Between two resets an enumerator hands out its object once.
EnumeratorGivesOnce ==
  \A o \in Blocks \ free :
    heap[o].class.once =>
      given[o] = (IF heap[o].returned THEN 1 ELSE 0)
        + Cardinality({t \in Threads : work[t].step = "next"
                                         /\ work[t].obj = o})

\* A locator's ConnectServer is missing only while some thread creates
\* another locator (PatchWbemLocator, emulate_driver_running.c:3029-3032): a call
\* of another thread in that window goes through a null pointer
\* (EmptySlotCall).
LocatorConnects ==
  slot \/ (\E t \in Threads : work[t].step = "patch")
       \/ \A b \in Blocks : heap[b].class # WbemLocator
=============================================================================
