--------------------------- MODULE Registry_proofs ---------------------------
(* The emulated registry, for any tree of keys, any number of handles and  *)
(* values.                                                                 *)
EXTENDS Registry, FiniteSetTheorems, TLAPS

-----------------------------------------------------------------------------
(* Induction on natural numbers, on sets of them                           *)

LEMMA LeastNat ==
  ASSUME NEW T \in SUBSET Nat, T # {}
  PROVE  \E n \in T : \A m \in T : n <= m
<1>1. PICK n \in T : \A m \in T : ~(<<m, n>> \in OpToRel(<, Nat))
  BY NatLessThanWellFounded, WFMin
<1>2. \A m \in T : ~(m < n)
  BY <1>1 DEF OpToRel
<1> QED BY <1>2

LEMMA SetInduction ==
  ASSUME NEW T \in SUBSET Nat, 0 \in T,
         \A n \in T : n + 1 \in T
  PROVE  T = Nat
<1> SUFFICES ASSUME Nat \ T # {} PROVE FALSE
  OBVIOUS
<1>1. PICK n \in Nat \ T : \A m \in Nat \ T : n <= m
  BY LeastNat
<1>2. n # 0 /\ n - 1 \in Nat
  BY <1>1
<1>3. n - 1 \in T
  BY <1>1, <1>2
<1> QED BY <1>1, <1>2, <1>3

-----------------------------------------------------------------------------
(* The ways down the tree                                                  *)

Depth == Cardinality(Blocks)

LEMMA DepthNat == Depth \in Nat
BY FS_CardinalityType, RegistryAssumption DEF Depth

\* The recursive definition of Lines defines.
LEMMA LinesDef ==
  /\ Lines[0] = {<<Root>>}
  /\ \A d \in 0..Depth : d + 1 <= Depth => Lines[d + 1] = Deeper(Lines[d])
<1> DEFINE Good(g, n) ==
      g = [d \in 0..n |-> IF d = 0 THEN {<<Root>>} ELSE Deeper(g[d - 1])]
           T == {n \in Nat : \E g : Good(g, n)}
<1>1. 0 \in T
  <2>1. PICK g : g = [d \in 0..0 |-> {<<Root>>}]
    OBVIOUS
  <2>2. Good(g, 0)
    BY <2>1
  <2> QED BY <2>2
<1>2. ASSUME NEW n \in T PROVE n + 1 \in T
  <2>1. PICK g : Good(g, n)
    OBVIOUS
  <2>2. PICK h : h = [d \in 0..(n + 1) |->
                        IF d = 0 THEN {<<Root>>} ELSE Deeper(g[d - 1])]
    OBVIOUS
  <2>3. \A d \in 0..n : h[d] = g[d]
    <3>1. PICK e : e = [d \in 0..n |->
                          IF d = 0 THEN {<<Root>>} ELSE Deeper(g[d - 1])]
      OBVIOUS
    <3>2. g = e
      BY <2>1, <3>1
    <3>3. \A d \in 0..n : d \in 0..(n + 1)
      OBVIOUS
    <3> QED BY ONLY <2>2, <3>1, <3>2, <3>3
  <2>4. \A d \in 0..(n + 1) : d = 0 \/ d - 1 \in 0..n
    OBVIOUS
  <2>5. \A d \in 0..(n + 1) :
          h[d] = IF d = 0 THEN {<<Root>>} ELSE Deeper(h[d - 1])
    BY <2>2, <2>3, <2>4
  <2>6. h = [d \in 0..(n + 1) |-> h[d]]
    BY <2>2
  <2>7. Good(h, n + 1)
    BY <2>5, <2>6
  <2> QED BY <2>7
<1>3. T = Nat
  BY <1>1, <1>2, SetInduction
<1>4. \E g : Good(g, Depth)
  BY <1>3, DepthNat
<1>5. Good(Lines, Depth)
  BY <1>4 DEF Lines, Depth
<1>6. \A d \in 0..Depth :
        Lines[d] = IF d = 0 THEN {<<Root>>} ELSE Deeper(Lines[d - 1])
  BY <1>5
<1>7. 0 \in 0..Depth
      /\ \A d \in 0..Depth : d + 1 <= Depth =>
           d + 1 \in 0..Depth /\ d + 1 # 0 /\ (d + 1) - 1 = d
  BY DepthNat
<1> QED BY <1>6, <1>7

-----------------------------------------------------------------------------
(* Types                                                                   *)

Contents == [Values -> Data \cup {NIL}]
Nodes == [name : Names \cup {NIL}, child : Null, sib : Null, vals : Contents]
Tokens == [name : Names \cup {NIL}, vals : Contents, subs : Nat]
Args == [op : {"none", "create", "open"}, key : Keys \cup {NIL},
         rest : Seq(Names), path : Seq(Names), h : Nat, walk : Seq(Keys),
         full : BOOLEAN]
Boots == [stage : {"root", "load", "dump", "open", "close", "done"},
          at : Nat, stack : Seq([key : Keys, left : Nat]), walk : Seq(Keys)]

\* The blocks that are keys or have been.
NamedKeys == {b \in Blocks : node[b].name \in Names}

\* No list leads to a block that never was a key.
Heap ==
  /\ node \in [Keys -> Nodes] /\ free \in SUBSET Blocks
  /\ \A k \in Keys : /\ node[k].child \in NamedKeys \cup {NIL}
                     /\ node[k].sib \in NamedKeys \cup {NIL}

\* A stack of keys that the code is inside of.
Way(w) == \A i \in 2..Len(w) : w[i] \in NamedKeys

\* Only the first record of a file is without a name.
Named(image) == \A i \in 2..Len(image) : image[i].name \in Names

HandleTypes ==
  /\ table \in Seq([key : Keys, path : Seq(Names)])
  /\ cache \in Seq([path : Seq(Names), h : Nat]) /\ Len(cache) <= MaxCached
  /\ \A i \in 1..Len(cache) : cache[i].h \in 1..Len(table)
  /\ known \in SUBSET (1..Len(table))

FileTypes ==
  /\ file = Absent \/ file \in Seq(Tokens)
  /\ tmp = Absent \/ tmp \in Seq(Tokens)
  /\ Named(file) /\ Named(tmp)
  /\ lock \in Threads \cup {NIL} /\ clean \in BOOLEAN

BootTypes ==
  /\ boot \in Boots /\ Way(boot.walk)
  /\ boot.stage = "load" => /\ file \in Seq(Tokens) /\ boot.at >= 2
                            /\ boot.stack # <<>>
  /\ boot.stage \in {"open", "close"} => boot.walk # <<>>
  /\ boot.stage # "done" => pc = Fresh.pc

\* One thread saves at a time, and starts with an empty temporary file.
Local(t) ==
  /\ Way(arg[t].walk)
  /\ pc[t] \in {"navigate", "create"} => arg[t].key \in Keys
  /\ pc[t] = "navigate" => arg[t].op # "none"
  /\ pc[t] = "create" => arg[t].rest # <<>> /\ arg[t].op # "none"
  /\ pc[t] \in {"write", "next"} =>
       /\ arg[t].walk # <<>> /\ arg[t].walk[1] = Root
       /\ lock = t /\ tmp \in Seq(Tokens)
  /\ pc[t] = "write" /\ Len(arg[t].walk) = 1 => tmp = <<>>

CallTypes ==
  /\ pc \in [Threads -> {"idle", "navigate", "create", "lookup", "add", "save",
                         "write", "next"}]
  /\ arg \in [Threads -> Args]
  /\ \A t \in Threads : Local(t)

Typed == Heap /\ HandleTypes /\ FileTypes /\ BootTypes /\ CallTypes

\* A path in the cache has one place there, whose handle is the one that every
\* open of the path was given; and while there is room every path has one.
Cached ==
  /\ \A i, j \in 1..Len(cache) : cache[i].path = cache[j].path => i = j
  /\ \A i \in 1..Len(cache) : table[cache[i].h].path = cache[i].path
  /\ \A h \in known, i \in 1..Len(cache) :
       table[h].path = cache[i].path => h = cache[i].h
  /\ \A h \in known : Len(cache) < MaxCached =>
       \E i \in 1..Len(cache) : cache[i].path = table[h].path

\* A call that has its handle and looks for its path in the cache: with one
\* thread what the search has seen stays so until the path is entered.
OneThread == \A t, u \in Threads : t = u

Opening(t) ==
  /\ pc[t] \in {"lookup", "add"} =>
       /\ arg[t].op \in {"create", "open"} /\ arg[t].h \in 1..Len(table)
       /\ table[arg[t].h] = [key |-> arg[t].key, path |-> arg[t].path]
  /\ pc[t] = "add" => Len(cache) < MaxCached /\ Hits(arg[t].path) = {}

-----------------------------------------------------------------------------
(* Lists of siblings                                                       *)

LEMMA NullFacts ==
  /\ NIL \notin Keys /\ NIL \notin Names /\ Root \notin Blocks
  /\ NIL \notin Blocks /\ NIL \notin Threads /\ Null \ {NIL} = Blocks
  /\ Keys = Blocks \cup {Root} /\ Null = Blocks \cup {NIL}
BY RegistryAssumption DEF Keys, Null

\* Induction along a list: what holds of its first key, and of the key after
\* every one it holds of, holds of all.
LEMMA ListInduction ==
  ASSUME NEW b, NEW S \in SUBSET Null, b \in S,
         \A d \in S \ {NIL} : node[d].sib \in S
  PROVE  List(b) \subseteq S
BY DEF List

LEMMA ListNil == List(NIL) = {}
<1>1. List(NIL) \subseteq {NIL}
  BY ListInduction DEF Null
<1>2. List(NIL) \subseteq Blocks
  BY DEF List
<1> QED BY <1>1, <1>2, NullFacts

LEMMA ListStep ==
  ASSUME Heap, NEW b \in Blocks
  PROVE  /\ b \in List(b) /\ List(b) \subseteq Blocks
         /\ List(b) = {b} \cup List(node[b].sib)
<1>1. b \in List(b) /\ List(b) \subseteq Blocks
  BY DEF List
<1>2. List(node[b].sib) \subseteq List(b)
  BY NullFacts DEF List
<1>3. node[b].sib \in Null
  BY NullFacts DEF Heap, Nodes
<1>4. PICK S : S = {b} \cup List(node[b].sib) \cup {NIL}
  OBVIOUS
<1>5. S \in SUBSET Null
  BY <1>4, NullFacts DEF List
<1>6. ASSUME NEW d \in S \ {NIL} PROVE node[d].sib \in S
  <2>1. CASE d = b
    <3>1. node[b].sib = NIL \/ node[b].sib \in List(node[b].sib)
      BY <1>3, NullFacts DEF List
    <3> QED BY <1>4, <2>1, <3>1
  <2>2. CASE d \in List(node[b].sib)
    <3>1. d \in Blocks /\ node[d].sib \in Null
      BY <1>4, <1>6, <2>2, NullFacts DEF Heap, Nodes, List
    <3>2. node[d].sib = NIL \/ node[d].sib \in List(node[b].sib)
      BY <2>2, <3>1, NullFacts DEF List
    <3> QED BY <1>4, <3>2
  <2> QED BY <1>4, <1>6, <2>1, <2>2
<1>7. List(b) \subseteq S
  BY <1>4, <1>5, <1>6, ListInduction
<1> QED BY <1>1, <1>2, <1>4, <1>7, NullFacts

LEMMA ListTypes ==
  ASSUME Heap, NEW b \in NamedKeys \cup {NIL}
  PROVE  List(b) \subseteq NamedKeys /\ IsFiniteSet(List(b))
<1>1. NamedKeys \cup {NIL} \in SUBSET Null
  BY DEF NamedKeys, Null
<1>2. \A d \in (NamedKeys \cup {NIL}) \ {NIL} : node[d].sib \in NamedKeys \cup {NIL}
  BY NullFacts DEF Heap, NamedKeys
<1>3. List(b) \subseteq NamedKeys \cup {NIL}
  BY <1>1, <1>2, ListInduction
<1>4. List(b) \subseteq Blocks
  BY DEF List
<1>5. IsFiniteSet(List(b))
  BY <1>4, FS_Subset, RegistryAssumption
<1> QED BY <1>3, <1>4, <1>5, NullFacts

LEMMA KidsTypes ==
  ASSUME Heap, NEW n \in Keys
  PROVE  /\ Kids(n) \subseteq NamedKeys /\ IsFiniteSet(Kids(n))
         /\ Cardinality(Kids(n)) \in Nat
<1>1. node[n].child \in NamedKeys \cup {NIL}
  BY DEF Heap
<1> QED BY <1>1, ListTypes, FS_CardinalityType DEF Kids

\* The search finds the first key of the name, if there is one: also in a
\* list that never ends.
LEMMA FindFacts ==
  ASSUME Heap, NEW b \in NamedKeys \cup {NIL}, NEW x
  PROVE  \/ /\ Find(b, x) = NIL
            /\ \A c \in List(b) : node[c].name # x
         \/ /\ Find(b, x) \in List(b) /\ Find(b, x) \in NamedKeys
            /\ node[Find(b, x)].name = x
            /\ \A c \in List(b) : node[c].name = x => c \in List(Find(b, x))
<1> DEFINE hits == {c \in List(b) : node[c].name = x}
           Q == {d \in Null : hits \subseteq List(d)}
<1>1. CASE hits = {}
  BY <1>1 DEF Find
<1>2. CASE hits # {}
  <2>1. \E c \in hits : hits \subseteq List(c)
    <3> SUFFICES ASSUME hits \cap Q = {} PROVE FALSE
      BY ListTypes DEF NamedKeys, Null
    <3>1. b \in Q
      BY DEF NamedKeys, Null
    <3>2. ASSUME NEW d \in Q \ {NIL} PROVE node[d].sib \in Q
      <4>1. d \in Blocks /\ List(d) = {d} \cup List(node[d].sib)
        BY <3>2, ListStep, NullFacts
      <4>2. d \notin hits
        BY <3>2
      <4>3. hits \subseteq List(node[d].sib)
        BY <3>2, <4>1, <4>2
      <4> QED BY <4>1, <4>3, NullFacts DEF Heap, Nodes
    <3>3. List(b) \subseteq Q
      BY <3>1, <3>2, ListInduction
    <3> QED BY <1>2, <3>3
  <2>2. Find(b, x) = CHOOSE c \in hits : hits \subseteq List(c)
    BY <1>2 DEF Find
  <2>3. Find(b, x) \in hits /\ hits \subseteq List(Find(b, x))
    BY <2>1, <2>2
  <2> QED BY <2>3, ListTypes
<1> QED BY <1>1, <1>2

-----------------------------------------------------------------------------
(* Lines                                                                   *)

IsLine(w) ==
  /\ w \in Seq(Keys) /\ w # <<>> /\ w[1] = Root
  /\ \A i \in 1..(Len(w) - 1) : w[i + 1] \in Kids(w[i])

LEMMA LineAppend ==
  ASSUME Heap, NEW w, IsLine(w), NEW c \in Kids(w[Len(w)])
  PROVE  IsLine(Append(w, c)) /\ Len(Append(w, c)) = Len(w) + 1
<1> DEFINE n == Len(w)
           a == Append(w, c)
<1>1. w \in Seq(Keys) /\ n \in Nat /\ n >= 1 /\ w[n] \in Keys
  BY DEF IsLine
<1>2. c \in Keys
  BY <1>1, KidsTypes, NullFacts DEF NamedKeys
<1>3. /\ a \in Seq(Keys) /\ Len(a) = n + 1 /\ a[n + 1] = c /\ a # <<>>
      /\ \A i \in 1..n : a[i] = w[i]
  BY <1>1, <1>2
<1>4. w[1] = Root /\ \A i \in 1..(n - 1) : w[i + 1] \in Kids(w[i])
  BY DEF IsLine
<1>5. c \in Kids(w[n])
  OBVIOUS
<1> HIDE DEF n, a
<1>6. /\ 1 \in 1..n /\ n \in 1..n /\ (n + 1) - 1 = n
      /\ \A i \in 1..n : i = n \/ (i \in 1..(n - 1) /\ i + 1 \in 1..n)
  BY <1>1
<1>7. \A i \in 1..n : a[i + 1] \in Kids(a[i])
  BY <1>3, <1>4, <1>5, <1>6
<1>8. IsLine(a) /\ Len(a) = n + 1
  BY <1>3, <1>4, <1>6, <1>7 DEF IsLine
<1> QED BY <1>8 DEF a, n

LEMMA LinesAreLines ==
  ASSUME Heap
  PROVE  \A w \in Lines[Depth] : IsLine(w) /\ Len(w) <= Depth + 1
<1> DEFINE T == {d \in Nat : d <= Depth =>
                   \A w \in Lines[d] : IsLine(w) /\ Len(w) <= d + 1}
<1>1. 0 \in T
  <2>1. Lines[0] = {<<Root>>}
    BY LinesDef
  <2>2. IsLine(<<Root>>) /\ Len(<<Root>>) <= 0 + 1
    BY NullFacts DEF IsLine
  <2> QED BY <2>1, <2>2
<1>2. ASSUME NEW d \in T PROVE d + 1 \in T
  <2> SUFFICES ASSUME d + 1 <= Depth, NEW v \in Lines[d + 1]
               PROVE  IsLine(v) /\ Len(v) <= d + 2
    OBVIOUS
  <2>1. d \in 0..Depth /\ d <= Depth /\ d \in Nat
    BY DepthNat
  <2>2. v \in Lines[d] \/ (\E w \in Lines[d] : \E c \in Kids(w[Len(w)]) : v = Append(w, c))
    BY <2>1, LinesDef DEF Deeper
  <2>3. \A w \in Lines[d] : IsLine(w) /\ Len(w) <= d + 1 /\ Len(w) \in Nat
    BY <2>1 DEF IsLine
  <2>4. ASSUME NEW w \in Lines[d], NEW c \in Kids(w[Len(w)]), v = Append(w, c)
        PROVE  IsLine(v) /\ Len(v) <= d + 2
    BY <2>1, <2>3, <2>4, LineAppend
  <2> QED BY <2>1, <2>2, <2>3, <2>4
<1>3. T = Nat
  BY <1>1, <1>2, SetInduction
<1> QED BY <1>3, DepthNat

-----------------------------------------------------------------------------
(* What a step leaves alone stays well-typed                               *)

PCs == {"idle", "navigate", "create", "lookup", "add", "save", "write", "next"}

LEMMA WayKept ==
  ASSUME NEW w, Way(w), NamedKeys \subseteq NamedKeys'
  PROVE  \A i \in 2..Len(w) : w[i] \in NamedKeys'
BY DEF Way

LEMMA EmptyWay == \A w : w = <<>> => Way(w)'
<1>1. Len(<<>>) = 0
  OBVIOUS
<1>2. 2..0 = {}
  OBVIOUS
<1> QED BY <1>1, <1>2 DEF Way

LEMMA HandlesSame ==
  ASSUME HandleTypes, Cached, UNCHANGED handles
  PROVE  HandleTypes' /\ Cached'
<1>1. table' = table /\ cache' = cache /\ known' = known
  BY DEF handles
<1>2. HandleTypes'
  BY <1>1 DEF HandleTypes
<1>3. Cached'
  BY <1>1 DEF Cached
<1> QED BY <1>2, <1>3

LEMMA TreeSame ==
  ASSUME Heap, UNCHANGED tree
  PROVE  Heap' /\ NamedKeys' = NamedKeys
BY DEF Heap, tree, NamedKeys

LEMMA FilesSame ==
  ASSUME FileTypes, UNCHANGED <<disk, clean>>
  PROVE  FileTypes'
BY DEF FileTypes, disk, Named

LEMMA Idles == /\ Fresh.pc = [t \in Threads |-> "idle"]
               /\ Fresh.arg = [t \in Threads |-> Idle]
               /\ Fresh.node = [b \in Keys |-> NewKey(NIL, NIL)]
BY DEF Fresh

LEMMA BusyDone ==
  ASSUME BootTypes, NEW t \in Threads, pc[t] # "idle"
  PROVE  boot.stage = "done"
BY Idles DEF BootTypes

LEMMA BootSame ==
  ASSUME BootTypes, UNCHANGED boot, NamedKeys \subseteq NamedKeys',
         boot.stage = "done" \/ UNCHANGED <<pc, file>>
  PROVE  BootTypes'
<1>1. Way(boot.walk)'
  BY WayKept DEF BootTypes, Way
<1> QED BY <1>1, Idles DEF BootTypes, Fresh

LEMMA LocalKept ==
  ASSUME NEW u \in Threads, Local(u), NamedKeys \subseteq NamedKeys',
         pc'[u] = pc[u], arg'[u] = arg[u],
         UNCHANGED <<lock, tmp>> \/ lock # u
  PROVE  Local(u)'
<1>1. Way(arg[u].walk)'
  BY WayKept DEF Local, Way
<1> QED BY <1>1 DEF Local

LEMMA CallsKept ==
  ASSUME CallTypes, NEW t \in Threads, NamedKeys \subseteq NamedKeys',
         pc' \in [Threads -> PCs], arg' \in [Threads -> Args],
         \A u \in Threads \ {t} : /\ pc'[u] = pc[u] /\ arg'[u] = arg[u]
                                  /\ UNCHANGED <<lock, tmp>> \/ lock # u,
         Local(t)'
  PROVE  CallTypes'
<1>1. ASSUME NEW u \in Threads \ {t} PROVE Local(u)'
  <2>1. Local(u)
    BY DEF CallTypes
  <2> QED BY <2>1, LocalKept
<1> QED BY <1>1 DEF CallTypes, PCs

LEMMA CallsSame ==
  ASSUME CallTypes, UNCHANGED <<pc, arg, lock, tmp>>, NamedKeys \subseteq NamedKeys'
  PROVE  CallTypes'
<1>1. ASSUME NEW u \in Threads PROVE Local(u)'
  BY LocalKept DEF CallTypes
<1> QED BY <1>1 DEF CallTypes

\* What the steps of one thread do to its place in its call.
LEMMA GotoTypes ==
  ASSUME CallTypes, NEW t \in Threads, NEW from, NEW to \in PCs, Goto(t, from, to)
  PROVE  /\ pc' \in [Threads -> PCs] /\ pc[t] = from /\ pc'[t] = to
         /\ \A u \in Threads \ {t} : pc'[u] = pc[u]
BY DEF CallTypes, Goto, PCs

LEMMA ArgTypes ==
  ASSUME CallTypes, NEW t \in Threads, NEW a \in Args,
         arg' = [arg EXCEPT ![t] = a]
  PROVE  /\ arg' \in [Threads -> Args] /\ arg'[t] = a
         /\ \A u \in Threads \ {t} : arg'[u] = arg[u]
BY DEF CallTypes

LEMMA IdleTypes == Idle \in Args /\ Idle.walk = <<>> /\ Idle.op = "none"
BY DEF Idle, Args

LEMMA ReturnTypes ==
  ASSUME CallTypes, NEW t \in Threads, NEW from, Return(t, from)
  PROVE  /\ pc' \in [Threads -> PCs] /\ pc[t] = from /\ pc'[t] = "idle"
         /\ arg' \in [Threads -> Args] /\ arg'[t] = Idle
         /\ \A u \in Threads \ {t} : pc'[u] = pc[u] /\ arg'[u] = arg[u]
         /\ Local(t)'
<1>1. Goto(t, from, "idle") /\ arg' = [arg EXCEPT ![t] = Idle]
  BY DEF Return
<1>2. "idle" \in PCs
  BY DEF PCs
<1>3. /\ pc' \in [Threads -> PCs] /\ pc[t] = from /\ pc'[t] = "idle"
      /\ \A u \in Threads \ {t} : pc'[u] = pc[u]
  BY <1>1, <1>2, GotoTypes
<1>4. /\ arg' \in [Threads -> Args] /\ arg'[t] = Idle
      /\ \A u \in Threads \ {t} : arg'[u] = arg[u]
  BY <1>1, ArgTypes, IdleTypes
<1>5. Local(t)'
  BY <1>3, <1>4, IdleTypes DEF Local, Way
<1> QED BY <1>3, <1>4, <1>5

-----------------------------------------------------------------------------
(* The changes of the tree                                                 *)

LEMMA AddKeyTypes ==
  ASSUME Heap, NEW parent \in Keys, NEW b \in free, NEW x \in Names,
         NEW c \in Contents, AddKey(parent, b, x, c)
  PROVE  Heap' /\ NamedKeys' = NamedKeys \cup {b} /\ b \in Blocks
<1>1. b \in Blocks /\ b \in Keys /\ b # Root
  BY NullFacts DEF Heap
<1>2. PICK k : k = [NewKey(x, node[parent].child) EXCEPT !.vals = c]
  OBVIOUS
<1>3. k = [name |-> x, child |-> NIL, sib |-> node[parent].child, vals |-> c]
  BY <1>2 DEF NewKey
<1>4. node[parent] \in Nodes
  BY DEF Heap
<1>5. k \in Nodes
  BY <1>3, <1>4, NullFacts DEF Nodes
<1>6. PICK m : m = [node EXCEPT ![b] = k]
  OBVIOUS
<1>7. m \in [Keys -> Nodes]
  BY <1>1, <1>5, <1>6 DEF Heap
<1>8. node' = [m EXCEPT ![parent].child = b]
  BY <1>2, <1>6 DEF AddKey
<1>9. PICK l : l = [m[parent] EXCEPT !.child = b]
  OBVIOUS
<1>10. /\ l \in Nodes /\ l.child = b
       /\ l.name = m[parent].name /\ l.sib = m[parent].sib
  BY <1>1, <1>7, <1>9, NullFacts DEF Nodes
<1>11. node' = [m EXCEPT ![parent] = l]
  BY <1>7, <1>8, <1>9
<1>12. node' \in [Keys -> Nodes]
  BY <1>7, <1>10, <1>11
<1>13. \A d \in Keys : /\ node'[d].name = m[d].name /\ node'[d].sib = m[d].sib
                       /\ node'[d].child = IF d = parent THEN b ELSE m[d].child
  BY <1>7, <1>10, <1>11
<1>14. /\ m[b] = k /\ k.name = x /\ k.child = NIL /\ k.sib = node[parent].child
       /\ \A d \in Keys \ {b} : m[d] = node[d]
  BY <1>1, <1>3, <1>6 DEF Heap
<1>15. NamedKeys' = NamedKeys \cup {b}
  BY <1>1, <1>13, <1>14, NullFacts DEF NamedKeys
<1>16. ASSUME NEW d \in Keys
       PROVE  node'[d].child \in NamedKeys' \cup {NIL}
              /\ node'[d].sib \in NamedKeys' \cup {NIL}
  BY <1>13, <1>14, <1>15 DEF Heap
<1>17. free' \in SUBSET Blocks
  BY DEF AddKey, Heap
<1> QED BY <1>1, <1>12, <1>15, <1>16, <1>17 DEF Heap

LEMMA SetValueTypes ==
  ASSUME Heap, NEW k \in Keys, NEW v \in Values, NEW d \in Data \cup {NIL},
         node' = [node EXCEPT ![k].vals[v] = d], free' = free
  PROVE  Heap' /\ NamedKeys' = NamedKeys
<1>1. node[k] \in Nodes
  BY DEF Heap
<1>2. PICK c : c = [node[k].vals EXCEPT ![v] = d]
  OBVIOUS
<1>3. c \in Contents
  BY <1>1, <1>2 DEF Nodes, Contents
<1>4. PICK l : l = [node[k] EXCEPT !.vals = c]
  OBVIOUS
<1>5. /\ l \in Nodes /\ l.name = node[k].name
      /\ l.child = node[k].child /\ l.sib = node[k].sib
  BY <1>1, <1>3, <1>4 DEF Nodes
<1>6. node' = [node EXCEPT ![k] = l]
  BY <1>2, <1>4
<1>7. /\ node' \in [Keys -> Nodes]
      /\ \A e \in Keys : /\ node'[e].name = node[e].name
                         /\ node'[e].child = node[e].child
                         /\ node'[e].sib = node[e].sib
  BY <1>5, <1>6 DEF Heap
<1>8. NamedKeys' = NamedKeys
  BY <1>7, NullFacts DEF NamedKeys
<1> QED BY <1>7, <1>8 DEF Heap

LEMMA UnlinkTypes ==
  ASSUME Heap, NEW n \in Keys, NEW c \in NamedKeys,
         \/ \E b \in Kids(n) : node' = [node EXCEPT ![b].sib = node[c].sib]
         \/ node' = [node EXCEPT ![n].child = node[c].sib],
         free' = free \cup {c}
  PROVE  Heap' /\ NamedKeys' = NamedKeys
<1>1. c \in Blocks /\ c \in Keys /\ Kids(n) \subseteq Keys
  BY KidsTypes, NullFacts DEF NamedKeys
<1>2. node[c].sib \in NamedKeys \cup {NIL} /\ node[c].sib \in Null
  BY <1>1 DEF Heap, Nodes
<1>3. /\ node' \in [Keys -> Nodes]
      /\ \A e \in Keys : /\ node'[e].name = node[e].name
                         /\ node'[e].child \in {node[e].child, node[c].sib}
                         /\ node'[e].sib \in {node[e].sib, node[c].sib}
  <2>1. CASE \E b \in Kids(n) : node' = [node EXCEPT ![b].sib = node[c].sib]
    <3>1. PICK b \in Keys : node' = [node EXCEPT ![b].sib = node[c].sib]
      BY <1>1, <2>1
    <3>2. PICK l : l = [node[b] EXCEPT !.sib = node[c].sib]
      OBVIOUS
    <3>3. node[b] \in Nodes
      BY DEF Heap
    <3>4. /\ l \in Nodes /\ l.name = node[b].name
          /\ l.child = node[b].child /\ l.sib = node[c].sib
      BY <1>2, <3>2, <3>3 DEF Nodes
    <3>5. node' = [node EXCEPT ![b] = l]
      BY <3>1, <3>2
    <3> QED BY <3>4, <3>5 DEF Heap
  <2>2. CASE node' = [node EXCEPT ![n].child = node[c].sib]
    <3>2. PICK l : l = [node[n] EXCEPT !.child = node[c].sib]
      OBVIOUS
    <3>3. node[n] \in Nodes
      BY DEF Heap
    <3>4. /\ l \in Nodes /\ l.name = node[n].name
          /\ l.child = node[c].sib /\ l.sib = node[n].sib
      BY <1>2, <3>2, <3>3 DEF Nodes
    <3>5. node' = [node EXCEPT ![n] = l]
      BY <2>2, <3>2
    <3> QED BY <3>4, <3>5 DEF Heap
  <2> QED BY <2>1, <2>2
<1>4. NamedKeys' = NamedKeys
  BY <1>3, NullFacts DEF NamedKeys
<1>5. free' \in SUBSET Blocks
  BY <1>1 DEF Heap
<1> QED BY <1>2, <1>3, <1>4, <1>5 DEF Heap

-----------------------------------------------------------------------------
(* The handles and the cache                                               *)

\* A handle is allocated; the call answers with it or with the path's first.
LEMMA AloneKeeps ==
  ASSUME HandleTypes, Cached, NEW k \in Keys, NEW p \in Seq(Names),
         OpenAlone(k, p)
  PROVE  HandleTypes' /\ Cached'
<1> DEFINE n == Len(table)
           m == Len(cache)
           e == [key |-> k, path |-> p]
<1>1. /\ n \in Nat /\ m \in Nat /\ m <= MaxCached /\ MaxCached \in Nat
      /\ \A i \in 1..m : cache[i].h \in 1..n
  BY RegistryAssumption DEF HandleTypes
<1>2. /\ table' \in Seq([key : Keys, path : Seq(Names)])
      /\ Len(table') = n + 1 /\ table'[n + 1].path = p
      /\ \A h \in 1..n : table'[h] = table[h]
  <2>1. table' = Append(table, e) /\ e \in [key : Keys, path : Seq(Names)]
        /\ e.path = p
    BY DEF OpenAlone
  <2> QED BY <2>1 DEF HandleTypes
<1>3. known \subseteq 1..n
  BY DEF HandleTypes
<1>7. /\ n + 1 \in 1..(n + 1) /\ n + 1 \notin 1..n /\ 1..n \subseteq 1..(n + 1)
      /\ \A i \in 1..(m + 1) : i = m + 1 \/ i \in 1..m
      /\ m + 1 \in 1..(m + 1) /\ 1..m \subseteq 1..(m + 1) /\ m + 1 \notin 1..m
      /\ (m + 1 <= MaxCached <=> m < MaxCached) /\ (m + 1 < MaxCached => m < MaxCached)
  BY <1>1
<1>4. CASE \E i \in 1..m : cache[i].path = p /\ known' = known \cup {cache[i].h}
                           /\ cache' = cache
  <2>1. PICK i \in 1..m : cache[i].path = p /\ known' = known \cup {cache[i].h}
                          /\ cache' = cache
    BY <1>4
  <2>2. HandleTypes'
    <3>1. known' \subseteq 1..(n + 1)
      BY <1>1, <1>3, <1>7, <2>1
    <3>2. \A j \in 1..m : cache[j].h \in 1..(n + 1)
      BY <1>1, <1>7
    <3> QED BY <1>2, <2>1, <3>1, <3>2 DEF HandleTypes
  <2>3. \A h \in known' : h \in 1..n /\ table'[h] = table[h]
    BY <1>1, <1>2, <1>3, <2>1
  <2>4. table[cache[i].h].path = p
    BY <2>1 DEF Cached
  <2>5. /\ \A j, l \in 1..m : cache[j].path = cache[l].path => j = l
        /\ \A j \in 1..m : table'[cache[j].h].path = cache[j].path
    BY <1>1, <1>2 DEF Cached
  <2>6. ASSUME NEW h \in known', NEW j \in 1..m, table'[h].path = cache[j].path
        PROVE  h = cache[j].h
    BY <2>1, <2>3, <2>4, <2>6 DEF Cached
  <2>7. ASSUME NEW h \in known', m < MaxCached
        PROVE  \E j \in 1..m : cache[j].path = table'[h].path
    BY <2>1, <2>3, <2>4, <2>7 DEF Cached
  <2> QED BY <2>1, <2>2, <2>5, <2>6, <2>7 DEF Cached
<1>5. CASE /\ \A i \in 1..m : cache[i].path # p
           /\ m < MaxCached /\ known' = known \cup {n + 1}
           /\ cache' = Append(cache, [path |-> p, h |-> n + 1])
  <2>1. PICK f : f = [path |-> p, h |-> n + 1]
    OBVIOUS
  <2>2. f \in [path : Seq(Names), h : Nat] /\ f.path = p /\ f.h = n + 1
    BY <1>1, <2>1
  <2>3. /\ cache' \in Seq([path : Seq(Names), h : Nat]) /\ Len(cache') = m + 1
        /\ cache'[m + 1] = f /\ \A i \in 1..m : cache'[i] = cache[i]
    BY <1>5, <2>1, <2>2 DEF HandleTypes
  <2>4. HandleTypes'
    <3>1. known' \subseteq 1..(n + 1)
      BY <1>3, <1>5, <1>7
    <3>2. \A j \in 1..(m + 1) : cache'[j].h \in 1..(n + 1)
      BY <1>1, <1>7, <2>2, <2>3
    <3>3. m + 1 <= MaxCached
      BY <1>5, <1>7
    <3> QED BY <1>2, <2>3, <3>1, <3>2, <3>3 DEF HandleTypes
  <2>5. \A h \in known' : h = n + 1 \/ (h \in known /\ h \in 1..n)
    BY <1>3, <1>5
  <2>6. ASSUME NEW h \in known PROVE table'[h].path # p
    <3>1. PICK i \in 1..m : cache[i].path = table[h].path
      BY <1>5 DEF Cached
    <3> QED BY <1>2, <1>3, <1>5, <3>1
  <2>7. ASSUME NEW j \in 1..(m + 1), NEW l \in 1..(m + 1),
               cache'[j].path = cache'[l].path
        PROVE  j = l
    <3>1. \A i \in 1..m : cache'[i].path = cache[i].path /\ cache[i].path # p
      BY <1>5, <2>3
    <3>2. cache'[m + 1].path = p
      BY <2>2, <2>3
    <3>3. \A i \in 1..(m + 1) : i \in 1..m \/ i = m + 1
      BY <1>1
    <3>4. \A i, g \in 1..m : cache[i].path = cache[g].path => i = g
      BY <1>1 DEF Cached
    <3> QED BY <2>7, <3>1, <3>2, <3>3, <3>4
  <2>8. ASSUME NEW j \in 1..(m + 1)
        PROVE  table'[cache'[j].h].path = cache'[j].path
    <3>1. CASE j = m + 1
      BY <1>2, <2>2, <2>3, <3>1
    <3>2. CASE j \in 1..m
      <4>1. table[cache[j].h].path = cache[j].path
        BY <3>2 DEF Cached
      <4> QED BY <1>1, <1>2, <2>3, <3>2, <4>1
    <3> QED BY <1>7, <3>1, <3>2
  <2>9. ASSUME NEW h \in known', NEW j \in 1..(m + 1),
               table'[h].path = cache'[j].path
        PROVE  h = cache'[j].h
    <3>1. CASE j = m + 1
      BY <2>2, <2>3, <2>5, <2>6, <2>9, <3>1
    <3>2. CASE j \in 1..m
      <4>1. h # n + 1
        BY <1>2, <1>5, <2>3, <2>9, <3>2
      <4>2. h \in known /\ table'[h] = table[h]
        BY <1>2, <2>5, <4>1
      <4>3. cache'[j] = cache[j] /\ table[h].path = cache[j].path
        BY <2>3, <2>9, <3>2, <4>2
      <4>4. h = cache[j].h
        BY <3>2, <4>2, <4>3 DEF Cached
      <4> QED BY <4>3, <4>4
    <3> QED BY <1>7, <3>1, <3>2
  <2>10. ASSUME NEW h \in known', m + 1 < MaxCached
         PROVE  \E j \in 1..(m + 1) : cache'[j].path = table'[h].path
    <3>1. CASE h = n + 1
      BY <1>2, <1>7, <2>2, <2>3, <3>1
    <3>2. CASE h \in known /\ h \in 1..n
      <4>1. PICK j \in 1..m : cache[j].path = table[h].path
        BY <1>5, <3>2 DEF Cached
      <4>2. j \in 1..(m + 1) /\ cache'[j].path = table'[h].path
        BY <1>2, <1>7, <2>3, <3>2, <4>1
      <4> QED BY <4>2
    <3> QED BY <2>5, <3>1, <3>2
  <2> QED BY <2>3, <2>4, <2>7, <2>8, <2>9, <2>10 DEF Cached
<1>6. CASE /\ \A i \in 1..m : cache[i].path # p
           /\ m >= MaxCached /\ known' = known \cup {n + 1} /\ cache' = cache
  <2>1. HandleTypes'
    <3>1. known' \subseteq 1..(n + 1)
      BY <1>3, <1>6, <1>7
    <3>2. \A j \in 1..m : cache[j].h \in 1..(n + 1)
      BY <1>1, <1>7
    <3> QED BY <1>1, <1>2, <1>6, <3>1, <3>2 DEF HandleTypes
  <2>2. \A h \in known' : h = n + 1 \/ (h \in known /\ h \in 1..n)
    BY <1>3, <1>6
  <2>3. \A j \in 1..m : table'[cache[j].h].path = cache[j].path
    BY <1>1, <1>2 DEF Cached
  <2>4. ASSUME NEW h \in known', NEW j \in 1..m, table'[h].path = cache[j].path
        PROVE  h = cache[j].h
    <3>1. h # n + 1
      BY <1>2, <1>6, <2>4
    <3> QED BY <1>2, <2>2, <2>4, <3>1 DEF Cached
  <2> QED BY <1>1, <1>6, <2>1, <2>3, <2>4 DEF Cached
<1>8. CASE \E i \in Hits(p) : known' = known \cup {cache[i].h} /\ cache' = cache
  BY <1>4, <1>8 DEF Hits
<1>9. CASE /\ Hits(p) = {} /\ known' = known \cup {n + 1}
           /\ cache' = IF m < MaxCached
                       THEN Append(cache, [path |-> p, h |-> n + 1]) ELSE cache
  <2>1. \A i \in 1..m : cache[i].path # p
    BY <1>9 DEF Hits
  <2>2. CASE m < MaxCached
    BY <1>5, <1>9, <2>1, <2>2
  <2>3. CASE ~(m < MaxCached)
    <3>1. m >= MaxCached
      BY <1>1, <2>3
    <3> QED BY <1>6, <1>9, <2>1, <2>3, <3>1
  <2> QED BY <2>2, <2>3
<1> QED BY <1>8, <1>9 DEF OpenAlone

\* The steps of a thread: its handle is allocated, and means what it opened;
LEMMA GrowKeeps ==
  ASSUME HandleTypes, Cached, NEW k \in Keys, NEW p \in Seq(Names),
         table' = Append(table, [key |-> k, path |-> p]), UNCHANGED <<cache, known>>
  PROVE  /\ HandleTypes' /\ Cached'
         /\ Len(table) + 1 \in 1..Len(table')
         /\ table'[Len(table) + 1] = [key |-> k, path |-> p]
         /\ \A h \in 1..Len(table) : table'[h] = table[h]
<1> DEFINE T == [key : Keys, path : Seq(Names)]
<1>1. PICK e : e = [key |-> k, path |-> p]
  OBVIOUS
<1>2. PICK n \in Nat : n = Len(table)
  BY DEF HandleTypes
<1>3. e \in T /\ table \in Seq(T) /\ table' = Append(table, e)
  BY <1>1 DEF HandleTypes
<1> HIDE DEF T
<1>4. /\ table' \in Seq(T) /\ Len(table') = n + 1 /\ table'[n + 1] = e
      /\ \A h \in 1..n : table'[h] = table[h]
  BY <1>2, <1>3
<1>5. n + 1 \in 1..(n + 1) /\ 1..n \subseteq 1..(n + 1)
  OBVIOUS
<1>6. known \subseteq 1..n /\ \A i \in 1..Len(cache) : cache[i].h \in 1..n
  BY <1>2 DEF HandleTypes
<1>7. HandleTypes'
  BY <1>4, <1>5, <1>6 DEF HandleTypes, T
<1>8. Cached'
  BY <1>4, <1>6 DEF Cached
<1> QED BY <1>1, <1>2, <1>4, <1>5, <1>7, <1>8

\* it answers with the handle that the path has in the cache, or with its own
\* when the cache is full;
LEMMA AnswerKeeps ==
  ASSUME HandleTypes, Cached, NEW g \in 1..Len(table),
         \/ \E i \in 1..Len(cache) : g = cache[i].h
         \/ Len(cache) >= MaxCached /\ Hits(table[g].path) = {},
         known' = known \cup {g}, UNCHANGED <<table, cache>>
  PROVE  HandleTypes' /\ Cached'
<1>1. HandleTypes'
  BY DEF HandleTypes
<1>2. Len(cache) \in Nat /\ MaxCached \in Nat
  BY RegistryAssumption DEF HandleTypes
<1>5. /\ table' = table /\ cache' = cache
      /\ \A i, j \in 1..Len(cache) : cache[i].path = cache[j].path => i = j
      /\ \A i \in 1..Len(cache) : table[cache[i].h].path = cache[i].path
  BY DEF Cached
<1>3. CASE \E i \in 1..Len(cache) : g = cache[i].h
  <2>1. PICK i \in 1..Len(cache) : g = cache[i].h
    BY <1>3
  <2>2. table[g].path = cache[i].path
    BY <2>1 DEF Cached
  <2>3. ASSUME NEW j \in 1..Len(cache), table[g].path = cache[j].path
        PROVE  g = cache[j].h
    <3>1. i = j
      BY <2>2, <2>3 DEF Cached
    <3> QED BY <2>1, <3>1
  <2>4. ASSUME NEW h \in known', NEW j \in 1..Len(cache), table[h].path = cache[j].path
        PROVE  h = cache[j].h
    BY <2>3, <2>4 DEF Cached
  <2>5. ASSUME NEW h \in known', Len(cache) < MaxCached
        PROVE  \E j \in 1..Len(cache) : cache[j].path = table[h].path
    <3>1. CASE h = g
      BY <2>2, <3>1
    <3> QED BY <2>5, <3>1 DEF Cached
  <2> QED BY ONLY <1>1, <1>5, <2>4, <2>5 DEF Cached
<1>4. CASE Len(cache) >= MaxCached /\ Hits(table[g].path) = {}
  <2>1. \A j \in 1..Len(cache) : cache[j].path # table[g].path
    BY <1>4 DEF Hits
  <2>2. ~(Len(cache) < MaxCached)
    BY <1>2, <1>4
  <2>3. ASSUME NEW h \in known', NEW j \in 1..Len(cache), table[h].path = cache[j].path
        PROVE  h = cache[j].h
    <3>1. h # g
      BY <2>1, <2>3
    <3> QED BY <2>3, <3>1 DEF Cached
  <2> QED BY ONLY <1>1, <1>5, <2>2, <2>3 DEF Cached
<1> QED BY <1>1, <1>3, <1>4

\* or enters its own handle in the cache, and answers with it.
LEMMA EnterKeeps ==
  ASSUME HandleTypes, Cached, NEW g \in 1..Len(table), Len(cache) < MaxCached,
         Hits(table[g].path) = {},
         cache' = Append(cache, [path |-> table[g].path, h |-> g]),
         known' = known \cup {g}, table' = table
  PROVE  HandleTypes' /\ Cached'
<1> DEFINE C == [path : Seq(Names), h : Nat]
<1>1. PICK p, f : p = table[g].path /\ f = [path |-> p, h |-> g]
  OBVIOUS
<1>2. PICK m \in Nat : m = Len(cache)
  BY DEF HandleTypes
<1>3. p \in Seq(Names) /\ Len(table) \in Nat
  <2> DEFINE T == [key : Keys, path : Seq(Names)]
  <2>1. table \in Seq(T)
    BY DEF HandleTypes
  <2>2. \A e \in T : e.path \in Seq(Names)
    OBVIOUS
  <2> HIDE DEF T
  <2>3. table[g] \in T /\ Len(table) \in Nat
    BY <2>1
  <2> QED BY <1>1, <2>2, <2>3
<1>4. f \in C /\ f.path = p /\ f.h = g /\ cache \in Seq(C) /\ cache' = Append(cache, f)
  BY <1>1, <1>3 DEF HandleTypes
<1> HIDE DEF C
<1>5. /\ cache' \in Seq(C) /\ Len(cache') = m + 1 /\ cache'[m + 1] = f
      /\ \A i \in 1..m : cache'[i] = cache[i]
  BY <1>2, <1>4
<1>6. \A i \in 1..(m + 1) : i = m + 1 \/ i \in 1..m
  OBVIOUS
<1>7. m < MaxCached /\ MaxCached \in Nat /\ m + 1 <= MaxCached /\ m + 1 \in 1..(m + 1)
      /\ 1..m \subseteq 1..(m + 1)
  BY <1>2, RegistryAssumption
<1>8. \A i \in 1..m : cache[i].path # p
  BY <1>1, <1>2 DEF Hits
<1>9. \A h \in known : table[h].path # p
  <2> SUFFICES ASSUME NEW h \in known PROVE table[h].path # p
    OBVIOUS
  <2>1. PICK i \in 1..m : cache[i].path = table[h].path
    BY <1>2, <1>7 DEF Cached
  <2> QED BY <1>8, <2>1
<1>10. HandleTypes'
  <2>1. \A i \in 1..(m + 1) : cache'[i].h \in 1..Len(table)
    BY <1>2, <1>4, <1>5, <1>6 DEF HandleTypes
  <2> QED BY <1>5, <1>7, <2>1 DEF HandleTypes, C
<1>11. ASSUME NEW j \in 1..(m + 1), NEW l \in 1..(m + 1), cache'[j].path = cache'[l].path
       PROVE  j = l
  <2>1. \A i, k \in 1..m : cache[i].path = cache[k].path => i = k
    BY <1>2 DEF Cached
  <2> QED BY <1>4, <1>5, <1>6, <1>8, <1>11, <2>1
<1>12. \A j \in 1..(m + 1) : table[cache'[j].h].path = cache'[j].path
  <2>1. \A j \in 1..m : table[cache[j].h].path = cache[j].path
    BY <1>2 DEF Cached
  <2> QED BY <1>1, <1>4, <1>5, <1>6, <2>1
<1>13. ASSUME NEW h \in known \cup {g}, NEW j \in 1..(m + 1), table[h].path = cache'[j].path
       PROVE  h = cache'[j].h
  <2>1. CASE j = m + 1
    BY <1>4, <1>5, <1>9, <1>13, <2>1
  <2>2. CASE j \in 1..m
    <3>1. cache'[j] = cache[j] /\ h # g
      BY <1>1, <1>5, <1>8, <1>13, <2>2
    <3> QED BY <1>2, <1>13, <2>2, <3>1 DEF Cached
  <2> QED BY <1>6, <2>1, <2>2
<1>14. ASSUME NEW h \in known \cup {g}
       PROVE  \E j \in 1..(m + 1) : cache'[j].path = table[h].path
  <2>1. CASE h = g
    BY <1>1, <1>4, <1>5, <1>7, <2>1
  <2>2. CASE h \in known
    <3>1. PICK i \in 1..m : cache[i].path = table[h].path
      BY <1>2, <1>7, <2>2 DEF Cached
    <3> QED BY <1>5, <1>7, <3>1
  <2> QED BY <2>1, <2>2
<1>15. Cached'
  BY <1>5, <1>11, <1>12, <1>13, <1>14 DEF Cached
<1> QED BY <1>10, <1>15

-----------------------------------------------------------------------------
(* The steps of the threads                                                *)

Inv == Typed /\ Cached

LEMMA RedirectTypes ==
  ASSUME NEW p \in Seq(Names) PROVE Redirect(p) \in Seq(Names)
<1>1. <<Software, Wow64Node>> \in Seq(Names)
  BY RegistryAssumption
<1>2. p # <<>> => Tail(p) \in Seq(Names)
  OBVIOUS
<1>3. p # <<>> => <<Software, Wow64Node>> \o Tail(p) \in Seq(Names)
  BY <1>1, <1>2
<1> QED BY <1>3 DEF Redirect

\* A call that opens a key begins.
LEMMA OpenKeeps ==
  ASSUME Inv, NEW t \in Threads, NEW k \in Keys, NEW op \in {"create", "open"},
         NEW r \in Seq(Names), NEW p \in Seq(Names),
         Goto(t, "idle", "navigate"), Running,
         arg' = [arg EXCEPT ![t] = [Idle EXCEPT !.op = op, !.key = k,
                                                !.rest = r, !.path = p]],
         UNCHANGED <<tree, handles, disk, boot, saved, clean>>
  PROVE  Inv'
<1>1. Heap' /\ NamedKeys' = NamedKeys /\ HandleTypes' /\ Cached' /\ FileTypes'
  BY TreeSame, HandlesSame, FilesSame DEF Inv, Typed
<1>2. BootTypes'
  BY <1>1, BootSame DEF Inv, Typed, Running
<1>3. PICK a : a = [Idle EXCEPT !.op = op, !.key = k, !.rest = r, !.path = p]
  OBVIOUS
<1>4. /\ a \in Args /\ a.op # "none" /\ a.key = k
      /\ a.walk = <<>>
  <2>1. a = [op |-> op, key |-> k, rest |-> r, path |-> p, h |-> 0, walk |-> <<>>,
             full |-> FALSE]
    BY <1>3 DEF Idle
  <2>2. op \in {"none", "create", "open"} /\ op # "none" /\ <<>> \in Seq(Keys)
    OBVIOUS
  <2> QED BY <2>1, <2>2 DEF Args
<1>5. "navigate" \in PCs
  BY DEF PCs
<1>6. /\ pc' \in [Threads -> PCs] /\ pc'[t] = "navigate"
      /\ \A u \in Threads \ {t} : pc'[u] = pc[u]
  BY <1>5, GotoTypes DEF Inv, Typed
<1>7. /\ arg' \in [Threads -> Args] /\ arg'[t] = a
      /\ \A u \in Threads \ {t} : arg'[u] = arg[u]
  BY <1>3, <1>4, ArgTypes DEF Inv, Typed
<1>8. Local(t)'
  <2>1. Way(arg[t].walk)'
    BY <1>4, <1>7, EmptyWay
  <2> QED BY <1>4, <1>6, <1>7, <2>1 DEF Local
<1>9. UNCHANGED <<lock, tmp>>
  BY DEF disk
<1>10. CallTypes'
  BY <1>1, <1>6, <1>7, <1>8, <1>9, CallsKept DEF Inv, Typed
<1> QED BY <1>1, <1>2, <1>10 DEF Inv, Typed

LEMMA OpenUnderRootKeeps ==
  ASSUME Inv, NEW t \in Threads, NEW op \in {"create", "open"}, NEW root,
         NEW sub \in Subs, OpenUnderRoot(t, op, root, sub)
  PROVE  Inv'
<1>1. PICK p : p = IF root = "HKLM" THEN Redirect(sub) ELSE sub
  OBVIOUS
<1>2. p \in Seq(Names)
  BY <1>1, RedirectTypes, RegistryAssumption
<1>3. Root \in Keys
  BY DEF Keys
<1> QED BY <1>1, <1>2, <1>3, OpenKeeps DEF OpenUnderRoot

LEMMA HandleKey ==
  ASSUME HandleTypes, NEW h \in known
  PROVE  table[h].key \in Keys /\ table[h].path \in Seq(Names)
<1> DEFINE S == [key : Keys, path : Seq(Names)]
<1>1. table \in Seq(S) /\ h \in 1..Len(table)
  BY DEF HandleTypes
<1>2. \A e \in S : e.key \in Keys /\ e.path \in Seq(Names)
  OBVIOUS
<1> HIDE DEF S
<1>3. table[h] \in S
  BY <1>1
<1> QED BY <1>2, <1>3

LEMMA OpenUnderHandleKeeps ==
  ASSUME Inv, NEW t \in Threads, NEW op \in {"create", "open"}, NEW h \in known,
         NEW sub \in Subs, OpenUnderHandle(t, op, h, sub)
  PROVE  Inv'
<1>1. table[h].key \in Keys /\ table[h].path \in Seq(Names)
  BY HandleKey DEF Inv, Typed
<1>2. sub \in Seq(Names) /\ table[h].path \o sub \in Seq(Names)
  BY <1>1, RegistryAssumption
<1> QED BY <1>1, <1>2, OpenKeeps DEF OpenUnderHandle

\* A step of a call with the tree, the handles and the files left alone.
LEMMA CallKeeps ==
  ASSUME Inv, NEW t \in Threads, pc[t] # "idle" \/ Running,
         Heap', NamedKeys \subseteq NamedKeys',
         UNCHANGED <<handles, disk, boot, clean>>,
         pc' \in [Threads -> PCs], arg' \in [Threads -> Args],
         \A u \in Threads \ {t} : pc'[u] = pc[u] /\ arg'[u] = arg[u],
         Local(t)'
  PROVE  Inv'
<1>1. HandleTypes' /\ Cached' /\ FileTypes'
  BY HandlesSame, FilesSame DEF Inv, Typed
<1>2. BootTypes'
  BY BusyDone, BootSame DEF Inv, Typed, Running
<1>3. UNCHANGED <<lock, tmp>>
  BY DEF disk
<1>4. CallTypes'
  BY <1>3, CallsKept DEF Inv, Typed
<1> QED BY <1>1, <1>2, <1>4 DEF Inv, Typed

LEMMA NavigateKeeps ==
  ASSUME Inv, NEW t \in Threads, Navigate(t)
  PROVE  Inv'
<1>1. Heap' /\ NamedKeys' = NamedKeys
  BY TreeSame DEF Inv, Typed, Navigate
<1>2. /\ arg \in [Threads -> Args] /\ pc \in [Threads -> PCs]
      /\ Local(t) /\ pc[t] = "navigate"
  BY DEF Inv, Typed, CallTypes, Navigate, PCs
<1>3. PICK a : a = arg[t]
  OBVIOUS
<1>4. a \in Args /\ a.key \in Keys /\ a.rest \in Seq(Names) /\ a.rest # <<>>
      /\ a.op # "none" /\ Way(a.walk)
  BY <1>2, <1>3 DEF Local, Args, Navigate
<1>5. PICK c : c = Find(node[a.key].child, Head(a.rest))
  OBVIOUS
<1>6. c \in NamedKeys \cup {NIL}
  <2>1. node[a.key].child \in NamedKeys \cup {NIL}
    BY <1>4 DEF Inv, Typed, Heap
  <2> QED BY <1>5, <2>1, FindFacts DEF Inv, Typed
<1>7. CASE /\ c # NIL /\ arg' = [arg EXCEPT ![t].key = c, ![t].rest = Tail(@)]
           /\ pc' = pc
  <2>1. PICK b : b = [a EXCEPT !.key = c, !.rest = Tail(@)]
    OBVIOUS
  <2>2. Tail(a.rest) \in Seq(Names) /\ c \in Keys
    BY <1>4, <1>6, <1>7, NullFacts DEF NamedKeys
  <2>3. /\ b \in Args /\ b.key = c /\ b.walk = a.walk /\ b.op = a.op
    BY <1>4, <2>1, <2>2 DEF Args
  <2>4. arg' = [arg EXCEPT ![t] = b]
    BY <1>2, <1>3, <1>7, <2>1
  <2>5. /\ arg' \in [Threads -> Args] /\ arg'[t] = b
        /\ \A u \in Threads \ {t} : arg'[u] = arg[u]
    BY <1>2, <2>3, <2>4
  <2>6. Way(a.walk)'
    BY <1>1, <1>4, WayKept DEF Way
  <2>7. Local(t)'
    BY <1>2, <1>4, <1>7, <2>2, <2>3, <2>5, <2>6 DEF Local, Way
  <2>8. UNCHANGED <<handles, disk, boot, clean>>
    BY DEF Navigate
  <2> QED BY <1>1, <1>2, <1>7, <2>5, <2>7, <2>8, CallKeeps
<1>8. CASE c = NIL /\ a.op = "create" /\ Goto(t, "navigate", "create")
           /\ arg' = arg
  <2>1. "create" \in PCs
    BY DEF PCs
  <2>2. /\ pc' \in [Threads -> PCs] /\ pc'[t] = "create"
        /\ \A u \in Threads \ {t} : pc'[u] = pc[u]
    BY <1>8, <2>1, GotoTypes DEF Inv, Typed
  <2>3. Way(a.walk)'
    BY <1>1, <1>4, WayKept DEF Way
  <2>4. Local(t)'
    BY <1>3, <1>4, <1>8, <2>2, <2>3 DEF Local, Way
  <2>5. UNCHANGED <<handles, disk, boot, clean>>
    BY DEF Navigate
  <2> QED BY <1>1, <1>2, <1>8, <2>2, <2>4, <2>5, CallKeeps
<1>9. CASE Return(t, "navigate")
  <2>1. UNCHANGED <<handles, disk, boot, clean>>
    BY DEF Navigate
  <2> QED BY <1>1, <1>2, <1>9, <2>1, ReturnTypes, CallKeeps DEF Inv, Typed
<1> QED BY <1>3, <1>5, <1>7, <1>8, <1>9 DEF Navigate

LEMMA CreateKeyKeeps ==
  ASSUME Inv, NEW t \in Threads, CreateKey(t)
  PROVE  Inv'
<1>1. /\ arg \in [Threads -> Args] /\ Local(t) /\ Goto(t, "create", "navigate")
      /\ "navigate" \in PCs
  BY DEF Inv, Typed, CallTypes, CreateKey, PCs
<1>2. /\ pc' \in [Threads -> PCs] /\ pc[t] = "create" /\ pc'[t] = "navigate"
      /\ \A u \in Threads \ {t} : pc'[u] = pc[u]
  BY <1>1, GotoTypes DEF Inv, Typed
<1>3. PICK a : a = arg[t]
  OBVIOUS
<1>4. a \in Args /\ a.key \in Keys /\ a.rest \in Seq(Names) /\ a.rest # <<>>
      /\ a.op # "none" /\ Way(a.walk)
  BY <1>1, <1>2, <1>3 DEF Local, Args
<1>5. PICK b \in free : /\ AddKey(a.key, b, Head(a.rest), NoValues)
                        /\ arg' = [arg EXCEPT ![t].key = b, ![t].rest = Tail(@)]
  BY <1>3 DEF CreateKey
<1>6. Head(a.rest) \in Names /\ Tail(a.rest) \in Seq(Names)
  BY <1>4
<1>7. NoValues \in Contents
  BY DEF NoValues, Contents
<1>8. Heap' /\ NamedKeys' = NamedKeys \cup {b} /\ b \in Blocks
  BY <1>4, <1>5, <1>6, <1>7, AddKeyTypes DEF Inv, Typed
<1>9. PICK c : c = [a EXCEPT !.key = b, !.rest = Tail(@)]
  OBVIOUS
<1>10. b \in Keys
  BY <1>8, NullFacts
<1>11. c \in Args /\ c.key = b /\ c.walk = a.walk /\ c.op = a.op
  BY <1>4, <1>6, <1>9, <1>10 DEF Args
<1>12. arg' = [arg EXCEPT ![t] = c]
  BY <1>1, <1>3, <1>5, <1>9
<1>13. /\ arg' \in [Threads -> Args] /\ arg'[t] = c
       /\ \A u \in Threads \ {t} : arg'[u] = arg[u]
  BY <1>11, <1>12, ArgTypes DEF Inv, Typed
<1>14. Way(a.walk)'
  BY <1>4, <1>8, WayKept DEF Way
<1>15. Local(t)'
  BY <1>2, <1>4, <1>10, <1>11, <1>13, <1>14 DEF Local
<1>16. UNCHANGED <<handles, disk, boot, clean>>
  BY DEF CreateKey
<1> QED BY <1>2, <1>8, <1>13, <1>15, <1>16, CallKeeps

\* A step of a call that changes the table or the cache.
LEMMA EntryKeeps ==
  ASSUME Inv, NEW t \in Threads, NEW from \in PCs \ {"idle"}, NEW to \in PCs,
         Goto(t, from, to), HandleTypes', Cached',
         UNCHANGED <<tree, disk, boot, saved, clean>>,
         to \notin {"navigate", "create", "write", "next"},
         NEW a \in Args, arg' = [arg EXCEPT ![t] = a], Way(a.walk)
  PROVE  Inv'
<1>1. Heap' /\ NamedKeys' = NamedKeys /\ FileTypes'
  BY TreeSame, FilesSame DEF Inv, Typed
<1>2. /\ pc' \in [Threads -> PCs] /\ pc[t] = from /\ pc'[t] = to
      /\ \A u \in Threads \ {t} : pc'[u] = pc[u]
  BY GotoTypes DEF Inv, Typed
<1>3. /\ arg' \in [Threads -> Args] /\ arg'[t] = a
      /\ \A u \in Threads \ {t} : arg'[u] = arg[u]
  BY ArgTypes DEF Inv, Typed
<1>4. BootTypes'
  BY <1>1, <1>2, BusyDone, BootSame DEF Inv, Typed
<1>5. Way(arg[t].walk)'
  BY <1>1, <1>3, WayKept DEF Way
<1>6. Local(t)'
  BY <1>2, <1>5 DEF Local
<1>7. UNCHANGED <<lock, tmp>>
  BY DEF disk
<1>8. CallTypes'
  BY <1>1, <1>2, <1>3, <1>6, <1>7, CallsKept DEF Inv, Typed
<1> QED BY <1>1, <1>4, <1>8 DEF Inv, Typed

LEMMA AllocHandleKeeps ==
  ASSUME Inv, NEW t \in Threads, AllocHandle(t)
  PROVE  Inv' /\ Opening(t)'
<1>1. /\ arg \in [Threads -> Args] /\ pc \in [Threads -> PCs] /\ Local(t) /\ arg[t] \in Args
      /\ pc[t] = "navigate" /\ {"navigate", "lookup"} \subseteq PCs
      /\ Goto(t, "navigate", "lookup")
  BY DEF Inv, Typed, CallTypes, AllocHandle, Goto, PCs
<1>2. PICK a, k, p : a = arg[t] /\ k = a.key /\ p = a.path
  OBVIOUS
<1>3. a \in Args /\ k \in Keys /\ p \in Seq(Names) /\ a.op \in {"create", "open"} /\ Way(a.walk)
  BY <1>1, <1>2 DEF Local, Args
<1>4. /\ HandleTypes' /\ Cached'
      /\ Len(table) + 1 \in 1..Len(table')
      /\ table'[Len(table) + 1] = [key |-> k, path |-> p]
  BY <1>2, <1>3, GrowKeeps DEF Inv, Typed, AllocHandle
<1>5. PICK n \in Nat : n = Len(table) + 1
  BY DEF Inv, Typed, HandleTypes
<1>6. PICK b : b = [a EXCEPT !.h = n]
  OBVIOUS
<1>7. /\ b \in Args /\ b.h = n /\ b.op = a.op /\ b.key = k /\ b.path = p
      /\ b.walk = a.walk
  BY <1>2, <1>3, <1>6 DEF Args
<1>8. arg' = [arg EXCEPT ![t] = b]
  BY <1>1, <1>2, <1>5, <1>6 DEF AllocHandle
<1>9. UNCHANGED <<tree, disk, boot, saved, clean>>
  BY DEF AllocHandle
<1>10. Inv'
  BY <1>1, <1>3, <1>4, <1>7, <1>8, <1>9, EntryKeeps
<1>11. arg'[t] = b /\ pc'[t] = "lookup"
  BY <1>1, <1>8 DEF Goto
<1>12. Opening(t)'
  BY <1>3, <1>4, <1>5, <1>7, <1>11 DEF Opening
<1> QED BY <1>10, <1>12

\* What an answer leaves of the call.
LEMMA AnswerFacts ==
  ASSUME Inv, NEW t \in Threads, NEW from, NEW g, Answer(t, from, g)
  PROVE  /\ arg' = [arg EXCEPT ![t] = Idle] /\ Idle \in Args /\ Way(Idle.walk)
         /\ pc[t] = from /\ known' = known \cup {g}
         /\ pc'[t] = IF arg[t].op = "create" THEN "save" ELSE "idle"
         /\ \E to \in {"save", "idle"} : Goto(t, from, to)
<1>1. Way(<<>>)
  BY DEF Way
<1> QED BY <1>1, IdleTypes DEF Answer, Goto, Inv, Typed, CallTypes

LEMMA CacheLookupKeeps ==
  ASSUME Inv, NEW t \in Threads, Opening(t), CacheLookup(t)
  PROVE  Inv' /\ Opening(t)'
<1>1. /\ arg \in [Threads -> Args] /\ pc \in [Threads -> PCs] /\ Local(t) /\ arg[t] \in Args
      /\ {"lookup", "add", "save", "idle"} \subseteq PCs
      /\ UNCHANGED <<tree, table, cache, disk, boot, saved, clean>>
  BY DEF Inv, Typed, CallTypes, CacheLookup, PCs
<1>2. pc[t] = "lookup"
  BY DEF CacheLookup, Answer, Goto
<1>3. PICK g : g = arg[t].h
  OBVIOUS
<1>4. g \in 1..Len(table) /\ table[g].path = arg[t].path
  BY <1>2, <1>3 DEF Opening
<1>5. ASSUME NEW h \in 1..Len(table), Answer(t, "lookup", h),
             \/ \E i \in 1..Len(cache) : h = cache[i].h
             \/ Len(cache) >= MaxCached /\ Hits(table[h].path) = {}
      PROVE  Inv' /\ Opening(t)'
  <2>1. /\ arg' = [arg EXCEPT ![t] = Idle] /\ Idle \in Args /\ Way(Idle.walk)
        /\ known' = known \cup {h} /\ pc'[t] \in {"save", "idle"}
        /\ \E to \in {"save", "idle"} : Goto(t, "lookup", to)
    BY <1>5, AnswerFacts
  <2>2. HandleTypes' /\ Cached'
    BY <1>1, <1>5, <2>1, AnswerKeeps DEF Inv, Typed
  <2>3. Inv'
    BY <1>1, <2>1, <2>2, EntryKeeps
  <2> QED BY <2>1, <2>3 DEF Opening
<1>6. CASE \E i \in Hits(arg[t].path) : Answer(t, "lookup", cache[i].h)
  <2>1. PICK i \in 1..Len(cache) : Answer(t, "lookup", cache[i].h)
    BY <1>6 DEF Hits
  <2>2. cache[i].h \in 1..Len(table)
    BY DEF Inv, Typed, HandleTypes
  <2> QED BY <1>5, <2>1, <2>2
<1>7. CASE /\ Hits(arg[t].path) = {} /\ Len(cache) < MaxCached
           /\ Goto(t, "lookup", "add") /\ UNCHANGED <<known, arg>>
  <2>1. HandleTypes' /\ Cached'
    BY <1>1, <1>7, HandlesSame DEF Inv, Typed, handles
  <2>2. arg' = [arg EXCEPT ![t] = arg[t]] /\ Way(arg[t].walk)
    BY <1>1, <1>7 DEF Local
  <2>3. Inv'
    BY <1>1, <1>7, <2>1, <2>2, EntryKeeps
  <2>4. pc'[t] = "add" /\ arg' = arg /\ table' = table /\ cache' = cache
    BY <1>1, <1>7 DEF Goto
  <2>5. Opening(t)'
    BY <1>2, <1>7, <2>4 DEF Opening, Hits
  <2> QED BY <2>3, <2>5
<1>8. CASE /\ Hits(arg[t].path) = {} /\ Len(cache) >= MaxCached
           /\ Answer(t, "lookup", arg[t].h)
  BY <1>3, <1>4, <1>5, <1>8
<1> QED BY <1>6, <1>7, <1>8 DEF CacheLookup

LEMMA CacheAddKeeps ==
  ASSUME Inv, NEW t \in Threads, Opening(t), CacheAdd(t)
  PROVE  Inv' /\ Opening(t)'
<1>1. /\ {"add", "save", "idle"} \subseteq PCs /\ Answer(t, "add", arg[t].h)
      /\ UNCHANGED <<tree, table, disk, boot, saved, clean>>
  BY DEF CacheAdd, PCs
<1>2. PICK g : g = arg[t].h
  OBVIOUS
<1>3. /\ arg' = [arg EXCEPT ![t] = Idle] /\ Idle \in Args /\ Way(Idle.walk)
      /\ pc[t] = "add" /\ known' = known \cup {g} /\ pc'[t] \in {"save", "idle"}
      /\ \E to \in {"save", "idle"} : Goto(t, "add", to)
  BY <1>1, <1>2, AnswerFacts
<1>4. /\ g \in 1..Len(table) /\ table[g].path = arg[t].path
      /\ Len(cache) < MaxCached /\ Hits(arg[t].path) = {}
  BY <1>2, <1>3 DEF Opening
<1>5. HandleTypes' /\ Cached'
  BY <1>1, <1>2, <1>3, <1>4, EnterKeeps DEF Inv, Typed, CacheAdd
<1>6. Inv'
  BY <1>1, <1>3, <1>5, EntryKeeps
<1> QED BY <1>3, <1>6 DEF Opening

LEMMA CloseKeyKeeps ==
  ASSUME Inv, NEW h \in known, CloseKey(h)
  PROVE  Inv'
<1>1. Heap' /\ NamedKeys' = NamedKeys /\ FileTypes'
  BY TreeSame, FilesSame DEF Inv, Typed, CloseKey
<1>2. HandleTypes' /\ Cached'
  <2>1. table' = table /\ cache' = cache /\ known' = known \ {h}
    BY DEF CloseKey
  <2>2. HandleTypes'
    BY <2>1 DEF Inv, Typed, HandleTypes
  <2>3. Cached'
    BY <2>1 DEF Inv, Cached
  <2> QED BY <2>2, <2>3
<1>3. BootTypes'
  BY <1>1, BootSame DEF Inv, Typed, CloseKey, disk
<1>4. CallTypes'
  BY <1>1, CallsSame DEF Inv, Typed, CloseKey, disk
<1> QED BY <1>1, <1>2, <1>3, <1>4 DEF Inv, Typed

\* A call on an open handle that changes the tree and goes on to save it.
LEMMA ChangeKeeps ==
  ASSUME Inv, NEW t \in Threads, NEW h \in known, Call(t, h),
         Heap', NamedKeys' = NamedKeys,
         UNCHANGED <<handles, disk, boot, arg, clean>>
  PROVE  Inv'
<1>1. "save" \in PCs /\ Goto(t, "idle", "save") /\ Running
  BY DEF PCs, Call
<1>2. /\ pc' \in [Threads -> PCs] /\ pc'[t] = "save"
      /\ \A u \in Threads \ {t} : pc'[u] = pc[u]
  BY <1>1, GotoTypes DEF Inv, Typed
<1>3. Local(t) /\ arg \in [Threads -> Args]
  BY DEF Inv, Typed, CallTypes
<1>4. Way(arg[t].walk)'
  BY <1>3, WayKept DEF Local, Way
<1>5. Local(t)'
  BY <1>2, <1>4 DEF Local
<1> QED BY <1>1, <1>2, <1>3, <1>5, CallKeeps

LEMMA SetValueExWKeeps ==
  ASSUME Inv, NEW t \in Threads, NEW h \in known, NEW v \in Values, NEW d \in Data,
         SetValueExW(t, h, v, d)
  PROVE  Inv'
<1>1. table[h].key \in Keys
  BY HandleKey DEF Inv, Typed
<1>2. Heap' /\ NamedKeys' = NamedKeys
  BY <1>1, SetValueTypes DEF Inv, Typed, SetValueExW
<1> QED BY <1>2, ChangeKeeps DEF SetValueExW

LEMMA DeleteValueWKeeps ==
  ASSUME Inv, NEW t \in Threads, NEW h \in known, NEW v \in Values,
         DeleteValueW(t, h, v)
  PROVE  Inv'
<1>1. table[h].key \in Keys
  BY HandleKey DEF Inv, Typed
<1>2. Heap' /\ NamedKeys' = NamedKeys
  BY <1>1, SetValueTypes DEF Inv, Typed, DeleteValueW
<1> QED BY <1>2, ChangeKeeps DEF DeleteValueW

LEMMA DeleteKeyWKeeps ==
  ASSUME Inv, NEW t \in Threads, NEW h \in known, NEW x \in Names,
         DeleteKeyW(t, h, x)
  PROVE  Inv'
<1>1. PICK n : n = table[h].key
  OBVIOUS
<1>2. n \in Keys
  BY <1>1, HandleKey DEF Inv, Typed
<1>3. PICK c : c = Find(node[n].child, x)
  OBVIOUS
<1>4. c \in NamedKeys
  <2>1. node[n].child \in NamedKeys \cup {NIL}
    BY <1>2 DEF Inv, Typed, Heap
  <2>2. c # NIL
    BY <1>1, <1>3 DEF DeleteKeyW
  <2> QED BY <1>3, <2>1, <2>2, FindFacts DEF Inv, Typed
<1>5. /\ \/ \E b \in Kids(n) : node' = [node EXCEPT ![b].sib = node[c].sib]
         \/ node' = [node EXCEPT ![n].child = node[c].sib]
      /\ free' = free \cup {c}
  BY <1>1, <1>3 DEF DeleteKeyW
<1>6. Heap' /\ NamedKeys' = NamedKeys
  BY <1>2, <1>4, <1>5, UnlinkTypes DEF Inv, Typed
<1> QED BY <1>6, ChangeKeeps DEF DeleteKeyW

-----------------------------------------------------------------------------
(* The saving of the file                                                  *)

LEMMA SaveBeginKeeps ==
  ASSUME Inv, NEW t \in Threads, SaveBegin(t)
  PROVE  Inv'
<1>1. Heap' /\ NamedKeys' = NamedKeys /\ HandleTypes' /\ Cached'
  BY TreeSame, HandlesSame DEF Inv, Typed, SaveBegin
<1>2. arg \in [Threads -> Args] /\ lock = NIL /\ file' = file /\ boot' = boot
  BY DEF Inv, Typed, CallTypes, SaveBegin
<1>3. pc[t] = "save"
  BY DEF SaveBegin, Goto, Return
<1>4. BootTypes'
  BY <1>1, <1>2, <1>3, BusyDone, BootSame DEF Inv, Typed
<1>5. CASE /\ Goto(t, "save", "write") /\ lock' = t /\ tmp' = <<>>
           /\ arg' = [arg EXCEPT ![t].walk = <<Root>>] /\ clean' = clean
  <2>1. "write" \in PCs
    BY DEF PCs
  <2>2. /\ pc' \in [Threads -> PCs] /\ pc'[t] = "write"
        /\ \A u \in Threads \ {t} : pc'[u] = pc[u]
    BY <1>5, <2>1, GotoTypes DEF Inv, Typed
  <2>3. PICK a : a = [arg[t] EXCEPT !.walk = <<Root>>]
    OBVIOUS
  <2>4. <<Root>> \in Seq(Keys) /\ <<Root>> # <<>> /\ <<Root>>[1] = Root
        /\ Len(<<Root>>) = 1
    BY DEF Keys
  <2>5. arg[t] \in Args
    BY <1>2
  <2>6. a \in Args /\ a.walk = <<Root>>
    BY <2>3, <2>4, <2>5 DEF Args
  <2>7. arg' = [arg EXCEPT ![t] = a]
    BY <1>2, <1>5, <2>3
  <2>8. /\ arg' \in [Threads -> Args] /\ arg'[t] = a
        /\ \A u \in Threads \ {t} : arg'[u] = arg[u]
    BY <2>6, <2>7, ArgTypes DEF Inv, Typed
  <2>9. <<>> \in Seq(Tokens) /\ Named(<<>>)
    BY DEF Named
  <2>10. Way(<<Root>>)'
    BY <2>4 DEF Way
  <2>11. Local(t)'
    BY <1>5, <2>2, <2>4, <2>6, <2>8, <2>9, <2>10 DEF Local
  <2>12. \A u \in Threads : lock # u
    BY <1>2, NullFacts
  <2>13. CallTypes'
    BY <1>1, <2>2, <2>8, <2>11, <2>12, CallsKept DEF Inv, Typed
  <2>14. FileTypes'
    BY <1>2, <1>5, <2>9 DEF Inv, Typed, FileTypes, Named
  <2> QED BY <1>1, <1>4, <2>13, <2>14 DEF Inv, Typed
<1>6. CASE Return(t, "save") /\ clean' = FALSE /\ UNCHANGED <<lock, tmp>>
  <2>1. CallTypes'
    BY <1>1, <1>6, ReturnTypes, CallsKept DEF Inv, Typed
  <2>2. FileTypes'
    BY <1>2, <1>6 DEF Inv, Typed, FileTypes, Named
  <2> QED BY <1>1, <1>4, <2>1, <2>2 DEF Inv, Typed
<1> QED BY <1>5, <1>6 DEF SaveBegin

\* What a step of a save relies on: the thread has the lock and is inside of a
\* key, in the tree or not.
LEMMA SaverFacts ==
  ASSUME Inv, NEW t \in Threads, pc[t] \in {"write", "next"}
  PROVE  /\ arg \in [Threads -> Args] /\ arg[t] \in Args
         /\ lock = t /\ tmp \in Seq(Tokens) /\ Named(tmp)
         /\ arg[t].walk \in Seq(Keys) /\ Way(arg[t].walk)
         /\ arg[t].walk # <<>> /\ arg[t].walk[1] = Root
         /\ Len(arg[t].walk) \in Nat /\ Len(arg[t].walk) >= 1
         /\ Here(t) \in Keys
         /\ Len(arg[t].walk) > 1 => Here(t) \in NamedKeys
         /\ boot.stage = "done"
         /\ \A u \in Threads \ {t} : lock # u
<1>1. /\ arg \in [Threads -> Args] /\ arg[t] \in Args /\ Local(t)
      /\ Named(tmp) /\ boot.stage = "done"
  BY BusyDone DEF Inv, Typed, CallTypes, FileTypes
<1>2. PICK w : w = arg[t].walk
  OBVIOUS
<1>3. /\ w \in Seq(Keys) /\ Way(w) /\ w # <<>> /\ w[1] = Root
      /\ lock = t /\ tmp \in Seq(Tokens)
  BY <1>1, <1>2 DEF Local, Args
<1>4. Len(w) \in Nat /\ Len(w) >= 1 /\ w[Len(w)] \in Keys
  BY <1>3
<1>5. Len(w) > 1 => w[Len(w)] \in NamedKeys
  BY <1>3, <1>4 DEF Way
<1> QED BY <1>1, <1>2, <1>3, <1>4, <1>5 DEF Here

\* A key or its siblings' walk is written: the others wait for the lock.
LEMMA SaverKeeps ==
  ASSUME Inv, NEW t \in Threads, pc[t] \in {"write", "next"},
         NEW w \in Seq(Keys), Way(w), w # <<>>, w[1] = Root,
         NEW f \in BOOLEAN,
         arg' = [arg EXCEPT ![t].full = f, ![t].walk = w],
         NEW to \in {"write", "next"}, Goto(t, pc[t], to),
         tmp' \in Seq(Tokens), Named(tmp)',
         to = "write" => Len(w) > 1,
         UNCHANGED <<tree, handles, file, lock, boot, clean>>
  PROVE  Inv'
<1>1. Heap' /\ NamedKeys' = NamedKeys /\ HandleTypes' /\ Cached'
  BY TreeSame, HandlesSame DEF Inv, Typed
<1>2. BootTypes'
  BY <1>1, BusyDone, BootSame DEF Inv, Typed
<1>3. FileTypes'
  BY DEF Inv, Typed, FileTypes, Named
<1>4. to \in PCs
  BY DEF PCs
<1>5. /\ pc' \in [Threads -> PCs] /\ pc'[t] = to
      /\ \A u \in Threads \ {t} : pc'[u] = pc[u]
  BY <1>4, GotoTypes DEF Inv, Typed
<1>6. /\ arg \in [Threads -> Args] /\ arg[t] \in Args /\ lock = t
      /\ \A u \in Threads \ {t} : lock # u
  BY SaverFacts
<1>7. PICK a : a = [arg[t] EXCEPT !.full = f, !.walk = w]
  OBVIOUS
<1>8. a \in Args /\ a.walk = w
  BY <1>6, <1>7 DEF Args
<1>9. arg' = [arg EXCEPT ![t] = a]
  BY <1>6, <1>7
<1>10. /\ arg' \in [Threads -> Args] /\ arg'[t] = a
       /\ \A u \in Threads \ {t} : arg'[u] = arg[u]
  BY <1>8, <1>9, ArgTypes DEF Inv, Typed
<1>11. Way(w)'
  BY <1>1, WayKept DEF Way
<1>12. Len(w) > 1 => Len(w) # 1
  <2>1. PICK k \in Nat : k = Len(w)
    OBVIOUS
  <2>2. k > 1 => k # 1
    BY ONLY k \in Nat
  <2> QED BY <2>1, <2>2
<1>13. Local(t)'
  BY <1>5, <1>6, <1>8, <1>10, <1>11, <1>12 DEF Local
<1>14. CallTypes'
  BY <1>1, <1>5, <1>6, <1>10, <1>13, CallsKept DEF Inv, Typed
<1> QED BY <1>1, <1>2, <1>3, <1>14 DEF Inv, Typed

LEMMA AppendFacts ==
  ASSUME NEW S, NEW w \in Seq(S), NEW c \in S
  PROVE  /\ Append(w, c) \in Seq(S) /\ Append(w, c) # <<>>
         /\ Len(Append(w, c)) = Len(w) + 1
         /\ \A i \in 1..Len(w) : Append(w, c)[i] = w[i]
         /\ Append(w, c)[Len(w) + 1] = c
OBVIOUS

LEMMA WayAppend ==
  ASSUME NEW w \in Seq(Keys), Way(w), NEW c \in NamedKeys
  PROVE  Append(w, c) \in Seq(Keys) /\ Way(Append(w, c))
<1>1. c \in Keys
  BY NullFacts DEF NamedKeys
<1>2. \A i \in 2..(Len(w) + 1) : i = Len(w) + 1 \/ (i \in 1..Len(w) /\ i \in 2..Len(w))
  OBVIOUS
<1> QED BY <1>1, <1>2, AppendFacts DEF Way

LEMMA OutFacts ==
  ASSUME NEW S, NEW w \in Seq(S), Len(w) > 1
  PROVE  /\ SubSeq(w, 1, Len(w) - 1) \in Seq(S)
         /\ Len(SubSeq(w, 1, Len(w) - 1)) = Len(w) - 1
         /\ SubSeq(w, 1, Len(w) - 1) # <<>>
         /\ \A i \in 1..(Len(w) - 1) : SubSeq(w, 1, Len(w) - 1)[i] = w[i]
<1>1. Len(w) - 1 \in Nat /\ Len(w) - 1 >= 1 /\ Len(w) - 1 <= Len(w)
  OBVIOUS
<1> QED BY <1>1

LEMMA WayOut ==
  ASSUME NEW w \in Seq(Keys), Way(w), Len(w) > 1
  PROVE  Way(SubSeq(w, 1, Len(w) - 1))
<1>1. \A i \in 2..(Len(w) - 1) : i \in 1..(Len(w) - 1) /\ i \in 2..Len(w)
  OBVIOUS
<1> QED BY <1>1, OutFacts DEF Way

LEMMA WriteKeyKeeps ==
  ASSUME Inv, NEW t \in Threads, WriteKey(t)
  PROVE  Inv'
<1>1. pc[t] = "write"
  BY DEF WriteKey, Goto
<1>2. PICK w : w = arg[t].walk
  OBVIOUS
<1>3. PICK n : n = Here(t)
  OBVIOUS
<1>4. PICK into : into = node[n].child
  OBVIOUS
<1>5. PICK token : token = [name |-> node[n].name, vals |-> node[n].vals,
                            subs |-> Cardinality(Kids(n))]
  OBVIOUS
<1>6. /\ arg \in [Threads -> Args] /\ arg[t] \in Args /\ tmp \in Seq(Tokens)
      /\ Named(tmp) /\ w \in Seq(Keys) /\ Way(w) /\ w # <<>> /\ w[1] = Root
      /\ Len(w) \in Nat /\ Len(w) >= 1 /\ n \in Keys
      /\ Len(w) > 1 => n \in NamedKeys
  BY <1>1, <1>2, <1>3, SaverFacts
<1>7. Len(w) = 1 => tmp = <<>>
  <2>1. Local(t)
    BY DEF Inv, Typed, CallTypes
  <2> QED BY <1>1, <1>2, <2>1 DEF Local
<1>8. into \in NamedKeys \cup {NIL}
  BY <1>4, <1>6 DEF Inv, Typed, Heap
<1>9. node[n] \in Nodes /\ Cardinality(Kids(n)) \in Nat
  BY <1>6, KidsTypes DEF Inv, Typed, Heap
<1>10. token \in Tokens /\ token.name = node[n].name
  BY <1>5, <1>9 DEF Tokens, Nodes
<1>11. Append(tmp, token) \in Seq(Tokens) /\ Named(Append(tmp, token))
  <2>1. \A i \in 2..(Len(tmp) + 1) :
          \/ i = Len(tmp) + 1 /\ Len(tmp) # 0
          \/ i \in 1..Len(tmp) /\ i \in 2..Len(tmp)
    BY <1>6
  <2>2. Len(tmp) # 0 => token.name \in Names
    <3>1. Len(w) = 1 => Len(tmp) = 0
      BY <1>7
    <3>2. Len(w) # 1 => n \in NamedKeys
      <4>1. PICK k \in Nat : k = Len(w) /\ k >= 1
        BY <1>6
      <4>2. k # 1 => k > 1
        BY <4>1
      <4> QED BY <1>6, <4>1, <4>2
    <3> QED BY <1>10, <3>1, <3>2 DEF NamedKeys
  <2>3. /\ Append(tmp, token) \in Seq(Tokens)
        /\ Len(Append(tmp, token)) = Len(tmp) + 1
        /\ \A i \in 1..Len(tmp) : Append(tmp, token)[i] = tmp[i]
        /\ Append(tmp, token)[Len(tmp) + 1] = token
    BY <1>6, <1>10, AppendFacts
  <2> QED BY <1>6, <2>1, <2>2, <2>3 DEF Named
<1>12. PICK x : x = IF into # NIL THEN Append(w, into) ELSE w
  OBVIOUS
<1>13. PICK to : to = IF into # NIL THEN "write" ELSE "next"
  OBVIOUS
<1>14. /\ x \in Seq(Keys) /\ Way(x) /\ x # <<>> /\ x[1] = Root
       /\ to = "write" => Len(x) > 1
  <2>1. CASE into # NIL
    <3>1. into \in NamedKeys /\ into \in Keys
      BY <1>8, <2>1, NullFacts DEF NamedKeys
    <3>2. /\ x \in Seq(Keys) /\ x # <<>> /\ Len(x) = Len(w) + 1
          /\ \A i \in 1..Len(w) : x[i] = w[i]
      BY <1>6, <1>12, <2>1, <3>1, AppendFacts
    <3>3. Way(x)
      BY <1>6, <1>12, <2>1, <3>1, WayAppend
    <3>4. 1 \in 1..Len(w) /\ Len(w) + 1 > 1
      BY <1>6
    <3> QED BY <1>6, <3>2, <3>3, <3>4
  <2>2. CASE into = NIL
    BY <1>6, <1>12, <1>13, <2>2
  <2> QED BY <2>1, <2>2
<1>15. PICK f \in BOOLEAN :
         /\ tmp' = IF f THEN tmp ELSE Append(tmp, token)
         /\ arg' = [arg EXCEPT ![t].full = f,
                               ![t].walk = IF into # NIL THEN Append(@, into) ELSE @]
  <2>1. \A f : f \in {arg[t].full} \cup (IF "write" \in Faults THEN {TRUE} ELSE {})
               => f \in BOOLEAN
    BY <1>6 DEF Args
  <2>2. PICK f \in {arg[t].full} \cup (IF "write" \in Faults THEN {TRUE} ELSE {}) :
          /\ tmp' = IF f THEN tmp ELSE Append(tmp, token)
          /\ arg' = [arg EXCEPT ![t].full = f,
                                ![t].walk = IF into # NIL THEN Append(@, into) ELSE @]
    BY <1>3, <1>4, <1>5, Zenon DEF WriteKey
  <2> QED BY <2>1, <2>2
<1>16. arg' = [arg EXCEPT ![t].full = f, ![t].walk = x]
  BY <1>2, <1>6, <1>12, <1>15 DEF Args
<1>17. tmp' \in Seq(Tokens) /\ Named(tmp)'
  BY <1>6, <1>11, <1>15 DEF Named
<1>18. Goto(t, pc[t], to) /\ to \in {"write", "next"}
  BY <1>1, <1>3, <1>4, <1>13 DEF WriteKey
<1>19. UNCHANGED <<tree, handles, file, lock, boot, clean>>
  BY DEF WriteKey
<1> QED BY <1>1, <1>14, <1>16, <1>17, <1>18, <1>19, SaverKeeps

LEMMA WriteNextKeeps ==
  ASSUME Inv, NEW t \in Threads, WriteNext(t)
  PROVE  Inv'
<1>1. pc[t] = "next"
  BY DEF WriteNext, Goto
<1>2. PICK w : w = arg[t].walk
  OBVIOUS
<1>3. PICK n : n = Here(t)
  OBVIOUS
<1>4. PICK s : s = node[n].sib
  OBVIOUS
<1>5. PICK out : out = SubSeq(w, 1, Len(w) - 1)
  OBVIOUS
<1>6. /\ arg \in [Threads -> Args] /\ arg[t] \in Args /\ tmp \in Seq(Tokens)
      /\ Named(tmp) /\ w \in Seq(Keys) /\ Way(w) /\ w[1] = Root
      /\ Len(w) \in Nat /\ n \in Keys /\ Len(w) > 1
  BY <1>1, <1>2, <1>3, SaverFacts DEF WriteNext
<1>7. s \in NamedKeys \cup {NIL}
  BY <1>4, <1>6 DEF Inv, Typed, Heap
<1>8. /\ out \in Seq(Keys) /\ Len(out) = Len(w) - 1 /\ out # <<>> /\ Way(out)
      /\ out[1] = Root /\ Len(out) \in Nat /\ Len(out) >= 1
  <2>1. 1 \in 1..(Len(w) - 1) /\ Len(w) - 1 \in Nat /\ Len(w) - 1 >= 1
    BY <1>6
  <2> QED BY <1>5, <1>6, <2>1, OutFacts, WayOut
<1>9. PICK f \in BOOLEAN : f = arg[t].full
  BY <1>6 DEF Args
<1>10. \A x : [arg EXCEPT ![t].walk = x] = [arg EXCEPT ![t].full = f, ![t].walk = x]
  BY <1>6, <1>9 DEF Args
<1>11. tmp' = tmp /\ UNCHANGED <<tree, handles, file, lock, boot, clean>>
  BY DEF WriteNext, disk
<1>12. tmp' \in Seq(Tokens) /\ Named(tmp)'
  BY <1>6, <1>11 DEF Named
<1>13. CASE s # NIL /\ Goto(t, "next", "write")
            /\ arg' = [arg EXCEPT ![t].walk = Append(out, s)]
  <2>1. s \in NamedKeys /\ s \in Keys
    BY <1>7, <1>13, NullFacts DEF NamedKeys
  <2>2. PICK x : x = Append(out, s)
    OBVIOUS
  <2>3. /\ x \in Seq(Keys) /\ x # <<>> /\ Len(x) = Len(out) + 1 /\ Way(x)
        /\ \A i \in 1..Len(out) : x[i] = out[i]
    BY <1>8, <2>1, <2>2, AppendFacts, WayAppend
  <2>4. x[1] = Root /\ Len(x) > 1
    <3>1. 1 \in 1..Len(out) /\ Len(out) + 1 > 1
      BY <1>8
    <3> QED BY <1>8, <2>3, <3>1
  <2>5. arg' = [arg EXCEPT ![t].full = f, ![t].walk = x]
    BY <1>10, <1>13, <2>2
  <2> QED BY <1>1, <1>11, <1>12, <1>13, <2>3, <2>4, <2>5, SaverKeeps
<1>14. CASE Goto(t, "next", "next") /\ arg' = [arg EXCEPT ![t].walk = out]
  <2>1. arg' = [arg EXCEPT ![t].full = f, ![t].walk = out]
    BY <1>10, <1>14
  <2> QED BY <1>1, <1>8, <1>11, <1>12, <1>14, <2>1, SaverKeeps
<1> QED BY <1>2, <1>3, <1>4, <1>5, <1>13, <1>14 DEF WriteNext, Outside

LEMMA SaveMoveKeeps ==
  ASSUME Inv, NEW t \in Threads, SaveMove(t)
  PROVE  Inv'
<1>1. Heap' /\ NamedKeys' = NamedKeys /\ HandleTypes' /\ Cached'
  BY TreeSame, HandlesSame DEF Inv, Typed, SaveMove
<1>2. Return(t, "next") /\ lock' = NIL /\ tmp' = Absent /\ boot' = boot
  BY DEF SaveMove
<1>3. pc[t] = "next"
  BY <1>2 DEF Return, Goto
<1>4. tmp \in Seq(Tokens) /\ Named(tmp) /\ \A u \in Threads \ {t} : lock # u
  BY <1>3, SaverFacts
<1>5. BootTypes'
  BY <1>1, <1>2, <1>3, BusyDone, BootSame DEF Inv, Typed
<1>6. CallTypes'
  BY <1>1, <1>2, <1>4, ReturnTypes, CallsKept DEF Inv, Typed
<1>7. Named(Absent)
  <2>1. Len(Absent) = 1
    BY DEF Absent
  <2> QED BY <2>1 DEF Named
<1>8. FileTypes'
  <2>1. \/ file' = tmp /\ clean' = TRUE
        \/ file' = file /\ clean' = FALSE
    BY DEF SaveMove
  <2>2. Named(file)' /\ Named(tmp)'
    BY <1>2, <1>4, <1>7, <2>1 DEF Inv, Typed, FileTypes, Named
  <2> QED BY <1>2, <1>4, <2>1, <2>2 DEF Inv, Typed, FileTypes
<1> QED BY <1>1, <1>5, <1>6, <1>8 DEF Inv, Typed

-----------------------------------------------------------------------------
(* The start of the service                                                *)

LEMMA BootKeeps ==
  ASSUME Inv, boot.stage # "done", Heap', NamedKeys \subseteq NamedKeys',
         HandleTypes', Cached', UNCHANGED <<disk, pc, arg, clean>>,
         boot' \in Boots, Way(boot.walk)',
         boot'.stage = "load" =>
           file \in Seq(Tokens) /\ boot'.at >= 2 /\ boot'.stack # <<>>,
         boot'.stage \in {"open", "close"} => boot'.walk # <<>>
  PROVE  Inv'
<1>1. FileTypes' /\ file' = file /\ pc' = pc
  BY FilesSame DEF Inv, Typed, disk
<1>2. CallTypes'
  BY CallsSame DEF Inv, Typed, disk
<1>3. pc = Fresh.pc
  BY DEF Inv, Typed, BootTypes
<1>4. BootTypes'
  BY <1>1, <1>3, Idles DEF BootTypes, Fresh
<1> QED BY <1>1, <1>2, <1>4 DEF Inv, Typed

LEMMA BootingFacts ==
  /\ Booting \in Boots /\ Booting.walk = <<>> /\ Booting.stage = "root"
  /\ \A s \in {"root", "load", "dump", "open", "close", "done"} :
       LET e == [Booting EXCEPT !.stage = s]
       IN  e \in Boots /\ e.walk = <<>> /\ e.stage = s
<1>1. <<>> \in Seq(Keys) /\ <<>> \in Seq([key : Keys, left : Nat])
  OBVIOUS
<1> QED BY <1>1 DEF Booting, Boots

LEMMA LoadRootKeeps ==
  ASSUME Inv, LoadRoot
  PROVE  Inv'
<1>1. /\ Heap' /\ NamedKeys' = NamedKeys /\ HandleTypes' /\ Cached'
      /\ UNCHANGED <<disk, pc, arg, clean>> /\ boot.stage # "done"
  BY TreeSame, HandlesSame DEF Inv, Typed, LoadRoot
<1>2. CASE boot' = [Booting EXCEPT !.stage = "dump"]
  <2>1. boot' \in Boots /\ boot'.walk = <<>> /\ boot'.stage = "dump"
    BY <1>2, BootingFacts
  <2>2. Way(boot.walk)'
    BY <2>1, EmptyWay
  <2> QED BY <1>1, <2>1, <2>2, BootKeeps
<1>3. CASE /\ file # Absent /\ file # <<>>
           /\ boot' = [Booting EXCEPT !.stage = "load", !.at = 2,
                         !.stack = <<[key |-> Root, left |-> file[1].subs]>>]
  <2>1. file \in Seq(Tokens)
    BY <1>3 DEF Inv, Typed, FileTypes
  <2>2. file[1] \in Tokens
    BY <1>3, <2>1
  <2>3. PICK e : e = [key |-> Root, left |-> file[1].subs]
    OBVIOUS
  <2>4. e \in [key : Keys, left : Nat]
    BY <2>2, <2>3 DEF Tokens, Keys
  <2>5. <<e>> \in Seq([key : Keys, left : Nat]) /\ <<e>> # <<>>
    BY <2>4
  <2>6. /\ boot' \in Boots /\ boot'.walk = <<>> /\ boot'.stage = "load"
        /\ boot'.at = 2 /\ boot'.stack = <<e>>
    <3>1. boot' = [stage |-> "load", at |-> 2, stack |-> <<e>>, walk |-> <<>>]
      BY <1>3, <2>3 DEF Booting
    <3>2. <<>> \in Seq(Keys) /\ 2 \in Nat
      OBVIOUS
    <3> QED BY <2>5, <3>1, <3>2 DEF Boots
  <2>7. Way(boot.walk)'
    BY <2>6, EmptyWay
  <2> QED BY <1>1, <2>1, <2>5, <2>6, <2>7, BootKeeps
<1> QED BY <1>2, <1>3 DEF LoadRoot

\* What the loader relies on: it is inside of a key.
LEMMA LoadFacts ==
  ASSUME Inv, boot.stage = "load"
  PROVE  /\ boot \in Boots /\ Way(boot.walk)
         /\ file \in Seq(Tokens) /\ Named(file) /\ boot.at \in Nat /\ boot.at >= 2
         /\ boot.stack \in Seq([key : Keys, left : Nat]) /\ boot.stack # <<>>
         /\ Top \in [key : Keys, left : Nat]
         /\ Rest \in Seq([key : Keys, left : Nat])
         /\ Len(boot.stack) # 1 => Rest # <<>>
<1>1. /\ boot \in Boots /\ Way(boot.walk) /\ Named(file)
      /\ file \in Seq(Tokens) /\ boot.at >= 2 /\ boot.stack # <<>>
  BY DEF Inv, Typed, BootTypes, FileTypes
<1>2. boot.at \in Nat /\ boot.stack \in Seq([key : Keys, left : Nat])
  BY <1>1 DEF Boots
<1> DEFINE E == [key : Keys, left : Nat]
<1>3. PICK q : q = boot.stack
  OBVIOUS
<1>4. q \in Seq(E) /\ q # <<>>
  BY <1>1, <1>2, <1>3
<1> HIDE DEF E
<1>5. q[Len(q)] \in E
  BY <1>4
<1>6. Len(q) \in Nat /\ (Len(q) # 1 => Len(q) > 1)
  <2>1. PICK k \in Nat : k = Len(q) /\ k # 0
    BY <1>4
  <2>2. k # 1 => k > 1
    BY ONLY <2>1
  <2> QED BY <2>1, <2>2
<1>7. /\ SubSeq(q, 1, Len(q) - 1) \in Seq(E)
      /\ Len(q) # 1 => SubSeq(q, 1, Len(q) - 1) # <<>>
  <2>1. CASE Len(q) = 1
    BY <1>4, <2>1
  <2>2. CASE Len(q) > 1
    BY <1>4, <2>2, OutFacts
  <2> QED BY <1>6, <2>1, <2>2
<1> USE DEF E
<1> QED BY <1>1, <1>2, <1>3, <1>5, <1>6, <1>7 DEF Top, Rest

LEMMA LoadKeyKeeps ==
  ASSUME Inv, LoadKey
  PROVE  Inv'
<1>1. boot.stage = "load" /\ Top.left > 0
  BY DEF LoadKey
<1>2. PICK b \in free, r \in Record :
        /\ AddKey(Top.key, b, r.name, r.vals)
        /\ boot' = [boot EXCEPT !.at = @ + 1,
                     !.stack = Rest \o <<[Top EXCEPT !.left = @ - 1],
                                         [key |-> b, left |-> r.subs]>>]
  BY DEF LoadKey
<1>3. r.name \in Names /\ r.vals \in Contents /\ r.subs \in Nat
  <2>1. CASE boot.at <= Len(file)
    <3>1. r = file[boot.at] /\ boot.at \in 2..Len(file) /\ boot.at \in 1..Len(file)
      BY <1>1, <1>2, <2>1, LoadFacts DEF Record
    <3>2. file[boot.at] \in Tokens /\ file[boot.at].name \in Names
      BY <1>1, <3>1, LoadFacts DEF Named
    <3> QED BY <3>1, <3>2 DEF Tokens
  <2>2. CASE ~(boot.at <= Len(file))
    <3>1. NoValues \in Contents
      BY DEF NoValues, Contents
    <3>2. r \in [name : Names, vals : {NoValues}, subs : {0}]
      BY <1>2, <2>2 DEF Record
    <3> QED BY <3>1, <3>2
  <2> QED BY <2>1, <2>2
<1>4. Top.key \in Keys /\ Top.left \in Nat
  BY <1>1, LoadFacts
<1>5. Heap' /\ NamedKeys' = NamedKeys \cup {b} /\ b \in Blocks
  BY <1>2, <1>3, <1>4, AddKeyTypes DEF Inv, Typed
<1>6. PICK e, f : e = [Top EXCEPT !.left = @ - 1] /\ f = [key |-> b, left |-> r.subs]
  OBVIOUS
<1>7. e \in [key : Keys, left : Nat]
  <2>1. Top.left - 1 \in Nat
    BY <1>1, <1>4
  <2> QED BY <1>1, <1>6, <2>1, LoadFacts
<1>8. f \in [key : Keys, left : Nat]
  BY <1>3, <1>5, <1>6, NullFacts
<1>9. PICK q : q = Rest \o <<e, f>>
  OBVIOUS
<1>10. q \in Seq([key : Keys, left : Nat]) /\ q # <<>>
  <2> DEFINE E == [key : Keys, left : Nat]
  <2>1. Rest \in Seq(E) /\ e \in E /\ f \in E
    BY <1>1, <1>7, <1>8, LoadFacts
  <2> HIDE DEF E
  <2>2. q \in Seq(E) /\ Len(q) = Len(Rest) + 2 /\ Len(Rest) \in Nat
    BY <1>9, <2>1
  <2>3. q # <<>>
    BY <2>2
  <2> QED BY <2>2, <2>3 DEF E
<1>11. boot' = [boot EXCEPT !.at = @ + 1, !.stack = q]
  BY <1>2, <1>6, <1>9
<1>12. /\ boot' \in Boots /\ boot'.walk = boot.walk /\ boot'.stage = "load"
       /\ boot'.at = boot.at + 1 /\ boot'.stack = q
  <2>1. boot \in Boots /\ boot.at + 1 \in Nat
    BY <1>1, LoadFacts
  <2> QED BY <1>1, <1>10, <1>11, <2>1 DEF Boots
<1>13. Way(boot.walk)'
  BY <1>1, <1>5, <1>12, LoadFacts, WayKept DEF Way
<1>14. boot'.at >= 2 /\ file \in Seq(Tokens)
  BY <1>1, <1>12, LoadFacts
<1>15. HandleTypes' /\ Cached' /\ UNCHANGED <<disk, pc, arg, clean>>
  BY HandlesSame DEF Inv, Typed, LoadKey
<1> QED BY <1>1, <1>5, <1>10, <1>12, <1>13, <1>14, <1>15, BootKeeps

LEMMA LoadReturnKeeps ==
  ASSUME Inv, LoadReturn
  PROVE  Inv'
<1>1. /\ Heap' /\ NamedKeys' = NamedKeys /\ HandleTypes' /\ Cached'
      /\ UNCHANGED <<disk, pc, arg, clean>> /\ boot.stage = "load"
  BY TreeSame, HandlesSame DEF Inv, Typed, LoadReturn
<1>2. CASE boot' = [boot EXCEPT !.stage = "dump"]
  <2>1. boot' \in Boots /\ boot'.walk = boot.walk /\ boot'.stage = "dump"
    BY <1>1, <1>2, LoadFacts DEF Boots
  <2>2. Way(boot.walk)'
    BY <1>1, <2>1, LoadFacts, WayKept DEF Way
  <2> QED BY <1>1, <2>1, <2>2, BootKeeps
<1>3. CASE Len(boot.stack) # 1 /\ boot' = [boot EXCEPT !.stack = Rest]
  <2>1. /\ boot' \in Boots /\ boot'.walk = boot.walk /\ boot'.stage = "load"
        /\ boot'.at = boot.at /\ boot'.stack = Rest
    BY <1>1, <1>3, LoadFacts DEF Boots
  <2>2. Way(boot.walk)'
    BY <1>1, <2>1, LoadFacts, WayKept DEF Way
  <2> QED BY <1>1, <1>3, <2>1, <2>2, LoadFacts, BootKeeps
<1> QED BY <1>2, <1>3 DEF LoadReturn

LEMMA TreeTypes ==
  ASSUME Heap, NEW k \in Tree
  PROVE  \E n \in Keys : k = <<n, k[2]>>
<1>1. PICK w \in Lines[Depth] : k = <<w[Len(w)], PathOf(w)>>
  BY DEF Tree, Depth
<1>2. w \in Seq(Keys) /\ w # <<>>
  BY LinesAreLines DEF IsLine
<1>3. w[Len(w)] \in Keys
  BY <1>2
<1> QED BY <1>1, <1>3

LEMMA DumpBeginKeeps ==
  ASSUME Inv, DumpBegin
  PROVE  Inv'
<1>1. /\ Heap' /\ NamedKeys' = NamedKeys /\ HandleTypes' /\ Cached'
      /\ UNCHANGED <<disk, pc, arg, clean>> /\ boot.stage # "done"
  BY TreeSame, HandlesSame DEF Inv, Typed, DumpBegin
<1>2. CASE \E k \in Tree : k[2] = DumpPath
  <2>1. PICK n : n = CHOOSE m \in Keys : <<m, DumpPath>> \in Tree
    OBVIOUS
  <2>2. \E m \in Keys : <<m, DumpPath>> \in Tree
    BY <1>2, TreeTypes DEF Inv, Typed
  <2>3. n \in Keys
    BY <2>1, <2>2
  <2>4. boot' = [Booting EXCEPT !.stage = "open", !.walk = <<n>>]
    BY <1>2, <2>1 DEF DumpBegin
  <2>5. <<n>> \in Seq(Keys) /\ <<n>> # <<>> /\ Len(<<n>>) = 1
    BY <2>3
  <2>6. boot' = [stage |-> "open", at |-> 1, stack |-> <<>>, walk |-> <<n>>]
    BY <2>4 DEF Booting
  <2>7. <<>> \in Seq([key : Keys, left : Nat]) /\ 1 \in Nat
    OBVIOUS
  <2>8. boot' \in Boots /\ boot'.walk = <<n>> /\ boot'.stage = "open"
    BY <2>5, <2>6, <2>7 DEF Boots
  <2>9. Way(boot.walk)'
    BY <2>5, <2>8 DEF Way
  <2> QED BY <1>1, <2>5, <2>8, <2>9, BootKeeps
<1>3. CASE ~\E k \in Tree : k[2] = DumpPath
  <2>1. boot' = [Booting EXCEPT !.stage = "done", !.walk = <<>>]
    BY <1>3 DEF DumpBegin
  <2>2. boot' \in Boots /\ boot'.walk = <<>> /\ boot'.stage = "done"
    BY <2>1, BootingFacts DEF Boots
  <2>3. Way(boot.walk)'
    BY <2>2, EmptyWay
  <2> QED BY <1>1, <2>2, <2>3, BootKeeps
<1> QED BY <1>2, <1>3

LEMMA DumpFacts ==
  ASSUME Inv, boot.stage \in {"open", "close"}
  PROVE  /\ boot \in Boots /\ boot.walk \in Seq(Keys) /\ Way(boot.walk)
         /\ boot.walk # <<>> /\ Dumped \in Keys /\ DumpedPath \in Seq(Names)
<1>1. /\ boot \in Boots /\ Way(boot.walk) /\ boot.walk # <<>>
  BY DEF Inv, Typed, BootTypes
<1>2. PICK w : w = boot.walk
  OBVIOUS
<1>3. w \in Seq(Keys) /\ w # <<>> /\ Way(w)
  BY <1>1, <1>2 DEF Boots
<1>4. Len(w) \in Nat /\ Len(w) >= 1 /\ w[Len(w)] \in Keys
  BY <1>3
<1>5. PICK k \in Nat : k = Len(w) - 1
  BY <1>4
<1>6. PICK q : q = [i \in 1..k |-> node[w[i + 1]].name]
  OBVIOUS
<1>7. \A i \in 1..k : node[w[i + 1]].name \in Names
  <2>1. \A i \in 1..k : i + 1 \in 2..Len(w)
    BY <1>4, <1>5
  <2> QED BY <1>3, <2>1 DEF Way, NamedKeys
<1>8. q \in Seq(Names)
  BY <1>5, <1>6, <1>7
<1>9. DumpPath \o q \in Seq(Names)
  BY <1>8, RegistryAssumption
<1> QED BY <1>1, <1>2, <1>3, <1>4, <1>5, <1>6, <1>9 DEF Dumped, DumpedPath

LEMMA DumpOpenKeeps ==
  ASSUME Inv, DumpOpen
  PROVE  Inv'
<1>1. /\ Heap' /\ NamedKeys' = NamedKeys /\ boot.stage = "open"
      /\ UNCHANGED <<disk, pc, arg, clean>>
  BY TreeSame DEF Inv, Typed, DumpOpen
<1>2. /\ boot \in Boots /\ boot.walk \in Seq(Keys) /\ Way(boot.walk)
      /\ boot.walk # <<>> /\ Dumped \in Keys /\ DumpedPath \in Seq(Names)
  BY <1>1, DumpFacts
<1>3. HandleTypes' /\ Cached'
  BY <1>2, AloneKeeps DEF Inv, Typed, DumpOpen
<1>4. PICK c : c = node[Dumped].child
  OBVIOUS
<1>5. CASE c # NIL
  <2>1. c \in NamedKeys
    BY <1>2, <1>4, <1>5 DEF Inv, Typed, Heap
  <2>2. c \in Keys
    BY <2>1, NullFacts DEF NamedKeys
  <2>3. PICK w : w = Append(boot.walk, c)
    OBVIOUS
  <2>4. w \in Seq(Keys) /\ Way(w) /\ w # <<>>
    BY <1>2, <2>1, <2>2, <2>3, WayAppend, AppendFacts
  <2>5. boot' = [boot EXCEPT !.walk = w]
    BY <1>4, <1>5, <2>3 DEF DumpOpen
  <2>6. boot' \in Boots /\ boot'.walk = w /\ boot'.stage = "open"
    BY <1>1, <1>2, <2>4, <2>5 DEF Boots
  <2>7. Way(boot.walk)'
    BY <1>1, <2>4, <2>6, WayKept DEF Way
  <2> QED BY <1>1, <1>3, <2>4, <2>6, <2>7, BootKeeps
<1>6. CASE c = NIL
  <2>1. boot' = [boot EXCEPT !.stage = "close"]
    BY <1>4, <1>6 DEF DumpOpen
  <2>2. boot' \in Boots /\ boot'.walk = boot.walk /\ boot'.stage = "close"
    BY <1>2, <2>1 DEF Boots
  <2>3. Way(boot.walk)'
    BY <1>1, <1>2, <2>2, WayKept DEF Way
  <2> QED BY <1>1, <1>2, <1>3, <2>2, <2>3, BootKeeps
<1> QED BY <1>5, <1>6

LEMMA DumpCloseKeeps ==
  ASSUME Inv, DumpClose
  PROVE  Inv'
<1>1. /\ Heap' /\ NamedKeys' = NamedKeys /\ boot.stage = "close"
      /\ UNCHANGED <<disk, pc, arg, clean>>
  BY TreeSame DEF Inv, Typed, DumpClose
<1>2. /\ boot \in Boots /\ boot.walk \in Seq(Keys) /\ Way(boot.walk)
      /\ boot.walk # <<>> /\ Dumped \in Keys
  BY <1>1, DumpFacts
<1>3. HandleTypes' /\ Cached'
  <2>1. table' = table /\ cache' = cache /\ known' = {}
    BY DEF DumpClose
  <2>2. HandleTypes'
    BY <2>1 DEF Inv, Typed, HandleTypes
  <2>3. Cached'
    BY <2>1 DEF Inv, Cached
  <2> QED BY <2>2, <2>3
<1>4. PICK out : out = SubSeq(boot.walk, 1, Len(boot.walk) - 1)
  OBVIOUS
<1>5. PICK s : s = node[Dumped].sib
  OBVIOUS
<1>6. CASE out = <<>>
  <2>1. boot' = [Booting EXCEPT !.stage = "done"]
    BY <1>4, <1>6 DEF DumpClose
  <2>2. boot' \in Boots /\ boot'.walk = <<>> /\ boot'.stage = "done"
    BY <2>1, BootingFacts
  <2>3. Way(boot.walk)'
    BY <2>2, EmptyWay
  <2> QED BY <1>1, <1>3, <2>2, <2>3, BootKeeps
<1>7. CASE out # <<>>
  <2>1. out \in Seq(Keys) /\ Way(out)
    <3>1. PICK k \in Nat : k = Len(boot.walk) /\ k # 0
      BY <1>2
    <3>5. k # 0
      BY <3>1
    <3>2. k # 1 => k > 1
      BY ONLY k \in Nat, <3>5
    <3>3. CASE k = 1
      <4>1. out = SubSeq(boot.walk, 1, 0)
        BY <1>4, <3>1, <3>3
      <4> QED BY <1>2, <1>7, <4>1
    <3>4. CASE k > 1
      BY <1>2, <1>4, <3>1, <3>4, OutFacts, WayOut
    <3> QED BY <3>2, <3>3, <3>4
  <2>2. CASE s # NIL
    <3>1. s \in NamedKeys /\ s \in Keys
      BY <1>2, <1>5, <2>2, NullFacts DEF Inv, Typed, Heap, NamedKeys
    <3>2. PICK w : w = Append(out, s)
      OBVIOUS
    <3>3. w \in Seq(Keys) /\ Way(w) /\ w # <<>>
      BY <2>1, <3>1, <3>2, WayAppend, AppendFacts
    <3>4. boot' = [boot EXCEPT !.stage = "open", !.walk = w]
      BY <1>4, <1>5, <1>7, <2>2, <3>2 DEF DumpClose
    <3>5. boot' \in Boots /\ boot'.walk = w /\ boot'.stage = "open"
      BY <1>2, <3>3, <3>4 DEF Boots
    <3>6. Way(boot.walk)'
      BY <1>1, <3>3, <3>5, WayKept DEF Way
    <3> QED BY <1>1, <1>3, <3>3, <3>5, <3>6, BootKeeps
  <2>3. CASE s = NIL
    <3>1. boot' = [boot EXCEPT !.walk = out]
      BY <1>4, <1>5, <1>7, <2>3 DEF DumpClose
    <3>2. boot' \in Boots /\ boot'.walk = out /\ boot'.stage = "close"
      BY <1>1, <1>2, <2>1, <3>1 DEF Boots
    <3>3. Way(boot.walk)'
      BY <1>1, <2>1, <3>2, WayKept DEF Way
    <3> QED BY <1>1, <1>3, <1>7, <3>2, <3>3, BootKeeps
  <2> QED BY <2>2, <2>3
<1> QED BY <1>6, <1>7

-----------------------------------------------------------------------------
(* The theorems                                                            *)

\* A process that has just been started, with whatever files there are.
Started ==
  /\ node = Fresh.node /\ free = Blocks /\ table = <<>> /\ cache = <<>>
  /\ known = {} /\ lock = NIL /\ boot = Booting
  /\ pc = Fresh.pc /\ arg = Fresh.arg /\ clean = TRUE
  /\ file = Absent \/ file \in Seq(Tokens)
  /\ tmp = Absent \/ tmp \in Seq(Tokens)
  /\ Named(file) /\ Named(tmp)

LEMMA FreshInv == Started => Inv
<1> SUFFICES ASSUME Started PROVE Inv
  OBVIOUS
<1> USE DEF Started
<1>1. NewKey(NIL, NIL) \in Nodes
  BY DEF NewKey, Nodes, Contents, NoValues, Null
<1>2. Heap
  BY <1>1, Idles DEF Heap, NewKey
<1>3. HandleTypes
  BY RegistryAssumption DEF HandleTypes
<1>4. Cached
  BY DEF Cached
<1>5. FileTypes
  BY DEF FileTypes
<1>6. Way(<<>>)
  BY DEF Way
<1>7. BootTypes
  BY <1>6, BootingFacts DEF BootTypes
<1>8. CallTypes
  <2>1. arg \in [Threads -> Args]
    BY IdleTypes, Idles
  <2>2. \A t \in Threads : pc[t] = "idle" /\ arg[t] = Idle
    BY Idles
  <2>3. \A t \in Threads : Local(t)
    BY <1>6, <2>2, IdleTypes DEF Local
  <2> QED BY <2>1, <2>3, Idles DEF CallTypes
<1> QED BY <1>2, <1>3, <1>4, <1>5, <1>7, <1>8 DEF Inv, Typed

LEMMA NamedAbsent == Named(Absent)
<1>1. Len(Absent) = 1
  BY DEF Absent
<1> QED BY <1>1 DEF Named

LEMMA InitInv == Init => Inv
BY FreshInv, NamedAbsent DEF Init, Started

LEMMA RestartKeeps == Inv /\ Restart => Inv'
<1> SUFFICES ASSUME Inv, Restart PROVE Inv'
  OBVIOUS
<1>1. /\ file' = file /\ tmp' = tmp
      /\ file = Absent \/ file \in Seq(Tokens)
      /\ tmp = Absent \/ tmp \in Seq(Tokens)
      /\ Named(file) /\ Named(tmp)
  BY DEF Inv, Typed, FileTypes, Restart
<1>2. Named(file)' /\ Named(tmp)'
  BY <1>1 DEF Named
<1>3. Started'
  BY <1>1, <1>2 DEF Restart, Started, Fresh, Tokens, Contents, Absent, Booting
<1>4. Started' => Inv'
  BY FreshInv, PTL
<1> QED BY <1>3, <1>4

Opens == \A t \in Threads : Opening(t)

LEMMA InitOpens == Init => Opens
BY Idles DEF Init, Opens, Opening

\* The step of a call that is not about a handle.
LEMMA OtherOpens ==
  ASSUME Inv, OneThread, NEW t \in Threads,
         \/ \E op \in {"create", "open"}, sub \in Subs :
              \/ \E root \in {"HKLM", "HKCU"} : OpenUnderRoot(t, op, root, sub)
              \/ \E h \in known : OpenUnderHandle(t, op, h, sub)
         \/ \E h \in known :
              \/ \E v \in Values : \/ DeleteValueW(t, h, v)
                                   \/ \E d \in Data : SetValueExW(t, h, v, d)
              \/ \E x \in Names : DeleteKeyW(t, h, x)
         \/ Navigate(t) \/ CreateKey(t)
         \/ SaveBegin(t) \/ WriteKey(t) \/ WriteNext(t) \/ SaveMove(t)
  PROVE  Opens'
<1>1. pc \in [Threads -> PCs]
  BY DEF Inv, Typed, CallTypes, PCs
<1>2. \A from, to : Goto(t, from, to) => pc'[t] = to
  BY <1>1 DEF Goto
<1>3. pc'[t] \notin {"lookup", "add"}
  <2>1. ASSUME NEW op, NEW sub, NEW h, NEW root,
               OpenUnderRoot(t, op, root, sub) \/ OpenUnderHandle(t, op, h, sub)
        PROVE  pc'[t] = "navigate"
    BY <1>2, <2>1 DEF OpenUnderRoot, OpenUnderHandle
  <2>2. ASSUME NEW h, NEW v, NEW d, NEW x,
               DeleteValueW(t, h, v) \/ SetValueExW(t, h, v, d) \/ DeleteKeyW(t, h, x)
        PROVE  pc'[t] = "save"
    BY <1>2, <2>2 DEF DeleteValueW, SetValueExW, DeleteKeyW, Call
  <2>3. CASE Navigate(t)
    BY <1>2, <2>3 DEF Navigate, Return
  <2>4. CASE CreateKey(t) \/ WriteKey(t)
    BY <1>2, <2>4 DEF CreateKey, WriteKey
  <2>5. CASE SaveBegin(t) \/ WriteNext(t) \/ SaveMove(t)
    BY <1>2, <2>5 DEF SaveBegin, WriteNext, SaveMove, Return
  <2> QED BY <2>1, <2>2, <2>3, <2>4, <2>5
<1> QED BY <1>3 DEF OneThread, Opens, Opening

LEMMA NextKeeps ==
  ASSUME OneThread, Inv, Opens, [Next]_vars
  PROVE  Inv' /\ Opens'
<1>1. ASSUME NEW t \in Threads, NEW op \in {"create", "open"}, NEW sub \in Subs,
             \/ \E root \in {"HKLM", "HKCU"} : OpenUnderRoot(t, op, root, sub)
             \/ \E h \in known : OpenUnderHandle(t, op, h, sub)
      PROVE  Inv' /\ Opens'
  BY <1>1, OpenUnderRootKeeps, OpenUnderHandleKeeps, OtherOpens
<1>2. ASSUME NEW t \in Threads, NEW h \in known,
             \/ \E v \in Values : \/ DeleteValueW(t, h, v)
                                  \/ \E d \in Data : SetValueExW(t, h, v, d)
             \/ \E x \in Names : DeleteKeyW(t, h, x)
      PROVE  Inv' /\ Opens'
  <2>1. Inv'
    BY <1>2, DeleteValueWKeeps, SetValueExWKeeps, DeleteKeyWKeeps
  <2> QED BY <1>2, <2>1, OtherOpens
<1>3. ASSUME NEW t \in Threads,
             \/ Navigate(t) \/ CreateKey(t)
             \/ SaveBegin(t) \/ WriteKey(t) \/ WriteNext(t) \/ SaveMove(t)
      PROVE  Inv' /\ Opens'
  <2>1. Inv'
    BY <1>3, NavigateKeeps, CreateKeyKeeps, SaveBeginKeeps, WriteKeyKeeps,
       WriteNextKeeps, SaveMoveKeeps
  <2> QED BY <1>3, <2>1, OtherOpens
<1>4. ASSUME NEW t \in Threads, AllocHandle(t) \/ CacheLookup(t) \/ CacheAdd(t)
      PROVE  Inv' /\ Opens'
  <2>1. Opening(t)
    BY DEF Opens
  <2>2. Inv' /\ Opening(t)'
    BY <1>4, <2>1, AllocHandleKeeps, CacheLookupKeeps, CacheAddKeeps
  <2> QED BY <2>2 DEF OneThread, Opens
<1>5. ASSUME UNCHANGED <<pc, arg, table, cache>> PROVE Opens'
  BY <1>5 DEF Opens, Opening, Hits
<1>6. CASE \E h \in known : CloseKey(h)
  <2>1. UNCHANGED <<pc, arg, table, cache>>
    BY <1>6 DEF CloseKey
  <2> QED BY <1>5, <1>6, <2>1, CloseKeyKeeps
<1>7. CASE LoadRoot \/ LoadKey \/ LoadReturn \/ DumpBegin \/ DumpOpen \/ DumpClose
  <2>1. Inv'
    BY <1>7, LoadRootKeeps, LoadKeyKeeps, LoadReturnKeeps, DumpBeginKeeps,
       DumpOpenKeeps, DumpCloseKeeps
  <2>2. boot.stage # "done" /\ pc' = pc
    BY <1>7 DEF LoadRoot, LoadKey, LoadReturn, DumpBegin, DumpOpen, DumpClose
  <2>3. pc' = Fresh.pc
    BY <2>2 DEF Inv, Typed, BootTypes
  <2> QED BY <2>1, <2>3, Idles DEF Opens, Opening, Fresh
<1>8. CASE Restart
  <2>1. pc' = Fresh.pc
    BY <1>8 DEF Restart, Fresh
  <2>2. Opens'
    BY <2>1, Idles DEF Opens, Opening, Fresh
  <2> QED BY <1>8, <2>2, RestartKeeps
<1>9. CASE UNCHANGED vars
  <2>1. /\ UNCHANGED <<tree, handles, disk, boot, pc, arg, clean>>
    BY <1>9 DEF vars
  <2>2. Heap' /\ NamedKeys' = NamedKeys /\ HandleTypes' /\ Cached' /\ FileTypes'
    BY <2>1, TreeSame, HandlesSame, FilesSame DEF Inv, Typed
  <2>3. BootTypes' /\ CallTypes'
    BY <2>1, <2>2, BootSame, CallsSame DEF Inv, Typed, disk
  <2>4. UNCHANGED <<pc, arg, table, cache>>
    BY <2>1 DEF handles
  <2> QED BY <1>5, <2>2, <2>3, <2>4 DEF Inv, Typed
<1> QED BY <1>1, <1>2, <1>3, <1>4, <1>6, <1>7, <1>8, <1>9 DEF Next

\* What always holds with one thread.
LEMMA AlwaysInv ==
  ASSUME OneThread
  PROVE  Spec => [](Inv /\ Opens)
<1>1. Inv /\ Opens /\ [Next]_vars => Inv' /\ Opens'
  BY NextKeeps
<1> QED BY <1>1, InitInv, InitOpens, PTL DEF Spec

\* What the registry keeps has its types, whatever one thread opens, writes and
\* deletes and whatever fails: no list of register.c ends in a block that never
\* was a key, no handle and no entry of the cache points beyond the table, the
\* cache never exceeds MAX_CACHED_HANDLES (of two threads both may see its last
\* place, register.c:301), and the file and the temporary file are sequences of
\* records of keys.
THEOREM TypeCorrect ==
  ASSUME OneThread
  PROVE  Spec => []TypeOK
<1>1. Inv => TypeOK
  <2> SUFFICES ASSUME Inv PROVE TypeOK
    OBVIOUS
  <2>1. node \in [Keys -> [name : Names \cup {NIL}, child : Null, sib : Null,
                           vals : [Values -> Data \cup {NIL}]]]
        /\ free \in SUBSET Blocks
    BY DEF Inv, Typed, Heap, Nodes, Contents
  <2>2. cache \in Seq([path : Seq(Names), h : 1..Len(table)])
    <3>1. PICK n \in Nat : n = Len(cache)
      BY DEF Inv, Typed, HandleTypes
    <3>2. \A i \in 1..n : cache[i] \in [path : Seq(Names), h : 1..Len(table)]
      <4> DEFINE E == [path : Seq(Names), h : Nat]
      <4>1. cache \in Seq(E) /\ \A i \in 1..n : cache[i].h \in 1..Len(table)
        BY <3>1 DEF Inv, Typed, HandleTypes
      <4> HIDE DEF E
      <4>2. \A i \in 1..n : cache[i] \in E
        BY <3>1, <4>1
      <4> USE DEF E
      <4> QED BY <4>1, <4>2
    <3>3. cache = [i \in 1..n |-> cache[i]]
      BY <3>1 DEF Inv, Typed, HandleTypes
    <3> DEFINE F == [path : Seq(Names), h : 1..Len(table)]
    <3>4. \A i \in 1..n : cache[i] \in F
      BY <3>2
    <3> HIDE DEF F
    <3>5. PICK c : c = [i \in 1..n |-> cache[i]]
      OBVIOUS
    <3>6. \A i \in 1..n : c[i] \in F
      BY <3>4, <3>5
    <3>7. c \in Seq(F)
      BY ONLY n \in Nat, <3>5, <3>6
    <3> QED BY <3>3, <3>5, <3>7 DEF F
  <2>3. /\ table \in Seq([key : Keys, path : Seq(Names)])
        /\ Len(cache) <= MaxCached /\ known \in SUBSET (1..Len(table))
    BY DEF Inv, Typed, HandleTypes
  <2>4. /\ file = Absent \/ file \in Images
        /\ tmp = Absent \/ tmp \in Images
        /\ lock \in Threads \cup {NIL} /\ clean \in BOOLEAN
    BY DEF Inv, Typed, FileTypes, Images, Tokens, Contents
  <2>5. /\ boot.stage \in {"root", "load", "dump", "open", "close", "done"}
        /\ pc \in [Threads -> {"idle", "navigate", "create", "lookup", "add", "save",
                               "write", "next"}]
    BY DEF Inv, Typed, BootTypes, Boots, CallTypes
  <2> QED BY <2>1, <2>2, <2>3, <2>4, <2>5 DEF TypeOK
<1> QED BY <1>1, AlwaysInv, PTL

\* Two opens of one path share a handle as long as the path is in the cache
\* (CacheLookup answers with the first handle it ever gave, register.c:296),
\* for one thread in RegOpenKeyExW and RegCreateKeyExW, a cache of any size and
\* keys deleted under their handles.  Two threads may both miss the path and
\* get a handle each (register.c:294-303).
THEOREM OneHandle ==
  ASSUME OneThread
  PROVE  Spec => []OneHandlePerPath
<1>1. Inv => OneHandlePerPath
  BY DEF Inv, Cached, OneHandlePerPath
<1> QED BY <1>1, AlwaysInv, PTL

-----------------------------------------------------------------------------
(* Lists of siblings, before and after a step                              *)

ListLaws ==
  /\ \A S \in SUBSET Null : \A b \in S :
       (\A d \in S \ {NIL} : node[d].sib \in S) => List(b) \subseteq S
  /\ List(NIL) = {}
  /\ Heap => \A b \in Blocks :
       b \in List(b) /\ List(b) = {b} \cup List(node[b].sib)
  /\ Heap => \A b \in Null : List(b) \subseteq Blocks
                             /\ \A c \in List(b) : node[c].sib \in List(b) \cup {NIL}
  /\ Heap => \A b \in Null : \A c \in List(b) : List(c) \subseteq List(b)

LEMMA ListLawsHold == ListLaws
<1>1. \A S \in SUBSET Null : \A b \in S :
        (\A d \in S \ {NIL} : node[d].sib \in S) => List(b) \subseteq S
  BY ListInduction
<1>2. ASSUME Heap, NEW b \in Null
      PROVE  List(b) \subseteq Blocks
             /\ \A c \in List(b) : node[c].sib \in List(b) \cup {NIL}
  <2>1. List(b) \subseteq Blocks
    BY DEF List
  <2>2. ASSUME NEW c \in List(b) PROVE node[c].sib \in List(b) \cup {NIL}
    <3>1. c \in Blocks /\ node[c].sib \in Null
      BY <1>2, <2>1, NullFacts DEF Heap, Nodes
    <3>2. CASE node[c].sib \in Blocks
      <4>1. ASSUME NEW S \in SUBSET Null, b \in S, \A d \in S \ {NIL} : node[d].sib \in S
            PROVE  node[c].sib \in S
        <5>1. c \in S
          BY <2>2, <4>1 DEF List
        <5> QED BY <3>1, <4>1, <5>1, NullFacts
      <4> QED BY <3>2, <4>1 DEF List
    <3> QED BY <3>1, <3>2, NullFacts
  <2> QED BY <2>1, <2>2
<1>3. ASSUME Heap, NEW b \in Null, NEW c \in List(b)
      PROVE  List(c) \subseteq List(b)
  <2>1. PICK S : S = List(b) \cup {NIL}
    OBVIOUS
  <2>2. S \in SUBSET Null /\ c \in S
    BY <1>2, <1>3, <2>1 DEF Null
  <2>3. \A d \in S \ {NIL} : node[d].sib \in S
    BY <1>2, <1>3, <2>1
  <2>4. List(c) \subseteq S /\ List(c) \subseteq Blocks
    BY <1>1, <2>2, <2>3 DEF List
  <2> QED BY <2>1, <2>4, NullFacts
<1>4. Heap => \A b \in Blocks : b \in List(b) /\ List(b) = {b} \cup List(node[b].sib)
  BY ListStep
<1> QED BY <1>1, <1>2, <1>3, <1>4, ListNil DEF ListLaws

LEMMA ListLawsNext == ListLaws'
BY ListLawsHold, PTL

LEMMA SibNull ==
  ASSUME Heap, NEW c \in Keys PROVE node[c].sib \in Null /\ node[c].child \in Null
BY DEF Heap, Nodes

\* A list keeps its keys when none of them changes its sibling.
LEMMA ListFrame ==
  ASSUME Heap, Heap', NEW e \in Null, \A d \in List(e) : node'[d].sib = node[d].sib
  PROVE  List(e)' = List(e)
<1>1. CASE e = NIL
  BY <1>1, ListLawsHold, ListLawsNext DEF ListLaws
<1>2. CASE e \in Blocks
  <2>1. /\ e \in List(e) /\ List(e) \subseteq Blocks
        /\ \A c \in List(e) : node[c].sib \in List(e) \cup {NIL}
    BY <1>2, ListLawsHold DEF ListLaws
  <2>2. /\ e \in List(e)' /\ List(e)' \subseteq Blocks
        /\ \A c \in List(e)' : node'[c].sib \in List(e)' \cup {NIL}
    BY <1>2, ListLawsNext DEF ListLaws
  <2>3. List(e)' \subseteq List(e)
    <3>1. PICK S : S = List(e) \cup {NIL}
      OBVIOUS
    <3>2. S \in SUBSET Null /\ e \in S /\ \A d \in S \ {NIL} : node'[d].sib \in S
      BY <2>1, <3>1, NullFacts
    <3>3. List(e)' \subseteq S
      BY <3>2, ListLawsNext DEF ListLaws
    <3> QED BY <2>2, <3>1, <3>3, NullFacts
  <2>4. List(e) \subseteq List(e)'
    <3>1. PICK S : S = {NIL} \cup (List(e) \cap List(e)')
      OBVIOUS
    <3>2. S \in SUBSET Null /\ e \in S /\ \A d \in S \ {NIL} : node[d].sib \in S
      BY <2>1, <2>2, <3>1, NullFacts
    <3>3. List(e) \subseteq S
      BY <3>2, ListLawsHold DEF ListLaws
    <3> QED BY <2>1, <3>1, <3>3, NullFacts
  <2> QED BY <2>3, <2>4
<1> QED BY <1>1, <1>2, NullFacts

\* Of two keys in a list, one comes after the other.
LEMMA ListOrder ==
  ASSUME Heap, NEW h \in Null, NEW b \in List(h), NEW d \in List(h)
  PROVE  d \in List(b) \/ b \in List(d)
<1>1. PICK S : S = {NIL} \cup {x \in List(h) : b \in List(x) \/ x \in List(b)}
  OBVIOUS
<1>2. h \in Blocks /\ b \in Blocks /\ List(h) \subseteq Blocks /\ List(b) \subseteq Blocks
      /\ h \in List(h)
  BY ListLawsHold, NullFacts DEF ListLaws
<1>3. S \in SUBSET Null /\ h \in S
  BY <1>1, <1>2, NullFacts
<1>4. ASSUME NEW x \in S \ {NIL} PROVE node[x].sib \in S
  <2>1. x \in List(h) /\ x \in Blocks /\ (b \in List(x) \/ x \in List(b))
    BY <1>1, <1>2, <1>4
  <2>2. node[x].sib \in List(h) \cup {NIL} /\ List(x) = {x} \cup List(node[x].sib)
    BY <2>1, ListLawsHold DEF ListLaws
  <2>3. CASE x \in List(b)
    <3>1. node[x].sib \in List(b) \cup {NIL}
      BY <1>2, <2>3, NullFacts, ListLawsHold DEF ListLaws
    <3> QED BY <1>1, <2>2, <3>1
  <2>4. CASE b \in List(x) /\ b # x
    <3>1. b \in List(node[x].sib)
      BY <2>2, <2>4
    <3> QED BY <1>1, <2>2, <3>1
  <2>5. CASE b = x
    <3>1. b \in List(b)
      BY <1>2, ListLawsHold DEF ListLaws
    <3> QED BY <2>3, <2>5, <3>1
  <2> QED BY <2>1, <2>3, <2>4, <2>5
<1>5. List(h) \subseteq S
  BY <1>3, <1>4, ListLawsHold DEF ListLaws
<1> QED BY <1>1, <1>2, <1>5, NullFacts

\* A list that does not come back to where it was.
Straight(K) == \A d \in K : d \notin List(node[d].sib)

LEMMA OneBefore ==
  ASSUME Heap, NEW h \in Null, Straight(List(h)),
         NEW b \in List(h), NEW d \in List(h), node[b].sib = node[d].sib,
         node[b].sib # NIL
  PROVE  b = d
<1>1. b \in Blocks /\ d \in Blocks
  BY ListLawsHold DEF ListLaws
<1>2. /\ List(b) = {b} \cup List(node[b].sib)
      /\ List(d) = {d} \cup List(node[b].sib)
  BY <1>1, ListLawsHold DEF ListLaws
<1>3. b \notin List(node[b].sib) /\ d \notin List(node[b].sib)
  BY DEF Straight
<1> QED BY <1>2, <1>3, ListOrder

LEMMA SomeBefore ==
  ASSUME Heap, NEW h \in Null, NEW c \in List(h), c # h
  PROVE  \E b \in List(h) : node[b].sib = c
<1>1. PICK S : S = {NIL, h} \cup {d \in Null : \E b \in List(h) : node[b].sib = d}
  OBVIOUS
<1>2. h \in Blocks /\ List(h) \subseteq Blocks /\ h \in List(h)
  BY ListLawsHold, NullFacts DEF ListLaws
<1>3. S \cap (List(h) \cup {NIL}) \in SUBSET Null /\ h \in S \cap (List(h) \cup {NIL})
  BY <1>1, <1>2, NullFacts
<1>4. ASSUME NEW d \in (S \cap (List(h) \cup {NIL})) \ {NIL}
      PROVE  node[d].sib \in S \cap (List(h) \cup {NIL})
  <2>1. d \in List(h) /\ node[d].sib \in List(h) \cup {NIL}
    BY <1>2, <1>4, ListLawsHold DEF ListLaws
  <2>2. node[d].sib \in Null
    BY <1>2, <2>1, NullFacts
  <2> QED BY <1>1, <2>1, <2>2
<1>5. List(h) \subseteq S
  BY <1>3, <1>4, ListLawsHold DEF ListLaws
<1>6. c \in S /\ c # NIL
  BY <1>2, <1>5, NullFacts
<1> QED BY <1>1, <1>6

LEMMA NoneBeforeHead ==
  ASSUME Heap, NEW h \in Null, Straight(List(h)), NEW b \in List(h)
  PROVE  node[b].sib # h
<1>1. b \notin List(node[b].sib)
  BY DEF Straight
<1> QED BY <1>1

\* DeleteKeyW takes a key out of the middle of a list.
LEMMA UnlinkMiddle ==
  ASSUME Heap, Heap', NEW h \in Null, Straight(List(h)), NEW c \in List(h), c # h,
         NEW b \in List(h), node[b].sib = c,
         \A d \in Blocks : node'[d].sib = IF d = b THEN node[c].sib ELSE node[d].sib
  PROVE  /\ List(h)' = List(h) \ {c}
         /\ \A e \in Null : List(e)' \subseteq List(e)
<1>1. /\ h \in Blocks /\ h \in List(h) /\ List(h) \subseteq Blocks
      /\ \A d \in List(h) : node[d].sib \in List(h) \cup {NIL}
  BY ListLawsHold, NullFacts DEF ListLaws
<1>2. \A d \in List(h) : node[d].sib = c => d = b
  BY <1>1, OneBefore, NullFacts
<1>3. node[c].sib # c
  <2>1. c \notin List(node[c].sib) /\ c \in List(c)
    BY <1>1, ListLawsHold DEF ListLaws, Straight
  <2> QED BY <2>1
<1>4. ASSUME NEW e \in Null PROVE List(e)' \subseteq List(e)
  <2>1. CASE e = NIL
    BY <2>1, ListLawsNext DEF ListLaws
  <2>2. CASE e \in Blocks
    <3>1. PICK S : S = List(e) \cup {NIL}
      OBVIOUS
    <3>2. e \in List(e) /\ List(e) \subseteq Blocks
          /\ \A d \in List(e) : node[d].sib \in List(e) \cup {NIL}
      BY <2>2, ListLawsHold DEF ListLaws
    <3>3. ASSUME NEW d \in S \ {NIL} PROVE node'[d].sib \in S
      <4>1. d \in List(e) /\ d \in Blocks /\ node[d].sib \in S
        BY <3>1, <3>2, <3>3
      <4>2. CASE d = b
        <5>1. c \in List(e)
          BY <1>1, <3>1, <4>1, <4>2, NullFacts
        <5>2. node[c].sib \in S
          BY <3>1, <3>2, <5>1
        <5> QED BY <4>1, <4>2, <5>2
      <4>3. CASE d # b
        BY <4>1, <4>3
      <4> QED BY <4>2, <4>3
    <3>4. S \in SUBSET Null /\ e \in S
      BY <3>1, <3>2, NullFacts
    <3>5. List(e)' \subseteq S
      BY <3>3, <3>4, ListLawsNext DEF ListLaws
    <3>6. List(e)' \subseteq Blocks
      BY ListLawsNext DEF ListLaws
    <3> QED BY <3>1, <3>5, <3>6, NullFacts
  <2> QED BY <2>1, <2>2, NullFacts
<1>5. List(h)' \subseteq List(h) \ {c}
  <2>1. PICK S : S = (List(h) \ {c}) \cup {NIL}
    OBVIOUS
  <2>2. S \in SUBSET Null /\ h \in S
    BY <1>1, <2>1, NullFacts
  <2>3. ASSUME NEW d \in S \ {NIL} PROVE node'[d].sib \in S
    <3>1. d \in List(h) /\ d \in Blocks
      BY <1>1, <2>1, <2>3
    <3>2. CASE d = b
      BY <1>1, <1>3, <2>1, <3>1, <3>2
    <3>3. CASE d # b
      BY <1>1, <1>2, <2>1, <3>1, <3>3
    <3> QED BY <3>2, <3>3
  <2>4. List(h)' \subseteq S /\ List(h)' \subseteq Blocks
    BY <2>2, <2>3, ListLawsNext DEF ListLaws
  <2> QED BY <2>1, <2>4, NullFacts
<1>6. List(h) \ {c} \subseteq List(h)'
  <2>1. /\ h \in List(h)' /\ List(h)' \subseteq Blocks
        /\ \A d \in List(h)' : node'[d].sib \in List(h)' \cup {NIL}
    BY <1>1, ListLawsNext DEF ListLaws
  <2>2. PICK S : S = {NIL} \cup {d \in List(h) : IF d = c THEN b \in List(h)'
                                                          ELSE d \in List(h)'}
    OBVIOUS
  <2>3. S \in SUBSET Null /\ h \in S
    BY <1>1, <2>1, <2>2, NullFacts
  <2>4. ASSUME NEW d \in S \ {NIL} PROVE node[d].sib \in S
    <3>1. d \in List(h) /\ d \in Blocks /\ node[d].sib \in List(h) \cup {NIL}
      BY <1>1, <2>2, <2>4
    <3>2. CASE d = c
      <4>1. b \in List(h)' /\ b \in Blocks
        BY <1>1, <2>2, <2>4, <3>2
      <4>2. node[c].sib \in List(h)' \cup {NIL}
        BY <2>1, <4>1
      <4> QED BY <1>3, <2>2, <3>1, <3>2, <4>2
    <3>3. CASE d = b /\ d # c
      BY <2>2, <2>4, <3>1, <3>3
    <3>4. CASE d # b /\ d # c
      <4>1. d \in List(h)' /\ node'[d].sib = node[d].sib
        BY <2>2, <2>4, <3>1, <3>4
      <4>2. node[d].sib \in List(h)' \cup {NIL}
        BY <2>1, <4>1
      <4>3. node[d].sib # c
        BY <1>2, <3>1, <3>4
      <4> QED BY <2>2, <3>1, <4>2, <4>3
    <3> QED BY <3>2, <3>3, <3>4
  <2>5. List(h) \subseteq S
    BY <2>3, <2>4, ListLawsHold DEF ListLaws
  <2> QED BY <1>1, <2>2, <2>5, NullFacts
<1> QED BY <1>4, <1>5, <1>6


-----------------------------------------------------------------------------
(* Paths                                                                   *)

LEMMA SeqEqual ==
  ASSUME NEW S, NEW s \in Seq(S), NEW t \in Seq(S), Len(s) = Len(t),
         \A i \in 1..Len(s) : s[i] = t[i]
  PROVE  s = t
OBVIOUS

LEMMA AppendInj ==
  ASSUME NEW S, NEW s \in Seq(S), NEW t \in Seq(S), NEW x \in S, NEW y \in S,
         Append(s, x) = Append(t, y)
  PROVE  s = t /\ x = y
<1>1. Len(s) = Len(t)
  <2>1. Len(Append(s, x)) = Len(s) + 1 /\ Len(Append(t, y)) = Len(t) + 1
    BY AppendFacts
  <2>2. Len(s) \in Nat /\ Len(t) \in Nat
    OBVIOUS
  <2> QED BY <2>1, <2>2
<1>2. x = y
  BY <1>1, AppendFacts
<1>3. \A i \in 1..Len(s) : s[i] = t[i]
  BY <1>1, AppendFacts
<1> QED BY <1>1, <1>2, <1>3, SeqEqual

LEMMA BelowIs ==
  ASSUME NEW S, NEW p \in Seq(S), NEW q \in Seq(S)
  PROVE  Below(p, q) <=> Len(p) <= Len(q) /\ \A i \in 1..Len(p) : q[i] = p[i]
<1>1. Len(p) \in Nat /\ Len(q) \in Nat
  OBVIOUS
<1>2. CASE Len(p) <= Len(q)
  <2>1. PICK r : r = SubSeq(q, 1, Len(p))
    OBVIOUS
  <2>2. r \in Seq(S) /\ Len(r) = Len(p) /\ \A i \in 1..Len(p) : r[i] = q[i]
    BY <1>1, <1>2, <2>1
  <2>3. r = p <=> \A i \in 1..Len(p) : q[i] = p[i]
    BY <2>2, SeqEqual
  <2> QED BY <1>1, <1>2, <2>1, <2>3 DEF Below
<1>3. CASE ~(Len(p) <= Len(q))
  BY <1>1, <1>3 DEF Below
<1> QED BY <1>2, <1>3

LEMMA BelowSelf == ASSUME NEW S, NEW p \in Seq(S) PROVE Below(p, p)
BY BelowIs

LEMMA BelowAppend ==
  ASSUME NEW S, NEW p \in Seq(S), NEW q \in Seq(S), NEW x \in S
  PROVE  Below(p, Append(q, x)) <=> Below(p, q) \/ p = Append(q, x)
<1>1. PICK m \in Nat, n \in Nat : m = Len(p) /\ n = Len(q)
  OBVIOUS
<1>2. PICK a : a = Append(q, x)
  OBVIOUS
<1>3. /\ a \in Seq(S) /\ Len(a) = n + 1 /\ a[n + 1] = x
      /\ \A i \in 1..n : a[i] = q[i]
  BY <1>1, <1>2, AppendFacts
<1>4. Below(p, a) <=> m <= n + 1 /\ \A i \in 1..m : a[i] = p[i]
  BY <1>1, <1>3, BelowIs
<1>5. Below(p, q) <=> m <= n /\ \A i \in 1..m : q[i] = p[i]
  BY <1>1, BelowIs
<1>6. CASE m <= n
  <2>1. \A i \in 1..m : i \in 1..n
    BY <1>6
  <2>2. p # a
    BY <1>1, <1>3, <1>6
  <2>3. m <= n + 1
    BY <1>6
  <2> QED BY <1>2, <1>3, <1>4, <1>5, <1>6, <2>1, <2>2, <2>3
<1>7. CASE m = n + 1
  <2>1. p = a <=> \A i \in 1..m : a[i] = p[i]
    BY <1>1, <1>3, <1>7, SeqEqual
  <2>2. ~(m <= n) /\ m <= n + 1
    BY <1>7
  <2> QED BY <1>2, <1>4, <1>5, <2>1, <2>2
<1>8. CASE m > n + 1
  <2>1. ~(m <= n) /\ ~(m <= n + 1) /\ m # n + 1
    BY <1>8
  <2> QED BY <1>1, <1>2, <1>3, <1>4, <1>5, <2>1
<1>9. m <= n \/ m = n + 1 \/ m > n + 1
  BY ONLY m \in Nat, n \in Nat
<1> QED BY <1>6, <1>7, <1>8, <1>9

LEMMA BelowTop ==
  ASSUME NEW S, NEW p \in Seq(S), Below(p, <<>>)
  PROVE  p = <<>>
<1>1. <<>> \in Seq(S) /\ Len(<<>>) = 0 /\ Len(p) \in Nat
  OBVIOUS
<1>2. Len(p) <= 0
  BY <1>1, BelowIs
<1> QED BY <1>1, <1>2
-----------------------------------------------------------------------------
(* The shape of the tree                                                   *)

(***************************************************************************)
(* L are the keys of the tree and W the way down to each of them: the way  *)
(* to a key below another is one key longer, every key but the root is     *)
(* below another, and no list of siblings comes back to where it was.      *)
(***************************************************************************)
Shape(L, W) ==
  /\ L \subseteq Keys /\ Root \in L /\ L \cap free = {}
  /\ W \in [Keys -> Seq(Keys)] /\ W[Root] = <<Root>>
  /\ \A n \in L : \A c \in Kids(n) : c \in L /\ W[c] = Append(W[n], c)
  /\ \A c \in L \ {Root} : \E n \in L : c \in Kids(n)
  /\ Straight(L)

\* A key below another.
LEMMA KidFacts ==
  ASSUME Heap, NEW L, NEW W, Shape(L, W), NEW n \in L, NEW c \in Kids(n)
  PROVE  /\ c \in L /\ c \in NamedKeys /\ c \in Blocks /\ c \in Keys /\ c # Root
         /\ node[c].name \in Names
         /\ n \in Keys /\ W[n] \in Seq(Keys) /\ W[c] \in Seq(Keys)
         /\ W[c] = Append(W[n], c)
         /\ Len(W[n]) \in Nat /\ Len(W[c]) = Len(W[n]) + 1
         /\ W[c][Len(W[c])] = c
         /\ \A i \in 1..Len(W[n]) : W[c][i] = W[n][i]
<1>1. n \in Keys /\ W[n] \in Seq(Keys)
  BY DEF Shape
<1>2. c \in NamedKeys
  BY <1>1, KidsTypes
<1>3. c \in Blocks /\ c \in Keys /\ c # Root /\ node[c].name \in Names
  BY <1>2, NullFacts DEF NamedKeys
<1>4. c \in L /\ W[c] = Append(W[n], c) /\ W[c] \in Seq(Keys)
  BY <1>3 DEF Shape
<1>5. Len(W[n]) \in Nat
  BY <1>1
<1> QED BY <1>1, <1>2, <1>3, <1>4, <1>5, AppendFacts

LEMMA OneParent ==
  ASSUME Heap, NEW L, NEW W, Shape(L, W), NEW n \in L, NEW m \in L,
         NEW c \in Kids(n), c \in Kids(m), W[n][Len(W[n])] = n, W[m][Len(W[m])] = m
  PROVE  n = m
<1>1. c \in Keys /\ W[n] \in Seq(Keys) /\ W[m] \in Seq(Keys)
      /\ Append(W[n], c) = Append(W[m], c)
  BY KidFacts
<1>2. W[n] = W[m]
  BY <1>1, AppendInj
<1> QED BY <1>2

\* The way to a key leads down from the root along keys of the tree, and is
\* the way to each of them first.
Leads(L, W, n) ==
  /\ W[n] # <<>> /\ W[n][1] = Root /\ W[n][Len(W[n])] = n
  /\ IsLine(W[n])
  /\ \A i \in 1..Len(W[n]) :
       /\ W[n][i] \in L /\ Len(W[W[n][i]]) = i
       /\ \A j \in 1..i : W[W[n][i]][j] = W[n][j]

LEMMA LeadsRoot ==
  ASSUME NEW L, NEW W, Shape(L, W)
  PROVE  Leads(L, W, Root)
<1>1. W[Root] = <<Root>> /\ Root \in L /\ Root \in Keys
  BY NullFacts DEF Shape
<1>2. Len(<<Root>>) = 1 /\ <<Root>>[1] = Root /\ <<Root>> # <<>> /\ <<Root>> \in Seq(Keys)
  BY <1>1
<1>3. IsLine(<<Root>>)
  BY <1>2 DEF IsLine
<1>4. PICK r : r = <<Root>>
  OBVIOUS
<1>5. /\ W[Root] = r /\ Root \in L /\ Len(r) = 1 /\ r[1] = Root /\ r # <<>>
      /\ IsLine(r)
  BY <1>1, <1>2, <1>3, <1>4
<1>6. \A i \in 1..1 : i = 1
  OBVIOUS
<1> QED BY ONLY <1>5, <1>6 DEF Leads

LEMMA LeadsKid ==
  ASSUME Heap, NEW L, NEW W, Shape(L, W), NEW n \in L, Leads(L, W, n),
         NEW c \in Kids(n)
  PROVE  Leads(L, W, c)
<1>1. PICK w : w = W[n]
  OBVIOUS
<1>2. PICK v : v = W[c]
  OBVIOUS
<1>3. PICK m \in Nat : m = Len(w)
  BY <1>1, KidFacts
<1>4. /\ c \in L /\ c \in Keys /\ v \in Seq(Keys) /\ w \in Seq(Keys)
      /\ v = Append(w, c) /\ Len(v) = m + 1 /\ v[m + 1] = c
      /\ \A i \in 1..m : v[i] = w[i]
  BY <1>1, <1>2, <1>3, KidFacts
<1>5. /\ w # <<>> /\ w[1] = Root /\ w[m] = n /\ IsLine(w)
      /\ \A i \in 1..m : /\ w[i] \in L /\ Len(W[w[i]]) = i
                         /\ \A j \in 1..i : W[w[i]][j] = w[j]
  BY <1>1, <1>3 DEF Leads
<1>6. m >= 1 /\ v # <<>>
  BY <1>3, <1>4, <1>5
<1>7. v[1] = Root
  BY <1>3, <1>4, <1>5, <1>6
<1>8. IsLine(v)
  BY <1>1, <1>3, <1>4, <1>5, LineAppend
<1>9. \A i \in 1..(m + 1) : /\ v[i] \in L /\ Len(W[v[i]]) = i
                            /\ \A j \in 1..i : W[v[i]][j] = v[j]
  <2> SUFFICES ASSUME NEW i \in 1..(m + 1)
               PROVE  /\ v[i] \in L /\ Len(W[v[i]]) = i
                      /\ \A j \in 1..i : W[v[i]][j] = v[j]
    OBVIOUS
  <2>1. CASE i = m + 1
    BY <1>2, <1>4, <2>1
  <2>2. CASE i \in 1..m
    <3>1. \A j \in 1..i : j \in 1..m
      BY <2>2
    <3> QED BY <1>4, <1>5, <2>2, <3>1
  <2> QED BY <2>1, <2>2
<1> QED BY <1>2, <1>4, <1>6, <1>7, <1>8, <1>9 DEF Leads

LEMMA AllLead ==
  ASSUME Heap, NEW L, NEW W, Shape(L, W)
  PROVE  \A n \in L : Leads(L, W, n)
<1>1. PICK T : T = {m \in Nat : \A n \in L : Len(W[n]) = m => Leads(L, W, n)}
  OBVIOUS
<1>2. \A n \in L : Len(W[n]) \in Nat
  BY DEF Shape
<1>3. 0 \in T
  <2>1. ASSUME NEW n \in L, Len(W[n]) = 0 PROVE FALSE
    <3>1. CASE n = Root
      BY <2>1, <3>1 DEF Shape
    <3>2. CASE n # Root
      <4>1. PICK p \in L : n \in Kids(p)
        BY <3>2 DEF Shape
      <4> QED BY <2>1, <4>1, KidFacts
    <3> QED BY <3>1, <3>2
  <2> QED BY <1>1, <2>1
<1>4. ASSUME NEW m \in T PROVE m + 1 \in T
  <2>1. ASSUME NEW n \in L, Len(W[n]) = m + 1 PROVE Leads(L, W, n)
    <3>1. CASE n = Root
      BY <3>1, LeadsRoot
    <3>2. CASE n # Root
      <4>1. PICK p \in L : n \in Kids(p)
        BY <3>2 DEF Shape
      <4>2. Len(W[p]) = m
        BY <1>1, <1>2, <2>1, <4>1, KidFacts
      <4> QED BY <1>1, <4>1, <4>2, LeadsKid
    <3> QED BY <3>1, <3>2
  <2> QED BY <1>1, <2>1
<1>5. T = Nat
  BY <1>1, <1>3, <1>4, SetInduction
<1> QED BY <1>1, <1>2, <1>5

\* A way down is not longer than there are keys.
LEMMA NotTooLong ==
  ASSUME Heap, NEW L, NEW W, Shape(L, W), NEW n \in L
  PROVE  Len(W[n]) <= Depth + 1
<1>1. PICK w : w = W[n]
  OBVIOUS
<1>2. PICK m \in Nat : m = Len(w)
  BY <1>1 DEF Shape
<1>3. \A i \in 1..m : w[i] \in L /\ Len(W[w[i]]) = i
  BY <1>1, <1>2, AllLead DEF Leads
<1>4. w \in [1..m -> Keys]
  BY <1>1, <1>2 DEF Shape
<1>5. IsFiniteSet(Keys) /\ Cardinality(Keys) = Depth + 1
  BY FS_AddElement, RegistryAssumption DEF Keys, Depth
<1>6. IsFiniteSet(1..m) /\ Cardinality(1..m) = m
  BY FS_Interval
<1>7. ~(Depth + 1 < m)
  <2> SUFFICES ASSUME Depth + 1 < m PROVE FALSE
    OBVIOUS
  <2>1. PICK i, j \in 1..m : i # j /\ w[i] = w[j]
    BY <1>4, <1>5, <1>6, FS_PigeonHole
  <2> QED BY <1>3, <2>1
<1> QED BY <1>1, <1>2, <1>7, DepthNat

\* A line is its last step and the line before it.
LEMMA LineOut ==
  ASSUME Heap, NEW w, IsLine(w), Len(w) > 1
  PROVE  \E v \in Seq(Keys) : \E c \in Keys :
           /\ IsLine(v) /\ Len(v) = Len(w) - 1 /\ c \in Kids(v[Len(v)])
           /\ w = Append(v, c) /\ c = w[Len(w)]
<1>1. PICK m \in Nat : m = Len(w) - 1
  <2>1. PICK k \in Nat : k = Len(w)
    BY DEF IsLine
  <2>2. k - 1 \in Nat
    BY ONLY k \in Nat, Len(w) > 1, <2>1
  <2> QED BY <2>1, <2>2
<1>2. /\ w \in Seq(Keys) /\ w[1] = Root /\ Len(w) = m + 1 /\ m >= 1
      /\ \A i \in 1..m : w[i + 1] \in Kids(w[i])
  BY <1>1 DEF IsLine
<1>3. PICK v : v = SubSeq(w, 1, m)
  OBVIOUS
<1>4. v \in Seq(Keys) /\ Len(v) = m /\ v # <<>> /\ \A i \in 1..m : v[i] = w[i]
  BY <1>1, <1>2, <1>3, OutFacts
<1>5. PICK c \in Keys : c = w[m + 1]
  BY <1>2
<1>6. \A i \in 1..(m - 1) : v[i + 1] \in Kids(v[i])
  <2> TAKE i \in 1..(m - 1)
  <2>1. i \in 1..m /\ i + 1 \in 1..m
    BY <1>2
  <2> QED BY <1>2, <1>4, <2>1
<1>7. IsLine(v)
  <2>1. v[1] = Root
    BY <1>2, <1>4
  <2> QED BY <1>4, <1>6, <2>1 DEF IsLine
<1>8. c \in Kids(v[m])
  <2>1. m \in 1..m
    BY <1>2
  <2> QED BY <1>2, <1>4, <1>5, <2>1
<1>9. w = Append(v, c)
  <2>1. PICK a : a = Append(v, c)
    OBVIOUS
  <2>2. a \in Seq(Keys) /\ Len(a) = m + 1 /\ a[m + 1] = c /\ \A i \in 1..m : a[i] = v[i]
    BY <1>4, <2>1, AppendFacts
  <2>3. \A i \in 1..(m + 1) : i \in 1..m \/ i = m + 1
    BY <1>2
  <2>4. \A i \in 1..(m + 1) : w[i] = a[i]
    BY <1>4, <1>5, <2>2, <2>3
  <2> QED BY <1>2, <2>1, <2>2, <2>4, SeqEqual
<1> QED BY <1>2, <1>4, <1>5, <1>7, <1>8, <1>9

LEMMA LineIsWay ==
  ASSUME Heap, NEW L, NEW W, Shape(L, W)
  PROVE  \A w : IsLine(w) => w[Len(w)] \in L /\ W[w[Len(w)]] = w
<1>1. PICK T : T = {m \in Nat : \A w : IsLine(w) /\ Len(w) = m =>
                                  w[Len(w)] \in L /\ W[w[Len(w)]] = w}
  OBVIOUS
<1>2. \A w : IsLine(w) => Len(w) \in Nat /\ Len(w) >= 1
  BY DEF IsLine
<1>3. 0 \in T
  BY <1>1, <1>2
<1>4. ASSUME NEW m \in T PROVE m + 1 \in T
  <2>1. ASSUME NEW w, IsLine(w), Len(w) = m + 1
        PROVE  w[Len(w)] \in L /\ W[w[Len(w)]] = w
    <3>1. CASE m = 0
      <4>1. w = <<Root>>
        BY <2>1, <3>1 DEF IsLine
      <4>2. w[Len(w)] = Root
        BY <2>1, <3>1 DEF IsLine
      <4> QED BY <4>1, <4>2 DEF Shape
    <3>2. CASE m # 0
      <4>1. Len(w) > 1 /\ m \in Nat
        BY <1>1, <2>1, <3>2
      <4>2. PICK v \in Seq(Keys), c \in Keys :
              /\ IsLine(v) /\ Len(v) = Len(w) - 1 /\ c \in Kids(v[Len(v)])
              /\ w = Append(v, c) /\ c = w[Len(w)]
        BY <2>1, <4>1, LineOut
      <4>3. Len(v) = m
        BY <2>1, <4>1, <4>2
      <4>4. v[Len(v)] \in L /\ W[v[Len(v)]] = v
        BY <1>1, <4>2, <4>3
      <4> QED BY <4>2, <4>4, KidFacts
    <3> QED BY <3>1, <3>2
  <2> QED BY <1>1, <2>1
<1>5. T = Nat
  BY <1>1, <1>3, <1>4, SetInduction
<1> QED BY <1>1, <1>2, <1>5

LEMMA LinesReach ==
  ASSUME Heap
  PROVE  \A w : IsLine(w) /\ Len(w) <= Depth + 1 => w \in Lines[Depth]
<1>1. PICK T : T = {d \in Nat : d <= Depth =>
                      \A w : IsLine(w) /\ Len(w) <= d + 1 => w \in Lines[d]}
  OBVIOUS
<1>2. \A w : IsLine(w) => Len(w) \in Nat /\ Len(w) >= 1
  BY DEF IsLine
<1>3. 0 \in T
  <2>1. ASSUME NEW w, IsLine(w), Len(w) <= 0 + 1 PROVE w \in Lines[0]
    <3>1. Len(w) = 1
      <4>1. PICK k \in Nat : k = Len(w)
        BY <1>2, <2>1
      <4>2. k >= 1 /\ k <= 0 + 1
        BY <1>2, <2>1, <4>1
      <4> QED BY ONLY k \in Nat, <4>1, <4>2
    <3>2. w = <<Root>>
      BY <2>1, <3>1 DEF IsLine
    <3> QED BY <3>2, LinesDef
  <2> QED BY <1>1, <2>1
<1>4. ASSUME NEW d \in T PROVE d + 1 \in T
  <2>1. ASSUME d + 1 <= Depth, NEW w, IsLine(w), Len(w) <= (d + 1) + 1
        PROVE  w \in Lines[d + 1]
    <3>1. d \in Nat /\ d \in 0..Depth /\ d <= Depth
      BY <1>1, <2>1, DepthNat
    <3>2. Lines[d + 1] = Deeper(Lines[d])
      BY <2>1, <3>1, LinesDef
    <3>3. CASE Len(w) <= d + 1
      BY <1>1, <2>1, <3>1, <3>2, <3>3 DEF Deeper
    <3>4. CASE Len(w) = d + 2
      <4>1. Len(w) > 1
        BY <3>1, <3>4
      <4>2. PICK v \in Seq(Keys), c \in Keys :
              /\ IsLine(v) /\ Len(v) = Len(w) - 1 /\ c \in Kids(v[Len(v)])
              /\ w = Append(v, c) /\ c = w[Len(w)]
        BY <2>1, <4>1, LineOut
      <4>3. Len(v) <= d + 1
        BY <3>1, <3>4, <4>2
      <4>4. v \in Lines[d]
        BY <1>1, <3>1, <4>2, <4>3
      <4> QED BY <3>2, <4>2, <4>4 DEF Deeper
    <3>5. Len(w) <= d + 1 \/ Len(w) = d + 2
      BY <1>2, <2>1, <3>1
    <3> QED BY <3>3, <3>4, <3>5
  <2> QED BY <1>1, <2>1
<1>5. T = Nat
  BY <1>1, <1>3, <1>4, SetInduction
<1> QED BY <1>1, <1>5, DepthNat

\* What Tree and Content mean.
Keyed(L, W) == {<<n, PathOf(W[n])>> : n \in L}
Image(L, W) == {[path |-> PathOf(W[n]), vals |-> node[n].vals] : n \in L}
TreeLaw ==
  Heap => \A L, W : Shape(L, W) => Tree = Keyed(L, W) /\ Content = Image(L, W)

LEMMA TreeLawHolds == TreeLaw
<1> SUFFICES ASSUME Heap, NEW L, NEW W, Shape(L, W)
             PROVE  Tree = Keyed(L, W) /\ Content = Image(L, W)
  BY DEF TreeLaw
<1>1. \A n \in L : W[n] \in Lines[Depth] /\ W[n][Len(W[n])] = n
  BY AllLead, NotTooLong, LinesReach DEF Leads
<1>2. \A w \in Lines[Depth] : w[Len(w)] \in L /\ W[w[Len(w)]] = w
  BY LinesAreLines, LineIsWay
<1>3. Tree = Keyed(L, W)
  BY <1>1, <1>2 DEF Tree, Keyed, Depth
<1>4. Content = Image(L, W)
  <2>1. \A n \in L : <<n, PathOf(W[n])>> \in Tree
    BY <1>3 DEF Keyed
  <2>2. \A k \in Tree : \E n \in L : k = <<n, PathOf(W[n])>>
    BY <1>3 DEF Keyed
  <2>3. ASSUME NEW x \in Content PROVE x \in Image(L, W)
    <3>1. PICK k \in Tree : x = [path |-> k[2], vals |-> node[k[1]].vals]
      BY DEF Content
    <3>2. PICK n \in L : k = <<n, PathOf(W[n])>>
      BY <2>2
    <3> QED BY <3>1, <3>2 DEF Image
  <2>4. ASSUME NEW x \in Image(L, W) PROVE x \in Content
    <3>1. PICK n \in L : x = [path |-> PathOf(W[n]), vals |-> node[n].vals]
      BY DEF Image
    <3>2. PICK k : k = <<n, PathOf(W[n])>>
      OBVIOUS
    <3>3. k \in Tree /\ k[1] = n /\ k[2] = PathOf(W[n])
      BY <2>1, <3>2
    <3> QED BY <3>1, <3>3 DEF Content
  <2> QED BY <2>3, <2>4
<1> QED BY <1>3, <1>4

LEMMA TreeLawNext == TreeLaw'
BY TreeLawHolds, PTL

-----------------------------------------------------------------------------
(* What the changes of register.c do to the shape                          *)

\* A path depends on the names along it.
LEMMA PathKept ==
  ASSUME NEW w \in Seq(Keys), \A i \in 2..Len(w) : node'[w[i]].name = node[w[i]].name
  PROVE  PathOf(w)' = PathOf(w)
<1>1. \A i \in 1..(Len(w) - 1) : i + 1 \in 2..Len(w)
  OBVIOUS
<1> QED BY <1>1 DEF PathOf

\* The names along the way to a key of the tree, and those to a key below it.
LEMMA PathTypes ==
  ASSUME Heap, NEW w, IsLine(w)
  PROVE  PathOf(w) \in Seq(Names) /\ Len(PathOf(w)) = Len(w) - 1
<1>1. PICK m \in Nat : m = Len(w) - 1
  <2>1. PICK k \in Nat : k = Len(w) /\ k >= 1
    BY DEF IsLine
  <2>2. k - 1 \in Nat
    BY <2>1
  <2> QED BY <2>1, <2>2
<1>2. /\ w \in Seq(Keys) /\ Len(w) = m + 1
      /\ \A i \in 1..m : w[i + 1] \in Kids(w[i])
  BY <1>1 DEF IsLine
<1>3. \A i \in 1..m : w[i] \in Keys
  BY <1>2
<1>4. \A i \in 1..m : node[w[i + 1]].name \in Names
  BY <1>2, <1>3, KidsTypes DEF NamedKeys
<1>5. PICK p : p = [i \in 1..m |-> node[w[i + 1]].name]
  OBVIOUS
<1>6. p \in Seq(Names) /\ Len(p) = m
  BY <1>4, <1>5
<1>7. PathOf(w) = p
  BY <1>1, <1>5 DEF PathOf
<1> QED BY <1>1, <1>6, <1>7

LEMMA PathAppend ==
  ASSUME Heap, NEW w, IsLine(w), NEW c \in Kids(w[Len(w)])
  PROVE  PathOf(Append(w, c)) = Append(PathOf(w), node[c].name)
<1>1. PICK v : v = Append(w, c)
  OBVIOUS
<1>2. PICK m \in Nat : m = Len(w) - 1
  <2>1. PICK k \in Nat : k = Len(w) /\ k >= 1
    BY DEF IsLine
  <2>2. k - 1 \in Nat
    BY <2>1
  <2> QED BY <2>1, <2>2
<1>3. Len(w) = m + 1 /\ w \in Seq(Keys) /\ w[Len(w)] \in Keys
  BY <1>2 DEF IsLine
<1>4. c \in Keys /\ node[c].name \in Names
  BY <1>3, KidsTypes, NullFacts DEF NamedKeys
<1>5. IsLine(v) /\ Len(v) = m + 2 /\ v[m + 2] = c /\ \A i \in 1..(m + 1) : v[i] = w[i]
  BY <1>1, <1>3, <1>4, LineAppend, AppendFacts
<1>6. PICK p : p = PathOf(w)
  OBVIOUS
<1>7. PICK q : q = PathOf(v)
  OBVIOUS
<1>8. PICK a : a = Append(p, node[c].name)
  OBVIOUS
<1>9. p \in Seq(Names) /\ Len(p) = m /\ \A i \in 1..m : p[i] = node[w[i + 1]].name
  BY <1>2, <1>6, PathTypes DEF PathOf
<1>10. Len(v) - 1 = m + 1
  BY <1>5
<1>11. q \in Seq(Names) /\ Len(q) = m + 1 /\ \A i \in 1..(m + 1) : q[i] = node[v[i + 1]].name
  BY <1>5, <1>7, <1>10, PathTypes DEF PathOf
<1>12. /\ a \in Seq(Names) /\ Len(a) = m + 1 /\ a[m + 1] = node[c].name
       /\ \A i \in 1..m : a[i] = p[i]
  BY <1>4, <1>8, <1>9, AppendFacts
<1>13. ASSUME NEW i \in 1..(m + 1) PROVE q[i] = a[i]
  <2>1. CASE i = m + 1
    <3>1. i + 1 = m + 2
      BY <2>1
    <3> QED BY <1>5, <1>11, <1>12, <2>1, <3>1
  <2>2. CASE i \in 1..m
    <3>1. i + 1 \in 1..(m + 1)
      BY <2>2
    <3>2. q[i] = node[w[i + 1]].name
      BY <1>5, <1>11, <3>1
    <3>3. a[i] = node[w[i + 1]].name
      BY <1>9, <1>12, <2>2
    <3> QED BY <3>2, <3>3
  <2> QED BY <2>1, <2>2
<1>14. q = a
  BY <1>11, <1>12, <1>13, SeqEqual
<1> QED BY <1>1, <1>6, <1>7, <1>8, <1>14

\* The lists of keys of the tree have only keys of the tree in them.
LEMMA ListsInside ==
  ASSUME Heap, NEW L, NEW W, Shape(L, W)
  PROVE  /\ \A n \in L : Kids(n) \subseteq L /\ Straight(Kids(n))
         /\ \A d \in L \ {Root} : List(d) \subseteq L /\ List(node[d].sib) \subseteq L
<1>1. ASSUME NEW n \in L PROVE Kids(n) \subseteq L /\ Straight(Kids(n))
  BY DEF Shape, Straight
<1>2. ASSUME NEW d \in L \ {Root} PROVE List(d) \subseteq L /\ List(node[d].sib) \subseteq L
  <2>1. PICK n \in L : d \in Kids(n)
    BY DEF Shape
  <2>2. n \in Keys /\ node[n].child \in Null /\ d \in Blocks
    BY <2>1, KidFacts, SibNull
  <2>3. List(d) \subseteq Kids(n)
    BY <2>1, <2>2, ListLawsHold DEF ListLaws, Kids
  <2>4. List(node[d].sib) \subseteq List(d)
    BY <2>2, ListLawsHold DEF ListLaws
  <2> QED BY <1>1, <2>1, <2>3, <2>4
<1> QED BY <1>1, <1>2

\* A step that changes values only.
LEMMA ValuesShape ==
  ASSUME Heap, Heap', NEW L, NEW W, Shape(L, W), free' = free,
         \A d \in Keys : /\ node'[d].name = node[d].name
                         /\ node'[d].child = node[d].child
                         /\ node'[d].sib = node[d].sib
  PROVE  /\ Shape(L, W)'
         /\ \A n \in Keys : Kids(n)' = Kids(n)
         /\ \A w \in Seq(Keys) : PathOf(w)' = PathOf(w)
<1>1. \A e \in Null : List(e)' = List(e)
  <2> TAKE e \in Null
  <2>1. List(e) \subseteq Keys
    BY ListLawsHold, NullFacts DEF ListLaws
  <2> QED BY <2>1, ListFrame
<1>2. \A n \in Keys : Kids(n)' = Kids(n)
  BY <1>1, SibNull DEF Kids
<1>3. \A w \in Seq(Keys) : PathOf(w)' = PathOf(w)
  <2> TAKE w \in Seq(Keys)
  <2>1. \A i \in 2..Len(w) : w[i] \in Keys
    OBVIOUS
  <2> QED BY <2>1, PathKept
<1>4. Straight(L)'
  BY <1>1, SibNull DEF Straight, Shape
<1> QED BY <1>2, <1>3, <1>4 DEF Shape

\* The ways of a tree and the paths along them, before and after a step.
Ways(L, W) ==
  \A n \in L :
    /\ Leads(L, W, n)
    /\ PathOf(W[n]) \in Seq(Names)
    /\ \A c \in Kids(n) : PathOf(W[c]) = Append(PathOf(W[n]), node[c].name)
WayLaw == Heap => \A L, W : Shape(L, W) => Ways(L, W)

LEMMA WayLawHolds == WayLaw
<1> SUFFICES ASSUME Heap, NEW L, NEW W, Shape(L, W), NEW n \in L
             PROVE  /\ Leads(L, W, n)
                    /\ PathOf(W[n]) \in Seq(Names)
                    /\ \A c \in Kids(n) :
                         PathOf(W[c]) = Append(PathOf(W[n]), node[c].name)
  BY DEF WayLaw, Ways
<1>1. Leads(L, W, n) /\ IsLine(W[n]) /\ W[n][Len(W[n])] = n
  BY AllLead DEF Leads
<1>2. \A c \in Kids(n) : W[c] = Append(W[n], c)
  BY KidFacts
<1> QED BY <1>1, <1>2, PathTypes, PathAppend

LEMMA WayLawNext == WayLaw'
BY WayLawHolds, PTL

LEMMA PathsKept ==
  ASSUME Heap, NEW L, NEW W, Shape(L, W),
         \A d \in L : node'[d].name = node[d].name
  PROVE  \A n \in L : PathOf(W[n])' = PathOf(W[n])
<1> TAKE n \in L
<1>1. PICK w : w = W[n]
  OBVIOUS
<1>2. w \in Seq(Keys) /\ \A i \in 1..Len(w) : w[i] \in L
  BY <1>1, AllLead DEF Leads, Shape
<1>3. \A i \in 2..Len(w) : i \in 1..Len(w)
  OBVIOUS
<1>4. PathOf(w)' = PathOf(w)
  BY <1>2, <1>3, PathKept
<1> QED BY <1>1, <1>4

\* The key b is new below parent, at the head of its list, and V has the way
\* to it.
Added(L, W, V, parent, b, x, c) ==
  /\ Shape(L \cup {b}, V)' /\ b \notin L
  /\ \A n \in L : V[n] = W[n] /\ PathOf(V[n])' = PathOf(W[n])
  /\ PathOf(V[b])' = Append(PathOf(W[parent]), x)
  /\ \A n \in L : /\ node'[n].vals = node[n].vals /\ node'[n].name = node[n].name
                  /\ n # parent => Kids(n)' = Kids(n)
  /\ Kids(parent)' = Kids(parent) \cup {b} /\ Kids(b)' = {}
  /\ node'[b].vals = c /\ node'[b].name = x

\* CreateKey and LoadKeyFromFile put a new key at the head of a list.
LEMMA AddKeyShape ==
  ASSUME Heap, Heap', NEW L, NEW W, Shape(L, W), NEW parent \in L, NEW b \in free,
         NEW x \in Names, NEW c \in Contents, AddKey(parent, b, x, c)
  PROVE  \E V : Added(L, W, V, parent, b, x, c)
<1> PICK V : V = [W EXCEPT ![b] = Append(W[parent], b)]
  OBVIOUS
<1>1. /\ b \in Blocks /\ b \in Keys /\ parent \in Keys /\ b # Root /\ b \notin L
      /\ b # parent /\ L \subseteq Keys
  BY NullFacts DEF Heap, Shape
<1>2. /\ node'[b] = [name |-> x, child |-> NIL, sib |-> node[parent].child, vals |-> c]
      /\ node'[parent] = [node[parent] EXCEPT !.child = b]
      /\ \A d \in Keys \ {b, parent} : node'[d] = node[d]
  <2>1. PICK k : k = [NewKey(x, node[parent].child) EXCEPT !.vals = c]
    OBVIOUS
  <2>2. k = [name |-> x, child |-> NIL, sib |-> node[parent].child, vals |-> c]
    BY <2>1 DEF NewKey
  <2>3. node' = [node EXCEPT ![b] = k, ![parent].child = b]
    BY <2>1 DEF AddKey
  <2>4. node \in [Keys -> Nodes]
    BY DEF Heap
  <2> QED BY <1>1, <2>2, <2>3, <2>4
<1>3. node[parent] \in Nodes /\ node[parent].child \in Null
  BY <1>1, SibNull DEF Heap
<1>4. /\ node'[b].name = x /\ node'[b].child = NIL /\ node'[b].vals = c
      /\ node'[b].sib = node[parent].child
  BY <1>2
<1>5. /\ node'[parent].name = node[parent].name /\ node'[parent].child = b
      /\ node'[parent].sib = node[parent].sib /\ node'[parent].vals = node[parent].vals
  BY <1>2, <1>3 DEF Nodes
<1>6. \A d \in Keys \ {b} : /\ node'[d].name = node[d].name
                            /\ node'[d].sib = node[d].sib
                            /\ node'[d].vals = node[d].vals
                            /\ d # parent => node'[d].child = node[d].child
  BY <1>2, <1>5
<1>7. \A e \in Null : List(e) \subseteq L => List(e)' = List(e)
  <2> SUFFICES ASSUME NEW e \in Null, List(e) \subseteq L PROVE List(e)' = List(e)
    OBVIOUS
  <2>1. \A d \in List(e) : node'[d].sib = node[d].sib
    BY <1>1, <1>6
  <2> QED BY <2>1, ListFrame
<1>8. \A n \in L : Kids(n) \subseteq L /\ node[n].child \in Null /\ n \in Keys
  BY <1>1, ListsInside, SibNull
<1>9. \A n \in L : n # parent => Kids(n)' = Kids(n)
  BY <1>1, <1>6, <1>7, <1>8 DEF Kids
<1>10. Kids(b)' = {}
  BY <1>4, ListLawsNext DEF Kids, ListLaws
<1>11. Kids(parent)' = Kids(parent) \cup {b}
  <2>1. List(b)' = {b} \cup List(node[b].sib)'
    BY <1>1, ListLawsNext DEF ListLaws
  <2>2. PICK h : h = node[parent].child
    OBVIOUS
  <2>3. List(node[b].sib)' = Kids(parent)
    <3>1. List(h)' = List(h) /\ List(h) = Kids(parent)
      BY <1>3, <1>7, <1>8, <2>2 DEF Kids
    <3> QED BY <1>4, <2>2, <3>1
  <2>4. Kids(parent)' = List(b)'
    BY <1>5 DEF Kids
  <2> QED BY <2>1, <2>3, <2>4
<1>12. /\ V \in [Keys -> Seq(Keys)] /\ V[b] = Append(W[parent], b)
       /\ \A n \in L : V[n] = W[n]
  <2>1. W \in [Keys -> Seq(Keys)] /\ Append(W[parent], b) \in Seq(Keys)
    BY <1>1 DEF Shape
  <2> QED BY <1>1, <2>1
<1>13. Shape(L \cup {b}, V)'
  <2>1. L \cup {b} \subseteq Keys /\ Root \in L \cup {b} /\ (L \cup {b}) \cap free' = {}
    BY <1>1 DEF Shape, AddKey
  <2>2. V[Root] = <<Root>>
    BY <1>12 DEF Shape
  <2>3. ASSUME NEW n \in L \cup {b}, NEW d \in Kids(n)'
        PROVE  d \in L \cup {b} /\ V[d] = Append(V[n], d)
    <3>1. CASE n = b
      BY <1>10, <2>3, <3>1
    <3>2. CASE n = parent /\ d = b
      BY <1>12, <3>2
    <3>3. CASE n \in L /\ d \in Kids(n)
      BY <1>12, <3>3 DEF Shape
    <3> QED BY <1>9, <1>11, <2>3, <3>1, <3>2, <3>3
  <2>4. ASSUME NEW d \in (L \cup {b}) \ {Root}
        PROVE  \E n \in L \cup {b} : d \in Kids(n)'
    <3>1. CASE d = b
      BY <1>11, <3>1
    <3>2. CASE d \in L
      <4>1. PICK n \in L : d \in Kids(n)
        BY <2>4, <3>2 DEF Shape
      <4> QED BY <1>9, <1>11, <4>1
    <3> QED BY <2>4, <3>1, <3>2
  <2>5. Straight(L \cup {b})'
    <3>1. b \notin List(node[b].sib)'
      <4>1. PICK h : h = node[parent].child
        OBVIOUS
      <4>2. List(h)' = List(h) /\ List(h) = Kids(parent)
        BY <1>3, <1>7, <1>8, <4>1 DEF Kids
      <4> QED BY <1>1, <1>4, <1>8, <4>1, <4>2
    <3>2. ASSUME NEW d \in L, d # Root PROVE d \notin List(node[d].sib)'
      <4>1. PICK e : e = node[d].sib
        OBVIOUS
      <4>2. node'[d].sib = e /\ e \in Null /\ List(e) \subseteq L
        BY <1>1, <1>6, <3>2, <4>1, ListsInside, SibNull
      <4>3. d \notin List(e)
        BY <4>1 DEF Shape, Straight
      <4> QED BY <1>7, <4>2, <4>3
    <3>3. Root \notin List(node[Root].sib)'
      BY NullFacts DEF List
    <3> QED BY <3>1, <3>2, <3>3 DEF Straight
  <2> QED BY <1>12, <2>1, <2>2, <2>3, <2>4, <2>5 DEF Shape
<1>14. \A n \in L : PathOf(V[n])' = PathOf(W[n])
  <2>1. \A n \in L : PathOf(W[n])' = PathOf(W[n])
    BY <1>1, <1>6, PathsKept
  <2> QED BY <1>12, <2>1
<1>15. PathOf(V[b])' = Append(PathOf(W[parent]), x)
  <2>1. parent \in L \cup {b} /\ b \in Kids(parent)'
    BY <1>11
  <2>2. PathOf(V[b])' = Append(PathOf(V[parent]), node[b].name)'
    <3>1. PICK M : M = L \cup {b}
      OBVIOUS
    <3>2. Shape(M, V)' /\ parent \in M
      BY <1>13, <3>1
    <3>3. Ways(M, V)'
      BY <3>2, WayLawNext DEF WayLaw
    <3> QED BY <2>1, <3>2, <3>3 DEF Ways
  <2> QED BY <1>4, <1>14, <2>2
<1>16. Added(L, W, V, parent, b, x, c)
  BY <1>1, <1>4, <1>6, <1>9, <1>10, <1>11, <1>12, <1>13, <1>14, <1>15 DEF Added
<1> QED BY <1>16

\* The keys of the tree whose way does not lead through c.
Spared(L, W, c) == {d \in L : \A i \in 1..Len(W[d]) : W[d][i] # c}

LEMMA SparedFacts ==
  ASSUME Heap, NEW L, NEW W, Shape(L, W), NEW c \in L
  PROVE  /\ Spared(L, W, c) \subseteq L /\ c \notin Spared(L, W, c)
         /\ c # Root => Root \in Spared(L, W, c)
         /\ \A m \in L : \A d \in Kids(m) :
              d \in Spared(L, W, c) <=> m \in Spared(L, W, c) /\ d # c
<1>1. c \notin Spared(L, W, c)
  <2>1. W[c] # <<>> /\ W[c][Len(W[c])] = c /\ W[c] \in Seq(Keys)
    BY AllLead DEF Leads, Shape
  <2>2. Len(W[c]) \in 1..Len(W[c])
    BY <2>1
  <2> QED BY <2>1, <2>2 DEF Spared
<1>2. c # Root => Root \in Spared(L, W, c)
  <2>1. W[Root] = <<Root>> /\ Root \in L
    BY DEF Shape
  <2>2. PICK r : r = W[Root]
    OBVIOUS
  <2>3. Len(r) = 1 /\ r[1] = Root
    BY <2>1, <2>2
  <2>4. \A i \in 1..Len(r) : r[i] = Root
    BY <2>3
  <2> QED BY <2>1, <2>2, <2>4 DEF Spared
<1>3. ASSUME NEW m \in L, NEW d \in Kids(m)
      PROVE  d \in Spared(L, W, c) <=> m \in Spared(L, W, c) /\ d # c
  <2>1. PICK k \in Nat : k = Len(W[m])
    BY KidFacts
  <2>2. /\ d \in L /\ Len(W[d]) = k + 1 /\ W[d][k + 1] = d
        /\ \A i \in 1..k : W[d][i] = W[m][i]
    BY <2>1, KidFacts
  <2>3. \A i \in 1..(k + 1) : i \in 1..k \/ i = k + 1
    OBVIOUS
  <2>4. k + 1 \in 1..(k + 1) /\ \A i \in 1..k : i \in 1..(k + 1)
    OBVIOUS
  <2>5. (\A i \in 1..(k + 1) : W[d][i] # c) <=> (\A i \in 1..k : W[m][i] # c) /\ d # c
    BY <2>2, <2>3, <2>4
  <2> QED BY <2>1, <2>2, <2>5 DEF Spared
<1> QED BY <1>1, <1>2, <1>3 DEF Spared

\* A key is not on the way to its parent.
LEMMA SparedKid ==
  ASSUME Heap, NEW L, NEW W, Shape(L, W), NEW n \in L, NEW c \in Kids(n)
  PROVE  n \in Spared(L, W, c)
<1>1. \A i \in 1..Len(W[n]) : Len(W[W[n][i]]) = i
  BY AllLead DEF Leads
<1>2. PICK k \in Nat : k = Len(W[n])
  BY KidFacts
<1>3. Len(W[c]) = k + 1
  BY <1>2, KidFacts
<1>4. \A i \in 1..k : i # k + 1
  OBVIOUS
<1> QED BY <1>1, <1>2, <1>3, <1>4 DEF Spared

\* A key c with the sibling s is gone from the list below n.
Unlinked(L, n, c, s) ==
  /\ \A d \in Keys : node'[d].name = node[d].name /\ node'[d].vals = node[d].vals
  /\ \A e \in Null : List(e)' \subseteq List(e)
  /\ \A d \in L : node'[d].sib = node[d].sib \/ (node[d].sib = c /\ node'[d].sib = s)
  /\ \A m \in L \ {n} : Kids(m)' = Kids(m)
  /\ Kids(n)' = Kids(n) \ {c}

\* What DeleteKeyW does to the key c below n.
Unlinks(n, c) ==
  LET before == {b \in Kids(n) : node[b].sib = c} IN
  /\ \/ \E b \in before : node' = [node EXCEPT ![b].sib = node[c].sib]
     \/ before = {} /\ node' = [node EXCEPT ![n].child = node[c].sib]
  /\ free' = free \cup {c}

\* DeleteKeyW unlinks a key, and with it everything below it.
LEMMA UnlinkShape ==
  ASSUME Heap, Heap', NEW L, NEW W, Shape(L, W), NEW n \in L, NEW c \in Kids(n),
         Unlinks(n, c)
  PROVE  LET M == Spared(L, W, c) IN
         /\ Shape(M, W)' /\ n \in M
         /\ \A d \in L : /\ PathOf(W[d])' = PathOf(W[d])
                         /\ node'[d].vals = node[d].vals /\ node'[d].name = node[d].name
         /\ \A m \in L \ {n} : Kids(m)' = Kids(m)
         /\ Kids(n)' = Kids(n) \ {c}
<1> DEFINE M == Spared(L, W, c)
<1>1. /\ L \subseteq Keys /\ n \in Keys /\ c \in Blocks /\ c \in L /\ c # Root /\ c \in Keys
      /\ Kids(n) \subseteq L /\ Straight(Kids(n)) /\ Kids(n) \subseteq Blocks
  <2>1. L \subseteq Keys /\ n \in Keys
    BY DEF Shape
  <2>2. c \in Blocks /\ c \in L /\ c # Root /\ c \in Keys
    BY KidFacts
  <2>3. Kids(n) \subseteq L /\ Straight(Kids(n))
    BY ListsInside
  <2>4. Kids(n) \subseteq Blocks
    BY KidFacts
  <2> QED BY <2>1, <2>2, <2>3, <2>4
<1>2. PICK h : h = node[n].child
  OBVIOUS
<1>3. h \in Null /\ Kids(n) = List(h) /\ c \in List(h)
  BY <1>1, <1>2, SibNull DEF Kids
<1>4. PICK s : s = node[c].sib
  OBVIOUS
<1>5. /\ s \in Null /\ List(c) = {c} \cup List(s) /\ c \notin List(s)
  BY <1>1, <1>3, <1>4, SibNull, ListLawsHold DEF ListLaws, Straight
<1>6. node \in [Keys -> Nodes] /\ \A d \in Keys : node[d] \in Nodes
  BY DEF Heap
<1>7. \A e \in Null : List(e) \subseteq Blocks
  BY ListLawsHold DEF ListLaws
\* What the step does to the lists, in each of its two cases.
<1>8. Unlinked(L, n, c, s)
  <2>1. ASSUME NEW b \in Kids(n), node[b].sib = c,
               node' = [node EXCEPT ![b].sib = node[c].sib]
        PROVE  Unlinked(L, n, c, s)
    <3>1. b \in Keys /\ b \in Blocks
      BY <1>1
    <3>2. /\ node'[b] = [node[b] EXCEPT !.sib = s]
          /\ \A d \in Keys \ {b} : node'[d] = node[d]
      BY <1>4, <1>6, <2>1, <3>1
    <3>3. /\ node'[b].name = node[b].name /\ node'[b].vals = node[b].vals
          /\ node'[b].child = node[b].child /\ node'[b].sib = s
      BY <1>6, <3>1, <3>2 DEF Nodes
    <3>4. \A d \in Keys : /\ node'[d].name = node[d].name
                          /\ node'[d].vals = node[d].vals
                          /\ node'[d].child = node[d].child
      BY <3>2, <3>3
    <3>5. \A d \in Blocks : node'[d].sib = IF d = b THEN node[c].sib ELSE node[d].sib
      BY <1>4, <3>2, <3>3 DEF Keys
    <3>6. c # h
      BY <1>3, <2>1, <1>1, NoneBeforeHead
    <3>7. /\ List(h)' = List(h) \ {c}
          /\ \A e \in Null : List(e)' \subseteq List(e)
      BY <1>1, <1>3, <2>1, <3>5, <3>6, UnlinkMiddle
    <3>8. Kids(n)' = Kids(n) \ {c}
      BY <1>1, <1>2, <1>3, <3>4, <3>7 DEF Kids
    <3>9. ASSUME NEW m \in L \ {n} PROVE Kids(m)' = Kids(m)
      <4>1. PICK e : e = node[m].child
        OBVIOUS
      <4>2. m \in Keys /\ e \in Null /\ node'[m].child = e
        BY <1>1, <3>4, <4>1, SibNull
      <4>3. b \notin List(e)
        <5>1. W[m][Len(W[m])] = m /\ W[n][Len(W[n])] = n
          BY AllLead DEF Leads
        <5> QED BY <4>1, <5>1, OneParent DEF Kids
      <4>4. \A d \in List(e) : node'[d].sib = node[d].sib
        BY <1>7, <3>5, <4>2, <4>3
      <4>5. List(e)' = List(e)
        BY <4>2, <4>4, ListFrame
      <4> QED BY <4>1, <4>2, <4>5 DEF Kids
    <3>10. \A d \in L : node'[d].sib = node[d].sib \/ (node[d].sib = c /\ node'[d].sib = s)
      BY <1>1, <2>1, <3>2, <3>3
    <3> QED BY <1>1, <3>4, <3>7, <3>8, <3>9, <3>10 DEF Unlinked
  <2>2. ASSUME {b \in Kids(n) : node[b].sib = c} = {},
               node' = [node EXCEPT ![n].child = node[c].sib]
        PROVE  Unlinked(L, n, c, s)
    <3>1. /\ node'[n] = [node[n] EXCEPT !.child = s]
          /\ \A d \in Keys \ {n} : node'[d] = node[d]
      BY <1>1, <1>4, <1>6, <2>2
    <3>2. /\ node'[n].name = node[n].name /\ node'[n].vals = node[n].vals
          /\ node'[n].sib = node[n].sib /\ node'[n].child = s
      BY <1>1, <1>6, <3>1 DEF Nodes
    <3>3. \A d \in Keys : /\ node'[d].name = node[d].name
                          /\ node'[d].vals = node[d].vals
                          /\ node'[d].sib = node[d].sib
      BY <3>1, <3>2
    <3>4. \A e \in Null : List(e)' = List(e)
      <4> TAKE e \in Null
      <4>1. List(e) \subseteq Keys
        BY <1>7 DEF Keys
      <4> QED BY <3>3, <4>1, ListFrame
    <3>5. c = h
      BY <1>3, <2>2, SomeBefore
    <3>6. Kids(n)' = Kids(n) \ {c}
      BY <1>3, <1>5, <3>2, <3>4, <3>5 DEF Kids
    <3>7. \A m \in L \ {n} : node'[m].child = node[m].child /\ node[m].child \in Null
      BY <1>1, <3>1, SibNull
    <3>8. \A m \in L \ {n} : Kids(m)' = Kids(m)
      BY <3>4, <3>7 DEF Kids
    <3> QED BY <1>1, <3>3, <3>4, <3>6, <3>7, <3>8 DEF Unlinked
  <2> QED BY <2>1, <2>2 DEF Unlinks
<1> USE <1>8 DEF Unlinked
<1>9. /\ M \subseteq L /\ c \notin M /\ Root \in M
      /\ \A m \in L : \A d \in Kids(m) : d \in M <=> m \in M /\ d # c
  BY <1>1, SparedFacts
<1>10. n \in M
  BY <1>1, SparedKid
<1> HIDE DEF M
<1>11. Shape(M, W)'
  <2>1. M \subseteq Keys /\ M \cap free' = {} /\ W \in [Keys -> Seq(Keys)]
        /\ W[Root] = <<Root>>
    BY <1>1, <1>9 DEF Shape, Unlinks
  <2>2. ASSUME NEW m \in M, NEW d \in Kids(m)'
        PROVE  d \in M /\ W[d] = Append(W[m], d)
    <3>1. m \in L /\ d \in Kids(m)
      BY <1>8, <1>9, <2>2
    <3>2. d # c
      <4>1. CASE m = n
        BY <1>8, <2>2, <4>1
      <4>2. CASE m # n
        <5>1. W[m][Len(W[m])] = m /\ W[n][Len(W[n])] = n
          BY <3>1, AllLead DEF Leads
        <5> QED BY <3>1, <4>2, <5>1, OneParent
      <4> QED BY <4>1, <4>2
    <3> QED BY <1>9, <3>1, <3>2 DEF Shape
  <2>3. ASSUME NEW d \in M \ {Root} PROVE \E m \in M : d \in Kids(m)'
    <3>1. PICK m \in L : d \in Kids(m)
      BY <1>9, <2>3 DEF Shape
    <3>2. m \in M /\ d # c
      BY <1>9, <2>3, <3>1
    <3> QED BY <1>8, <3>1, <3>2
  <2>4. Straight(M)'
    <3>1. ASSUME NEW d \in M PROVE d \notin List(node[d].sib)'
      <4>1. d \in Keys /\ d \notin List(node[d].sib) /\ node[d].sib \in Null /\ d \in L
        BY <1>1, <1>9, SibNull DEF Shape, Straight
      <4>2. PICK e : e = node'[d].sib
        OBVIOUS
      <4>3. CASE e = node[d].sib
        BY <1>8, <4>1, <4>2, <4>3
      <4>4. CASE node[d].sib = c /\ e = s
        <5>1. List(e)' \subseteq List(c)
          BY <1>5, <1>8, <4>4
        <5> QED BY <4>1, <4>2, <4>4, <5>1
      <4> QED BY <1>8, <4>1, <4>2, <4>3, <4>4
    <3> QED BY <3>1 DEF Straight
  <2> QED BY <1>9, <2>1, <2>2, <2>3, <2>4 DEF Shape
<1>12. \A d \in L : PathOf(W[d])' = PathOf(W[d])
  BY <1>1, <1>8, PathsKept
<1> QED BY <1>1, <1>8, <1>10, <1>11, <1>12 DEF M

-----------------------------------------------------------------------------
(* The same in terms of the keys with their paths                          *)

Sound == \E L, W : Shape(L, W)

\* The keys of the tree and what is below them.
LEMMA TreeFacts ==
  ASSUME Heap, Sound
  PROVE  /\ \A k \in Tree : /\ k[1] \in Keys /\ k[1] \notin free
                            /\ k[2] \in Seq(Names) /\ k = <<k[1], k[2]>>
         /\ \A k, l \in Tree : k[1] = l[1] => k = l
         /\ <<Root, <<>>>> \in Tree
         /\ \A k \in Tree : \A c \in Kids(k[1]) :
              /\ <<c, Append(k[2], node[c].name)>> \in Tree
              /\ c \in NamedKeys /\ c # Root
         /\ \A k \in Tree : k[1] = Root \/
              \E l \in Tree : /\ k[1] \in Kids(l[1])
                              /\ k[2] = Append(l[2], node[k[1]].name)
<1>1. PICK L, W : Shape(L, W)
  BY DEF Sound
<1>2. Tree = Keyed(L, W) /\ Ways(L, W)
  BY <1>1, TreeLawHolds, WayLawHolds DEF TreeLaw, WayLaw
<1>3. L \subseteq Keys /\ L \cap free = {} /\ Root \in L /\ W[Root] = <<Root>>
  BY <1>1 DEF Shape
<1>4. \A k \in Tree : \E n \in L : k = <<n, PathOf(W[n])>>
  BY <1>2 DEF Keyed
<1>5. \A n \in L : <<n, PathOf(W[n])>> \in Tree
  BY <1>2 DEF Keyed
<1>6. \A n \in L : PathOf(W[n]) \in Seq(Names)
  BY <1>2 DEF Ways
<1>7. PathOf(W[Root]) = <<>>
  <2>1. PICK r : r = W[Root]
    OBVIOUS
  <2>2. Len(r) = 1
    BY <1>3, <2>1
  <2>3. Len(r) - 1 = 0 /\ 1..0 = {}
    BY <2>2
  <2>4. PathOf(r) = [i \in {} |-> node[r[i + 1]].name]
    BY <2>3 DEF PathOf
  <2>5. PICK q : q = PathOf(r)
    OBVIOUS
  <2>6. q \in Seq(Names) /\ DOMAIN q = {}
    BY <1>3, <1>6, <2>1, <2>4, <2>5
  <2>7. q = <<>>
    BY ONLY <2>6
  <2> QED BY <2>1, <2>5, <2>7
<1>8. \A k \in Tree : /\ k[1] \in Keys /\ k[1] \notin free
                      /\ k[2] \in Seq(Names) /\ k = <<k[1], k[2]>>
  BY <1>3, <1>4, <1>6
<1>9. \A k, l \in Tree : k[1] = l[1] => k = l
  BY <1>4
<1>10. <<Root, <<>>>> \in Tree
  BY <1>3, <1>5, <1>7
<1>11. ASSUME NEW k \in Tree, NEW c \in Kids(k[1])
       PROVE  /\ <<c, Append(k[2], node[c].name)>> \in Tree
              /\ c \in NamedKeys /\ c # Root
  <2>1. PICK n \in L : k = <<n, PathOf(W[n])>>
    BY <1>4
  <2>2. k[1] = n /\ k[2] = PathOf(W[n])
    BY <2>1
  <2>3. c \in Kids(n)
    BY <1>11, <2>2
  <2>4. c \in L /\ c \in NamedKeys /\ c # Root
    BY <1>1, <2>3, KidFacts
  <2>5. PathOf(W[c]) = Append(k[2], node[c].name)
    BY <1>2, <2>2, <2>3 DEF Ways
  <2> QED BY <1>5, <2>4, <2>5
<1>12. ASSUME NEW k \in Tree, k[1] # Root
       PROVE  \E l \in Tree : /\ k[1] \in Kids(l[1])
                              /\ k[2] = Append(l[2], node[k[1]].name)
  <2>1. PICK c \in L : k = <<c, PathOf(W[c])>>
    BY <1>4
  <2>2. k[1] = c /\ k[2] = PathOf(W[c])
    BY <2>1
  <2>3. PICK n \in L : c \in Kids(n)
    BY <1>1, <1>12, <2>2 DEF Shape
  <2>4. PICK l : l = <<n, PathOf(W[n])>>
    OBVIOUS
  <2>5. l \in Tree /\ l[1] = n /\ l[2] = PathOf(W[n])
    BY <1>5, <2>4
  <2>6. PathOf(W[c]) = Append(PathOf(W[n]), node[c].name)
    BY <1>2, <2>3 DEF Ways
  <2> QED BY <2>2, <2>3, <2>5, <2>6
<1> QED BY <1>8, <1>9, <1>10, <1>11, <1>12

LEMMA ContentIs == Content = {[path |-> k[2], vals |-> node[k[1]].vals] : k \in Tree}
BY DEF Content

\* A step that changes values only.
LEMMA ValuesTree ==
  ASSUME Heap, Heap', Sound, free' = free,
         \A d \in Keys : /\ node'[d].name = node[d].name
                         /\ node'[d].child = node[d].child
                         /\ node'[d].sib = node[d].sib
  PROVE  /\ Sound' /\ Tree' = Tree
         /\ \A n \in Keys : Kids(n)' = Kids(n)
<1>1. PICK L, W : Shape(L, W)
  BY DEF Sound
<1>2. /\ Shape(L, W)'
      /\ \A n \in Keys : Kids(n)' = Kids(n)
      /\ \A w \in Seq(Keys) : PathOf(w)' = PathOf(w)
  BY <1>1, ValuesShape
<1>3. Tree = Keyed(L, W) /\ Tree' = Keyed(L, W)'
  BY <1>1, <1>2, TreeLawHolds, TreeLawNext DEF TreeLaw
<1>4. \A n \in L : W[n] \in Seq(Keys)
  BY <1>1 DEF Shape
<1>5. Keyed(L, W)' = Keyed(L, W)
  BY <1>2, <1>4 DEF Keyed
<1>6. Sound'
  BY <1>2 DEF Sound
<1> QED BY <1>2, <1>3, <1>5, <1>6

LEMMA SameTree ==
  ASSUME Heap, Sound, UNCHANGED tree
  PROVE  /\ Heap' /\ Sound' /\ Tree' = Tree /\ Content' = Content
         /\ \A n \in Keys : Kids(n)' = Kids(n)
<1>1. node' = node /\ free' = free
  BY DEF tree
<1>2. Heap'
  BY TreeSame
<1>3. Sound' /\ Tree' = Tree /\ \A n \in Keys : Kids(n)' = Kids(n)
  BY <1>1, <1>2, ValuesTree
<1>4. Content' = Content
  BY <1>1, <1>3 DEF Content
<1> QED BY <1>2, <1>3, <1>4

\* A new key below k.
LEMMA AddTree ==
  ASSUME Heap, Heap', Sound, NEW k \in Tree, NEW b \in free, NEW x \in Names,
         NEW c \in Contents, AddKey(k[1], b, x, c)
  PROVE  /\ Sound'
         /\ Tree' = Tree \cup {<<b, Append(k[2], x)>>}
         /\ \A l \in Tree : /\ l[1] # b
                            /\ node'[l[1]].vals = node[l[1]].vals
                            /\ node'[l[1]].name = node[l[1]].name
                            /\ l # k => Kids(l[1])' = Kids(l[1])
         /\ Kids(k[1])' = Kids(k[1]) \cup {b} /\ Kids(b)' = {}
         /\ node'[b].vals = c /\ node'[b].name = x
<1>1. PICK L, W : Shape(L, W)
  BY DEF Sound
<1>2. Tree = Keyed(L, W)
  BY <1>1, TreeLawHolds DEF TreeLaw
<1>3. PICK p \in L : k = <<p, PathOf(W[p])>>
  BY <1>2 DEF Keyed
<1>4. k[1] = p /\ k[2] = PathOf(W[p])
  BY <1>3
<1>5. AddKey(p, b, x, c)
  BY <1>4
<1>6. PICK V : Added(L, W, V, p, b, x, c)
  BY <1>1, <1>5, AddKeyShape
<1> USE <1>6 DEF Added
<1>7. PICK M : M = L \cup {b}
  OBVIOUS
<1>8. Tree' = Keyed(M, V)'
  BY <1>6, <1>7, TreeLawNext DEF TreeLaw
<1>9. Keyed(M, V)' = Tree \cup {<<b, Append(k[2], x)>>}
  <2>1. \A n \in L : <<n, PathOf(V[n])>>' = <<n, PathOf(W[n])>>
    BY <1>6
  <2>2. <<b, PathOf(V[b])>>' = <<b, Append(k[2], x)>>
    BY <1>4, <1>6
  <2> QED BY <1>2, <1>7, <2>1, <2>2 DEF Keyed
<1>10. Sound'
  BY <1>6 DEF Sound
<1>11. ASSUME NEW l \in Tree PROVE l[1] \in L /\ (l # k => l[1] # p)
  <2>1. PICK n \in L : l = <<n, PathOf(W[n])>>
    BY <1>2 DEF Keyed
  <2>2. l[1] = n
    BY <2>1
  <2> QED BY <1>3, <2>1, <2>2
<1> QED BY <1>4, <1>6, <1>8, <1>9, <1>10, <1>11

\* A key below k is unlinked.
LEMMA UnlinkTree ==
  ASSUME Heap, Heap', Sound, NEW k \in Tree, NEW c \in Kids(k[1]),
         Unlinks(k[1], c)
  PROVE  /\ Sound' /\ Tree' \subseteq Tree /\ k \in Tree'
         /\ \A l \in Tree \ Tree' : Below(Append(k[2], node[c].name), l[2])
         /\ \A l \in Tree' : l[1] # c
         /\ \A l \in Tree : /\ node'[l[1]].vals = node[l[1]].vals
                            /\ node'[l[1]].name = node[l[1]].name
                            /\ l # k => Kids(l[1])' = Kids(l[1])
         /\ \A l \in Tree' : l[1] = Root \/ l = k \/
              \E m \in Tree' : /\ l[1] \in Kids(m[1])
                               /\ l[2] = Append(m[2], node[l[1]].name)
         /\ Kids(k[1])' = Kids(k[1]) \ {c}
<1>1. PICK L, W : Shape(L, W)
  BY DEF Sound
<1>2. Tree = Keyed(L, W) /\ Ways(L, W)
  BY <1>1, TreeLawHolds, WayLawHolds DEF TreeLaw, WayLaw
<1>3. PICK n \in L : k = <<n, PathOf(W[n])>>
  BY <1>2 DEF Keyed
<1>4. k[1] = n /\ k[2] = PathOf(W[n]) /\ c \in Kids(n)
  BY <1>3
<1>5. PICK M : M = Spared(L, W, c)
  OBVIOUS
<1>6. /\ Shape(M, W)' /\ n \in M
      /\ \A d \in L : /\ PathOf(W[d])' = PathOf(W[d])
                      /\ node'[d].vals = node[d].vals /\ node'[d].name = node[d].name
      /\ \A m \in L \ {n} : Kids(m)' = Kids(m)
      /\ Kids(n)' = Kids(n) \ {c}
  <2>1. Unlinks(n, c)
    BY <1>4
  <2> QED BY <1>1, <1>4, <1>5, <2>1, UnlinkShape
<1>7. c \in L /\ c \in Keys /\ M \subseteq L /\ c \notin M
      /\ \A m \in L : \A d \in Kids(m) : d \in M <=> m \in M /\ d # c
  BY <1>1, <1>4, <1>5, KidFacts, SparedFacts
<1>8. Tree' = {<<d, PathOf(W[d])>> : d \in M}
  <2>1. Tree' = Keyed(M, W)'
    BY <1>6, TreeLawNext DEF TreeLaw
  <2>2. \A d \in M : <<d, PathOf(W[d])>>' = <<d, PathOf(W[d])>>
    BY <1>6, <1>7
  <2> QED BY <2>1, <2>2 DEF Keyed
<1>9. ASSUME NEW l \in Tree \ Tree'
      PROVE  Below(Append(k[2], node[c].name), l[2])
  <2>1. PICK d \in L : l = <<d, PathOf(W[d])>>
    BY <1>2 DEF Keyed
  <2>2. d \notin M /\ l[2] = PathOf(W[d])
    BY <1>8, <1>9, <2>1
  <2>3. PICK i \in 1..Len(W[d]) : W[d][i] = c
    BY <1>5, <2>2 DEF Spared
  <2>4. /\ Leads(L, W, d) /\ Leads(L, W, c) /\ PathOf(W[d]) \in Seq(Names)
        /\ PathOf(W[c]) \in Seq(Names) /\ PathOf(W[c]) = Append(k[2], node[c].name)
    BY <1>2, <1>4, <1>7 DEF Ways
  <2>5. PICK v : v = W[c]
    OBVIOUS
  <2>6. PICK w : w = W[d]
    OBVIOUS
  <2>7. /\ Len(v) = i /\ \A j \in 1..i : v[j] = w[j]
        /\ w \in Seq(Keys) /\ i \in 1..Len(w)
    BY <1>1, <2>1, <2>3, <2>4, <2>5, <2>6 DEF Leads, Shape
  <2>8. PICK m \in Nat : m = Len(w)
    BY <2>7
  <2>9. PICK r \in Nat : i = r + 1 /\ r + 1 <= m
    <3>1. i \in Nat /\ i >= 1 /\ i <= m
      BY <2>7, <2>8
    <3>2. i - 1 \in Nat /\ (i - 1) + 1 = i
      BY ONLY <3>1
    <3> QED BY <3>1, <3>2
  <2>10. Len(v) - 1 = r /\ Len(w) - 1 = m - 1 /\ m - 1 \in Nat /\ r <= m - 1
    <3>1. Len(v) = r + 1 /\ Len(w) = m
      BY <2>7, <2>8, <2>9
    <3> QED BY ONLY <3>1, <2>9, m \in Nat, r \in Nat
  <2>11. /\ PathOf(v) = [j \in 1..r |-> node[v[j + 1]].name]
         /\ PathOf(w) = [j \in 1..(m - 1) |-> node[w[j + 1]].name]
    BY <2>10 DEF PathOf
  <2>12. PICK p : p = PathOf(v)
    OBVIOUS
  <2>13. PICK q : q = PathOf(w)
    OBVIOUS
  <2>14. p \in Seq(Names) /\ q \in Seq(Names) /\ Len(p) = r /\ Len(q) = m - 1
    BY <2>4, <2>5, <2>6, <2>10, <2>11, <2>12, <2>13
  <2>15. \A j \in 1..r : j + 1 \in 1..i /\ j \in 1..(m - 1)
    BY <2>9, <2>10
  <2>16. \A j \in 1..r : q[j] = p[j]
    BY <2>7, <2>11, <2>12, <2>13, <2>15
  <2>17. Below(p, q)
    BY <2>10, <2>14, <2>16, BelowIs
  <2> QED BY <2>2, <2>4, <2>5, <2>6, <2>12, <2>13, <2>17
<1>10. ASSUME NEW l \in Tree', l[1] # Root, l # k
       PROVE  \E m \in Tree' : /\ l[1] \in Kids(m[1])
                               /\ l[2] = Append(m[2], node[l[1]].name)
  <2>1. PICK d \in M : l = <<d, PathOf(W[d])>>
    BY <1>8
  <2>2. d \in L /\ l[1] = d /\ l[2] = PathOf(W[d]) /\ d # c
    BY <1>7, <2>1
  <2>3. PICK e \in L : d \in Kids(e)
    BY <1>1, <1>10, <2>2 DEF Shape
  <2>4. e \in M
    BY <1>7, <2>1, <2>3
  <2>5. PICK m : m = <<e, PathOf(W[e])>>
    OBVIOUS
  <2>6. m \in Tree' /\ m[1] = e /\ m[2] = PathOf(W[e])
    BY <1>8, <2>4, <2>5
  <2>7. PathOf(W[d]) = Append(PathOf(W[e]), node[d].name)
    BY <1>2, <2>3 DEF Ways
  <2> QED BY <2>2, <2>3, <2>6, <2>7
<1>11. Sound'
  BY <1>6 DEF Sound
<1>12. Tree' \subseteq Tree /\ k \in Tree'
  BY <1>2, <1>3, <1>6, <1>7, <1>8 DEF Keyed
<1>13. \A l \in Tree' : l[1] # c
  BY <1>7, <1>8
<1>14. \A l \in Tree : l[1] \in L /\ (l # k => l[1] # n)
  BY <1>2, <1>3 DEF Keyed
<1> QED BY <1>4, <1>6, <1>9, <1>10, <1>11, <1>12, <1>13, <1>14

\* The tree that a start of the service begins with.
Bare == node = [b \in Keys |-> NewKey(NIL, NIL)] /\ free = Blocks
Empty == /\ Heap /\ Sound /\ Tree = {<<Root, <<>>>>} /\ Kids(Root) = {}
         /\ Content = {[path |-> <<>>, vals |-> NoValues]}

LEMMA BareEmpty == Bare => Empty
<1> SUFFICES ASSUME Bare PROVE Empty
  OBVIOUS
<1>1. node = [b \in Keys |-> NewKey(NIL, NIL)] /\ free = Blocks
  BY DEF Bare
<1>2. PICK k : k = NewKey(NIL, NIL)
  OBVIOUS
<1>3. /\ k.name = NIL /\ k.child = NIL /\ k.sib = NIL /\ k.vals = NoValues
      /\ k \in Nodes
  <2>1. NoValues \in Contents
    BY DEF NoValues, Contents
  <2> QED BY <1>2, <2>1 DEF NewKey, Nodes, Null
<1>4. node = [b \in Keys |-> k]
  BY <1>1, <1>2
<1>5. Heap
  BY <1>1, <1>3, <1>4 DEF Heap
<1>6. Root \in Keys /\ Root \notin Blocks
  BY NullFacts
<1>7. Kids(Root) = {}
  BY <1>3, <1>4, <1>6, ListNil DEF Kids
<1>8. PICK W : W = [b \in Keys |-> <<Root>>]
  OBVIOUS
<1>9. PICK L : L = {Root}
  OBVIOUS
<1>10. Shape(L, W)
  <2>1. L \subseteq Keys /\ Root \in L /\ L \cap free = {}
    BY <1>1, <1>6, <1>9
  <2>2. W \in [Keys -> Seq(Keys)] /\ W[Root] = <<Root>>
    BY <1>6, <1>8
  <2>3. Straight(L)
    BY <1>6, <1>9 DEF Straight, List
  <2> QED BY <1>7, <1>9, <2>1, <2>2, <2>3 DEF Shape
<1>11. Sound
  BY <1>10 DEF Sound
<1>12. Tree = Keyed(L, W)
  BY <1>5, <1>10, TreeLawHolds DEF TreeLaw
<1>13. \A l \in Tree : l[1] = Root
  BY <1>9, <1>12 DEF Keyed
<1>14. Tree = {<<Root, <<>>>>}
  <2>1. <<Root, <<>>>> \in Tree
    BY <1>5, <1>11, TreeFacts
  <2>2. \A l \in Tree : l = <<Root, <<>>>>
    BY <1>9, <1>12, <2>1 DEF Keyed
  <2> QED BY <2>1, <2>2
<1>15. Content = {[path |-> <<>>, vals |-> NoValues]}
  BY <1>3, <1>4, <1>6, <1>14 DEF Content
<1> QED BY <1>5, <1>7, <1>11, <1>14, <1>15 DEF Empty

LEMMA BareEmptyNext ==
  ASSUME node' = Fresh.node, free' = Blocks
  PROVE  Empty'
<1>1. Bare' => Empty'
  BY BareEmpty, PTL
<1> QED BY <1>1, Idles DEF Bare

-----------------------------------------------------------------------------
(* Handles into the tree                                                   *)

Live == {k[1] : k \in Tree}
Resolves(h) == <<table[h].key, table[h].path>> \in Tree

\* The handles that the service holds and those in the cache.
Held ==
  /\ \A h \in known : Resolves(h)
  /\ \A i \in 1..Len(cache) : Resolves(cache[i].h)

\* The keys being loaded.
Loading ==
  boot.stage = "load" => \A i \in 1..Len(boot.stack) : boot.stack[i].key \in Live

\* The keys being logged, and their paths.
Along(w, i) == DumpPath \o [j \in 1..(i - 1) |-> node[w[j + 1]].name]
Logged(w) ==
  /\ \A i \in 1..Len(w) : <<w[i], Along(w, i)>> \in Tree
  /\ \A i \in 1..(Len(w) - 1) : w[i + 1] \in Kids(w[i])
Dumping == boot.stage \in {"open", "close"} => Logged(boot.walk)

\* The key that a call has reached, and what is left of its path.
Calling(t) ==
  /\ pc[t] \in {"navigate", "create"} =>
       \E k \in Tree : arg[t].key = k[1] /\ arg[t].path = k[2] \o arg[t].rest
  /\ pc[t] \in {"lookup", "add"} => <<arg[t].key, arg[t].path>> \in Tree

Reached == Sound /\ Held /\ Loading /\ Dumping /\ \A t \in Threads : Calling(t)

LEMMA HeldSame ==
  ASSUME Held, UNCHANGED handles, Tree \subseteq Tree'
  PROVE  Held'
<1>1. table' = table /\ cache' = cache /\ known' = known
  BY DEF handles
<1> QED BY <1>1 DEF Held, Resolves

LEMMA AloneHeld ==
  ASSUME HandleTypes, Held, NEW k, NEW p, OpenAlone(k, p), Tree' = Tree,
         <<k, p>> \in Tree
  PROVE  Held'
<1> DEFINE T == [key : Keys, path : Seq(Names)]
           C == [path : Seq(Names), h : Nat]
<1>1. PICK e : e = [key |-> k, path |-> p]
  OBVIOUS
<1>2. PICK n \in Nat : n = Len(table)
  BY DEF HandleTypes
<1>3. PICK m \in Nat : m = Len(cache)
  BY DEF HandleTypes
<1>4. /\ table' = Append(table, e) /\ table \in Seq(T) /\ cache \in Seq(C)
      /\ known \subseteq 1..n /\ \A i \in 1..m : cache[i].h \in 1..n
  BY <1>1, <1>2, <1>3 DEF HandleTypes, OpenAlone
<1> HIDE DEF T, C
<1>5. table'[n + 1] = e /\ \A h \in 1..n : table'[h] = table[h]
  BY <1>2, <1>4
<1>6. \A h \in 1..n : Resolves(h) => Resolves(h)'
  BY <1>5 DEF Resolves
<1>7. Resolves(n + 1)'
  <2>1. e.key = k /\ e.path = p
    BY <1>1
  <2>2. <<table'[n + 1].key, table'[n + 1].path>> = <<k, p>>
    BY <1>5, <2>1
  <2> QED BY <2>2 DEF Resolves
<1>8. \A h \in known : Resolves(h)'
  BY <1>4, <1>6 DEF Held
<1>9. \A i \in 1..m : \A h : h = cache[i].h => Resolves(h)'
  BY <1>3, <1>4, <1>6 DEF Held
<1>10. CASE \E i \in 1..m : cache' = cache /\ known' = known \cup {cache[i].h}
  BY <1>3, <1>8, <1>9, <1>10 DEF Held
<1>11. CASE cache' = Append(cache, [path |-> p, h |-> n + 1]) /\ known' = known \cup {n + 1}
  <2>1. PICK c : c = [path |-> p, h |-> n + 1]
    OBVIOUS
  <2>2. Len(cache') = m + 1 /\ cache'[m + 1] = c /\ \A i \in 1..m : cache'[i] = cache[i]
    BY <1>3, <1>4, <1>11, <2>1
  <2>3. \A i \in 1..(m + 1) : i \in 1..m \/ i = m + 1
    OBVIOUS
  <2>4. c.h = n + 1
    BY <2>1
  <2>5. \A i \in 1..(m + 1) : Resolves(cache[i].h)'
    BY <1>7, <1>9, <2>2, <2>3, <2>4
  <2> QED BY <1>7, <1>8, <1>11, <2>2, <2>5 DEF Held
<1>12. CASE cache' = cache /\ known' = known \cup {n + 1}
  BY <1>3, <1>7, <1>8, <1>9, <1>12 DEF Held
<1> QED BY <1>2, <1>3, <1>10, <1>11, <1>12 DEF OpenAlone, Hits

\* A step that leaves the tree alone and is not one of a start.
LEMMA CallReached ==
  ASSUME Inv, Reached, UNCHANGED <<tree, boot>>, Held',
         \A t \in Threads : Calling(t)'
  PROVE  Reached'
<1>1. /\ Sound' /\ Tree' = Tree /\ node' = node /\ boot' = boot
      /\ \A n \in Keys : Kids(n)' = Kids(n)
  BY SameTree DEF Reached, tree, Inv, Typed
<1>2. Loading'
  BY <1>1 DEF Reached, Loading, Live
<1>3. Dumping'
  <2>1. boot.walk \in Seq(Keys)
    BY DEF Inv, Typed, BootTypes, Boots
  <2>2. \A i \in 1..(Len(boot.walk) - 1) : boot.walk[i] \in Keys
    BY <2>1
  <2> QED BY <1>1, <2>2 DEF Reached, Dumping, Logged, Along
<1> QED BY <1>1, <1>2, <1>3 DEF Reached

LEMMA DoneReached ==
  ASSUME boot'.stage = "done", Sound', Held', \A t \in Threads : Calling(t)'
  PROVE  Reached'
BY DEF Reached, Loading, Dumping

LEMMA JoinFacts ==
  ASSUME NEW S, NEW p \in Seq(S), NEW r \in Seq(S)
  PROVE  /\ p \o r \in Seq(S) /\ Len(p \o r) = Len(p) + Len(r)
         /\ \A i \in 1..(Len(p) + Len(r)) :
              (p \o r)[i] = IF i <= Len(p) THEN p[i] ELSE r[i - Len(p)]
OBVIOUS

LEMMA OneStep ==
  ASSUME NEW S, NEW p \in Seq(S), NEW r \in Seq(S), r # <<>>
  PROVE  /\ p \o r = Append(p, Head(r)) \o Tail(r) /\ Head(r) \in S
         /\ Tail(r) \in Seq(S)
<1>1. PICK n \in Nat, m \in Nat : n = Len(p) /\ m + 1 = Len(r)
  <2>1. PICK n \in Nat, k \in Nat : n = Len(p) /\ k = Len(r)
    OBVIOUS
  <2>2. k # 0
    BY <2>1
  <2>3. k - 1 \in Nat /\ (k - 1) + 1 = k
    BY <2>2
  <2> QED BY <2>1, <2>3
<1>2. PICK x \in S, s \in Seq(S) : x = Head(r) /\ s = Tail(r)
  <2>1. 1 \in 1..Len(r) /\ Head(r) = r[1]
    BY <1>1
  <2>2. Head(r) \in S /\ Tail(r) \in Seq(S)
    BY <2>1
  <2> QED BY <2>2
<1>3. Len(s) = m /\ x = r[1] /\ \A i \in 1..m : s[i] = r[i + 1]
  BY <1>1, <1>2
<1>4. PICK a : a = Append(p, x)
  OBVIOUS
<1>5. a \in Seq(S) /\ Len(a) = n + 1 /\ a[n + 1] = x /\ \A i \in 1..n : a[i] = p[i]
  BY <1>1, <1>4, AppendFacts
<1>6. PICK u, v : u = p \o r /\ v = a \o s
  OBVIOUS
<1>7. /\ u \in Seq(S) /\ Len(u) = n + (m + 1)
      /\ \A i \in 1..(n + (m + 1)) : u[i] = IF i <= n THEN p[i] ELSE r[i - n]
  <2>1. /\ u \in Seq(S) /\ Len(u) = Len(p) + Len(r)
        /\ \A i \in 1..(Len(p) + Len(r)) :
             u[i] = IF i <= Len(p) THEN p[i] ELSE r[i - Len(p)]
    BY <1>6, JoinFacts
  <2>2. Len(p) = n /\ Len(r) = m + 1
    BY <1>1
  <2> QED BY <2>1, <2>2
<1>8. /\ v \in Seq(S) /\ Len(v) = (n + 1) + m
      /\ \A i \in 1..((n + 1) + m) : v[i] = IF i <= n + 1 THEN a[i] ELSE s[i - (n + 1)]
  <2>1. /\ v \in Seq(S) /\ Len(v) = Len(a) + Len(s)
        /\ \A i \in 1..(Len(a) + Len(s)) :
             v[i] = IF i <= Len(a) THEN a[i] ELSE s[i - Len(a)]
    BY <1>2, <1>5, <1>6, JoinFacts
  <2>2. Len(a) = n + 1 /\ Len(s) = m
    BY <1>3, <1>5
  <2> QED BY <2>1, <2>2
<1>9. n + (m + 1) = (n + 1) + m
  OBVIOUS
<1>10. ASSUME NEW i \in 1..(n + (m + 1)) PROVE u[i] = v[i]
  <2>1. CASE i <= n
    <3>1. i \in 1..n /\ i <= n + 1
      BY <2>1
    <3> QED BY <1>5, <1>7, <1>8, <1>9, <2>1, <3>1
  <2>2. CASE i = n + 1
    <3>1. ~(i <= n) /\ i <= n + 1 /\ i - n = 1
      BY <2>2
    <3> QED BY <1>3, <1>5, <1>7, <1>8, <1>9, <2>2, <3>1
  <2>3. CASE i > n + 1
    <3>1. ~(i <= n) /\ ~(i <= n + 1) /\ i - (n + 1) \in 1..m /\ (i - (n + 1)) + 1 = i - n
      BY <2>3
    <3> QED BY <1>3, <1>7, <1>8, <1>9, <3>1
  <2> QED BY <2>1, <2>2, <2>3
<1>11. u = v
  BY <1>7, <1>8, <1>9, <1>10, SeqEqual
<1> QED BY <1>2, <1>4, <1>6, <1>11

LEMMA OpenReached ==
  ASSUME Inv, Reached, OneThread, NEW t \in Threads, NEW k \in Tree,
         NEW op \in {"create", "open"}, NEW r,
         Goto(t, "idle", "navigate"),
         arg' = [arg EXCEPT ![t] = [Idle EXCEPT !.op = op, !.key = k[1],
                                                !.rest = r, !.path = k[2] \o r]],
         UNCHANGED <<tree, handles, boot>>
  PROVE  Reached'
<1>1. Tree' = Tree
  BY SameTree DEF Inv, Typed, Reached
<1>2. Held'
  BY <1>1, HeldSame DEF Reached
<1>3. PICK a : a = [Idle EXCEPT !.op = op, !.key = k[1], !.rest = r, !.path = k[2] \o r]
  OBVIOUS
<1>4. a.key = k[1] /\ a.rest = r /\ a.path = k[2] \o r
  BY <1>3 DEF Idle
<1>5. arg'[t] = a
  BY <1>3 DEF Inv, Typed, CallTypes
<1>6. Calling(t)'
  <2>1. pc'[t] = "navigate"
    BY DEF Goto, Inv, Typed, CallTypes
  <2> QED BY <1>1, <1>4, <1>5, <2>1 DEF Calling
<1>7. \A u \in Threads : Calling(u)'
  BY <1>6 DEF OneThread
<1> QED BY <1>2, <1>7, CallReached

LEMMA OpensReached ==
  ASSUME Inv, Reached, OneThread, NEW t \in Threads, NEW op \in {"create", "open"},
         NEW sub \in Subs,
         \/ \E root \in {"HKLM", "HKCU"} : OpenUnderRoot(t, op, root, sub)
         \/ \E h \in known : OpenUnderHandle(t, op, h, sub)
  PROVE  Reached'
<1>1. ASSUME NEW root, OpenUnderRoot(t, op, root, sub) PROVE Reached'
  <2>1. PICK p : p = IF root = "HKLM" THEN Redirect(sub) ELSE sub
    OBVIOUS
  <2>2. p \in Seq(Names)
    BY <2>1, RedirectTypes, RegistryAssumption
  <2>3. PICK k : k = <<Root, <<>>>>
    OBVIOUS
  <2>4. k \in Tree /\ k[1] = Root /\ k[2] \o p = p
    <3>1. <<>> \o p = p
      BY <2>2
    <3> QED BY <2>3, <3>1, TreeFacts DEF Inv, Typed, Reached
  <2>5. arg' = [arg EXCEPT ![t] = [Idle EXCEPT !.op = op, !.key = k[1],
                                               !.rest = p, !.path = k[2] \o p]]
    <3>1. arg' = [arg EXCEPT ![t] = [Idle EXCEPT !.op = op, !.key = Root,
                                                 !.rest = p, !.path = p]]
      BY <1>1, <2>1 DEF OpenUnderRoot
    <3> QED BY <2>4, <3>1
  <2>6. Goto(t, "idle", "navigate") /\ UNCHANGED <<tree, handles, boot>>
    BY <1>1 DEF OpenUnderRoot
  <2> QED BY <2>4, <2>5, <2>6, OpenReached
<1>2. ASSUME NEW h \in known, OpenUnderHandle(t, op, h, sub) PROVE Reached'
  <2>1. PICK k : k = <<table[h].key, table[h].path>>
    OBVIOUS
  <2>2. k \in Tree /\ k[1] = table[h].key /\ k[2] = table[h].path
    BY <2>1 DEF Reached, Held, Resolves
  <2>3. arg' = [arg EXCEPT ![t] = [Idle EXCEPT !.op = op, !.key = k[1],
                                               !.rest = sub, !.path = k[2] \o sub]]
    BY <1>2, <2>2 DEF OpenUnderHandle
  <2>4. Goto(t, "idle", "navigate") /\ UNCHANGED <<tree, handles, boot>>
    BY <1>2 DEF OpenUnderHandle
  <2>5. k \in Tree /\ op \in {"create", "open"}
    BY <2>2
  <2> QED BY <2>3, <2>4, <2>5, OpenReached
<1> QED BY <1>1, <1>2

LEMMA NavigateReached ==
  ASSUME Inv, Reached, OneThread, NEW t \in Threads, Navigate(t)
  PROVE  Reached'
<1>1. Tree' = Tree /\ boot' = boot /\ pc[t] = "navigate" /\ arg[t].rest # <<>>
  BY SameTree DEF Inv, Typed, Reached, Navigate
<1>2. Held'
  BY <1>1, HeldSame DEF Reached, Navigate
<1>3. PICK k \in Tree : arg[t].key = k[1] /\ arg[t].path = k[2] \o arg[t].rest
  BY <1>1 DEF Reached, Calling
<1>4. PICK c : c = Find(node[arg[t].key].child, Head(arg[t].rest))
  OBVIOUS
<1>5. arg \in [Threads -> Args] /\ pc \in [Threads -> PCs] /\ arg[t] \in Args
      /\ arg[t].rest \in Seq(Names)
  <2>1. arg \in [Threads -> Args] /\ pc \in [Threads -> PCs]
    BY DEF Inv, Typed, CallTypes, PCs
  <2> QED BY <2>1 DEF Args
<1>6. Calling(t)'
  <2>1. CASE /\ c # NIL /\ arg' = [arg EXCEPT ![t].key = c, ![t].rest = Tail(@)]
             /\ pc' = pc
    <3>1. PICK x : x = Head(arg[t].rest)
      OBVIOUS
    <3>2. arg'[t].key = c /\ arg'[t].rest = Tail(arg[t].rest) /\ arg'[t].path = arg[t].path
      BY <1>5, <2>1 DEF Args
    <3>3. k[1] \in Keys /\ k[2] \in Seq(Names)
      BY TreeFacts DEF Inv, Typed, Reached
    <3>4. c \in Kids(k[1]) /\ node[c].name = x
      <4>1. PICK b : b = node[k[1]].child
        OBVIOUS
      <4>2. b \in NamedKeys \cup {NIL} /\ Heap
        BY <3>3, <4>1 DEF Inv, Typed, Heap
      <4>3. c = Find(b, x)
        BY <1>3, <1>4, <3>1, <4>1
      <4>4. c \in List(b) /\ node[c].name = x
        BY <2>1, <4>2, <4>3, FindFacts
      <4> QED BY <4>1, <4>4 DEF Kids
    <3>5. PICK l : l = <<c, Append(k[2], x)>>
      OBVIOUS
    <3>6. l \in Tree /\ l[1] = c /\ l[2] = Append(k[2], x)
      BY <3>4, <3>5, TreeFacts DEF Inv, Typed, Reached
    <3>7. k[2] \o arg[t].rest = Append(k[2], x) \o Tail(arg[t].rest)
      BY <1>1, <1>5, <3>1, <3>3, OneStep
    <3>8. arg'[t].key = l[1] /\ arg'[t].path = l[2] \o arg'[t].rest
      BY <1>3, <3>2, <3>6, <3>7
    <3> QED BY <1>1, <2>1, <3>6, <3>8 DEF Calling
  <2>2. CASE Goto(t, "navigate", "create") /\ arg' = arg
    <3>1. pc'[t] = "create"
      BY <1>5, <2>2 DEF Goto
    <3> QED BY <1>1, <1>3, <2>2, <3>1 DEF Calling
  <2>3. CASE Return(t, "navigate")
    BY <1>5, <2>3 DEF Return, Goto, Calling
  <2> QED BY <1>4, <2>1, <2>2, <2>3 DEF Navigate
<1>7. \A u \in Threads : Calling(u)'
  BY <1>6 DEF OneThread
<1> QED BY <1>2, <1>7, CallReached DEF Navigate

LEMMA CreateKeyReached ==
  ASSUME Inv, Inv', Reached, OneThread, NEW t \in Threads, CreateKey(t)
  PROVE  Reached'
<1>1. pc[t] = "create" /\ pc'[t] = "navigate" /\ UNCHANGED <<handles, boot>>
      /\ arg \in [Threads -> Args] /\ arg[t] \in Args
  BY DEF CreateKey, Goto, Inv, Typed, CallTypes
<1>2. arg[t].rest # <<>> /\ boot.stage = "done" /\ arg[t].rest \in Seq(Names)
  BY <1>1, BusyDone DEF Inv, Typed, CallTypes, Local, Args
<1>3. PICK b \in free : /\ AddKey(arg[t].key, b, Head(arg[t].rest), NoValues)
                        /\ arg' = [arg EXCEPT ![t].key = b, ![t].rest = Tail(@)]
  BY DEF CreateKey
<1>4. PICK k \in Tree : arg[t].key = k[1] /\ arg[t].path = k[2] \o arg[t].rest
  BY <1>1 DEF Reached, Calling
<1>5. PICK x : x = Head(arg[t].rest)
  OBVIOUS
<1>6. k[2] \in Seq(Names) /\ x \in Names /\ NoValues \in Contents
      /\ k[2] \o arg[t].rest = Append(k[2], x) \o Tail(arg[t].rest)
  <2>1. k[2] \in Seq(Names)
    BY TreeFacts DEF Inv, Typed, Reached
  <2>2. NoValues \in Contents
    BY DEF NoValues, Contents
  <2> QED BY <1>2, <1>5, <2>1, <2>2, OneStep
<1>7. AddKey(k[1], b, x, NoValues)
  BY <1>3, <1>4, <1>5
<1>8. Sound' /\ Tree' = Tree \cup {<<b, Append(k[2], x)>>}
  BY <1>6, <1>7, AddTree DEF Inv, Typed, Reached
<1>9. Held'
  BY <1>1, <1>8, HeldSame DEF Reached
<1>10. Calling(t)'
  <2>1. arg'[t].key = b /\ arg'[t].rest = Tail(arg[t].rest) /\ arg'[t].path = arg[t].path
    BY <1>1, <1>3 DEF Args
  <2>2. PICK l : l = <<b, Append(k[2], x)>>
    OBVIOUS
  <2>3. l \in Tree' /\ l[1] = b /\ l[2] = Append(k[2], x)
    BY <1>8, <2>2
  <2>4. arg'[t].key = l[1] /\ arg'[t].path = l[2] \o arg'[t].rest
    BY <1>4, <1>6, <2>1, <2>3
  <2> QED BY <1>1, <2>3, <2>4 DEF Calling
<1>11. \A u \in Threads : Calling(u)'
  BY <1>10 DEF OneThread
<1> QED BY <1>1, <1>2, <1>8, <1>9, <1>11, DoneReached

\* A handle is allocated for the key that the path has led to.
LEMMA AllocHandleReached ==
  ASSUME Inv, Reached, OneThread, NEW t \in Threads, AllocHandle(t)
  PROVE  Reached'
<1>1. /\ Tree' = Tree /\ pc[t] = "navigate" /\ arg[t].rest = <<>>
      /\ UNCHANGED <<tree, boot, cache, known>>
  BY SameTree DEF Inv, Typed, Reached, AllocHandle, Goto
<1>2. PICK k \in Tree : arg[t].key = k[1] /\ arg[t].path = k[2] \o arg[t].rest
  BY <1>1 DEF Reached, Calling
<1>3. k[2] \in Seq(Names) /\ k = <<k[1], k[2]>>
  BY TreeFacts DEF Inv, Typed, Reached
<1>4. <<arg[t].key, arg[t].path>> \in Tree
  <2>1. k[2] \o <<>> = k[2]
    BY <1>3
  <2> QED BY <1>1, <1>2, <1>3, <2>1
<1>5. \A h \in 1..Len(table) : table'[h] = table[h]
  <2>1. arg[t] \in Args /\ arg[t].key \in Keys
    BY <1>1 DEF Inv, Typed, CallTypes, Local
  <2>2. arg[t].path \in Seq(Names)
    BY <2>1 DEF Args
  <2> QED BY <2>1, <2>2, GrowKeeps DEF AllocHandle, Inv, Typed
<1>6. Held'
  <2>1. known \subseteq 1..Len(table) /\ \A i \in 1..Len(cache) : cache[i].h \in 1..Len(table)
    BY DEF Inv, Typed, HandleTypes
  <2> QED BY <1>1, <1>5, <2>1 DEF Reached, Held, Resolves
<1>7. Calling(t)'
  <2>1. /\ pc'[t] = "lookup" /\ arg'[t].key = arg[t].key /\ arg'[t].path = arg[t].path
    BY DEF AllocHandle, Goto, Inv, Typed, CallTypes, Args
  <2> QED BY <1>1, <1>4, <2>1 DEF Calling
<1>8. \A u \in Threads : Calling(u)'
  BY <1>7 DEF OneThread
<1> QED BY <1>1, <1>6, <1>8, CallReached

\* The handle that a call has means the key that it found.
LEMMA OwnResolves ==
  ASSUME Reached, NEW t \in Threads, Opening(t), pc[t] \in {"lookup", "add"}
  PROVE  Resolves(arg[t].h)
<1>1. PICK e : e = [key |-> arg[t].key, path |-> arg[t].path]
  OBVIOUS
<1>2. e.key = arg[t].key /\ e.path = arg[t].path /\ table[arg[t].h] = e
  BY <1>1 DEF Opening
<1>3. <<arg[t].key, arg[t].path>> \in Tree
  BY DEF Reached, Calling
<1> QED BY <1>2, <1>3 DEF Resolves

LEMMA CacheLookupReached ==
  ASSUME Inv, Reached, OneThread, NEW t \in Threads, Opening(t), CacheLookup(t)
  PROVE  Reached'
<1>1. /\ Tree' = Tree /\ UNCHANGED <<tree, table, cache, boot>> /\ pc[t] = "lookup"
  BY SameTree DEF Inv, Typed, Reached, CacheLookup, Answer, Goto
<1>2. ASSUME NEW g, Resolves(g), Answer(t, "lookup", g) PROVE Reached'
  <2>1. known' = known \cup {g} /\ pc'[t] \in {"save", "idle"}
    BY <1>2, AnswerFacts
  <2>2. Held'
    BY <1>1, <1>2, <2>1 DEF Reached, Held, Resolves
  <2>3. \A u \in Threads : Calling(u)'
    BY <2>1 DEF OneThread, Calling
  <2> QED BY <1>1, <2>2, <2>3, CallReached
<1>3. CASE \E i \in Hits(arg[t].path) : Answer(t, "lookup", cache[i].h)
  BY <1>2, <1>3 DEF Hits, Reached, Held
<1>4. CASE Goto(t, "lookup", "add") /\ UNCHANGED <<known, arg>>
  <2>1. Held'
    BY <1>1, <1>4 DEF Reached, Held, Resolves
  <2>2. Calling(t)'
    <3>1. pc'[t] = "add"
      BY <1>4 DEF Goto, Inv, Typed, CallTypes
    <3> QED BY <1>1, <1>4, <3>1 DEF Reached, Calling
  <2>3. \A u \in Threads : Calling(u)'
    BY <2>2 DEF OneThread
  <2> QED BY <1>1, <2>1, <2>3, CallReached
<1>5. CASE Answer(t, "lookup", arg[t].h)
  BY <1>1, <1>2, <1>5, OwnResolves
<1> QED BY <1>3, <1>4, <1>5 DEF CacheLookup

LEMMA CacheAddReached ==
  ASSUME Inv, Reached, OneThread, NEW t \in Threads, Opening(t), CacheAdd(t)
  PROVE  Reached'
<1>1. PICK g, p : g = arg[t].h /\ p = arg[t].path
  OBVIOUS
<1>2. /\ Tree' = Tree /\ UNCHANGED <<tree, table, boot>> /\ Answer(t, "add", g)
      /\ cache' = Append(cache, [path |-> p, h |-> g])
  BY <1>1, SameTree DEF Inv, Typed, Reached, CacheAdd
<1>3. pc[t] = "add" /\ known' = known \cup {g} /\ pc'[t] \in {"save", "idle"}
  BY <1>2, AnswerFacts
<1>4. Resolves(g) /\ Resolves(g)'
  BY <1>1, <1>2, <1>3, OwnResolves DEF Resolves
<1>5. PICK c : c = [path |-> p, h |-> g]
  OBVIOUS
<1>6. PICK m \in Nat : m = Len(cache)
  BY DEF Inv, Typed, HandleTypes
<1>7. Len(cache') = m + 1 /\ cache'[m + 1] = c /\ \A i \in 1..m : cache'[i] = cache[i]
  <2> DEFINE C == [path : Seq(Names), h : Nat]
  <2>1. cache \in Seq(C)
    BY DEF Inv, Typed, HandleTypes
  <2> HIDE DEF C
  <2> QED BY <1>2, <1>5, <1>6, <2>1
<1>8. \A i \in 1..(m + 1) : i \in 1..m \/ i = m + 1
  OBVIOUS
<1>9. \A h : Resolves(h) => Resolves(h)'
  BY <1>2 DEF Resolves
<1>10. \A i \in 1..(m + 1) : Resolves(cache[i].h)'
  <2>1. \A i \in 1..m : Resolves(cache[i].h)
    BY <1>6 DEF Reached, Held
  <2>2. \A i \in 1..m : cache'[i].h = cache[i].h
    BY <1>7
  <2>3. c.h = g
    BY <1>5
  <2> QED BY <1>2, <1>4, <1>7, <1>8, <2>1, <2>2, <2>3 DEF Resolves
<1>11. Held'
  BY <1>3, <1>4, <1>7, <1>9, <1>10 DEF Reached, Held
<1>12. \A u \in Threads : Calling(u)'
  BY <1>3 DEF OneThread, Calling
<1> QED BY <1>2, <1>11, <1>12, CallReached

LEMMA CloseKeyReached ==
  ASSUME Inv, Reached, NEW h \in known, CloseKey(h)
  PROVE  Reached'
<1>1. /\ Tree' = Tree /\ UNCHANGED <<tree, boot, pc, arg, table, cache>>
      /\ known' \subseteq known
  BY SameTree DEF Inv, Typed, Reached, CloseKey
<1>2. Held'
  BY <1>1 DEF Reached, Held, Resolves
<1>3. \A u \in Threads : Calling(u)'
  BY <1>1 DEF Reached, Calling
<1> QED BY <1>1, <1>2, <1>3, CallReached

\* The change of a value.
LEMMA ValueTree ==
  ASSUME Inv, Inv', Reached, NEW h \in known, NEW v, NEW d,
         node' = [node EXCEPT ![table[h].key].vals[v] = d], free' = free
  PROVE  Sound' /\ Tree' = Tree /\ \A n \in Keys : Kids(n)' = Kids(n)
<1>1. PICK k \in Keys : k = table[h].key
  BY HandleKey DEF Inv, Typed
<1>2. node' = [node EXCEPT ![k].vals[v] = d] /\ node \in [Keys -> Nodes]
  BY <1>1 DEF Inv, Typed, Heap
<1>3. node'[k] = [node[k] EXCEPT !.vals[v] = d] /\ node[k] \in Nodes
      /\ \A n \in Keys \ {k} : node'[n] = node[n]
  BY <1>2
<1>4. /\ node'[k].name = node[k].name /\ node'[k].child = node[k].child
      /\ node'[k].sib = node[k].sib
  BY <1>3 DEF Nodes
<1>5. \A n \in Keys : /\ node'[n].name = node[n].name
                      /\ node'[n].child = node[n].child
                      /\ node'[n].sib = node[n].sib
  BY <1>3, <1>4
<1> QED BY <1>5, ValuesTree DEF Inv, Typed, Reached

LEMMA ValueReached ==
  ASSUME Inv, Inv', Reached, OneThread, NEW t \in Threads, NEW h \in known,
         NEW v \in Values,
         DeleteValueW(t, h, v) \/ \E d \in Data : SetValueExW(t, h, v, d)
  PROVE  Reached'
<1>1. PICK d : node' = [node EXCEPT ![table[h].key].vals[v] = d]
  BY DEF DeleteValueW, SetValueExW
<1>2. UNCHANGED <<free, handles, boot, arg>> /\ Call(t, h)
  BY DEF DeleteValueW, SetValueExW
<1>3. Sound' /\ Tree' = Tree
  BY <1>1, <1>2, ValueTree
<1>4. Held'
  BY <1>2, <1>3, HeldSame DEF Reached
<1>5. boot'.stage = "done" /\ pc'[t] = "save"
  BY <1>2 DEF Call, Running, Goto, Inv, Typed, CallTypes
<1>6. \A u \in Threads : Calling(u)'
  BY <1>5 DEF OneThread, Calling
<1> QED BY <1>3, <1>4, <1>5, <1>6, DoneReached

\* The deletion of a key in terms of the tree.
LEMMA DeleteTree ==
  ASSUME Inv, Inv', Reached, NEW t \in Threads, NEW h \in known, NEW x \in Names,
         DeleteKeyW(t, h, x)
  PROVE  \E k \in Tree : \E c \in Kids(k[1]) :
           /\ k = <<table[h].key, table[h].path>> /\ node[c].name = x
           /\ Unlinks(k[1], c)
<1>1. PICK k : k = <<table[h].key, table[h].path>>
  OBVIOUS
<1>2. k \in Tree /\ k[1] = table[h].key /\ k[2] = table[h].path /\ k[1] \in Keys
  BY <1>1, TreeFacts DEF Reached, Held, Resolves, Inv, Typed
<1>3. PICK n : n = table[h].key
  OBVIOUS
<1>4. PICK c : c = Find(node[n].child, x)
  OBVIOUS
<1>5. c # NIL /\ Unlinks(n, c)
  BY <1>3, <1>4 DEF DeleteKeyW, Unlinks
<1>6. c \in Kids(n) /\ node[c].name = x
  <2>1. PICK b : b = node[n].child
    OBVIOUS
  <2>2. b \in NamedKeys \cup {NIL} /\ Heap
    BY <1>2, <1>3, <2>1 DEF Inv, Typed, Heap
  <2>3. c \in List(b) /\ node[c].name = x
    BY <1>4, <1>5, <2>1, <2>2, FindFacts
  <2> QED BY <2>1, <2>3 DEF Kids
<1>7. n = k[1]
  BY <1>2, <1>3
<1> QED BY <1>1, <1>2, <1>5, <1>6, <1>7

LEMMA DeleteKeyReached ==
  ASSUME Inv, Inv', Reached, OneThread, ~DeleteCached,
         NEW t \in Threads, NEW h \in known, NEW x \in Names, DeleteKeyW(t, h, x)
  PROVE  Reached'
<1>1. PICK k \in Tree : \E c \in Kids(k[1]) :
        /\ k = <<table[h].key, table[h].path>> /\ node[c].name = x
        /\ Unlinks(k[1], c)
  BY DeleteTree
<1>0. PICK p : p = Append(k[2], x)
  OBVIOUS
<1>2. /\ Sound' /\ \A l \in Tree \ Tree' : Below(p, l[2])
  <2>1. PICK c \in Kids(k[1]) : Unlinks(k[1], c) /\ node[c].name = x
    BY <1>1
  <2>2. Heap /\ Heap' /\ Sound
    BY DEF Inv, Typed, Reached
  <2>3. Sound' /\ \A l \in Tree \ Tree' : Below(Append(k[2], node[c].name), l[2])
    BY <2>1, <2>2, UnlinkTree
  <2> QED BY <1>0, <2>1, <2>3
<1>3. Call(t, h) /\ MayDelete(p) /\ UNCHANGED <<handles, boot, arg>>
  BY <1>1, <1>0 DEF DeleteKeyW
<1>4. \A g \in known : ~Below(p, table[g].path)
  BY <1>3 DEF MayDelete
<1>5. \A i \in 1..Len(cache) : ~Below(p, table[cache[i].h].path)
  BY <1>3 DEF MayDelete, Inv, Cached
<1>6. table' = table /\ cache' = cache /\ known' = known
  BY <1>3 DEF handles
<1>7. \A g : Resolves(g) /\ ~Below(p, table[g].path) => Resolves(g)'
  BY <1>2, <1>6 DEF Resolves
<1>8. Held'
  BY <1>4, <1>5, <1>6, <1>7 DEF Reached, Held
<1>9. boot'.stage = "done" /\ pc'[t] = "save"
  BY <1>3 DEF Call, Running, Goto, Inv, Typed, CallTypes
<1>10. \A u \in Threads : Calling(u)'
  BY <1>9 DEF OneThread, Calling
<1> QED BY <1>2, <1>8, <1>9, <1>10, DoneReached

\* While a call saves, the tree and the handles are what they were.
LEMMA SaveReached ==
  ASSUME Inv, Reached, OneThread, NEW t \in Threads,
         SaveBegin(t) \/ WriteKey(t) \/ WriteNext(t) \/ SaveMove(t)
  PROVE  Reached'
<1>1. /\ UNCHANGED <<tree, handles, boot>>
      /\ pc'[t] \notin {"navigate", "create", "lookup", "add"}
  <2>1. pc \in [Threads -> PCs]
    BY DEF Inv, Typed, CallTypes, PCs
  <2>2. CASE SaveBegin(t)
    BY <2>1, <2>2 DEF SaveBegin, Return, Goto
  <2>3. CASE WriteKey(t)
    BY <2>1, <2>3 DEF WriteKey, Goto
  <2>4. CASE WriteNext(t)
    BY <2>1, <2>4 DEF WriteNext, Goto, disk
  <2>5. CASE SaveMove(t)
    BY <2>1, <2>5 DEF SaveMove, Return, Goto
  <2> QED BY <2>2, <2>3, <2>4, <2>5
<1>2. Tree' = Tree
  BY <1>1, SameTree DEF Inv, Typed, Reached
<1>3. Held'
  BY <1>1, <1>2, HeldSame DEF Reached
<1>4. \A u \in Threads : Calling(u)'
  BY <1>1 DEF OneThread, Calling
<1> QED BY <1>1, <1>3, <1>4, CallReached

-----------------------------------------------------------------------------
(* The steps of a start                                                    *)

LEMMA StartReached ==
  ASSUME Inv, boot.stage # "done", UNCHANGED pc, Sound', Held', Loading', Dumping'
  PROVE  Reached'
<1>1. pc = Fresh.pc
  BY DEF Inv, Typed, BootTypes
<1>2. \A t \in Threads : pc'[t] = "idle"
  BY <1>1, Idles
<1>3. \A t \in Threads : Calling(t)'
  BY <1>2 DEF Calling
<1> QED BY <1>3 DEF Reached

LEMMA LoadRootReached ==
  ASSUME Inv, Inv', Reached, LoadRoot
  PROVE  Reached'
<1>1. /\ Sound' /\ Tree' = Tree /\ UNCHANGED <<tree, handles, pc>> /\ boot.stage = "root"
  BY SameTree DEF Inv, Typed, Reached, LoadRoot
<1>2. Held'
  BY <1>1, HeldSame DEF Reached
<1>3. PICK e : e = [key |-> Root, left |-> file[1].subs]
  OBVIOUS
<1>4. \/ boot' = [Booting EXCEPT !.stage = "dump"]
      \/ boot' = [Booting EXCEPT !.stage = "load", !.at = 2, !.stack = <<e>>]
  BY <1>3 DEF LoadRoot
<1>5. boot'.stage = "dump" \/ (boot'.stage = "load" /\ boot'.stack = <<e>>)
  BY <1>4 DEF Booting
<1>6. Root \in Live
  <2>1. <<Root, <<>>>> \in Tree
    BY TreeFacts DEF Inv, Typed, Reached
  <2> QED BY <2>1 DEF Live
<1>7. Loading'
  <2>1. e.key = Root /\ Live' = Live
    BY <1>1, <1>3 DEF Live
  <2>2. CASE boot'.stack = <<e>>
    <3>1. \A i \in 1..Len(boot'.stack) : boot'.stack[i].key = Root
      BY <2>1, <2>2
    <3> QED BY <1>6, <2>1, <3>1 DEF Loading
  <2>3. CASE boot'.stage = "dump"
    BY <2>3 DEF Loading
  <2> QED BY <1>5, <2>2, <2>3
<1>8. Dumping'
  BY <1>5 DEF Dumping
<1> QED BY <1>1, <1>2, <1>7, <1>8, StartReached

LEMMA LoadReturnReached ==
  ASSUME Inv, Inv', Reached, LoadReturn
  PROVE  Reached'
<1>1. /\ Sound' /\ Tree' = Tree /\ UNCHANGED <<tree, handles, pc>> /\ boot.stage = "load"
      /\ Live' = Live
  BY SameTree DEF Inv, Typed, Reached, LoadReturn, Live
<1>2. Held'
  BY <1>1, HeldSame DEF Reached
<1>3. PICK q : q = Rest
  OBVIOUS
<1>4. /\ boot \in Boots /\ boot.stack # <<>>
      /\ boot.stack \in Seq([key : Keys, left : Nat])
  BY <1>1 DEF Inv, Typed, BootTypes, Boots
<1>5. boot'.stage = "dump" \/ (boot'.stage = "load" /\ boot'.stack = q)
  BY <1>1, <1>3, <1>4 DEF LoadReturn, Boots
<1>6. \A i \in 1..Len(q) : i \in 1..Len(boot.stack) /\ q[i] = boot.stack[i]
  <2> DEFINE E == [key : Keys, left : Nat]
  <2>1. boot.stack \in Seq(E)
    BY <1>4
  <2> HIDE DEF E
  <2>2. PICK k \in Nat : k = Len(boot.stack) /\ k # 0
    BY <1>4, <2>1
  <2>3. q = SubSeq(boot.stack, 1, k - 1) /\ k - 1 \in Nat /\ k - 1 <= k
    BY <1>3, <2>2 DEF Rest
  <2>4. Len(q) = k - 1 /\ \A i \in 1..(k - 1) : q[i] = boot.stack[i]
    BY <2>1, <2>2, <2>3
  <2> QED BY <2>2, <2>3, <2>4
<1>7. \A i \in 1..Len(q) : q[i].key \in Live
  BY <1>1, <1>6 DEF Reached, Loading
<1>8. Loading' /\ Dumping'
  BY <1>1, <1>5, <1>7 DEF Loading, Dumping
<1> QED BY <1>1, <1>2, <1>8, StartReached

\* The top of a stack is changed and one entry put on it.
LEMMA PutOn ==
  ASSUME NEW D, NEW depth \in Nat, NEW old \in Seq(D), Len(old) = depth + 1,
         NEW rest, rest = SubSeq(old, 1, depth),
         NEW top, NEW above, NEW two, two = <<top, above>>,
         NEW new, new = rest \o two
  PROVE  /\ Len(new) = depth + 2
         /\ new[depth + 1] = top /\ new[depth + 2] = above
         /\ \A i \in 1..depth : new[i] = old[i]
<1> DEFINE E == D \cup {top, above}
<1>1. old \in Seq(E) /\ top \in E /\ above \in E
  OBVIOUS
<1> HIDE DEF E
<1>2. Len(rest) = depth /\ rest \in Seq(E) /\ \A i \in 1..depth : rest[i] = old[i]
  <2>1. depth + 1 \in 1..(depth + 1) /\ (\A i \in 1..depth : i \in 1..(depth + 1))
    OBVIOUS
  <2> QED BY <1>1, <2>1
<1>3. two \in Seq(E) /\ Len(two) = 2 /\ two[1] = top /\ two[2] = above
  BY <1>1
<1>4. /\ Len(new) = depth + 2
      /\ \A i \in 1..(depth + 2) :
           new[i] = IF i <= depth THEN rest[i] ELSE two[i - depth]
  <2>1. /\ Len(new) = Len(rest) + Len(two)
        /\ \A i \in 1..(Len(rest) + Len(two)) :
             new[i] = IF i <= Len(rest) THEN rest[i] ELSE two[i - Len(rest)]
    BY <1>2, <1>3, JoinFacts
  <2> QED BY <1>2, <1>3, <2>1
<1>5. /\ depth + 1 \in 1..(depth + 2) /\ ~(depth + 1 <= depth)
      /\ (depth + 1) - depth = 1
      /\ depth + 2 \in 1..(depth + 2) /\ ~(depth + 2 <= depth)
      /\ (depth + 2) - depth = 2
      /\ \A i \in 1..depth : i \in 1..(depth + 2) /\ i <= depth
  OBVIOUS
<1> QED BY <1>2, <1>3, <1>4, <1>5

LEMMA LoadKeyReached ==
  ASSUME Inv, Inv', Reached, LoadKey
  PROVE  Reached'
<1>1. boot.stage = "load" /\ Top.left > 0 /\ UNCHANGED <<handles, disk, pc, arg, saved, clean>>
  BY DEF LoadKey
<1>2. PICK b \in free, r \in Record :
        /\ AddKey(Top.key, b, r.name, r.vals)
        /\ boot' = [boot EXCEPT !.at = @ + 1,
                     !.stack = Rest \o <<[Top EXCEPT !.left = @ - 1],
                                         [key |-> b, left |-> r.subs]>>]
  BY DEF LoadKey
<1>3. PICK x, c : x = r.name /\ c = r.vals
  OBVIOUS
<1>4. x \in Names /\ c \in Contents
  <2>1. CASE boot.at <= Len(file)
    <3>1. r = file[boot.at] /\ boot.at \in 2..Len(file) /\ boot.at \in 1..Len(file)
      BY <1>1, <1>2, <2>1, LoadFacts DEF Record, Inv
    <3>2. file[boot.at] \in Tokens /\ file[boot.at].name \in Names
      BY <1>1, <3>1, LoadFacts DEF Named, Inv
    <3> QED BY <1>3, <3>1, <3>2 DEF Tokens
  <2>2. CASE ~(boot.at <= Len(file))
    <3>1. NoValues \in Contents
      BY DEF NoValues, Contents
    <3>2. r \in [name : Names, vals : {NoValues}, subs : {0}]
      BY <1>2, <2>2 DEF Record
    <3> QED BY <1>3, <3>1, <3>2
  <2> QED BY <2>1, <2>2
<1>5. PICK j \in Nat : Len(boot.stack) = j + 1
  <2>1. boot.stack # <<>> /\ boot.stack \in Seq([key : Keys, left : Nat])
    BY <1>1, LoadFacts DEF Inv
  <2>2. PICK k \in Nat : k = Len(boot.stack) /\ k # 0
    BY <2>1
  <2>3. k - 1 \in Nat /\ k = (k - 1) + 1
    BY <2>2
  <2> QED BY <2>2, <2>3
<1>6. j + 1 \in 1..(j + 1) /\ \A i \in 1..j : i \in 1..(j + 1)
  BY <1>5
<1>7. PICK n \in Tree : Top.key = n[1]
  <2>1. Top.key \in Live
    BY <1>1, <1>5, <1>6 DEF Reached, Loading, Top
  <2> QED BY <2>1 DEF Live
<1>8. AddKey(n[1], b, x, c)
  BY <1>2, <1>3, <1>7
<1>9. Sound' /\ Tree' = Tree \cup {<<b, Append(n[2], x)>>}
  BY <1>4, <1>8, AddTree DEF Inv, Typed, Reached
<1>10. Held'
  BY <1>1, <1>9, HeldSame DEF Reached
<1>11. \A m \in Live : m \in Live'
  BY <1>9 DEF Live
<1>12. b \in Live'
  <2>1. <<b, Append(n[2], x)>> \in Tree' /\ <<b, Append(n[2], x)>>[1] = b
    BY <1>9
  <2> QED BY <2>1 DEF Live
<1>13. PICK e, f : e = [Top EXCEPT !.left = @ - 1] /\ f = [key |-> b, left |-> r.subs]
  OBVIOUS
<1>14. PICK q : q = Rest \o <<e, f>>
  OBVIOUS
<1>15. boot'.stage = "load" /\ boot'.stack = q
  <2>1. boot' = [boot EXCEPT !.at = @ + 1, !.stack = q] /\ boot \in Boots
    BY <1>1, <1>2, <1>13, <1>14, LoadFacts DEF Inv
  <2> QED BY <1>1, <2>1 DEF Boots
<1>16. e.key = Top.key /\ f.key = b
  <2>1. Top \in [key : Keys, left : Nat]
    BY <1>1, LoadFacts DEF Inv
  <2> QED BY <1>13, <2>1
<1>17. /\ Len(q) = j + 2 /\ q[j + 1] = e /\ q[j + 2] = f
       /\ \A i \in 1..j : q[i] = boot.stack[i]
  <2>1. PICK D, x0, p, g : /\ D = [key : Keys, left : Nat] /\ x0 = boot.stack
                           /\ p = Rest /\ g = <<e, f>>
    OBVIOUS
  <2>2. x0 \in Seq(D) /\ Len(x0) = j + 1
    BY <1>1, <1>5, <2>1, LoadFacts DEF Inv
  <2>3. p = SubSeq(x0, 1, j) /\ q = p \o g
    <3>1. (j + 1) - 1 = j
      OBVIOUS
    <3>2. p = SubSeq(x0, 1, Len(x0) - 1)
      BY <2>1 DEF Rest
    <3> QED BY <1>14, <2>1, <2>2, <3>1, <3>2
  <2>4. g = <<e, f>>
    BY <2>1
  <2>5. /\ Len(q) = j + 2 /\ q[j + 1] = e /\ q[j + 2] = f
        /\ \A i \in 1..j : q[i] = x0[i]
    BY <1>5, <2>2, <2>3, <2>4, PutOn
  <2> QED BY <2>1, <2>5
<1>18. \A i \in 1..Len(q) : i \in 1..j \/ i = j + 1 \/ i = j + 2
  BY <1>5, <1>6, <1>17
<1>19. \A i \in 1..Len(q) : q[i].key \in Live'
  <2>1. Top.key \in Live'
    BY <1>7, <1>11 DEF Live
  <2>2. \A i \in 1..j : boot.stack[i].key \in Live'
    BY <1>1, <1>5, <1>6, <1>11 DEF Reached, Loading
  <2> QED BY <1>12, <1>16, <1>17, <1>18, <2>1, <2>2
<1>20. Loading' /\ Dumping'
  BY <1>15, <1>19 DEF Loading, Dumping
<1> QED BY <1>1, <1>9, <1>10, <1>20, StartReached

LEMMA JoinAppend ==
  ASSUME NEW S, NEW p \in Seq(S), NEW r \in Seq(S), NEW x \in S
  PROVE  p \o Append(r, x) = Append(p \o r, x)
<1>1. PICK n \in Nat, m \in Nat : n = Len(p) /\ m = Len(r)
  OBVIOUS
<1>2. PICK a : a = Append(r, x)
  OBVIOUS
<1>3. a \in Seq(S) /\ Len(a) = m + 1 /\ a[m + 1] = x /\ \A i \in 1..m : a[i] = r[i]
  BY <1>1, <1>2, AppendFacts
<1>4. PICK u, v, w : u = p \o a /\ v = p \o r /\ w = Append(v, x)
  OBVIOUS
<1>5. /\ v \in Seq(S) /\ Len(v) = n + m
      /\ \A i \in 1..(n + m) : v[i] = IF i <= n THEN p[i] ELSE r[i - n]
  BY <1>1, <1>4, JoinFacts
<1>6. /\ w \in Seq(S) /\ Len(w) = n + m + 1 /\ w[n + m + 1] = x
      /\ \A i \in 1..(n + m) : w[i] = v[i]
  BY <1>4, <1>5, AppendFacts
<1>7. /\ u \in Seq(S) /\ Len(u) = n + (m + 1)
      /\ \A i \in 1..(n + (m + 1)) : u[i] = IF i <= n THEN p[i] ELSE a[i - n]
  <2>1. PICK l \in Nat : l = m + 1
    OBVIOUS
  <2>2. /\ u \in Seq(S) /\ Len(u) = Len(p) + Len(a)
        /\ \A i \in 1..(Len(p) + Len(a)) :
             u[i] = IF i <= Len(p) THEN p[i] ELSE a[i - Len(p)]
    <3>1. u = p \o a /\ a \in Seq(S)
      BY <1>3, <1>4
    <3> QED BY ONLY p \in Seq(S), <3>1, JoinFacts
  <2>3. Len(p) = n /\ Len(a) = l
    BY <1>1, <1>3, <2>1
  <2> QED BY <2>1, <2>2, <2>3
<1>8. n + (m + 1) = n + m + 1
  OBVIOUS
<1>9. ASSUME NEW i \in 1..(n + m + 1) PROVE u[i] = w[i]
  <2>1. CASE i <= n
    <3>1. i \in 1..(n + m)
      BY <2>1
    <3> QED BY <1>5, <1>6, <1>7, <1>8, <2>1, <3>1
  <2>2. CASE i = n + m + 1
    <3>1. ~(i <= n) /\ i - n = m + 1
      BY <2>2
    <3> QED BY <1>3, <1>6, <1>7, <1>8, <2>2, <3>1
  <2>3. CASE ~(i <= n) /\ i # n + m + 1
    <3>1. i \in 1..(n + m) /\ i - n \in 1..m
      BY <2>3
    <3> QED BY <1>3, <1>5, <1>6, <1>7, <1>8, <2>3, <3>1
  <2> QED BY <2>1, <2>2, <2>3
<1>10. u = w
  BY <1>6, <1>7, <1>8, <1>9, SeqEqual
<1> QED BY <1>2, <1>4, <1>10

\* The path of a key on the way of a dump.
Steps(w, i) == [j \in 1..(i - 1) |-> node[w[j + 1]].name]

LEMMA AlongNext ==
  ASSUME Heap, NEW w \in Seq(Keys), Way(w), NEW m \in Nat, Len(w) = m + 1,
         NEW i \in 1..m
  PROVE  /\ Along(w, i) \in Seq(Names)
         /\ Along(w, i + 1) = Append(Along(w, i), node[w[i + 1]].name)
<1>1. \A j \in 1..m : node[w[j + 1]].name \in Names
  <2>1. \A j \in 1..m : j + 1 \in 2..(m + 1)
    OBVIOUS
  <2> QED BY <2>1 DEF Way, NamedKeys
<1>2. PICK n \in Nat : i = n + 1
  <2>1. i - 1 \in Nat /\ i = (i - 1) + 1
    OBVIOUS
  <2> QED BY <2>1
<1>3. i - 1 = n /\ (i + 1) - 1 = n + 1 /\ n + 1 \in 1..m /\ \A j \in 1..n : j \in 1..m
  BY <1>2
<1>4. PICK p, q, x : p = Steps(w, i) /\ q = Steps(w, i + 1) /\ x = node[w[i + 1]].name
  OBVIOUS
<1>5. x \in Names
  BY <1>1, <1>4
<1>6. /\ p = [j \in 1..n |-> node[w[j + 1]].name]
      /\ q = [j \in 1..(n + 1) |-> node[w[j + 1]].name]
  BY <1>3, <1>4 DEF Steps
<1>7. p \in Seq(Names) /\ Len(p) = n /\ \A j \in 1..n : p[j] = node[w[j + 1]].name
  BY <1>1, <1>3, <1>6
<1>8. /\ q \in Seq(Names) /\ Len(q) = n + 1
      /\ \A j \in 1..(n + 1) : q[j] = node[w[j + 1]].name
  <2>1. \A j \in 1..(n + 1) : j \in 1..m
    BY <1>2
  <2>2. PICK l \in Nat : l = n + 1
    OBVIOUS
  <2>3. q = [j \in 1..l |-> node[w[j + 1]].name] /\ \A j \in 1..l : node[w[j + 1]].name \in Names
    BY <1>1, <1>6, <2>1, <2>2
  <2>4. q \in Seq(Names) /\ Len(q) = l /\ \A j \in 1..l : q[j] = node[w[j + 1]].name
    BY ONLY l \in Nat, <2>3
  <2> QED BY <2>2, <2>4
<1>9. PICK a : a = Append(p, x)
  OBVIOUS
<1>10. /\ a \in Seq(Names) /\ Len(a) = n + 1 /\ a[n + 1] = x
       /\ \A j \in 1..n : a[j] = p[j]
  BY <1>5, <1>7, <1>9, AppendFacts
<1>11. \A j \in 1..(n + 1) : j = n + 1 \/ j \in 1..n
  OBVIOUS
<1>12. \A j \in 1..(n + 1) : q[j] = a[j]
  BY <1>2, <1>4, <1>7, <1>8, <1>10, <1>11
<1>13. q = a
  BY <1>8, <1>10, <1>12, SeqEqual
<1>14. DumpPath \in Seq(Names)
  BY RegistryAssumption
<1>15. DumpPath \o q = Append(DumpPath \o p, x) /\ DumpPath \o p \in Seq(Names)
  BY <1>5, <1>7, <1>9, <1>13, <1>14, JoinAppend, JoinFacts
<1> QED BY <1>4, <1>15 DEF Along, Steps

LEMMA AlongSame ==
  ASSUME NEW v, NEW w, NEW i, \A j \in 1..(i - 1) : v[j + 1] = w[j + 1]
  PROVE  Along(v, i) = Along(w, i)
BY DEF Along

\* The dump goes one key down, to a next key, or up.
LEMMA LoggedDown ==
  ASSUME Heap, Sound, NEW w \in Seq(Keys), Way(w), NEW m \in Nat, Len(w) = m + 1,
         Logged(w), NEW c \in Kids(w[m + 1])
  PROVE  Logged(Append(w, c))
<1>1. m + 1 \in 1..(m + 1) /\ (m + 1) - 1 = m /\ w[m + 1] \in Keys
  OBVIOUS
<1>2. PICK k : k = <<w[m + 1], Along(w, m + 1)>>
  OBVIOUS
<1>3. k \in Tree /\ k[1] = w[m + 1] /\ k[2] = Along(w, m + 1)
  BY <1>1, <1>2 DEF Logged
<1>4. c \in NamedKeys /\ <<c, Append(Along(w, m + 1), node[c].name)>> \in Tree
  BY <1>3, TreeFacts
<1>5. PICK v : v = Append(w, c)
  OBVIOUS
<1>6. /\ v \in Seq(Keys) /\ Way(v) /\ Len(v) = (m + 1) + 1 /\ v[(m + 1) + 1] = c
      /\ \A i \in 1..(m + 1) : v[i] = w[i]
  BY <1>4, <1>5, WayAppend, AppendFacts, NullFacts DEF NamedKeys
<1>7. ASSUME NEW i \in 1..(m + 1) PROVE Along(v, i) = Along(w, i)
  <2>1. \A j \in 1..(i - 1) : j + 1 \in 1..(m + 1)
    OBVIOUS
  <2> QED BY <1>6, <2>1, AlongSame
<1>8. Along(v, (m + 1) + 1) = Append(Along(w, m + 1), node[c].name)
  <2>1. PICK l \in Nat : l = m + 1
    OBVIOUS
  <2>2. Len(v) = l + 1 /\ l \in 1..l /\ v[l + 1] = c
    BY <1>6, <2>1
  <2>3. Along(v, l + 1) = Append(Along(v, l), node[c].name)
    BY <1>6, <2>2, AlongNext
  <2> QED BY <1>1, <1>7, <2>1, <2>3
<1>9. \A i \in 1..((m + 1) + 1) : i \in 1..(m + 1) \/ i = (m + 1) + 1
  OBVIOUS
<1>10. \A i \in 1..Len(v) : <<v[i], Along(v, i)>> \in Tree
  <2>1. \A i \in 1..(m + 1) : <<w[i], Along(w, i)>> \in Tree
    BY DEF Logged
  <2>2. \A i \in 1..(m + 1) : <<v[i], Along(v, i)>> \in Tree
    BY <1>6, <1>7, <2>1
  <2>3. \A i \in 1..((m + 1) + 1) : <<v[i], Along(v, i)>> \in Tree
    BY <1>4, <1>6, <1>8, <1>9, <2>2
  <2> QED BY <1>6, <2>3
<1>11. \A i \in 1..(m + 1) : (i + 1 \in 1..(m + 1) /\ i \in 1..m) \/ i = m + 1
  OBVIOUS
<1>12. \A i \in 1..(m + 1) : v[i + 1] \in Kids(v[i])
  BY <1>1, <1>6, <1>11 DEF Logged
<1>13. Len(v) - 1 = m + 1
  BY <1>6
<1> QED BY <1>5, <1>10, <1>12, <1>13 DEF Logged

LEMMA LoggedOut ==
  ASSUME NEW w \in Seq(Keys), NEW m \in Nat, Len(w) = m + 2, Logged(w),
         NEW v, v = SubSeq(w, 1, Len(w) - 1)
  PROVE  /\ Logged(v) /\ v \in Seq(Keys) /\ Len(v) = m + 1
         /\ \A i \in 1..(m + 1) : v[i] = w[i]
         /\ w[m + 2] \in Kids(v[m + 1])
<1>1. Len(w) - 1 = m + 1 /\ Len(w) > 1 /\ m + 1 \in 1..(m + 1) /\ (m + 1) + 1 = m + 2
      /\ (m + 1) - 1 = m
  OBVIOUS
<1>2. v \in Seq(Keys) /\ Len(v) = m + 1 /\ \A i \in 1..(m + 1) : v[i] = w[i]
  BY <1>1, OutFacts
<1>3. ASSUME NEW i \in 1..(m + 1) PROVE <<v[i], Along(v, i)>> \in Tree
  <2>1. \A j \in 1..(i - 1) : j + 1 \in 1..(m + 1)
    OBVIOUS
  <2>2. Along(v, i) = Along(w, i)
    BY <1>2, <2>1, AlongSame
  <2>3. i \in 1..Len(w)
    OBVIOUS
  <2> QED BY <1>2, <2>2, <2>3 DEF Logged
<1>4. \A i \in 1..m : v[i + 1] \in Kids(v[i])
  <2>1. \A i \in 1..m : i \in 1..(m + 1) /\ i + 1 \in 1..(m + 1)
    OBVIOUS
  <2> QED BY <1>1, <1>2, <2>1 DEF Logged
<1>5. w[m + 2] \in Kids(v[m + 1])
  BY <1>1, <1>2 DEF Logged
<1> QED BY <1>1, <1>2, <1>3, <1>4, <1>5 DEF Logged

LEMMA LoggedSame ==
  ASSUME Heap, Sound, UNCHANGED tree, NEW w \in Seq(Keys), Logged(w)
  PROVE  Logged(w)'
<1>1. /\ Tree' = Tree /\ node' = node /\ \A n \in Keys : Kids(n)' = Kids(n)
  BY SameTree DEF tree
<1>2. \A i \in 1..(Len(w) - 1) : w[i] \in Keys
  OBVIOUS
<1> QED BY <1>1, <1>2 DEF Logged, Along

LEMMA KidSibling ==
  ASSUME Heap, NEW n \in Keys, NEW c \in Kids(n)
  PROVE  node[c].sib \in Kids(n) \cup {NIL}
<1>1. node[n].child \in Null
  BY SibNull
<1> QED BY <1>1, ListLawsHold DEF ListLaws, Kids

LEMMA DumpBeginReached ==
  ASSUME Inv, Inv', Reached, DumpBegin
  PROVE  Reached'
<1>1. /\ Sound' /\ Tree' = Tree /\ UNCHANGED <<tree, handles, pc>> /\ boot.stage = "dump"
  BY SameTree DEF Inv, Typed, Reached, DumpBegin
<1>2. Held'
  BY <1>1, HeldSame DEF Reached
<1>3. CASE \E k \in Tree : k[2] = DumpPath
  <2>1. PICK n : n = CHOOSE m \in Keys : <<m, DumpPath>> \in Tree
    OBVIOUS
  <2>2. \E m \in Keys : <<m, DumpPath>> \in Tree
    BY <1>3, TreeTypes DEF Inv, Typed
  <2>3. n \in Keys /\ <<n, DumpPath>> \in Tree
    BY <2>1, <2>2
  <2>4. PICK w : w = <<n>>
    OBVIOUS
  <2>5. boot' = [Booting EXCEPT !.stage = "open", !.walk = w]
    BY <1>3, <2>1, <2>4 DEF DumpBegin
  <2>6. boot'.stage = "open" /\ boot'.walk = w
    BY <2>5 DEF Booting
  <2>7. w \in Seq(Keys) /\ Len(w) = 1 /\ w[1] = n
    BY <2>3, <2>4
  <2>8. Along(w, 1) = DumpPath
    <3>1. PICK s : s = [j \in 1..0 |-> node[w[j + 1]].name]
      OBVIOUS
    <3>2. 1..0 = {} /\ 1 - 1 = 0
      OBVIOUS
    <3>3. s = <<>>
      BY <3>1
    <3>4. Along(w, 1) = DumpPath \o s
      BY <3>1, <3>2 DEF Along
    <3>5. DumpPath \o <<>> = DumpPath
      BY RegistryAssumption
    <3> QED BY <3>3, <3>4, <3>5
  <2>9. Logged(w)
    <3>1. \A i \in 1..Len(w) : i = 1
      BY <2>7
    <3>2. 1..(Len(w) - 1) = {}
      BY <2>7
    <3> QED BY <2>3, <2>7, <2>8, <3>1, <3>2 DEF Logged
  <2>10. Logged(w)'
    BY <1>1, <2>7, <2>9, LoggedSame DEF Inv, Typed, Reached
  <2>11. Loading' /\ Dumping'
    BY <2>6, <2>10 DEF Loading, Dumping, Logged, Along
  <2> QED BY <1>1, <1>2, <2>11, StartReached
<1>4. CASE ~ \E k \in Tree : k[2] = DumpPath
  <2>1. boot' = [Booting EXCEPT !.stage = "done", !.walk = <<>>]
    BY <1>4 DEF DumpBegin
  <2>2. boot'.stage = "done"
    BY <2>1 DEF Booting
  <2>3. Loading' /\ Dumping'
    BY <2>2 DEF Loading, Dumping
  <2> QED BY <1>1, <1>2, <2>3, StartReached
<1> QED BY <1>3, <1>4

LEMMA DumpOpenReached ==
  ASSUME Inv, Inv', Reached, DumpOpen
  PROVE  Reached'
<1>1. /\ Sound' /\ Tree' = Tree /\ UNCHANGED <<tree, pc>> /\ boot.stage = "open"
  BY SameTree DEF Inv, Typed, Reached, DumpOpen
<1>2. PICK w : w = boot.walk
  OBVIOUS
<1>3. /\ boot \in Boots /\ w \in Seq(Keys) /\ Way(w) /\ w # <<>> /\ Logged(w)
  BY <1>1, <1>2, DumpFacts DEF Reached, Dumping
<1>4. PICK m \in Nat : Len(w) = m + 1
  <2>1. PICK k \in Nat : k = Len(w) /\ k # 0
    BY <1>3
  <2>2. k - 1 \in Nat /\ k = (k - 1) + 1
    BY <2>1
  <2> QED BY <2>1, <2>2
<1>5. m + 1 \in 1..(m + 1) /\ (m + 1) - 1 = m /\ w[m + 1] \in Keys
  BY <1>3, <1>4
<1>6. Dumped = w[m + 1] /\ DumpedPath = Along(w, m + 1)
  BY <1>2, <1>4, <1>5 DEF Dumped, DumpedPath, Along
<1>7. <<Dumped, DumpedPath>> \in Tree
  BY <1>3, <1>4, <1>5, <1>6 DEF Logged
<1>8. Held'
  BY <1>1, <1>7, AloneHeld DEF Inv, Typed, Reached, DumpOpen
<1>9. PICK c : c = node[Dumped].child
  OBVIOUS
<1>10. CASE c # NIL
  <2>1. c \in Blocks
    BY <1>5, <1>6, <1>9, <1>10, SibNull, NullFacts DEF Inv, Typed
  <2>2. c \in Kids(w[m + 1])
    BY <1>6, <1>9, <2>1, ListLawsHold DEF ListLaws, Kids, Inv, Typed
  <2>3. PICK v : v = Append(w, c)
    OBVIOUS
  <2>4. Logged(v) /\ v \in Seq(Keys)
    <3>1. c \in Keys
      BY <2>1, NullFacts
    <3> QED BY <1>3, <1>4, <2>2, <2>3, <3>1, LoggedDown, AppendFacts DEF Inv, Typed, Reached
  <2>5. boot'.stage = "open" /\ boot'.walk = v
    <3>1. boot' = [boot EXCEPT !.walk = v]
      BY <1>2, <1>9, <1>10, <2>3 DEF DumpOpen
    <3> QED BY <1>1, <1>3, <3>1 DEF Boots
  <2>6. Logged(v)'
    BY <1>1, <2>4, LoggedSame DEF Inv, Typed, Reached
  <2>7. Loading' /\ Dumping'
    BY <2>5, <2>6 DEF Loading, Dumping, Logged, Along
  <2> QED BY <1>1, <1>8, <2>7, StartReached
<1>11. CASE c = NIL
  <2>1. boot' = [boot EXCEPT !.stage = "close"]
    BY <1>9, <1>11 DEF DumpOpen
  <2>2. boot'.stage = "close" /\ boot'.walk = w
    BY <1>2, <1>3, <2>1 DEF Boots
  <2>3. Logged(w)'
    BY <1>1, <1>3, LoggedSame DEF Inv, Typed, Reached
  <2>4. Loading' /\ Dumping'
    BY <2>2, <2>3 DEF Loading, Dumping, Logged, Along
  <2> QED BY <1>1, <1>8, <2>4, StartReached
<1> QED BY <1>10, <1>11

LEMMA DumpCloseReached ==
  ASSUME Inv, Inv', Reached, DumpClose
  PROVE  Reached'
<1>1. /\ Sound' /\ Tree' = Tree /\ UNCHANGED <<tree, pc, table, cache>> /\ known' = {}
      /\ boot.stage = "close"
  BY SameTree DEF Inv, Typed, Reached, DumpClose
<1>2. Held'
  BY <1>1 DEF Reached, Held, Resolves
<1>3. PICK w, s, v : /\ w = boot.walk /\ s = node[Dumped].sib
                     /\ v = SubSeq(w, 1, Len(w) - 1)
  OBVIOUS
<1>4. /\ boot \in Boots /\ w \in Seq(Keys) /\ Way(w) /\ w # <<>> /\ Logged(w)
  BY <1>1, <1>3, DumpFacts DEF Reached, Dumping
<1>5. \/ boot' = [Booting EXCEPT !.stage = "done"]
      \/ v # <<>> /\ s # NIL /\ boot' = [boot EXCEPT !.stage = "open", !.walk = Append(v, s)]
      \/ v # <<>> /\ s = NIL /\ boot' = [boot EXCEPT !.walk = v]
  BY <1>3 DEF DumpClose
<1>6. CASE boot' = [Booting EXCEPT !.stage = "done"]
  <2>1. boot'.stage = "done"
    BY <1>6 DEF Booting
  <2>2. Loading' /\ Dumping'
    BY <2>1 DEF Loading, Dumping
  <2> QED BY <1>1, <1>2, <2>2, StartReached
<1>7. ASSUME v # <<>> PROVE \E m \in Nat : Len(w) = m + 2
  <2>1. PICK k \in Nat : k = Len(w) /\ k # 0
    BY <1>4
  <2>2. k # 1
    <3> SUFFICES ASSUME k = 1 PROVE FALSE
      OBVIOUS
    <3>1. v = SubSeq(w, 1, 0)
      BY <1>3, <2>1
    <3> QED BY <1>4, <1>7, <3>1
  <2>3. k - 2 \in Nat /\ k = (k - 2) + 2
    BY <2>1, <2>2
  <2> QED BY <2>1, <2>3
<1>8. ASSUME NEW m \in Nat, Len(w) = m + 2
      PROVE  /\ Logged(v) /\ v \in Seq(Keys) /\ Len(v) = m + 1 /\ Way(v)
             /\ v[m + 1] \in Keys /\ Dumped \in Kids(v[m + 1])
  <2>1. /\ Logged(v) /\ v \in Seq(Keys) /\ Len(v) = m + 1
        /\ w[m + 2] \in Kids(v[m + 1])
    BY <1>3, <1>4, <1>8, LoggedOut
  <2>2. Dumped = w[m + 2]
    BY <1>3, <1>8 DEF Dumped
  <2>3. Len(w) > 1 /\ m + 1 \in 1..(m + 1)
    BY <1>8
  <2>4. Way(v)
    BY <1>3, <1>4, <2>3, WayOut
  <2> QED BY <2>1, <2>2, <2>3, <2>4
<1>9. CASE v # <<>> /\ s # NIL /\ boot' = [boot EXCEPT !.stage = "open", !.walk = Append(v, s)]
  <2>1. PICK m \in Nat : Len(w) = m + 2
    BY <1>7, <1>9
  <2>2. s \in Kids(v[m + 1])
    BY <1>3, <1>8, <1>9, <2>1, KidSibling DEF Inv, Typed
  <2>3. s \in Keys
    BY <1>8, <2>1, <2>2, KidsTypes, NullFacts DEF NamedKeys, Inv, Typed
  <2>4. PICK a : a = Append(v, s)
    OBVIOUS
  <2>5. Logged(a) /\ a \in Seq(Keys)
    BY <1>8, <2>1, <2>2, <2>3, <2>4, LoggedDown, AppendFacts DEF Inv, Typed, Reached
  <2>6. boot'.stage = "open" /\ boot'.walk = a
    BY <1>4, <1>9, <2>4 DEF Boots
  <2>7. Logged(a)'
    BY <1>1, <2>5, LoggedSame DEF Inv, Typed, Reached
  <2>8. Loading' /\ Dumping'
    BY <2>6, <2>7 DEF Loading, Dumping, Logged, Along
  <2> QED BY <1>1, <1>2, <2>8, StartReached
<1>10. CASE v # <<>> /\ s = NIL /\ boot' = [boot EXCEPT !.walk = v]
  <2>1. Logged(v) /\ v \in Seq(Keys)
    BY <1>7, <1>8, <1>10
  <2>2. boot'.stage = "close" /\ boot'.walk = v
    BY <1>1, <1>4, <1>10 DEF Boots
  <2>3. Logged(v)'
    BY <1>1, <2>1, LoggedSame DEF Inv, Typed, Reached
  <2>4. Loading' /\ Dumping'
    BY <2>2, <2>3 DEF Loading, Dumping, Logged, Along
  <2> QED BY <1>1, <1>2, <2>4, StartReached
<1> QED BY <1>5, <1>6, <1>9, <1>10

Starting == Empty /\ known = {} /\ cache = <<>> /\ boot = Booting /\ pc = Fresh.pc

LEMMA EmptyReached == Starting => Reached
<1> SUFFICES ASSUME Starting PROVE Reached
  OBVIOUS
<1> USE DEF Starting
<1>1. Sound
  BY DEF Empty
<1>2. Held
  <2>1. 1..Len(cache) = {}
    OBVIOUS
  <2> QED BY <2>1 DEF Held
<1>3. Loading /\ Dumping
  BY BootingFacts DEF Loading, Dumping
<1>4. \A t \in Threads : pc[t] = "idle"
  BY Idles
<1>5. \A t \in Threads : Calling(t)
  BY <1>4 DEF Calling
<1> QED BY <1>1, <1>2, <1>3, <1>5 DEF Reached

LEMMA InitReached == Init => Reached
<1> SUFFICES ASSUME Init PROVE Reached
  OBVIOUS
<1>1. Bare
  BY Idles DEF Init, Bare
<1> QED BY <1>1, BareEmpty, EmptyReached DEF Init, Starting

LEMMA RestartReached ==
  ASSUME Restart
  PROVE  Reached'
<1>1. Empty'
  BY BareEmptyNext DEF Restart
<1>2. Starting'
  BY <1>1 DEF Restart, Starting, Booting, Fresh
<1>3. Starting' => Reached'
  BY EmptyReached, PTL
<1> QED BY <1>2, <1>3

LEMMA NextReached ==
  OneThread /\ ~DeleteCached /\ Inv /\ Opens /\ Inv' /\ Reached /\ [Next]_vars => Reached'
<1> SUFFICES ASSUME OneThread, ~DeleteCached, Inv, Opens, Inv', Reached, [Next]_vars
             PROVE  Reached'
  OBVIOUS
<1>1. ASSUME NEW t \in Threads, NEW op \in {"create", "open"}, NEW sub \in Subs,
             \/ \E root \in {"HKLM", "HKCU"} : OpenUnderRoot(t, op, root, sub)
             \/ \E h \in known : OpenUnderHandle(t, op, h, sub)
      PROVE  Reached'
  BY <1>1, OpensReached
<1>2. ASSUME NEW t \in Threads, NEW h \in known,
             \E v \in Values : \/ DeleteValueW(t, h, v)
                               \/ \E d \in Data : SetValueExW(t, h, v, d)
      PROVE  Reached'
  <2>1. PICK v \in Values : \/ DeleteValueW(t, h, v)
                            \/ \E d \in Data : SetValueExW(t, h, v, d)
    BY <1>2
  <2> QED BY <2>1, ValueReached
<1>3. ASSUME NEW t \in Threads, NEW h \in known, NEW x \in Names, DeleteKeyW(t, h, x)
      PROVE  Reached'
  BY <1>3, DeleteKeyReached
<1>4. ASSUME NEW t \in Threads,
             \/ Navigate(t) \/ CreateKey(t)
             \/ AllocHandle(t) \/ CacheLookup(t) \/ CacheAdd(t)
             \/ SaveBegin(t) \/ WriteKey(t) \/ WriteNext(t) \/ SaveMove(t)
      PROVE  Reached'
  <2>1. Opening(t)
    BY DEF Opens
  <2> QED BY <1>4, <2>1, NavigateReached, CreateKeyReached, AllocHandleReached,
             CacheLookupReached, CacheAddReached, SaveReached
<1>5. CASE \E h \in known : CloseKey(h)
  BY <1>5, CloseKeyReached
<1>6. CASE LoadRoot \/ LoadKey \/ LoadReturn
  BY <1>6, LoadRootReached, LoadKeyReached, LoadReturnReached
<1>7. CASE DumpBegin \/ DumpOpen \/ DumpClose
  BY <1>7, DumpBeginReached, DumpOpenReached, DumpCloseReached
<1>8. CASE Restart
  BY <1>8, RestartReached
<1>9. CASE UNCHANGED vars
  <2>1. UNCHANGED <<tree, handles, boot, pc, arg>>
    BY <1>9 DEF vars
  <2>2. Tree' = Tree
    BY <2>1, SameTree DEF Inv, Typed, Reached
  <2>3. Held'
    BY <2>1, <2>2, HeldSame DEF Reached
  <2>4. \A t \in Threads : Calling(t)'
    BY <2>1, <2>2 DEF Reached, Calling
  <2> QED BY <2>1, <2>3, <2>4, CallReached
<1> QED BY <1>1, <1>2, <1>3, <1>4, <1>5, <1>6, <1>7, <1>8, <1>9 DEF Next

-----------------------------------------------------------------------------
(* The theorems                                                            *)

\* A service that opens keys from one thread, and deletes no key whose path is
\* still in the cache, has only handles that mean the live key at the path
\* they were opened with: whatever is created and deleted, however deep, and
\* with every handle of the cache that an open can be answered with
\* (CacheLookup, register.c:296).  "Keys stay in memory" (register.c:1181).
THEOREM HandlesFind ==
  ASSUME OneThread, ~DeleteCached
  PROVE  Spec => []HandlesResolve
<1>1. Reached => HandlesResolve
  BY DEF Reached, Held, Resolves, HandlesResolve
<1>2. Inv /\ Opens /\ Inv' /\ Reached /\ [Next]_vars => Reached'
  BY NextReached
<1> QED BY <1>1, <1>2, AlwaysInv, InitReached, PTL DEF Spec

NoFreedKey == \A k \in Tree : k[1] \notin free

\* What a search finds is never a freed block: RegDeleteKeyW unlinks the key,
\* wherever in the list of its siblings it is, before it frees it
\* (register.c:1369-1376), and what was below it is leaked and never found.
THEOREM TreeIsLive ==
  ASSUME OneThread, ~DeleteCached
  PROVE  Spec => []NoFreedKey
<1>1. Inv /\ Reached => NoFreedKey
  BY TreeFacts DEF NoFreedKey, Inv, Typed, Reached
<1>2. Inv /\ Opens /\ Inv' /\ Reached /\ [Next]_vars => Reached'
  BY NextReached
<1> QED BY <1>1, <1>2, AlwaysInv, InitReached, PTL DEF Spec
==============================================================================
