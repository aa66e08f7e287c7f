------------------------- MODULE RegistryFile_proofs -------------------------
(* The emulated registry and its file: what a save writes key by key, what *)
(* a start reads back, and that together they are the registry of          *)
(* RegistryStore.                                                          *)
EXTENDS Registry_proofs

-----------------------------------------------------------------------------
(* The keys of a tree, one by one                                          *)

Distinct == \A k, l \in Tree : k[2] = l[2] => k = l

LEMMA LiveFacts ==
  ASSUME Heap, Sound
  PROVE  /\ Root \in Live /\ Live \subseteq Keys
         /\ \A n \in Live : /\ Kids(n) \subseteq Live \ {Root}
                            /\ Kids(n) \subseteq NamedKeys
                            /\ n \notin List(node[n].sib)
         /\ \A k \in Tree : k[1] \in Live
         /\ \A n \in Live : \E k \in Tree : k[1] = n
<1>1. PICK L, W : Shape(L, W)
  BY DEF Sound
<1>2. Tree = Keyed(L, W) /\ Straight(L)
  BY <1>1, TreeLawHolds DEF TreeLaw, Shape
<1>3. \A k \in Tree : k[1] \in L /\ k[1] \in Live
  BY <1>2 DEF Keyed, Live
<1>4. \A n \in Live : \E k \in Tree : k[1] = n
  BY DEF Live
<1>5. ASSUME NEW n \in Live PROVE /\ Kids(n) \subseteq Live \ {Root} /\ n \in Keys
                                  /\ Kids(n) \subseteq NamedKeys
                                  /\ n \notin List(node[n].sib)
  <2>1. PICK k \in Tree : k[1] = n
    BY <1>4
  <2>2. k[1] \in L /\ k[1] \in Keys
    BY <1>3, TreeFacts
  <2>3. ASSUME NEW c \in Kids(n) PROVE c \in Live \ {Root} /\ c \in NamedKeys
    <3>1. PICK l : l = <<c, Append(k[2], node[c].name)>>
      OBVIOUS
    <3>2. l \in Tree /\ l[1] = c /\ c # Root /\ c \in NamedKeys
      BY <2>1, <2>3, <3>1, TreeFacts
    <3> QED BY <3>2 DEF Live
  <2> QED BY <1>2, <2>1, <2>2, <2>3 DEF Straight
<1>6. Root \in Live
  <2>1. <<Root, <<>>>> \in Tree
    BY TreeFacts
  <2> QED BY <2>1 DEF Live
<1> QED BY <1>3, <1>4, <1>5, <1>6

\* A key has one parent.
LEMMA OneAbove ==
  ASSUME Heap, Sound, Distinct, NEW m \in Live, NEW n \in Live,
         NEW c \in Kids(m), c \in Kids(n)
  PROVE  m = n
<1>1. PICK k \in Tree, l \in Tree : k[1] = m /\ l[1] = n
  BY LiveFacts
<1>2. k[2] \in Seq(Names) /\ l[2] \in Seq(Names)
  BY TreeFacts
<1>3. PICK x : x = node[c].name
  OBVIOUS
<1>4. PICK i, j : i = <<c, Append(k[2], x)>> /\ j = <<c, Append(l[2], x)>>
  OBVIOUS
<1>5. i \in Tree /\ j \in Tree /\ c \in NamedKeys
  BY <1>1, <1>3, <1>4, TreeFacts
<1>6. i[1] = c /\ j[1] = c /\ i[2] = Append(k[2], x) /\ j[2] = Append(l[2], x)
  BY <1>4
<1>7. i = j
  BY <1>5, <1>6, TreeFacts
<1>8. Append(k[2], x) = Append(l[2], x)
  BY <1>6, <1>7
<1>9. x \in Names
  BY <1>3, <1>5 DEF NamedKeys
<1>10. k[2] = l[2]
  BY <1>2, <1>8, <1>9, AppendInj
<1> QED BY <1>1, <1>10 DEF Distinct

\* What has the root and the keys below every key of it has all keys.
LEMMA AllFromRoot ==
  ASSUME Heap, Sound, NEW V, Root \in V, \A n \in V : Kids(n) \subseteq V
  PROVE  Live \subseteq V
<1> SUFFICES ASSUME NEW z \in Live, z \notin V PROVE FALSE
  OBVIOUS
<1>1. PICK T : T = {Len(k[2]) : k \in {l \in Tree : l[1] \notin V}}
  OBVIOUS
<1>2. T \in SUBSET Nat
  BY <1>1, TreeFacts
<1>3. T # {}
  <2>1. PICK k \in Tree : k[1] = z
    BY LiveFacts
  <2>2. Len(k[2]) \in T
    BY <1>1, <2>1
  <2> QED BY <2>2
<1>4. PICK d \in T : \A e \in T : d <= e
  BY <1>2, <1>3, LeastNat
<1>5. PICK k \in Tree : k[1] \notin V /\ d = Len(k[2])
  BY <1>1, <1>4
<1>6. PICK l \in Tree : k[1] \in Kids(l[1]) /\ k[2] = Append(l[2], node[k[1]].name)
  BY <1>5, TreeFacts
<1>7. l[1] \notin V
  BY <1>5, <1>6
<1>8. l[2] \in Seq(Names) /\ node[k[1]].name \in Names
  BY <1>6, TreeFacts DEF NamedKeys
<1>9. Len(k[2]) = Len(l[2]) + 1 /\ Len(l[2]) \in Nat
  BY <1>6, <1>8, AppendFacts
<1>10. d <= Len(l[2])
  BY <1>1, <1>4, <1>7
<1> QED BY <1>5, <1>9, <1>10

\* The first key of a list, and the others.
LEMMA FirstOfList ==
  ASSUME Heap, Sound, NEW n \in Live, NEW c \in Kids(n)
  PROVE  /\ c \in List(c) /\ List(c) \ {c} = List(node[c].sib)
         /\ node[c].sib # NIL => node[c].sib \in List(node[c].sib)
<1>1. c \in Live /\ c \in Blocks /\ c \notin List(node[c].sib)
  BY LiveFacts DEF NamedKeys
<1>2. c \in List(c) /\ List(c) = {c} \cup List(node[c].sib)
  BY <1>1, ListStep
<1>3. node[c].sib \in Null
  BY <1>1, LiveFacts, SibNull
<1>4. node[c].sib # NIL => node[c].sib \in List(node[c].sib)
  BY <1>3, ListStep, NullFacts
<1> QED BY <1>1, <1>2, <1>4

-----------------------------------------------------------------------------
(* The file that a save writes, key by key                                 *)

Token(c) == [name |-> node[c].name, vals |-> node[c].vals,
             subs |-> Cardinality(Kids(c))]
Seen(v) == {v[j] : j \in 1..Len(v)}

\* f has the records of the keys v, and key j is below key u[j]: between the
\* two come only keys whose subkeys all come before key j.
Visits(f, v, u) ==
  /\ f \in Seq(Tokens) /\ v \in Seq(Live) /\ u \in Seq(Nat)
  /\ Len(v) = Len(f) /\ Len(u) = Len(f)
  /\ \A i, j \in 1..Len(f) : v[i] = v[j] => i = j
  /\ \A j \in 1..Len(f) : f[j] = Token(v[j])
  /\ f # <<>> => v[1] = Root
  /\ \A j \in 2..Len(f) : u[j] \in 1..(j - 1) /\ v[j] \in Kids(v[u[j]])
  /\ \A j \in 2..Len(f) : \A q \in 1..(j - 1) :
       u[j] < q => \A c \in Kids(v[q]) : \E i \in 1..(j - 1) : c = v[i]

\* The walk w of a save that is m keys below the root, the first n of them
\* written, as the s[1]st, s[2]nd, ...: what is left below each is the rest of
\* the list of siblings, and nothing is left below the keys off the walk.
Walks(w, m, n, v, s) ==
  /\ w \in Seq(Live) /\ Len(w) = m + 1 /\ w[1] = Root
  /\ s \in Seq(Nat) /\ Len(s) = n
  /\ \A i \in 1..n : s[i] \in 1..Len(v) /\ v[s[i]] = w[i]
  /\ \A i, j \in 1..n : i < j => s[i] < s[j]
  /\ \A i \in 1..m : /\ w[i + 1] \in Kids(w[i])
                     /\ Kids(w[i]) \ Seen(v) =
                          IF i + 1 <= n THEN List(node[w[i + 1]].sib) ELSE List(w[i + 1])
  /\ n = m + 1 => Kids(w[m + 1]) \subseteq Seen(v)
  /\ n = 0 => v = <<>>
  /\ \A q \in 1..Len(v) :
       (\A i \in 1..n : s[i] # q) => Kids(v[q]) \subseteq Seen(v)

LEMMA TokenTypes ==
  ASSUME Heap, NEW c \in Keys
  PROVE  Token(c) \in Tokens
<1>1. node[c] \in Nodes /\ Cardinality(Kids(c)) \in Nat
  BY KidsTypes DEF Heap
<1> QED BY <1>1 DEF Token, Tokens, Nodes

LEMMA SeenAppend ==
  ASSUME NEW S, NEW v \in Seq(S), NEW c \in S
  PROVE  Seen(Append(v, c)) = Seen(v) \cup {c}
<1>1. PICK k \in Nat : k = Len(v)
  OBVIOUS
<1>2. PICK a : a = Append(v, c)
  OBVIOUS
<1>3. Len(a) = k + 1 /\ a[k + 1] = c /\ \A i \in 1..k : a[i] = v[i]
  BY <1>1, <1>2, AppendFacts
<1>4. k + 1 \in 1..(k + 1) /\ \A i \in 1..(k + 1) : i = k + 1 \/ i \in 1..k
  OBVIOUS
<1>5. \A i \in 1..k : i \in 1..(k + 1)
  OBVIOUS
<1> QED BY <1>1, <1>2, <1>3, <1>4, <1>5 DEF Seen

\* What is known when a save comes to the key c = w[m + 1].
LEMMA ComesTo ==
  ASSUME Heap, Sound, Distinct, NEW f, NEW v, NEW u, Visits(f, v, u),
         NEW w, NEW m \in Nat, NEW s, Walks(w, m, m, v, s)
  PROVE  /\ w[m + 1] \in Live /\ w[m + 1] \notin Seen(v)
         /\ m = 0 => f = <<>> /\ v = <<>> /\ w[1] = Root
         /\ m # 0 => s[m] \in 1..Len(f) /\ v[s[m]] = w[m] /\ w[m + 1] \in Kids(w[m])
<1>1. w \in Seq(Live) /\ Len(w) = m + 1 /\ w[1] = Root /\ m + 1 \in 1..(m + 1)
  BY DEF Walks
<1>2. w[m + 1] \in Live
  BY <1>1
<1>3. CASE m = 0
  <2>1. v = <<>> /\ Len(v) = Len(f)
    BY <1>3 DEF Walks, Visits
  <2>2. f = <<>> /\ Seen(v) = {}
    BY <2>1 DEF Visits, Seen
  <2> QED BY <1>1, <1>2, <1>3, <2>1, <2>2
<1>4. CASE m # 0
  <2>1. m \in 1..m /\ ~(m + 1 <= m)
    BY <1>4
  <2>2. s[m] \in 1..Len(f) /\ v[s[m]] = w[m] /\ w[m + 1] \in Kids(w[m])
        /\ Kids(w[m]) \ Seen(v) = List(w[m + 1])
    BY <2>1 DEF Walks, Visits
  <2>3. w[m] \in Live
    <3>1. m \in 1..(m + 1)
      BY <2>1
    <3> QED BY <1>1, <3>1
  <2>4. w[m + 1] \in List(w[m + 1])
    BY <2>2, <2>3, FirstOfList
  <2> QED BY <1>2, <1>4, <2>2, <2>4
<1> QED BY <1>3, <1>4

\* The key c = w[m + 1] is written.
LEMMA VisitsOne ==
  ASSUME Heap, Sound, Distinct, NEW f, NEW v, NEW u, Visits(f, v, u),
         NEW w, NEW m \in Nat, NEW s, Walks(w, m, m, v, s),
         NEW c, c = w[m + 1], NEW x \in Nat, m # 0 => x = s[m]
  PROVE  /\ Visits(Append(f, Token(c)), Append(v, c), Append(u, x))
         /\ Kids(c) \cap Seen(Append(v, c)) = {}
<1>1. PICK k \in Nat : k = Len(f)
  BY DEF Visits
<1>2. /\ f \in Seq(Tokens) /\ v \in Seq(Live) /\ u \in Seq(Nat)
      /\ Len(v) = k /\ Len(u) = k
  BY <1>1 DEF Visits
<1>3. c \in Live /\ c \in Keys /\ c \notin Seen(v) /\ Token(c) \in Tokens
  BY ComesTo, LiveFacts, TokenTypes
<1>4. PICK e, F, V, U : /\ e = Token(c) /\ F = Append(f, e) /\ V = Append(v, c)
                        /\ U = Append(u, x)
  OBVIOUS
<1>5. /\ F \in Seq(Tokens) /\ Len(F) = k + 1 /\ F[k + 1] = e
      /\ \A i \in 1..k : F[i] = f[i]
  BY <1>1, <1>2, <1>3, <1>4, AppendFacts
<1>6. /\ V \in Seq(Live) /\ Len(V) = k + 1 /\ V[k + 1] = c
      /\ \A i \in 1..k : V[i] = v[i]
  BY <1>2, <1>3, <1>4, AppendFacts
<1>7. /\ U \in Seq(Nat) /\ Len(U) = k + 1 /\ U[k + 1] = x
      /\ \A i \in 1..k : U[i] = u[i]
  BY <1>2, <1>4, AppendFacts
<1>8. Seen(V) = Seen(v) \cup {c} /\ \A i \in 1..k : v[i] \in Seen(v)
  <2>1. Seen(Append(v, c)) = Seen(v) \cup {c}
    BY <1>2, <1>3, SeenAppend
  <2>2. \A i \in 1..k : v[i] \in Seen(v)
    BY <1>2 DEF Seen
  <2> QED BY <1>4, <2>1, <2>2
<1>9. \A i \in 1..(k + 1) : i = k + 1 \/ i \in 1..k
  OBVIOUS
<1>10. \A i, j \in 1..(k + 1) : V[i] = V[j] => i = j
  <2>1. \A i, j \in 1..k : v[i] = v[j] => i = j
    BY <1>1 DEF Visits
  <2>2. \A i \in 1..k : V[i] # c
    BY <1>3, <1>6, <1>8
  <2> QED BY <1>6, <1>9, <2>1, <2>2
<1>11. \A j \in 1..(k + 1) : F[j] = Token(V[j])
  <2>1. \A j \in 1..k : f[j] = Token(v[j])
    BY <1>1 DEF Visits
  <2> QED BY <1>4, <1>5, <1>6, <1>9, <2>1
<1>12. CASE m = 0
  <2>1. k = 0 /\ c = Root /\ k + 1 = 1
    BY <1>1, <1>12, ComesTo
  <2>2. V[1] = Root /\ \A j \in 2..(k + 1) : FALSE
    BY <1>6, <2>1
  <2>3. Visits(F, V, U)
    BY <1>5, <1>6, <1>7, <1>10, <1>11, <2>2 DEF Visits
  <2>4. Kids(c) \cap Seen(V) = {}
    <3>1. v = <<>>
      BY <1>12, ComesTo
    <3>2. Seen(V) = {Root}
      BY <1>8, <2>1, <3>1 DEF Seen
    <3> QED BY <1>3, <3>2, LiveFacts
  <2> QED BY <1>4, <2>3, <2>4
<1>13. CASE m # 0
  <2>1. x \in 1..k /\ v[x] = w[m] /\ c \in Kids(v[x]) /\ k # 0 /\ x = s[m]
    BY <1>1, <1>13, ComesTo
  <2>2. V[1] = Root
    <3>1. f # <<>> /\ 1 \in 1..k
      BY <1>1, <2>1
    <3> QED BY <1>6, <3>1 DEF Visits
  <2>3. (k + 1) - 1 = k /\ \A j \in 2..(k + 1) : j = k + 1 \/ j \in 2..k
    OBVIOUS
  <2>4. \A j \in 2..k : j \in 1..k /\ \A i \in 1..(j - 1) : i \in 1..k
    OBVIOUS
  <2>5. \A j \in 2..k : u[j] \in 1..(j - 1) /\ v[j] \in Kids(v[u[j]])
    BY <1>1 DEF Visits
  <2>6. \A j \in 2..(k + 1) : U[j] \in 1..(j - 1) /\ V[j] \in Kids(V[U[j]])
    <3>1. ASSUME NEW j \in 2..k PROVE U[j] \in 1..(j - 1) /\ V[j] \in Kids(V[U[j]])
      BY <1>6, <1>7, <2>4, <2>5
    <3>2. U[k + 1] \in 1..((k + 1) - 1) /\ V[k + 1] \in Kids(V[U[k + 1]])
      BY <1>6, <1>7, <2>1, <2>3
    <3> QED BY <2>3, <3>1, <3>2
  <2>7. ASSUME NEW j \in 2..(k + 1), NEW q \in 1..(j - 1), U[j] < q, NEW d \in Kids(V[q])
        PROVE  \E i \in 1..(j - 1) : d = V[i]
    <3>1. CASE j \in 2..k
      <4>1. u[j] < q /\ d \in Kids(v[q])
        BY <1>6, <1>7, <2>4, <2>7, <3>1
      <4>2. \E i \in 1..(j - 1) : d = v[i]
        BY <1>1, <3>1, <4>1 DEF Visits
      <4> QED BY <1>6, <2>4, <3>1, <4>2
    <3>2. CASE j = k + 1
      <4>1. q \in 1..k /\ x < q /\ d \in Kids(v[q])
        BY <1>6, <1>7, <2>3, <2>7, <3>2
      <4>2. \A i \in 1..m : s[i] # q
        <5>1. \A i \in 1..m : i = m \/ i < m
          OBVIOUS
        <5>2. m \in 1..m /\ \A i \in 1..m : s[i] \in Nat /\ (i < m => s[i] < s[m])
          BY <1>13 DEF Walks
        <5> QED BY <2>1, <4>1, <5>1, <5>2
      <4>3. d \in Seen(v)
        BY <1>2, <4>1, <4>2 DEF Walks
      <4> QED BY <1>2, <1>6, <2>3, <3>2, <4>3 DEF Seen
    <3> QED BY <2>3, <3>1, <3>2
  <2>8. Visits(F, V, U)
    <3>1. PICK l \in Nat : l = k + 1
      OBVIOUS
    <3>2. \A j \in 2..l : \A q \in 1..(j - 1) :
            U[j] < q => \A d \in Kids(V[q]) : \E i \in 1..(j - 1) : d = V[i]
      BY <2>7, <3>1
    <3>3. Len(F) = l /\ Len(V) = l /\ Len(U) = l
      BY <1>5, <1>6, <1>7, <3>1
    <3>4. /\ \A i, j \in 1..l : V[i] = V[j] => i = j
          /\ \A j \in 1..l : F[j] = Token(V[j])
          /\ \A j \in 2..l : U[j] \in 1..(j - 1) /\ V[j] \in Kids(V[U[j]])
      BY <1>10, <1>11, <2>6, <3>1
    <3>5. F \in Seq(Tokens) /\ V \in Seq(Live) /\ U \in Seq(Nat)
      BY <1>5, <1>6, <1>7
    <3> QED BY ONLY <2>2, <3>2, <3>3, <3>4, <3>5 DEF Visits
  <2>9. Kids(c) \cap Seen(V) = {}
    <3> SUFFICES ASSUME NEW d \in Kids(c), d \in Seen(V) PROVE FALSE
      OBVIOUS
    <3>1. PICK j \in 1..(k + 1) : d = V[j]
      BY <1>6 DEF Seen
    <3>2. d # Root
      BY <1>3, LiveFacts
    <3>3. j \in 2..(k + 1) /\ \A i \in 1..(j - 1) : i \in 1..k
      BY <2>2, <3>1, <3>2
    <3>4. U[j] \in 1..k /\ d \in Kids(V[U[j]])
      BY <2>6, <3>1, <3>3
    <3>5. V[U[j]] \in Live
      BY <1>2, <1>6, <3>4
    <3>6. V[U[j]] = c
      BY <1>3, <3>4, <3>5, OneAbove
    <3> QED BY <1>6, <1>8, <1>3, <3>4, <3>6
  <2> QED BY <1>4, <2>8, <2>9
<1> QED BY <1>12, <1>13

\* The walk goes on below the key that is written, if there are keys.
LEMMA WalksOne ==
  ASSUME Heap, Sound, Distinct, NEW f, NEW v, NEW u, Visits(f, v, u),
         NEW w, NEW m \in Nat, NEW s, Walks(w, m, m, v, s),
         NEW c, c = w[m + 1], NEW V, V = Append(v, c), Kids(c) \cap Seen(V) = {},
         NEW S, S = Append(s, Len(v) + 1)
  PROVE  /\ node[c].child = NIL => Walks(w, m, m + 1, V, S)
         /\ node[c].child # NIL => Walks(Append(w, node[c].child), m + 1, m + 1, V, S)
<1>1. PICK k \in Nat : k = Len(v)
  BY DEF Visits
<1>2. /\ v \in Seq(Live) /\ Len(v) = k /\ s \in Seq(Nat) /\ Len(s) = m
      /\ w \in Seq(Live) /\ Len(w) = m + 1 /\ w[1] = Root
  BY <1>1 DEF Visits, Walks
<1>3. c \in Live /\ c \in Keys /\ c \notin Seen(v)
  BY ComesTo, LiveFacts
<1>4. /\ V \in Seq(Live) /\ Len(V) = k + 1 /\ V[k + 1] = c
      /\ \A i \in 1..k : V[i] = v[i]
  BY <1>2, <1>3, AppendFacts
<1>5. /\ S \in Seq(Nat) /\ Len(S) = m + 1 /\ S[m + 1] = k + 1
      /\ \A i \in 1..m : S[i] = s[i]
  BY <1>1, <1>2, AppendFacts
<1>6. Seen(V) = Seen(v) \cup {c}
  BY <1>2, <1>3, SeenAppend
<1>7. /\ \A i \in 1..(m + 1) : i = m + 1 \/ i \in 1..m
      /\ \A i \in 1..(k + 1) : i = k + 1 \/ i \in 1..k
      /\ \A i \in 1..m : i \in 1..(m + 1)
  OBVIOUS
<1>8. \A i \in 1..m : s[i] \in 1..k /\ v[s[i]] = w[i]
  BY <1>1 DEF Walks
<1>9. \A i \in 1..(m + 1) : S[i] \in 1..Len(V) /\ V[S[i]] = w[i]
  <2>1. \A i \in 1..m : S[i] \in 1..(k + 1) /\ V[S[i]] = w[i]
    BY <1>4, <1>5, <1>8
  <2>2. S[m + 1] \in 1..(k + 1) /\ V[S[m + 1]] = w[m + 1]
    BY <1>4, <1>5
  <2> QED BY <1>4, <1>7, <2>1, <2>2
<1>10. \A i, j \in 1..(m + 1) : i < j => S[i] < S[j]
  <2>1. \A i, j \in 1..m : i < j => s[i] < s[j]
    BY DEF Walks
  <2>2. \A i \in 1..m : S[i] < S[m + 1]
    BY <1>5, <1>8
  <2>3. \A i, j \in 1..(m + 1) : i < j => i \in 1..m
    OBVIOUS
  <2>4. \A i, j \in 1..m : i < j => S[i] < S[j]
    BY <1>5, <2>1
  <2> QED BY <1>7, <2>2, <2>3, <2>4
<1>11. ASSUME NEW i \in 1..m
       PROVE  w[i + 1] \in Kids(w[i]) /\ Kids(w[i]) \ Seen(V) = List(node[w[i + 1]].sib)
  <2>1. w[i + 1] \in Kids(w[i])
    BY DEF Walks
  <2>2. CASE i = m
    <3>1. Kids(w[m]) \ Seen(v) = List(c) /\ w[m] \in Live /\ c \in Kids(w[m])
      <4>1. ~(m + 1 <= m) /\ m \in 1..m /\ m \in 1..(m + 1)
        BY <2>2
      <4>2. Kids(w[m]) \ Seen(v) = List(w[m + 1])
        BY <4>1 DEF Walks
      <4> QED BY <1>2, <2>1, <2>2, <4>1, <4>2
    <3>2. List(c) \ {c} = List(node[c].sib)
      BY <3>1, FirstOfList
    <3> QED BY <1>6, <2>1, <2>2, <3>1, <3>2
  <2>3. CASE i # m
    <3>1. i + 1 <= m /\ i < m /\ m \in 1..m /\ m # 0
      BY <2>3
    <3>2. Kids(w[i]) \ Seen(v) = List(node[w[i + 1]].sib)
      BY <3>1 DEF Walks
    <3>3. c \notin Kids(w[i])
      <4> SUFFICES ASSUME c \in Kids(w[i]) PROVE FALSE
        OBVIOUS
      <4>1. w[i] \in Live /\ w[m] \in Live
        BY <1>2, <1>7, <3>1
      <4>2. c \in Kids(w[m])
        BY <3>1, ComesTo
      <4>3. w[i] = w[m]
        BY <4>1, <4>2, OneAbove
      <4>4. s[i] = s[m]
        <5>1. \A a, b \in 1..k : v[a] = v[b] => a = b
          BY <1>1 DEF Visits
        <5>2. s[i] \in 1..k /\ s[m] \in 1..k /\ v[s[i]] = v[s[m]]
          BY <1>8, <3>1, <4>3
        <5> QED BY ONLY <5>1, <5>2
      <4>5. s[i] < s[m] /\ s[m] \in Nat
        BY <1>8, <3>1 DEF Walks
      <4> QED BY <4>4, <4>5
    <3> QED BY <1>6, <2>1, <3>2, <3>3
  <2> QED BY <2>2, <2>3
<1>12. ASSUME NEW q \in 1..Len(V), \A i \in 1..(m + 1) : S[i] # q
       PROVE  Kids(V[q]) \subseteq Seen(V)
  <2>1. q # k + 1 /\ m + 1 \in 1..(m + 1)
    BY <1>5, <1>12
  <2>2. q \in 1..k /\ \A i \in 1..m : s[i] # q
    BY <1>4, <1>5, <1>7, <1>12, <2>1
  <2>3. Kids(v[q]) \subseteq Seen(v)
    BY <1>1, <2>2 DEF Walks
  <2> QED BY <1>4, <1>6, <2>2, <2>3
<1>13. PICK l \in Nat : l = m + 1
  OBVIOUS
<1>14. /\ S \in Seq(Nat) /\ Len(S) = l /\ w \in Seq(Live) /\ Len(w) = l /\ w[1] = Root
       /\ \A i \in 1..l : S[i] \in 1..Len(V) /\ V[S[i]] = w[i]
       /\ \A i, j \in 1..l : i < j => S[i] < S[j]
       /\ \A q \in 1..Len(V) : (\A i \in 1..l : S[i] # q) => Kids(V[q]) \subseteq Seen(V)
  BY <1>2, <1>5, <1>9, <1>10, <1>12, <1>13
<1>15. CASE node[c].child = NIL
  <2>1. Kids(w[l]) \subseteq Seen(V)
    BY <1>13, <1>15, ListNil DEF Kids
  <2>2. \A i \in 1..m : /\ w[i + 1] \in Kids(w[i]) /\ i + 1 <= l
                        /\ Kids(w[i]) \ Seen(V) = List(node[w[i + 1]].sib)
    BY <1>11, <1>13
  <2>3. l # 0 /\ l = m + 1
    BY <1>13
  <2>4. Walks(w, m, l, V, S)
    BY ONLY m \in Nat, <1>14, <2>1, <2>2, <2>3 DEF Walks
  <2> QED BY <1>13, <1>15, <2>4
<1>16. CASE node[c].child # NIL
  <2>1. PICK b : b = node[c].child
    OBVIOUS
  <2>2. b \in Blocks
    BY <1>3, <1>16, <2>1, SibNull, NullFacts
  <2>3. b \in Kids(c) /\ Kids(c) = List(b)
    BY <2>1, <2>2, ListStep DEF Kids
  <2>4. b \in Live
    BY <1>3, <2>3, LiveFacts
  <2>5. PICK x : x = Append(w, b)
    OBVIOUS
  <2>6. /\ x \in Seq(Live) /\ Len(x) = l + 1 /\ x[l + 1] = b
        /\ \A i \in 1..l : x[i] = w[i]
    BY <1>14, <2>4, <2>5, AppendFacts
  <2>7. 1 \in 1..l /\ l \in 1..l /\ l # 0 /\ l # l + 1 /\ ~(l + 1 <= l)
        /\ \A i \in 1..l : i = l \/ (i \in 1..m /\ i + 1 \in 1..l /\ i + 1 <= l)
    BY <1>13
  <2>8. x[1] = Root /\ \A i \in 1..l : V[S[i]] = x[i]
    BY <1>14, <2>6, <2>7
  <2>9. ASSUME NEW i \in 1..l
        PROVE  /\ x[i + 1] \in Kids(x[i])
               /\ Kids(x[i]) \ Seen(V) =
                    IF i + 1 <= l THEN List(node[x[i + 1]].sib) ELSE List(x[i + 1])
    <3>1. CASE i = l
      BY <1>13, <2>3, <2>6, <2>7, <3>1
    <3>2. CASE i # l
      <4>1. i \in 1..m /\ i + 1 \in 1..l /\ i + 1 <= l
        BY <2>7, <3>2
      <4>2. x[i] = w[i] /\ x[i + 1] = w[i + 1]
        BY <2>6, <4>1
      <4>3. w[i + 1] \in Kids(w[i]) /\ Kids(w[i]) \ Seen(V) = List(node[w[i + 1]].sib)
        BY <1>11, <4>1
      <4> QED BY <4>1, <4>2, <4>3
    <3> QED BY <3>1, <3>2
  <2>10. Walks(x, l, l, V, S)
    BY ONLY l \in Nat, <1>14, <2>6, <2>7, <2>8, <2>9 DEF Walks
  <2> QED BY <1>13, <1>16, <2>1, <2>5, <2>10
<1> QED BY <1>15, <1>16

\* A key of the walk has nothing left below it: the walk goes on with the next
\* sibling, or one key up.
LEMMA WalksNext ==
  ASSUME Heap, Sound, NEW w, NEW m \in Nat, NEW v, NEW s,
         v \in Seq(Live), Walks(w, m + 1, m + 2, v, s),
         NEW x, x = SubSeq(w, 1, m + 1), NEW r, r = SubSeq(s, 1, m + 1),
         NEW b, b = node[w[m + 2]].sib
  PROVE  /\ b = NIL => Walks(x, m, m + 1, v, r)
         /\ b # NIL => Walks(Append(x, b), m + 1, m + 1, v, r)
<1>1. PICK l \in Nat : l = m + 1
  OBVIOUS
<1>2. l + 1 = m + 2 /\ 1 \in 1..l /\ l \in 1..l /\ l # 0 /\ l + 1 # 0
      /\ \A i \in 1..l : i \in 1..(l + 1) /\ i + 1 \in 1..(l + 1) /\ i + 1 <= l + 1
  BY <1>1
<1>3. w \in Seq(Live) /\ Len(w) = l + 1 /\ s \in Seq(Nat) /\ Len(s) = l + 1 /\ w[1] = Root
  BY <1>1, <1>2 DEF Walks
<1>4. x \in Seq(Live) /\ Len(x) = l /\ \A i \in 1..l : x[i] = w[i]
  BY <1>1, <1>3
<1>5. r \in Seq(Nat) /\ Len(r) = l /\ \A i \in 1..l : r[i] = s[i]
  BY <1>1, <1>3
<1>6. \A i \in 1..(l + 1) : s[i] \in 1..Len(v) /\ v[s[i]] = w[i]
  BY <1>1, <1>2 DEF Walks
<1>7. \A i, j \in 1..(l + 1) : i < j => s[i] < s[j]
  BY <1>1, <1>2 DEF Walks
<1>8. ASSUME NEW i \in 1..l
      PROVE  w[i + 1] \in Kids(w[i]) /\ Kids(w[i]) \ Seen(v) = List(node[w[i + 1]].sib)
  <2>1. i + 1 <= m + 2
    BY <1>1
  <2> QED BY <1>1, <2>1 DEF Walks
<1>9. Kids(w[l + 1]) \subseteq Seen(v)
  <2>1. Kids(w[(m + 1) + 1]) \subseteq Seen(v)
    <3>1. m + 2 = (m + 1) + 1
      OBVIOUS
    <3> QED BY <3>1 DEF Walks
  <2> QED BY <1>1, <2>1
<1>10. ASSUME NEW q \in 1..Len(v), \A i \in 1..l : r[i] # q
       PROVE  Kids(v[q]) \subseteq Seen(v)
  <2>1. CASE s[l + 1] = q
    BY <1>6, <1>9, <2>1
  <2>2. CASE s[l + 1] # q
    <3>1. \A i \in 1..(l + 1) : s[i] # q
      <4>1. \A i \in 1..(l + 1) : i = l + 1 \/ i \in 1..l
        OBVIOUS
      <4> QED BY <1>5, <1>10, <2>2, <4>1
    <3>2. \A i \in 1..(m + 2) : s[i] # q
      BY <1>2, <3>1
    <3> QED BY <3>2 DEF Walks
  <2> QED BY <2>1, <2>2
<1>11. /\ \A i \in 1..l : r[i] \in 1..Len(v) /\ v[r[i]] = x[i]
       /\ \A i, j \in 1..l : i < j => r[i] < r[j]
  BY <1>2, <1>4, <1>5, <1>6, <1>7
<1>12. w[l + 1] \in Kids(w[l]) /\ Kids(w[l]) \ Seen(v) = List(b)
       /\ w[l] \in Live /\ w[l] \in Keys /\ w[l + 1] \in Live
  <2>1. b = node[w[l + 1]].sib
    BY <1>2
  <2>2. w[l] \in Live /\ w[l + 1] \in Live
    BY <1>2, <1>3
  <2> QED BY <1>2, <1>8, <2>1, <2>2, LiveFacts
<1>13. \A i \in 1..l : i = l \/ (i \in 1..m /\ i + 1 \in 1..l /\ i + 1 <= l /\ i \in 1..l)
  BY <1>1
<1>14. CASE b = NIL
  <2>1. Kids(x[l]) \subseteq Seen(v)
    BY <1>2, <1>4, <1>12, <1>14, ListNil
  <2>2. ASSUME NEW i \in 1..m
        PROVE  /\ x[i + 1] \in Kids(x[i]) /\ i + 1 <= l
               /\ Kids(x[i]) \ Seen(v) = List(node[x[i + 1]].sib)
    <3>1. i \in 1..l /\ i + 1 \in 1..l /\ i + 1 <= l
      BY <1>1
    <3>2. x[i] = w[i] /\ x[i + 1] = w[i + 1]
      BY <1>4, <3>1
    <3> QED BY <1>8, <3>1, <3>2
  <2>3. x[1] = Root
    BY <1>2, <1>3, <1>4
  <2>4. Walks(x, m, l, v, r)
    BY ONLY m \in Nat, <1>1, <1>2, <1>4, <1>5, <1>10, <1>11, <2>1, <2>2, <2>3 DEF Walks
  <2> QED BY <1>1, <1>14, <2>4
<1>15. CASE b # NIL
  <2>1. b \in Kids(w[l])
    BY <1>2, <1>12, <1>15, KidSibling
  <2>2. b \in Live
    BY <1>12, <2>1, LiveFacts
  <2>3. PICK y : y = Append(x, b)
    OBVIOUS
  <2>4. /\ y \in Seq(Live) /\ Len(y) = l + 1 /\ y[l + 1] = b
        /\ \A i \in 1..l : y[i] = w[i]
    BY <1>4, <2>2, <2>3, AppendFacts
  <2>5. ASSUME NEW i \in 1..l
        PROVE  /\ y[i + 1] \in Kids(y[i])
               /\ Kids(y[i]) \ Seen(v) =
                    IF i + 1 <= l THEN List(node[y[i + 1]].sib) ELSE List(y[i + 1])
    <3>1. CASE i = l
      <4>1. ~(i + 1 <= l) /\ y[i + 1] = b /\ y[i] = w[l]
        BY <1>2, <2>4, <3>1
      <4> QED BY <1>12, <2>1, <4>1
    <3>2. CASE i # l
      <4>1. i \in 1..l /\ i + 1 \in 1..l /\ i + 1 <= l
        BY <1>13, <3>2
      <4>2. y[i] = w[i] /\ y[i + 1] = w[i + 1]
        BY <2>4, <4>1
      <4> QED BY <1>8, <4>1, <4>2
    <3> QED BY <3>1, <3>2
  <2>6. y[1] = Root /\ l # l + 1 /\ \A i \in 1..l : v[r[i]] = y[i]
    BY <1>2, <1>3, <1>4, <1>11, <2>4
  <2>7. Walks(y, l, l, v, r)
    BY ONLY l \in Nat, <1>2, <1>5, <1>10, <1>11, <2>4, <2>5, <2>6 DEF Walks
  <2> QED BY <1>1, <1>15, <2>3, <2>7
<1> QED BY <1>14, <1>15

\* The records f are the registry C: record j is of the key at path p[j], a
\* key below the one of record u[j], and comes after it and after the keys
\* below the records between the two.
Reads(f, p, u, C) ==
  /\ f \in Seq(Tokens) /\ f # <<>> /\ p \in Seq(Seq(Names)) /\ u \in Seq(Nat)
  /\ Len(p) = Len(f) /\ Len(u) = Len(f)
  /\ p[1] = <<>> /\ f[1].vals = NoValues
  /\ \A i, j \in 1..Len(f) : p[i] = p[j] => i = j
  /\ \A j \in 2..Len(f) : /\ u[j] \in 1..(j - 1) /\ f[j].name \in Names
                          /\ p[j] = Append(p[u[j]], f[j].name)
  /\ \A i \in 1..Len(f) : f[i].subs = Cardinality({j \in 2..Len(f) : u[j] = i})
  /\ \A i, j \in 2..Len(f) : u[j] < u[i] /\ u[i] < j => i < j
  /\ C = {[path |-> p[i], vals |-> f[i].vals] : i \in 1..Len(f)}

Reading(f, C) == \E p, u : Reads(f, p, u, C)

LEMMA SameNumber ==
  ASSUME NEW S, NEW T, IsFiniteSet(S), NEW g \in [S -> T],
         \A a, b \in S : g[a] = g[b] => a = b,
         \A t \in T : \E a \in S : g[a] = t
  PROVE  Cardinality(S) = Cardinality(T)
<1>1. g \in Bijection(S, T)
  BY DEF Bijection, Injection, Surjection, IsInjective
<1>2. ExistsBijection(S, T)
  BY <1>1 DEF ExistsBijection
<1> QED BY <1>2, FS_Bijection

\* A save that has come back to the root has written the tree.
LEMMA SavedReads ==
  ASSUME Heap, Sound, Distinct, node[Root].vals = NoValues,
         NEW f, NEW v, NEW u, Visits(f, v, u), NEW w, NEW s, Walks(w, 0, 1, v, s)
  PROVE  Reading(f, Content)
<1>1. PICK n \in Nat : n = Len(f)
  BY DEF Visits
<1>2. /\ f \in Seq(Tokens) /\ v \in Seq(Live) /\ u \in Seq(Nat)
      /\ Len(f) = n /\ Len(v) = n /\ Len(u) = n
      /\ \A i, j \in 1..n : v[i] = v[j] => i = j
      /\ \A i \in 1..n : f[i] = Token(v[i])
  BY <1>1 DEF Visits
<1>3. \A j \in 2..n : u[j] \in 1..(j - 1) /\ v[j] \in Kids(v[u[j]])
  BY <1>1 DEF Visits
<1>4. s[1] \in 1..n /\ v[s[1]] = Root /\ Kids(Root) \subseteq Seen(v)
  <2>1. 1 \in 1..1 /\ 1 = 0 + 1
    OBVIOUS
  <2>2. w[1] = Root /\ s[1] \in 1..Len(v) /\ v[s[1]] = w[1]
    BY <2>1 DEF Walks
  <2>3. Kids(w[0 + 1]) \subseteq Seen(v)
    BY <2>1 DEF Walks
  <2> QED BY <1>2, <2>2, <2>3
<1>5. f # <<>> /\ v[1] = Root /\ 1 \in 1..n
  <2>1. f # <<>> /\ 1 \in 1..n
    BY <1>2, <1>4
  <2> QED BY <2>1 DEF Visits
<1>6. Seen(v) = Live
  <2>1. Seen(v) \subseteq Live
    BY <1>2 DEF Seen
  <2>2. ASSUME NEW q \in 1..n PROVE Kids(v[q]) \subseteq Seen(v)
    <3>1. CASE s[1] = q
      BY <1>4, <3>1
    <3>2. CASE s[1] # q
      <4>1. \A i \in 1..1 : s[i] # q
        BY <3>2
      <4> QED BY <1>2, <4>1 DEF Walks
    <3> QED BY <3>1, <3>2
  <2>3. Root \in Seen(v) /\ \A c \in Seen(v) : Kids(c) \subseteq Seen(v)
    BY <1>2, <1>5, <2>2 DEF Seen
  <2>4. Live \subseteq Seen(v)
    BY <2>3, AllFromRoot
  <2> QED BY <2>1, <2>4
<1>7. \A j \in 1..n : v[j] \in Live
  BY <1>2
<1>8. \A c \in Live : \E j \in 1..n : c = v[j]
  BY <1>2, <1>6 DEF Seen
<1>9. \A c \in Live : \E k \in Tree : k[1] = c
  BY LiveFacts
<1>10. PICK p : p = [j \in 1..n |-> (CHOOSE k \in Tree : k[1] = v[j])[2]]
  OBVIOUS
<1>11. ASSUME NEW j \in 1..n
       PROVE  \E k \in Tree : k[1] = v[j] /\ k[2] = p[j] /\ p[j] \in Seq(Names)
  <2>1. PICK k : k = CHOOSE l \in Tree : l[1] = v[j]
    OBVIOUS
  <2>2. k \in Tree /\ k[1] = v[j]
    BY <1>7, <1>9, <2>1
  <2> QED BY <1>10, <2>1, <2>2, TreeFacts
<1>12. p \in Seq(Seq(Names)) /\ Len(p) = n
  <2>1. p \in [1..n -> Seq(Names)]
    BY <1>10, <1>11
  <2> QED BY <2>1
<1>13. p[1] = <<>>
  <2>1. PICK k \in Tree : k[1] = Root /\ k[2] = p[1]
    BY <1>5, <1>11
  <2>2. PICK l : l = <<Root, <<>>>>
    OBVIOUS
  <2>3. l \in Tree /\ l[1] = Root /\ l[2] = <<>>
    BY <2>2, TreeFacts
  <2>4. k = l
    BY <2>1, <2>3, TreeFacts
  <2> QED BY <2>1, <2>3, <2>4
<1>14. ASSUME NEW i \in 1..n, NEW j \in 1..n, p[i] = p[j] PROVE i = j
  <2>1. PICK k \in Tree, l \in Tree : /\ k[1] = v[i] /\ k[2] = p[i]
                                      /\ l[1] = v[j] /\ l[2] = p[j]
    BY <1>11
  <2>2. k = l
    BY <1>14, <2>1 DEF Distinct
  <2> QED BY <1>2, <2>1, <2>2
<1>15. \A j \in 2..n : j \in 1..n /\ \A i \in 1..(j - 1) : i \in 1..n
  OBVIOUS
<1>16. ASSUME NEW j \in 2..n
       PROVE  /\ u[j] \in 1..(j - 1) /\ f[j].name \in Names
              /\ p[j] = Append(p[u[j]], f[j].name)
  <2>1. u[j] \in 1..(j - 1) /\ v[j] \in Kids(v[u[j]]) /\ u[j] \in 1..n /\ j \in 1..n
    BY <1>3, <1>15
  <2>2. PICK k \in Tree, l \in Tree : /\ k[1] = v[j] /\ k[2] = p[j]
                                      /\ l[1] = v[u[j]] /\ l[2] = p[u[j]]
    BY <1>11, <2>1
  <2>3. PICK x, m : x = node[v[j]].name /\ m = <<v[j], Append(l[2], x)>>
    OBVIOUS
  <2>4. m \in Tree /\ v[j] \in NamedKeys /\ m[1] = v[j] /\ m[2] = Append(l[2], x)
    BY <2>1, <2>2, <2>3, TreeFacts
  <2>5. k = m
    BY <2>2, <2>4, TreeFacts
  <2>6. f[j].name = x /\ x \in Names
    BY <1>2, <2>1, <2>3, <2>4 DEF Token, NamedKeys
  <2> QED BY <2>1, <2>2, <2>4, <2>5, <2>6
<1>17. ASSUME NEW i \in 1..n
       PROVE  f[i].subs = Cardinality({j \in 2..n : u[j] = i})
  <2>1. PICK S : S = {j \in 2..n : u[j] = i}
    OBVIOUS
  <2>2. PICK g : g = [j \in S |-> v[j]]
    OBVIOUS
  <2>3. IsFiniteSet(S)
    <3>1. IsFiniteSet(2..n) /\ S \in SUBSET (2..n)
      BY <2>1, FS_Interval
    <3> QED BY <3>1, FS_Subset
  <2>4. g \in [S -> Kids(v[i])]
    BY <1>3, <2>1, <2>2
  <2>5. \A a, b \in S : g[a] = g[b] => a = b
    BY <1>2, <1>15, <2>1, <2>2
  <2>6. ASSUME NEW c \in Kids(v[i]) PROVE \E a \in S : g[a] = c
    <3>1. v[i] \in Live /\ c \in Live /\ c # Root
      BY <1>7, LiveFacts
    <3>2. PICK j \in 1..n : c = v[j]
      BY <1>8, <3>1
    <3>3. j \in 2..n
      BY <1>5, <3>1, <3>2
    <3>4. c \in Kids(v[u[j]]) /\ u[j] \in 1..n /\ v[u[j]] \in Live
      BY <1>3, <1>7, <1>15, <3>2, <3>3
    <3>5. v[u[j]] = v[i]
      BY <3>1, <3>4, OneAbove
    <3>6. u[j] = i
      BY <1>2, <3>4, <3>5
    <3> QED BY <2>1, <2>2, <3>2, <3>3, <3>6
  <2>7. Cardinality(S) = Cardinality(Kids(v[i]))
    BY <2>3, <2>4, <2>5, <2>6, SameNumber
  <2> QED BY <1>2, <2>1, <2>7 DEF Token
<1>18. ASSUME NEW i \in 2..n, NEW j \in 2..n, u[j] < u[i], u[i] < j PROVE i < j
  <2>1. u[i] \in 1..(j - 1) /\ v[i] \in Kids(v[u[i]])
    <3>1. u[i] \in Nat /\ u[i] >= 1 /\ v[i] \in Kids(v[u[i]])
      BY <1>3
    <3> QED BY <1>18, <3>1
  <2>5. j \in 2..Len(f) /\ u[i] \in 1..(j - 1) /\ u[j] < u[i]
    BY <1>1, <1>18, <2>1
  <2>2. \E q \in 1..(j - 1) : v[i] = v[q]
    <3>1. \A c \in Kids(v[u[i]]) : \E q \in 1..(j - 1) : c = v[q]
      BY <2>5 DEF Visits
    <3> QED BY <2>1, <3>1
  <2>3. PICK q \in 1..(j - 1) : v[i] = v[q]
    BY <2>2
  <2>4. i = q
    BY <1>2, <1>15, <2>3
  <2> QED BY <2>3, <2>4
<1>19. Content = {[path |-> p[i], vals |-> f[i].vals] : i \in 1..n}
  <2>1. ASSUME NEW i \in 1..n
        PROVE  \E k \in Tree : [path |-> k[2], vals |-> node[k[1]].vals] =
                               [path |-> p[i], vals |-> f[i].vals]
    <3>1. PICK k \in Tree : k[1] = v[i] /\ k[2] = p[i]
      BY <1>11
    <3>2. f[i].vals = node[v[i]].vals
      BY <1>2 DEF Token
    <3> QED BY <3>1, <3>2
  <2>2. ASSUME NEW k \in Tree
        PROVE  \E i \in 1..n : [path |-> k[2], vals |-> node[k[1]].vals] =
                               [path |-> p[i], vals |-> f[i].vals]
    <3>1. k[1] \in Live
      BY LiveFacts
    <3>2. PICK i \in 1..n : k[1] = v[i]
      BY <1>8, <3>1
    <3>3. PICK l \in Tree : l[1] = v[i] /\ l[2] = p[i]
      BY <1>11
    <3>4. k = l
      BY <3>2, <3>3, TreeFacts
    <3>5. f[i].vals = node[v[i]].vals
      BY <1>2 DEF Token
    <3> QED BY <3>2, <3>3, <3>4, <3>5
  <2>3. PICK A, B : /\ A = {[path |-> k[2], vals |-> node[k[1]].vals] : k \in Tree}
                    /\ B = {[path |-> p[i], vals |-> f[i].vals] : i \in 1..n}
    OBVIOUS
  <2>4. A \subseteq B
    BY <2>2, <2>3
  <2>5. B \subseteq A
    BY <2>1, <2>3
  <2> QED BY <2>3, <2>4, <2>5, ContentIs
<1>20. f[1].vals = NoValues
  BY <1>2, <1>5 DEF Token
<1>21. Reads(f, p, u, Content)
  <2>1. Content = {[path |-> p[i], vals |-> f[i].vals] : i \in 1..Len(f)}
    BY <1>2, <1>19
  <2>2. \A i \in 1..Len(f) : f[i].subs = Cardinality({j \in 2..Len(f) : u[j] = i})
    BY <1>2, <1>17
  <2>3. \A j \in 2..Len(f) : /\ u[j] \in 1..(j - 1) /\ f[j].name \in Names
                             /\ p[j] = Append(p[u[j]], f[j].name)
    BY <1>2, <1>16
  <2>4. \A i, j \in 1..Len(f) : p[i] = p[j] => i = j
    BY <1>2, <1>14
  <2>5. \A i, j \in 2..Len(f) : u[j] < u[i] /\ u[i] < j => i < j
    BY <1>2, <1>18
  <2> QED BY ONLY <1>2, <1>5, <1>12, <1>13, <1>20, <2>1, <2>2, <2>3, <2>4, <2>5 DEF Reads
<1> QED BY <1>21 DEF Reading

-----------------------------------------------------------------------------
(* The tree that a start loads, key by key                                 *)

Later(f, u, n, i) == {j \in (n + 1)..Len(f) : u[j] = i}

\* The first n records are loaded, as the keys K.  The stack has the keys of
\* the s[1]st, s[2]nd, ... record, and counts for each the records below it
\* that are still to come; the other keys are complete.
Loads(f, n, stack, p, u, K, s) ==
  /\ n \in 1..Len(f) /\ K \in Seq(Keys) /\ Len(K) = n
  /\ Tree = {<<K[j], p[j]>> : j \in 1..n}
  /\ \A j \in 1..n : node[K[j]].vals = f[j].vals
  /\ s \in Seq(Nat) /\ Len(s) = Len(stack)
  /\ \A i \in 1..Len(s) : /\ s[i] \in 1..n /\ stack[i].key = K[s[i]]
                          /\ stack[i].left = Cardinality(Later(f, u, n, s[i]))
  /\ \A i, j \in 1..Len(s) : i < j => s[i] < s[j]
  /\ \A j \in (n + 1)..Len(f) : u[j] <= n => \E i \in 1..Len(s) : s[i] = u[j]

LEMMA LaterFacts ==
  ASSUME NEW f, NEW u, NEW n \in Nat, NEW i, Len(f) \in Nat
  PROVE  /\ IsFiniteSet(Later(f, u, n, i)) /\ Cardinality(Later(f, u, n, i)) \in Nat
         /\ Cardinality(Later(f, u, n, i)) = 0 <=> Later(f, u, n, i) = {}
         /\ n + 1 <= Len(f) =>
              Later(f, u, n, i) \ {n + 1} = Later(f, u, n + 1, i)
         /\ n + 1 \in Later(f, u, n, i) <=> n + 1 <= Len(f) /\ u[n + 1] = i
<1>1. IsFiniteSet((n + 1)..Len(f)) /\ Later(f, u, n, i) \in SUBSET ((n + 1)..Len(f))
  BY FS_Interval DEF Later
<1>2. IsFiniteSet(Later(f, u, n, i))
  BY <1>1, FS_Subset
<1>3. Cardinality(Later(f, u, n, i)) \in Nat
  BY <1>2, FS_CardinalityType
<1>4. Cardinality(Later(f, u, n, i)) = 0 <=> Later(f, u, n, i) = {}
  BY <1>2, FS_EmptySet
<1>5. n + 1 <= Len(f) => Later(f, u, n, i) \ {n + 1} = Later(f, u, n + 1, i)
  BY DEF Later
<1>6. n + 1 \in Later(f, u, n, i) <=> n + 1 <= Len(f) /\ u[n + 1] = i
  BY DEF Later
<1> QED BY <1>2, <1>3, <1>4, <1>5, <1>6

LEMMA LoadsFirst ==
  ASSUME Tree = {<<Root, <<>>>>}, node[Root].vals = NoValues,
         NEW f, NEW p, NEW u, NEW C, Reads(f, p, u, C),
         NEW stack, stack = <<[key |-> Root, left |-> f[1].subs]>>
  PROVE  \E K, s : Loads(f, 1, stack, p, u, K, s)
<1>1. PICK K, s : K = <<Root>> /\ s = <<1>>
  OBVIOUS
<1>2. PICK N \in Nat : N = Len(f) /\ N # 0 /\ 1 \in 1..N
  <2>1. f \in Seq(Tokens) /\ f # <<>>
    BY DEF Reads
  <2>2. Len(f) \in Nat /\ Len(f) # 0
    BY <2>1
  <2> QED BY <2>2
<1>3. /\ K \in Seq(Keys) /\ Len(K) = 1 /\ K[1] = Root
      /\ s \in Seq(Nat) /\ Len(s) = 1 /\ s[1] = 1
      /\ Len(stack) = 1 /\ stack[1].key = Root /\ stack[1].left = f[1].subs
  BY <1>1, NullFacts
<1>4. 1..1 = {1} /\ 1 + 1 = 2
  OBVIOUS
<1>5. p[1] = <<>> /\ f[1].vals = NoValues /\ f[1].subs = Cardinality(Later(f, u, 1, 1))
  BY <1>2, <1>4 DEF Reads, Later
<1>6. Tree = {<<K[j], p[j]>> : j \in 1..1}
  BY <1>3, <1>4, <1>5
<1>7. \A j \in (1 + 1)..Len(f) : u[j] <= 1 => s[1] = u[j]
  <2>1. \A j \in 2..Len(f) : u[j] \in 1..(j - 1)
    BY DEF Reads
  <2> QED BY <1>2, <1>3, <1>4, <2>1
<1>8. Loads(f, 1, stack, p, u, K, s)
  BY <1>2, <1>3, <1>4, <1>5, <1>6, <1>7 DEF Loads
<1> QED BY <1>8

\* Nothing is left to load below the last key of the stack.
LEMMA LoadsReturn ==
  ASSUME NEW f, NEW p, NEW u, NEW C, Reads(f, p, u, C), NEW K, NEW s, NEW n,
         NEW S, NEW stack \in Seq(S), NEW l \in Nat, Len(stack) = l + 1,
         Loads(f, n, stack, p, u, K, s),
         stack[l + 1].left = 0 \/ n + 1 > Len(f)
  PROVE  /\ l = 0 => Content = C
         /\ l # 0 => Loads(f, n, SubSeq(stack, 1, l), p, u, K, SubSeq(s, 1, l))
<1>1. PICK N \in Nat : N = Len(f) /\ n \in 1..N /\ n \in Nat
  <2>1. f \in Seq(Tokens)
    BY DEF Reads
  <2>2. Len(f) \in Nat
    BY <2>1
  <2> QED BY <2>2 DEF Loads
<1>2. /\ Len(s) = l + 1 /\ s \in Seq(Nat) /\ l + 1 \in 1..(l + 1)
      /\ \A i \in 1..(l + 1) : i = l + 1 \/ i \in 1..l
  BY DEF Loads
<1>3. Later(f, u, n, s[l + 1]) = {}
  <2>1. CASE stack[l + 1].left = 0
    <3>1. Cardinality(Later(f, u, n, s[l + 1])) = 0
      BY <1>2, <2>1 DEF Loads
    <3> QED BY <1>1, <3>1, LaterFacts
  <2>2. CASE n + 1 > Len(f)
    <3>1. (n + 1)..Len(f) = {}
      BY <1>1, <2>2
    <3> QED BY <3>1 DEF Later
  <2> QED BY <2>1, <2>2
<1>4. CASE l = 0
  <2>1. n = N
    <3> SUFFICES ASSUME n # N PROVE FALSE
      OBVIOUS
    <3>1. n + 1 \in (n + 1)..N /\ n + 1 \in 2..N /\ (n + 1) - 1 = n /\ n + 1 <= N
      BY <1>1
    <3>2. u[n + 1] \in 1..n
      BY <1>1, <3>1 DEF Reads
    <3>3. u[n + 1] <= n
      BY <1>1, <3>2
    <3>4. \E i \in 1..Len(s) : s[i] = u[n + 1]
      BY <1>1, <3>1, <3>3 DEF Loads
    <3>5. s[l + 1] = u[n + 1]
      BY <1>2, <1>4, <3>4
    <3> QED BY <1>1, <1>3, <3>1, <3>5, LaterFacts
  <2>2. Tree = {<<K[j], p[j]>> : j \in 1..N} /\ \A j \in 1..N : node[K[j]].vals = f[j].vals
    BY <2>1 DEF Loads
  <2>3. C = {[path |-> p[i], vals |-> f[i].vals] : i \in 1..N}
    BY <1>1 DEF Reads
  <2>4. PICK A : A = {[path |-> k[2], vals |-> node[k[1]].vals] : k \in Tree}
    OBVIOUS
  <2>5. A \subseteq C
    <3> SUFFICES ASSUME NEW k \in Tree
                 PROVE  [path |-> k[2], vals |-> node[k[1]].vals] \in C
      BY <2>4
    <3>1. PICK i \in 1..N : k = <<K[i], p[i]>>
      BY <2>2
    <3>2. k[1] = K[i] /\ k[2] = p[i] /\ node[K[i]].vals = f[i].vals
      BY <2>2, <3>1
    <3>3. [path |-> k[2], vals |-> node[k[1]].vals] = [path |-> p[i], vals |-> f[i].vals]
      BY <3>2
    <3> QED BY <2>3, <3>3
  <2>6. ASSUME NEW i \in 1..N PROVE [path |-> p[i], vals |-> f[i].vals] \in A
    <3>1. PICK k : k = <<K[i], p[i]>>
      OBVIOUS
    <3>2. k \in Tree /\ k[1] = K[i] /\ k[2] = p[i]
      BY <2>2, <3>1
    <3> QED BY <2>2, <2>4, <3>2
  <2>7. C \subseteq A
    BY <2>3, <2>6
  <2> QED BY <1>4, <2>4, <2>5, <2>7, ContentIs
<1>5. CASE l # 0
  <2>1. PICK r, q : r = SubSeq(s, 1, l) /\ q = SubSeq(stack, 1, l)
    OBVIOUS
  <2>2. /\ r \in Seq(Nat) /\ Len(r) = l /\ \A i \in 1..l : r[i] = s[i]
        /\ Len(q) = l /\ \A i \in 1..l : q[i] = stack[i]
    BY <1>2, <2>1
  <2>3. \A i \in 1..l : i \in 1..(l + 1)
    OBVIOUS
  <2>4. \A i \in 1..(l + 1) : /\ s[i] \in 1..n /\ stack[i].key = K[s[i]]
                              /\ stack[i].left = Cardinality(Later(f, u, n, s[i]))
    BY <1>2 DEF Loads
  <2>5. \A i, j \in 1..(l + 1) : i < j => s[i] < s[j]
    BY <1>2 DEF Loads
  <2>6. ASSUME NEW j \in (n + 1)..Len(f), u[j] <= n PROVE \E i \in 1..l : r[i] = u[j]
    <3>1. PICK i \in 1..(l + 1) : s[i] = u[j]
      BY <1>2, <2>6 DEF Loads
    <3>2. i # l + 1
      BY <1>3, <2>6, <3>1 DEF Later
    <3>3. i \in 1..l
      BY <1>2, <3>1, <3>2
    <3> QED BY <2>2, <3>1, <3>3
  <2>7. \A i \in 1..l : /\ r[i] \in 1..n /\ q[i].key = K[r[i]]
                        /\ q[i].left = Cardinality(Later(f, u, n, r[i]))
    BY <2>2, <2>3, <2>4
  <2>8. \A i, j \in 1..l : i < j => r[i] < r[j]
    BY <2>2, <2>3, <2>5
  <2>9. Loads(f, n, q, p, u, K, r)
    BY <2>2, <2>6, <2>7, <2>8 DEF Loads
  <2> QED BY <1>5, <2>1, <2>9
<1> QED BY <1>4, <1>5

\* The next record is of a key below the last one of the stack.
Due(f, n, stack, k, p, u, K, s) ==
  /\ n + 1 \in 2..Len(f) /\ u[n + 1] = s[k] /\ s[k] \in 1..n
  /\ f[n + 1].name \in Names /\ p[n + 1] = Append(p[s[k]], f[n + 1].name)
  /\ stack[k].key = K[s[k]] /\ <<K[s[k]], p[s[k]]>> \in Tree
  /\ \A i \in 1..k : i = k \/ (s[i] # s[k] /\ s[i] \in 1..n)

LEMMA LoadsTop ==
  ASSUME NEW f, NEW p, NEW u, NEW C, Reads(f, p, u, C), NEW K, NEW s, NEW n,
         NEW stack, NEW k, k = Len(stack), k \in Nat, k # 0,
         Loads(f, n, stack, p, u, K, s), stack[k].left > 0
  PROVE  Due(f, n, stack, k, p, u, K, s)
<1> PICK l \in Nat : k = l + 1
  <2>1. k - 1 \in Nat /\ k = (k - 1) + 1
    OBVIOUS
  <2> QED BY <2>1
<1>1. PICK N \in Nat : N = Len(f) /\ n \in 1..N /\ n \in Nat
  <2>1. f \in Seq(Tokens)
    BY DEF Reads
  <2>2. Len(f) \in Nat
    BY <2>1
  <2> QED BY <2>2 DEF Loads
<1>2. /\ Len(s) = l + 1 /\ s \in Seq(Nat) /\ l + 1 \in 1..(l + 1)
      /\ \A i \in 1..(l + 1) : i = l + 1 \/ i \in 1..l
      /\ \A i \in 1..l : i < l + 1 /\ i \in 1..(l + 1)
  BY DEF Loads
<1>3. \A i \in 1..(l + 1) : /\ s[i] \in 1..n /\ stack[i].key = K[s[i]]
                            /\ stack[i].left = Cardinality(Later(f, u, n, s[i]))
  BY <1>2 DEF Loads
<1>4. \A i \in 1..l : s[i] < s[l + 1] /\ s[i] \in 1..n
  BY <1>2, <1>3 DEF Loads
<1>5. Later(f, u, n, s[l + 1]) # {}
  <2>1. Cardinality(Later(f, u, n, s[l + 1])) # 0
    BY <1>2, <1>3
  <2>2. Len(f) \in Nat /\ n \in Nat
    BY <1>1
  <2>3. Cardinality(Later(f, u, n, s[l + 1])) = 0 <=> Later(f, u, n, s[l + 1]) = {}
    BY ONLY <2>2, LaterFacts
  <2> QED BY <2>1, <2>3
<1>6. PICK j \in (n + 1)..N : u[j] = s[l + 1]
  BY <1>1, <1>5 DEF Later
<1>7. n + 1 \in 2..N /\ n + 1 \in (n + 1)..N /\ j \in 2..N /\ (n + 1) - 1 = n /\ j >= n + 1
  BY <1>1
<1>8. /\ u[n + 1] \in 1..n /\ f[n + 1].name \in Names
      /\ p[n + 1] = Append(p[u[n + 1]], f[n + 1].name)
  BY <1>1, <1>7 DEF Reads
<1>9. u[n + 1] = s[l + 1]
  <2>1. PICK i \in 1..(l + 1) : s[i] = u[n + 1]
    <3>1. u[n + 1] <= n
      BY <1>1, <1>8
    <3> QED BY <1>1, <1>2, <1>7, <3>1 DEF Loads
  <2>2. CASE i = l + 1
    BY <2>1, <2>2
  <2>3. CASE i \in 1..l
    <3>1. u[n + 1] < u[j] /\ u[j] < n + 1
      <4>1. s[i] < s[l + 1] /\ s[l + 1] \in 1..n
        BY <1>2, <1>3, <1>4, <2>3
      <4> QED BY <1>1, <1>6, <2>1, <4>1
    <3>2. j < n + 1
      BY <1>1, <1>7, <3>1 DEF Reads
    <3> QED BY <1>1, <1>7, <3>2
  <2> QED BY <1>2, <2>1, <2>2, <2>3
<1>10. <<K[s[l + 1]], p[s[l + 1]]>> \in Tree
  BY <1>2, <1>3 DEF Loads
<1>11. \A i \in 1..l : s[i] # s[l + 1] /\ s[i] \in 1..n
  <2>1. s[l + 1] \in 1..n
    BY <1>2, <1>3
  <2> QED BY <1>1, <1>4, <2>1
<1> QED BY <1>1, <1>2, <1>3, <1>7, <1>8, <1>9, <1>10, <1>11 DEF Due

\* It is loaded as the key b.
LEMMA LoadsKey ==
  ASSUME NEW f, NEW p, NEW u, NEW C, Reads(f, p, u, C), NEW K, NEW s, NEW n,
         NEW stack, NEW l \in Nat, Len(stack) = l + 1,
         Loads(f, n, stack, p, u, K, s), stack[l + 1].left > 0,
         NEW b \in Keys, Tree' = Tree \cup {<<b, p[n + 1]>>},
         \A k \in Tree : node'[k[1]].vals = node[k[1]].vals,
         node'[b].vals = f[n + 1].vals,
         NEW x, Len(x) = l + 2, \A i \in 1..l : x[i] = stack[i],
         x[l + 1].key = stack[l + 1].key, x[l + 1].left = stack[l + 1].left - 1,
         x[l + 2].key = b, x[l + 2].left = f[n + 1].subs
  PROVE  Loads(f, n + 1, x, p, u, Append(K, b), Append(s, n + 1))'
<1>1. /\ n + 1 \in 2..Len(f) /\ u[n + 1] = s[l + 1] /\ s[l + 1] \in 1..n
      /\ \A i \in 1..l : s[i] # s[l + 1] /\ s[i] \in 1..n
  <2>1. PICK k \in Nat : k = l + 1 /\ k # 0 /\ k = Len(stack) /\ stack[k].left > 0
    OBVIOUS
  <2>2. /\ n + 1 \in 2..Len(f) /\ u[n + 1] = s[k] /\ s[k] \in 1..n
        /\ \A i \in 1..k : i = k \/ (s[i] # s[k] /\ s[i] \in 1..n)
    <3>1. Due(f, n, stack, k, p, u, K, s)
      BY <2>1, LoadsTop
    <3> QED BY <3>1 DEF Due
  <2>3. \A i \in 1..l : i \in 1..k /\ i # k
    BY <2>1
  <2> QED BY <2>1, <2>2, <2>3
<1>2. PICK N \in Nat, e \in Nat : N = Len(f) /\ n \in 1..N /\ n \in Nat /\ e = n + 1
  <2>1. f \in Seq(Tokens)
    BY DEF Reads
  <2>2. Len(f) \in Nat
    BY <2>1
  <2>3. n \in 1..Len(f)
    BY DEF Loads
  <2> QED BY <2>2, <2>3
<1>3. /\ e \in 2..N /\ e <= N /\ e \in 1..N /\ e \notin 1..n /\ n \in 1..e
      /\ \A i \in 1..e : i = e \/ i \in 1..n
      /\ \A i \in 1..n : i \in 1..e /\ i < e
  BY <1>1, <1>2
<1>4. PICK L, r : L = Append(K, b) /\ r = Append(s, e)
  OBVIOUS
<1>5. K \in Seq(Keys) /\ Len(K) = n /\ s \in Seq(Nat) /\ Len(s) = l + 1
  BY DEF Loads
<1>6. L \in Seq(Keys) /\ Len(L) = e /\ L[e] = b /\ \A i \in 1..n : L[i] = K[i]
  BY <1>2, <1>4, <1>5, AppendFacts
<1>7. /\ r \in Seq(Nat) /\ Len(r) = l + 2 /\ r[l + 2] = e
      /\ \A i \in 1..(l + 1) : r[i] = s[i]
  <2>1. (l + 1) + 1 = l + 2
    OBVIOUS
  <2> QED BY <1>4, <1>5, <2>1, AppendFacts
<1>8. Tree' = {<<L[j], p[j]>> : j \in 1..e}
  <2>1. Tree = {<<K[j], p[j]>> : j \in 1..n}
    BY DEF Loads
  <2>2. {<<L[j], p[j]>> : j \in 1..e} = {<<L[j], p[j]>> : j \in 1..n} \cup {<<L[e], p[e]>>}
    BY <1>3
  <2>3. {<<L[j], p[j]>> : j \in 1..n} = {<<K[j], p[j]>> : j \in 1..n}
    BY <1>6
  <2> QED BY <1>2, <1>6, <2>1, <2>2, <2>3
<1>9. \A j \in 1..e : node'[L[j]].vals = f[j].vals
  <2>1. ASSUME NEW j \in 1..n PROVE node'[L[j]].vals = f[j].vals
    <3>1. PICK k : k = <<K[j], p[j]>>
      OBVIOUS
    <3>2. k \in Tree /\ k[1] = K[j] /\ node[K[j]].vals = f[j].vals
      BY <3>1 DEF Loads
    <3> QED BY <1>6, <3>2
  <2> QED BY <1>2, <1>3, <1>6, <2>1
<1>10. \A i \in 1..(l + 1) : /\ s[i] \in 1..n /\ stack[i].key = K[s[i]]
                             /\ stack[i].left = Cardinality(Later(f, u, n, s[i]))
  BY <1>5 DEF Loads
<1>11. /\ \A i \in 1..(l + 2) : i = l + 2 \/ i = l + 1 \/ i \in 1..l
       /\ \A i \in 1..(l + 2) : i = l + 2 \/ i \in 1..(l + 1)
       /\ \A i \in 1..l : i \in 1..(l + 1)
       /\ l + 1 \in 1..(l + 1) /\ l + 1 # l + 2
       /\ \A i, j \in 1..(l + 2) : i < j => i \in 1..(l + 1)
       /\ \A i \in 1..(l + 1) : i \in 1..(l + 2)
       /\ l + 2 \in 1..(l + 2)
  OBVIOUS
<1>12. ASSUME NEW i \in 1..l
       PROVE  /\ r[i] \in 1..e /\ x[i].key = L[r[i]]
              /\ x[i].left = Cardinality(Later(f, u, e, r[i]))
  <2>1. r[i] = s[i] /\ s[i] \in 1..n /\ x[i] = stack[i] /\ s[i] # s[l + 1]
    BY <1>1, <1>7, <1>11
  <2>2. Later(f, u, n, s[i]) = Later(f, u, e, s[i])
    <3>1. /\ Later(f, u, n, s[i]) \ {e} = Later(f, u, e, s[i])
          /\ e \in Later(f, u, n, s[i]) => u[e] = s[i]
      BY <1>2, <1>3, LaterFacts
    <3> QED BY <1>1, <1>2, <2>1, <3>1
  <2> QED BY <1>3, <1>6, <1>10, <1>11, <2>1, <2>2
<1>13. /\ r[l + 1] \in 1..e /\ x[l + 1].key = L[r[l + 1]]
       /\ x[l + 1].left = Cardinality(Later(f, u, e, r[l + 1]))
  <2>1. r[l + 1] = s[l + 1] /\ s[l + 1] \in 1..n
    BY <1>1, <1>7, <1>11
  <2>2. PICK A, B : A = Later(f, u, n, s[l + 1]) /\ B = Later(f, u, e, s[l + 1])
    OBVIOUS
  <2>3. IsFiniteSet(A) /\ e \in A /\ A \ {e} = B
    BY <1>1, <1>2, <1>3, <2>2, LaterFacts
  <2>4. Cardinality(B) = Cardinality(A) - 1
    BY <2>3, FS_RemoveElement
  <2> QED BY <1>3, <1>6, <1>10, <1>11, <2>1, <2>2, <2>4
<1>14. /\ r[l + 2] \in 1..e /\ x[l + 2].key = L[r[l + 2]]
       /\ x[l + 2].left = Cardinality(Later(f, u, e, r[l + 2]))
  <2>1. f[e].subs = Cardinality({j \in 2..N : u[j] = e})
    <3>1. e \in 1..Len(f)
      BY <1>2, <1>3
    <3>2. f[e].subs = Cardinality({j \in 2..Len(f) : u[j] = e})
      BY <3>1 DEF Reads
    <3> QED BY <1>2, <3>2
  <2>2. {j \in 2..N : u[j] = e} = Later(f, u, e, e)
    <3>1. \A j \in 2..N : u[j] \in 1..(j - 1)
      BY <1>2 DEF Reads
    <3>2. \A j \in 2..N : u[j] = e => j \in (e + 1)..N
      BY <3>1
    <3>3. \A j \in (e + 1)..N : j \in 2..N
      BY <1>2
    <3> QED BY <1>2, <3>2, <3>3 DEF Later
  <2>3. e \in 1..e
    BY <1>2
  <2> QED BY <1>2, <1>6, <1>7, <2>1, <2>2, <2>3
<1>15. \A i, j \in 1..(l + 2) : i < j => r[i] < r[j]
  <2>1. \A i, j \in 1..(l + 1) : i < j => s[i] < s[j]
    BY <1>5 DEF Loads
  <2>2. \A i \in 1..(l + 1) : r[i] < r[l + 2]
    BY <1>2, <1>7, <1>10
  <2>3. \A i, j \in 1..(l + 1) : i < j => r[i] < r[j]
    BY <1>7, <2>1
  <2> QED BY <1>11, <2>2, <2>3
<1>16. ASSUME NEW j \in (e + 1)..N, u[j] <= e PROVE \E i \in 1..(l + 2) : r[i] = u[j]
  <2>1. CASE u[j] = e
    BY <1>7, <1>11, <2>1
  <2>2. CASE u[j] # e
    <3>1. j \in (n + 1)..N /\ u[j] \in Nat /\ j \in 2..N
      <4>1. j \in 2..N /\ j \in (n + 1)..N
        BY <1>2
      <4>2. u[j] \in 1..(j - 1)
        BY <1>2, <4>1 DEF Reads
      <4> QED BY <4>1, <4>2
    <3>2. u[j] <= n
      BY <1>2, <1>16, <2>2, <3>1
    <3>3. PICK i \in 1..(l + 1) : s[i] = u[j]
      BY <1>2, <1>5, <3>1, <3>2 DEF Loads
    <3> QED BY <1>7, <1>11, <3>3
  <2> QED BY <2>1, <2>2
<1>17. \A i \in 1..(l + 2) : /\ r[i] \in 1..e /\ x[i].key = L[r[i]]
                             /\ x[i].left = Cardinality(Later(f, u, e, r[i]))
  BY <1>11, <1>12, <1>13, <1>14
<1>18. Loads(f, e, x, p, u, L, r)'
  BY ONLY <1>2, <1>3, <1>6, <1>7, <1>8, <1>9, <1>15, <1>16, <1>17, Len(x) = l + 2 DEF Loads, Later
<1> QED BY <1>2, <1>4, <1>18

-----------------------------------------------------------------------------
(* A save, from its first key to its last                                  *)

\* A save that has written f is at the last key of w, which it writes next
\* ("write") or has written with all keys below it ("next").
Saves(f, w, at) ==
  \E m \in Nat : \E v, u, s :
    /\ Visits(f, v, u)
    /\ (at = "write" /\ Walks(w, m, m, v, s)) \/ (at = "next" /\ Walks(w, m, m + 1, v, s))

LEMMA SavesFirst ==
  ASSUME Heap, Sound
  PROVE  Saves(<<>>, <<Root>>, "write")
<1>1. PICK v, w : v = <<>> /\ w = <<Root>>
  OBVIOUS
<1>2. /\ v \in Seq(Tokens) /\ v \in Seq(Live) /\ v \in Seq(Nat) /\ Len(v) = 0
      /\ 1..0 = {} /\ 2..0 = {}
  BY <1>1
<1>3. Visits(v, v, v)
  BY <1>1, <1>2 DEF Visits
<1>4. w \in Seq(Live) /\ Len(w) = 1 /\ w[1] = Root
  BY <1>1, LiveFacts
<1>5. Walks(w, 0, 0, v, v)
  BY <1>1, <1>2, <1>4 DEF Walks
<1> QED BY <1>1, <1>3, <1>5 DEF Saves

LEMMA SavesIs ==
  ASSUME NEW f, NEW w, NEW at, Saves(f, w, at)
  PROVE  \E m, v, u, s :
           /\ m \in Nat /\ Visits(f, v, u)
           /\ (at = "write" /\ Walks(w, m, m, v, s)) \/ (at = "next" /\ Walks(w, m, m + 1, v, s))
BY DEF Saves

LEMMA SavesKey ==
  ASSUME Heap, Sound, Distinct, NEW f, NEW w, Saves(f, w, "write"),
         NEW c, c = w[Len(w)], NEW b, b = node[c].child
  PROVE  /\ b # NIL => Saves(Append(f, Token(c)), Append(w, b), "write")
         /\ b = NIL => Saves(Append(f, Token(c)), w, "next")
<1>1. PICK m, v, u, s : m \in Nat /\ Visits(f, v, u) /\ Walks(w, m, m, v, s)
  BY SavesIs
<1>2. c = w[m + 1]
  BY <1>1 DEF Walks
<1>3. PICK x \in Nat : m # 0 => x = s[m]
  <2>1. CASE m = 0
    BY <2>1
  <2>2. CASE m # 0
    <3>1. s \in Seq(Nat) /\ Len(s) = m /\ m \in 1..m
      BY <1>1, <2>2 DEF Walks
    <3>2. s[m] \in Nat
      BY <3>1
    <3> QED BY <3>2
  <2> QED BY <2>1, <2>2
<1>4. PICK F, V, U, S : /\ F = Append(f, Token(c)) /\ V = Append(v, c)
                        /\ U = Append(u, x) /\ S = Append(s, Len(v) + 1)
  OBVIOUS
<1>5. Visits(F, V, U) /\ Kids(c) \cap Seen(V) = {}
  <2>1. /\ Visits(Append(f, Token(c)), Append(v, c), Append(u, x))
        /\ Kids(c) \cap Seen(Append(v, c)) = {}
    BY <1>1, <1>2, <1>3, VisitsOne
  <2> QED BY <1>4, <2>1
<1>6. /\ b = NIL => Walks(w, m, m + 1, V, S)
      /\ b # NIL => Walks(Append(w, b), m + 1, m + 1, V, S)
  BY <1>1, <1>2, <1>4, <1>5, WalksOne
<1>8. CASE b = NIL
  BY <1>1, <1>4, <1>5, <1>6, <1>8 DEF Saves
<1>9. CASE b # NIL
  <2>1. PICK W, l : W = Append(w, b) /\ l = m + 1
    OBVIOUS
  <2>2. l \in Nat
    BY <1>1, <2>1
  <2>3. Walks(W, l, l, V, S)
    BY <1>6, <1>9, <2>1
  <2>4. Saves(F, W, "write")
    BY <1>5, <2>2, <2>3 DEF Saves
  <2> QED BY <1>4, <1>9, <2>1, <2>4
<1> QED BY <1>8, <1>9

LEMMA SavesNext ==
  ASSUME Heap, Sound, NEW f, NEW w, Saves(f, w, "next"), Len(w) > 1,
         NEW x, x = SubSeq(w, 1, Len(w) - 1), NEW b, b = node[w[Len(w)]].sib
  PROVE  /\ b # NIL => Saves(f, Append(x, b), "write")
         /\ b = NIL => Saves(f, x, "next")
<1>1. PICK m, v, u, s : m \in Nat /\ Visits(f, v, u) /\ Walks(w, m, m + 1, v, s)
  BY SavesIs
<1>2. Len(w) = m + 1 /\ v \in Seq(Live)
  BY <1>1 DEF Walks, Visits
<1>3. PICK l \in Nat : m = l + 1
  <2>1. m - 1 \in Nat /\ m = (m - 1) + 1
    BY <1>1, <1>2
  <2> QED BY <2>1
<1>4. PICK r : r = SubSeq(s, 1, l + 1)
  OBVIOUS
<1>5. x = SubSeq(w, 1, l + 1) /\ b = node[w[l + 2]].sib /\ Walks(w, l + 1, l + 2, v, s)
  <2>1. m + 1 = l + 2 /\ Len(w) - 1 = l + 1 /\ Len(w) = l + 2
    BY <1>2, <1>3
  <2> QED BY <1>1, <1>3, <2>1
<1>6. /\ b = NIL => Walks(x, l, l + 1, v, r)
      /\ b # NIL => Walks(Append(x, b), l + 1, l + 1, v, r)
  BY <1>2, <1>4, <1>5, WalksNext
<1>7. CASE b = NIL
  BY <1>1, <1>6, <1>7 DEF Saves
<1>8. CASE b # NIL
  <2>1. PICK W : W = Append(x, b)
    OBVIOUS
  <2>2. Walks(W, m, m, v, r)
    BY <1>3, <1>6, <1>8, <2>1
  <2>3. Saves(f, W, "write")
    BY <1>1, <2>2 DEF Saves
  <2> QED BY <1>8, <2>1, <2>3
<1> QED BY <1>7, <1>8

LEMMA SavesLast ==
  ASSUME Heap, Sound, Distinct, node[Root].vals = NoValues,
         NEW f, NEW w, Saves(f, w, "next"), Len(w) = 1
  PROVE  Reading(f, Content)
<1>1. PICK m, v, u, s : m \in Nat /\ Visits(f, v, u) /\ Walks(w, m, m + 1, v, s)
  BY SavesIs
<1>2. m = 0
  <2>1. Len(w) = m + 1
    BY <1>1 DEF Walks
  <2> QED BY <1>1, <2>1
<1>3. Walks(w, 0, 1, v, s)
  BY <1>1, <1>2
<1> QED BY <1>1, <1>3, SavedReads

LEMMA SavesSame ==
  ASSUME Heap, Sound, UNCHANGED tree, NEW f, NEW w, NEW k, Saves(f, w, k)
  PROVE  Saves(f, w, k)'
<1>1. node' = node /\ Tree' = Tree
  BY SameTree DEF tree
<1>2. Live' = Live
  BY <1>1 DEF Live
<1>3. \A b : List(b)' = List(b)
  BY <1>1 DEF List
<1>4. \A b : Kids(b)' = Kids(b)
  BY <1>1, <1>3 DEF Kids
<1>5. \A b : Token(b)' = Token(b)
  BY <1>1, <1>4 DEF Token
<1>6. ASSUME NEW v, NEW u PROVE Visits(f, v, u)' <=> Visits(f, v, u)
  BY <1>2, <1>4, <1>5 DEF Visits
<1>7. ASSUME NEW v, NEW s, NEW m, NEW n PROVE Walks(w, m, n, v, s)' <=> Walks(w, m, n, v, s)
  BY <1>1, <1>2, <1>3, <1>4 DEF Walks, Seen
<1> QED BY <1>6, <1>7 DEF Saves

-----------------------------------------------------------------------------
(* Memory and file                                                         *)

BareImage == {[path |-> <<>>, vals |-> NoValues]}

\* The file is the registry that was saved last.
Filed == (file = Absent /\ saved = BareImage) \/ Reading(file, saved)

\* A start brings it back.
Starts ==
  /\ boot.stage = "root" => Tree = {<<Root, <<>>>>}
  /\ boot.stage = "load" =>
       \E n, p, u, K, s : /\ boot.at = n + 1 /\ Reads(file, p, u, saved)
                          /\ Loads(file, n, boot.stack, p, u, K, s)
  /\ boot.stage \in {"dump", "open", "close"} => Content = saved
  /\ boot.stage \in {"root", "load", "dump"} => known = {}

\* No handle is on the root, no value is set there.
RootAlone == boot.stage = "done" => \A h \in known : table[h].path # <<>>

\* A thread that has changed nothing since its last save.
Quiet(t) ==
  pc[t] = "idle" \/ (pc[t] \in {"navigate", "lookup", "add"} /\ arg[t].op = "open")
Settled ==
  boot.stage = "done" /\ clean /\ (\A t \in Threads : Quiet(t)) => saved = Content

Works(t) ==
  /\ arg[t].full = FALSE
  /\ pc[t] \in {"navigate", "create", "lookup", "add"} => arg[t].path # <<>>
  /\ pc[t] = "create" => /\ arg[t].op = "create"
                         /\ \A c \in Kids(arg[t].key) : node[c].name # Head(arg[t].rest)
  /\ pc[t] \in {"write", "next"} => Saves(tmp, arg[t].walk, pc[t])

Stored ==
  /\ Distinct /\ node[Root].vals = NoValues
  /\ Filed /\ Starts /\ RootAlone /\ Settled /\ \A t \in Threads : Works(t)

\* A step of a thread that does not change the tree.
LEMMA CallStored ==
  ASSUME Inv, Reached, Stored, UNCHANGED <<tree, boot>>, boot.stage = "done",
         Filed', RootAlone', Settled', \A t \in Threads : Works(t)'
  PROVE  Stored'
<1>1. Tree' = Tree /\ node' = node
  BY SameTree DEF Inv, Typed, Reached, tree
<1>2. Distinct' /\ (node[Root].vals = NoValues)'
  BY <1>1 DEF Stored, Distinct, NoValues
<1>3. Starts'
  BY DEF Starts
<1> QED BY <1>2, <1>3 DEF Stored

LEMMA ReadingSame == \A f, C : Reading(f, C) => Reading(f, C)'
BY DEF Reading, Reads, NoValues

LEMMA FiledSame ==
  ASSUME Filed, UNCHANGED <<file, saved>>
  PROVE  Filed'
<1>1. PICK f, C : f = file /\ C = saved
  OBVIOUS
<1>2. Reading(f, C) => Reading(f, C)'
  BY ReadingSame
<1>3. Reading(file, saved)' <=> Reading(f, C)'
  BY <1>1 DEF Reading, Reads, NoValues
<1>4. BareImage' = BareImage
  BY DEF BareImage, NoValues
<1> QED BY <1>1, <1>2, <1>3, <1>4 DEF Filed

LEMMA RootAloneSame ==
  ASSUME RootAlone, UNCHANGED <<boot, table>>, known' \subseteq known
  PROVE  RootAlone'
BY DEF RootAlone

LEMMA OpenStored ==
  ASSUME Inv, Reached, Stored, OneThread, NEW t \in Threads,
         NEW op \in {"create", "open"}, NEW n, NEW r, NEW p, p # <<>>, Running,
         Goto(t, "idle", "navigate"),
         arg' = [arg EXCEPT ![t] = [Idle EXCEPT !.op = op, !.key = n,
                                                !.rest = r, !.path = p]],
         UNCHANGED <<tree, handles, disk, boot, saved, clean>>
  PROVE  Stored'
<1>1. boot.stage = "done" /\ \A u \in Threads : u = t
  BY DEF Running, OneThread
<1>2. pc[t] = "idle" /\ pc'[t] = "navigate"
  BY GotoTypes DEF Inv, Typed, PCs
<1>3. PICK a : a = [Idle EXCEPT !.op = op, !.key = n, !.rest = r, !.path = p]
  OBVIOUS
<1>4. arg'[t] = a
  BY <1>3 DEF Inv, Typed, CallTypes
<1>5. a.full = FALSE /\ a.path = p /\ a.op = op
  BY <1>3 DEF Idle
<1>6. Filed' /\ RootAlone'
  BY FiledSame, RootAloneSame DEF Stored, disk, handles
<1>7. Content' = Content
  BY SameTree DEF Inv, Typed, Reached
<1>8. Quiet(t)
  BY <1>2 DEF Quiet
<1>9. Settled'
  BY <1>1, <1>7, <1>8 DEF Stored, Settled
<1>10. Works(t)'
  BY <1>2, <1>4, <1>5 DEF Works
<1> QED BY <1>1, <1>6, <1>9, <1>10, CallStored

LEMMA OpensStored ==
  ASSUME Inv, Reached, Stored, OneThread, <<>> \notin Subs, NEW t \in Threads,
         NEW op \in {"create", "open"}, NEW sub \in Subs,
         \/ \E root \in {"HKLM", "HKCU"} : OpenUnderRoot(t, op, root, sub)
         \/ \E h \in known : OpenUnderHandle(t, op, h, sub)
  PROVE  Stored'
<1>1. sub \in Seq(Names) /\ sub # <<>>
  BY RegistryAssumption
<1>2. ASSUME NEW root \in {"HKLM", "HKCU"}, OpenUnderRoot(t, op, root, sub)
      PROVE  Stored'
  <2>1. PICK p : p = IF root = "HKLM" THEN Redirect(sub) ELSE sub
    OBVIOUS
  <2>2. Redirect(sub) # <<>>
    <3>1. Tail(sub) \in Seq(Names) /\ <<Software, Wow64Node>> \in Seq(Names)
          /\ Len(<<Software, Wow64Node>>) = 2
      BY <1>1, RegistryAssumption
    <3>2. Len(<<Software, Wow64Node>> \o Tail(sub)) # 0
      BY <3>1
    <3> QED BY <1>1, <3>2 DEF Redirect
  <2>3. p # <<>>
    BY <1>1, <2>1, <2>2
  <2> QED BY <1>2, <2>1, <2>3, OpenStored DEF OpenUnderRoot
<1>3. ASSUME NEW h \in known, OpenUnderHandle(t, op, h, sub)
      PROVE  Stored'
  <2>1. table[h].path \in Seq(Names)
    BY HandleKey DEF Inv, Typed
  <2>2. table[h].path \o sub # <<>>
    <3>1. Len(table[h].path \o sub) = Len(table[h].path) + Len(sub)
          /\ Len(sub) \in Nat /\ Len(sub) # 0 /\ Len(table[h].path) \in Nat
      BY <1>1, <2>1
    <3> QED BY <3>1
  <2> QED BY <1>3, <2>2, OpenStored DEF OpenUnderHandle
<1> QED BY <1>2, <1>3

\* The only thread has work to save.
LEMMA BusySettled ==
  ASSUME NEW t \in Threads, pc'[t] \notin {"idle", "navigate", "lookup", "add"}
  PROVE  Settled'
BY DEF Settled, Quiet

LEMMA NavigateStored ==
  ASSUME Inv, Reached, Stored, OneThread, NEW t \in Threads, Navigate(t)
  PROVE  Stored'
<1>1. /\ pc[t] = "navigate" /\ arg[t].rest # <<>> /\ boot.stage = "done"
      /\ UNCHANGED <<tree, handles, disk, boot, saved, clean>>
  BY BusyDone DEF Navigate, Inv, Typed
<1>2. arg \in [Threads -> Args] /\ pc \in [Threads -> PCs] /\ arg[t] \in Args
  <2>1. arg \in [Threads -> Args] /\ pc \in [Threads -> PCs]
    BY DEF Inv, Typed, CallTypes, PCs
  <2> QED BY <2>1
<1>3. \A u \in Threads : u = t
  BY DEF OneThread
<1>4. Filed' /\ RootAlone' /\ Content' = Content
  BY <1>1, FiledSame, RootAloneSame, SameTree DEF Stored, disk, handles, Inv, Typed, Reached
<1>5. PICK n, x, c : n = arg[t].key /\ x = Head(arg[t].rest) /\ c = Find(node[n].child, x)
  OBVIOUS
<1>6. \/ c # NIL /\ arg' = [arg EXCEPT ![t].key = c, ![t].rest = Tail(@)] /\ pc' = pc
      \/ c = NIL /\ arg[t].op = "create" /\ Goto(t, "navigate", "create") /\ arg' = arg
      \/ arg[t].op = "open" /\ Return(t, "navigate")
  BY <1>5 DEF Navigate
<1>7. arg[t].full = FALSE /\ arg[t].path # <<>>
  BY <1>1 DEF Stored, Works
<1>8. CASE c # NIL /\ arg' = [arg EXCEPT ![t].key = c, ![t].rest = Tail(@)] /\ pc' = pc
  <2>1. arg'[t].full = FALSE /\ arg'[t].path = arg[t].path /\ arg'[t].op = arg[t].op
    BY <1>2, <1>7, <1>8 DEF Args
  <2>2. Works(t)'
    BY <1>1, <1>7, <1>8, <2>1 DEF Works
  <2>3. Settled'
    BY <1>1, <1>3, <1>4, <1>8, <2>1 DEF Stored, Settled, Quiet
  <2> QED BY <1>1, <1>3, <1>4, <2>2, <2>3, CallStored
<1>9. CASE c = NIL /\ arg[t].op = "create" /\ Goto(t, "navigate", "create") /\ arg' = arg
  <2>1. pc'[t] = "create"
    BY <1>2, <1>9 DEF Goto
  <2>2. \A d \in Kids(n) : node[d].name # x
    <3>1. PICK b : b = node[n].child
      OBVIOUS
    <3>2. n \in Keys /\ Heap
      BY <1>1, <1>5 DEF Inv, Typed, CallTypes, Local
    <3>3. b \in NamedKeys \cup {NIL}
      BY <3>1, <3>2 DEF Heap
    <3>4. c = Find(b, x)
      BY <1>5, <3>1
    <3>5. \A d \in List(b) : node[d].name # x
      BY <1>9, <3>2, <3>3, <3>4, FindFacts, NullFacts DEF NamedKeys
    <3> QED BY <3>1, <3>5 DEF Kids
  <2>3. \A d \in Kids(arg[t].key) : node[d].name # Head(arg[t].rest)
    BY <1>5, <2>2
  <2>4. node' = node /\ arg' = arg
    BY <1>1, <1>9 DEF tree
  <2>5. (\A d \in Kids(arg[t].key) : node[d].name # Head(arg[t].rest))'
    BY <2>3, <2>4 DEF Kids, List
  <2>6. Works(t)'
    BY <1>7, <1>9, <2>1, <2>5 DEF Works
  <2> QED BY <1>1, <1>3, <1>4, <2>1, <2>6, BusySettled, CallStored
<1>10. CASE arg[t].op = "open" /\ Return(t, "navigate")
  <2>1. pc'[t] = "idle" /\ arg'[t] = Idle
    BY <1>2, <1>10 DEF Return, Goto
  <2>2. Works(t)'
    BY <2>1 DEF Works, Idle
  <2>3. Settled'
    BY <1>1, <1>3, <1>4, <1>10, <2>1 DEF Stored, Settled, Quiet
  <2> QED BY <1>1, <1>3, <1>4, <2>2, <2>3, CallStored
<1> QED BY <1>6, <1>8, <1>9, <1>10

\* A key is added under a name that its parent has not: the paths stay
\* different.
LEMMA AddDistinct ==
  ASSUME Heap, Sound, Distinct, NEW k \in Tree, NEW x \in Names, NEW b,
         \A c \in Kids(k[1]) : node[c].name # x,
         Tree' = Tree \cup {<<b, Append(k[2], x)>>}
  PROVE  Distinct'
<1>1. PICK z : z = <<b, Append(k[2], x)>>
  OBVIOUS
<1>2. k[2] \in Seq(Names) /\ z[2] = Append(k[2], x) /\ Tree' = Tree \cup {z}
  BY <1>1, TreeFacts
<1>3. ASSUME NEW l \in Tree, l[2] = z[2] PROVE FALSE
  <2>1. l[1] # Root
    <3> SUFFICES ASSUME l[1] = Root PROVE FALSE
      OBVIOUS
    <3>1. PICK r : r = <<Root, <<>>>>
      OBVIOUS
    <3>2. r \in Tree /\ r[1] = Root /\ r[2] = <<>>
      BY <3>1, TreeFacts
    <3>3. l = r
      BY <3>2, TreeFacts
    <3> QED BY <1>2, <1>3, <3>2, <3>3, AppendFacts
  <2>2. PICK m \in Tree : l[1] \in Kids(m[1]) /\ l[2] = Append(m[2], node[l[1]].name)
    BY <2>1, TreeFacts
  <2>3. m[2] \in Seq(Names) /\ node[l[1]].name \in Names
    BY <2>2, TreeFacts DEF NamedKeys
  <2>4. m[2] = k[2] /\ node[l[1]].name = x
    <3>1. PICK q, r, y : q = m[2] /\ r = k[2] /\ y = node[l[1]].name
      OBVIOUS
    <3>2. q \in Seq(Names) /\ r \in Seq(Names) /\ y \in Names /\ Append(q, y) = Append(r, x)
      BY <1>2, <1>3, <2>2, <2>3, <3>1
    <3>3. q = r /\ y = x
      BY ONLY <3>2, x \in Names, AppendInj
    <3> QED BY <3>1, <3>3
  <2>5. m = k
    BY <2>4 DEF Distinct
  <2> QED BY <2>2, <2>4, <2>5
<1> QED BY <1>2, <1>3 DEF Distinct

\* CreateKey in terms of the tree.
LEMMA CreateTree ==
  ASSUME Inv, Inv', Reached, OneThread, NEW t \in Threads, CreateKey(t)
  PROVE  \E k \in Tree : \E b \in free, x \in Names :
           /\ arg[t].key = k[1] /\ arg[t].path = k[2] \o arg[t].rest
           /\ x = Head(arg[t].rest) /\ AddKey(k[1], b, x, NoValues)
           /\ Tree' = Tree \cup {<<b, Append(k[2], x)>>}
           /\ arg' = [arg EXCEPT ![t].key = b, ![t].rest = Tail(@)]
<1>1. pc[t] = "create" /\ arg \in [Threads -> Args] /\ arg[t] \in Args
  BY DEF CreateKey, Goto, Inv, Typed, CallTypes
<1>2. arg[t].rest # <<>> /\ arg[t].rest \in Seq(Names)
  BY <1>1 DEF Inv, Typed, CallTypes, Local, Args
<1>3. PICK b \in free : /\ AddKey(arg[t].key, b, Head(arg[t].rest), NoValues)
                        /\ arg' = [arg EXCEPT ![t].key = b, ![t].rest = Tail(@)]
  BY DEF CreateKey
<1>4. PICK k \in Tree : arg[t].key = k[1] /\ arg[t].path = k[2] \o arg[t].rest
  BY <1>1 DEF Reached, Calling
<1>5. PICK x : x = Head(arg[t].rest)
  OBVIOUS
<1>6. x \in Names /\ NoValues \in Contents
  <2>1. NoValues \in Contents
    BY DEF NoValues, Contents
  <2> QED BY <1>2, <1>5, <2>1
<1>7. AddKey(k[1], b, x, NoValues)
  BY <1>3, <1>4, <1>5
<1>8. Tree' = Tree \cup {<<b, Append(k[2], x)>>}
  BY <1>6, <1>7, AddTree DEF Inv, Typed, Reached
<1> QED BY <1>3, <1>4, <1>5, <1>6, <1>7, <1>8

LEMMA CreateKeyStored ==
  ASSUME Inv, Inv', Reached, Stored, OneThread, NEW t \in Threads, CreateKey(t)
  PROVE  Stored'
<1>1. /\ pc[t] = "create" /\ pc'[t] = "navigate" /\ boot.stage = "done"
      /\ UNCHANGED <<handles, disk, boot, saved, clean>>
      /\ arg \in [Threads -> Args] /\ arg[t] \in Args
  BY BusyDone DEF CreateKey, Goto, Inv, Typed, CallTypes
<1>2. PICK k \in Tree : \E b \in free, x \in Names :
        /\ arg[t].key = k[1] /\ arg[t].path = k[2] \o arg[t].rest
        /\ x = Head(arg[t].rest) /\ AddKey(k[1], b, x, NoValues)
        /\ Tree' = Tree \cup {<<b, Append(k[2], x)>>}
        /\ arg' = [arg EXCEPT ![t].key = b, ![t].rest = Tail(@)]
  BY CreateTree
<1>3. PICK b \in free, x \in Names :
        /\ arg[t].key = k[1]
        /\ x = Head(arg[t].rest) /\ AddKey(k[1], b, x, NoValues)
        /\ Tree' = Tree \cup {<<b, Append(k[2], x)>>}
        /\ arg' = [arg EXCEPT ![t].key = b, ![t].rest = Tail(@)]
  BY <1>2
<1>4. arg[t].op = "create" /\ arg[t].full = FALSE /\ arg[t].path # <<>>
      /\ \A c \in Kids(k[1]) : node[c].name # x
  BY <1>1, <1>3 DEF Stored, Works
<1>5. Distinct'
  BY <1>3, <1>4, AddDistinct DEF Inv, Typed, Reached, Stored
<1>6. node'[Root].vals = NoValues
  <2>1. PICK r : r = <<Root, <<>>>>
    OBVIOUS
  <2>2. r \in Tree /\ r[1] = Root
    BY <2>1, TreeFacts DEF Inv, Typed, Reached
  <2>3. NoValues \in Contents
    BY DEF NoValues, Contents
  <2>4. node'[r[1]].vals = node[r[1]].vals
    BY <1>3, <2>2, <2>3, AddTree DEF Inv, Typed, Reached
  <2> QED BY <2>2, <2>4 DEF Stored
<1>7. arg'[t].full = FALSE /\ arg'[t].path = arg[t].path /\ arg'[t].op = "create"
  BY <1>1, <1>3, <1>4 DEF Args
<1>8. Works(t)'
  BY <1>1, <1>4, <1>7 DEF Works
<1>9. Settled'
  BY <1>1, <1>7 DEF Settled, Quiet
<1>10. Filed' /\ RootAlone' /\ Starts'
  <2>1. Starts'
    BY <1>1 DEF Starts
  <2> QED BY <1>1, <2>1, FiledSame, RootAloneSame DEF Stored, disk, handles
<1>11. \A u \in Threads : Works(u)'
  BY <1>8 DEF OneThread
<1>12. NoValues' = NoValues
  BY DEF NoValues
<1> QED BY <1>5, <1>6, <1>9, <1>10, <1>11, <1>12 DEF Stored

\* The handles of a call that opens a key are on paths below the root.
LEMMA AllocHandleStored ==
  ASSUME Inv, Reached, Stored, OneThread, NEW t \in Threads, AllocHandle(t)
  PROVE  Stored'
<1>1. /\ pc[t] = "navigate" /\ boot.stage = "done"
      /\ UNCHANGED <<tree, disk, boot, saved, clean, known>>
  BY BusyDone DEF AllocHandle, Goto, Inv, Typed
<1>2. /\ pc'[t] = "lookup" /\ arg'[t].path = arg[t].path /\ arg'[t].op = arg[t].op
      /\ arg'[t].full = arg[t].full
  BY DEF AllocHandle, Goto, Inv, Typed, CallTypes, Args
<1>3. \A u \in Threads : u = t
  BY DEF OneThread
<1>4. \A h \in 1..Len(table) : table'[h] = table[h]
  <2>1. arg[t] \in Args /\ arg[t].key \in Keys
    BY <1>1 DEF Inv, Typed, CallTypes, Local
  <2>2. arg[t].path \in Seq(Names)
    BY <2>1 DEF Args
  <2> QED BY <2>1, <2>2, GrowKeeps DEF AllocHandle, Inv, Typed
<1>5. RootAlone'
  <2>1. known \subseteq 1..Len(table)
    BY DEF Inv, Typed, HandleTypes
  <2> QED BY <1>1, <1>4, <2>1 DEF Stored, RootAlone
<1>6. Filed' /\ Content' = Content
  BY <1>1, FiledSame, SameTree DEF Stored, disk, Inv, Typed, Reached
<1>7. Works(t)'
  BY <1>1, <1>2 DEF Stored, Works
<1>8. Settled'
  BY <1>1, <1>2, <1>3, <1>6 DEF Stored, Settled, Quiet
<1> QED BY <1>1, <1>3, <1>5, <1>6, <1>7, <1>8, CallStored

\* The call answers, and has nothing to save if it opened its key.
LEMMA AnswerStored ==
  ASSUME Inv, Reached, Stored, OneThread, NEW t \in Threads, Opening(t),
         NEW from \in {"lookup", "add"}, NEW g, Answer(t, from, g),
         table[g].path # <<>>,
         UNCHANGED <<tree, table, disk, boot, saved, clean>>
  PROVE  Stored'
<1>1. /\ pc[t] = from /\ boot.stage = "done" /\ known' = known \cup {g} /\ arg'[t] = Idle
      /\ pc'[t] = IF arg[t].op = "create" THEN "save" ELSE "idle"
  BY AnswerFacts, BusyDone DEF Inv, Typed, CallTypes
<1>2. \A u \in Threads : u = t
  BY DEF OneThread
<1>3. RootAlone'
  BY <1>1 DEF Stored, RootAlone
<1>4. Filed' /\ Content' = Content
  BY <1>1, FiledSame, SameTree DEF Stored, disk, Inv, Typed, Reached
<1>5. Works(t)'
  BY <1>1 DEF Works, Idle
<1>6. Settled'
  <2>1. CASE arg[t].op = "create"
    BY <1>1, <2>1, BusySettled
  <2>2. CASE arg[t].op = "open"
    BY <1>1, <1>2, <1>4, <2>2 DEF Stored, Settled, Quiet
  <2> QED BY <1>1, <2>1, <2>2 DEF Opening
<1> QED BY <1>1, <1>2, <1>3, <1>4, <1>5, <1>6, CallStored

LEMMA CacheStored ==
  ASSUME Inv, Reached, Stored, OneThread, NEW t \in Threads, Opening(t),
         CacheLookup(t) \/ CacheAdd(t)
  PROVE  Stored'
<1>1. UNCHANGED <<tree, table, disk, boot, saved, clean>> /\ pc[t] \in {"lookup", "add"}
  BY DEF CacheLookup, CacheAdd, Answer, Goto
<1>2. PICK g, p : g = arg[t].h /\ p = arg[t].path
  OBVIOUS
<1>3. table[g].path = p /\ p # <<>>
  BY <1>1, <1>2 DEF Opening, Stored, Works
<1>4. CASE Answer(t, "lookup", g) \/ Answer(t, "add", g)
  BY <1>1, <1>3, <1>4, AnswerStored
<1>5. CASE \E i \in Hits(p) : Answer(t, "lookup", cache[i].h)
  <2>1. PICK i \in 1..Len(cache) : cache[i].path = p /\ Answer(t, "lookup", cache[i].h)
    BY <1>5 DEF Hits
  <2>2. table[cache[i].h].path = p
    BY <2>1 DEF Inv, Cached
  <2> QED BY <1>1, <1>3, <2>1, <2>2, AnswerStored
<1>6. CASE Goto(t, "lookup", "add") /\ UNCHANGED <<known, arg>>
  <2>1. /\ pc[t] = "lookup" /\ pc'[t] = "add" /\ boot.stage = "done" /\ arg' = arg
        /\ \A u \in Threads : u = t
    BY <1>6, BusyDone DEF Goto, Inv, Typed, CallTypes, OneThread
  <2>2. RootAlone' /\ Filed' /\ Content' = Content
    BY <1>1, <1>6, RootAloneSame, FiledSame, SameTree
       DEF Stored, disk, Inv, Typed, Reached
  <2>3. Works(t)'
    BY <2>1 DEF Stored, Works
  <2>4. Settled'
    BY <1>1, <2>1, <2>2 DEF Stored, Settled, Quiet
  <2> QED BY <1>1, <2>1, <2>2, <2>3, <2>4, CallStored
<1> QED BY <1>2, <1>4, <1>5, <1>6 DEF CacheLookup, CacheAdd

LEMMA CloseKeyStored ==
  ASSUME Inv, Reached, Stored, NEW h \in known, CloseKey(h)
  PROVE  Stored'
<1>1. /\ UNCHANGED <<tree, boot, pc, arg, table, cache, disk, saved, clean>>
      /\ known' \subseteq known
  BY DEF CloseKey
<1>2. Tree' = Tree /\ node' = node /\ Content' = Content
  BY <1>1, SameTree DEF Inv, Typed, Reached, tree
<1>3. Distinct' /\ (node[Root].vals = NoValues)'
  BY <1>2 DEF Stored, Distinct, NoValues
<1>4. Filed' /\ RootAlone'
  BY <1>1, FiledSame, RootAloneSame DEF Stored, disk
<1>5. Settled'
  BY <1>1, <1>2 DEF Stored, Settled, Quiet
<1>6. ASSUME NEW u \in Threads PROVE Works(u)'
  <2>1. Works(u)
    BY DEF Stored
  <2>2. arg'[u] = arg[u] /\ pc'[u] = pc[u] /\ tmp' = tmp /\ node' = node /\ arg' = arg
    BY <1>1, <1>2 DEF disk
  <2>3. CASE pc[u] = "create"
    <3>1. \A d \in Kids(arg[u].key) : node[d].name # Head(arg[u].rest)
      BY <2>1, <2>3 DEF Works
    <3>2. (\A d \in Kids(arg[u].key) : node[d].name # Head(arg[u].rest))'
      BY <2>2, <3>1 DEF Kids, List
    <3> QED BY <2>1, <2>2, <2>3, <3>2 DEF Works
  <2>4. CASE pc[u] # "create"
    <3>1. PICK f, w, k : f = tmp /\ w = arg[u].walk /\ k = pc[u]
      OBVIOUS
    <3>2. Saves(f, w, k) => Saves(f, w, k)'
      BY <1>1, SavesSame DEF Inv, Typed, Reached
    <3>3. Saves(tmp, arg[u].walk, pc[u]) => Saves(tmp, arg[u].walk, pc[u])'
      BY <2>2, <3>1, <3>2 DEF Saves
    <3> QED BY <2>1, <2>2, <2>4, <3>3 DEF Works
  <2> QED BY <2>3, <2>4
<1>7. Starts'
  <2>1. boot.stage \notin {"root", "load", "dump"}
    BY DEF Stored, Starts
  <2> QED BY <1>1, <1>2, <2>1 DEF Stored, Starts
<1> QED BY <1>3, <1>4, <1>5, <1>6, <1>7 DEF Stored

\* A call has changed the tree and has it to save.
LEMMA ChangeStored ==
  ASSUME Inv, Reached, Stored, OneThread, NEW t \in Threads, NEW h \in known,
         Call(t, h), UNCHANGED <<handles, disk, boot, arg, saved, clean>>,
         Distinct', node'[Root].vals = node[Root].vals
  PROVE  Stored'
<1>1. pc[t] = "idle" /\ pc'[t] = "save" /\ boot.stage = "done"
  BY DEF Call, Running, Goto, Inv, Typed, CallTypes
<1>2. Filed' /\ RootAlone'
  BY FiledSame, RootAloneSame DEF Stored, disk, handles
<1>3. Starts'
  BY <1>1 DEF Starts
<1>4. Settled'
  BY <1>1, BusySettled
<1>5. arg'[t].full = FALSE
  BY DEF Stored, Works
<1>6. \A u \in Threads : Works(u)'
  BY <1>1, <1>5 DEF OneThread, Works
<1>7. (node[Root].vals = NoValues)'
  BY DEF Stored, NoValues
<1> QED BY <1>2, <1>3, <1>4, <1>6, <1>7 DEF Stored

LEMMA ValueStored ==
  ASSUME Inv, Inv', Reached, Stored, OneThread, NEW t \in Threads, NEW h \in known,
         NEW v \in Values,
         DeleteValueW(t, h, v) \/ \E d \in Data : SetValueExW(t, h, v, d)
  PROVE  Stored'
<1>1. PICK d : node' = [node EXCEPT ![table[h].key].vals[v] = d]
  BY DEF DeleteValueW, SetValueExW
<1>2. UNCHANGED <<free, handles, disk, boot, arg, saved, clean>> /\ Call(t, h)
  BY DEF DeleteValueW, SetValueExW
<1>3. Tree' = Tree
  BY <1>1, <1>2, ValueTree
<1>4. Distinct'
  BY <1>3 DEF Stored, Distinct
<1>5. table[h].key # Root
  <2>1. boot.stage = "done" /\ table[h].path # <<>> /\ <<table[h].key, table[h].path>> \in Tree
    BY <1>2 DEF Call, Running, Stored, RootAlone, Reached, Held, Resolves
  <2>2. PICK k, r : k = <<table[h].key, table[h].path>> /\ r = <<Root, <<>>>>
    OBVIOUS
  <2>3. /\ k \in Tree /\ k[1] = table[h].key /\ k[2] = table[h].path
        /\ r \in Tree /\ r[1] = Root /\ r[2] = <<>>
    BY <2>1, <2>2, TreeFacts DEF Inv, Typed, Reached
  <2> SUFFICES ASSUME table[h].key = Root PROVE FALSE
    OBVIOUS
  <2>4. k = r
    BY <2>3, TreeFacts DEF Inv, Typed, Reached
  <2> QED BY <2>1, <2>3, <2>4
<1>6. node'[Root].vals = node[Root].vals
  <2>1. PICK k \in Keys : k = table[h].key
    BY HandleKey DEF Inv, Typed
  <2>2. node' = [node EXCEPT ![k].vals[v] = d] /\ node \in [Keys -> Nodes] /\ k # Root
    BY <1>1, <1>5, <2>1 DEF Inv, Typed, Heap
  <2>3. node'[Root] = node[Root]
    BY <2>2
  <2> QED BY <2>3
<1> QED BY <1>2, <1>4, <1>6, ChangeStored

LEMMA DeleteKeyStored ==
  ASSUME Inv, Inv', Reached, Stored, OneThread, NEW t \in Threads, NEW h \in known,
         NEW x \in Names, DeleteKeyW(t, h, x)
  PROVE  Stored'
<1>1. PICK k \in Tree : \E c \in Kids(k[1]) :
        /\ k = <<table[h].key, table[h].path>> /\ node[c].name = x
        /\ Unlinks(k[1], c)
  BY DeleteTree
<1>2. /\ Tree' \subseteq Tree /\ \A l \in Tree : node'[l[1]].vals = node[l[1]].vals
  <2>1. PICK c \in Kids(k[1]) : Unlinks(k[1], c)
    BY <1>1
  <2>2. Heap /\ Heap' /\ Sound
    BY DEF Inv, Typed, Reached
  <2> QED BY <2>1, <2>2, UnlinkTree
<1>3. Distinct'
  BY <1>2 DEF Stored, Distinct
<1>4. node'[Root].vals = node[Root].vals
  <2>1. PICK r : r = <<Root, <<>>>>
    OBVIOUS
  <2>2. r \in Tree /\ r[1] = Root
    BY <2>1, TreeFacts DEF Inv, Typed, Reached
  <2>3. node'[r[1]].vals = node[r[1]].vals
    BY <1>2, <2>2
  <2> QED BY <2>2, <2>3
<1>5. Call(t, h) /\ UNCHANGED <<handles, disk, boot, arg, saved, clean>>
  BY DEF DeleteKeyW
<1> QED BY <1>3, <1>4, <1>5, ChangeStored

LEMMA SaveBeginStored ==
  ASSUME Inv, Reached, Stored, OneThread, NEW t \in Threads, SaveBegin(t)
  PROVE  Stored'
<1>1. /\ pc[t] = "save" /\ boot.stage = "done" /\ arg \in [Threads -> Args]
      /\ UNCHANGED <<tree, handles, file, boot, saved>>
  BY BusyDone DEF SaveBegin, Goto, Return, Inv, Typed, CallTypes
<1>2. Filed' /\ RootAlone'
  BY <1>1, FiledSame, RootAloneSame DEF Stored, handles
<1>3. CASE /\ Goto(t, "save", "write") /\ tmp' = <<>>
           /\ arg' = [arg EXCEPT ![t].walk = <<Root>>]
  <2>1. pc'[t] = "write"
    BY <1>3 DEF Goto, Inv, Typed, CallTypes
  <2>2. arg'[t].walk = <<Root>> /\ arg'[t].full = FALSE
    <3>1. arg[t] \in Args /\ arg'[t] = [arg[t] EXCEPT !.walk = <<Root>>]
      BY <1>1, <1>3
    <3> QED BY <3>1 DEF Args, Stored, Works
  <2>3. PICK f, w, k : f = <<>> /\ w = <<Root>> /\ k = "write"
    OBVIOUS
  <2>4. Saves(f, w, k)'
    BY <1>1, <2>3, SavesFirst, SavesSame DEF Inv, Typed, Reached
  <2>5. Saves(tmp, arg[t].walk, pc[t])'
    BY <1>3, <2>1, <2>2, <2>3, <2>4 DEF Saves
  <2>6. Works(t)'
    BY <2>1, <2>2, <2>5 DEF Works
  <2> QED BY <1>1, <1>2, <2>1, <2>6, BusySettled, CallStored DEF OneThread
<1>4. CASE Return(t, "save") /\ clean' = FALSE
  <2>1. pc'[t] = "idle" /\ arg'[t] = Idle
    BY <1>4 DEF Return, Goto, Inv, Typed, CallTypes
  <2>2. Works(t)' /\ Settled'
    BY <1>4, <2>1 DEF Works, Idle, Settled
  <2> QED BY <1>1, <1>2, <2>2, CallStored DEF OneThread
<1> QED BY <1>3, <1>4 DEF SaveBegin

LEMMA WriteKeyStored ==
  ASSUME Inv, Reached, Stored, OneThread, "write" \notin Faults,
         NEW t \in Threads, WriteKey(t)
  PROVE  Stored'
<1>1. /\ pc[t] = "write" /\ boot.stage = "done"
      /\ arg \in [Threads -> Args] /\ arg[t] \in Args
      /\ UNCHANGED <<tree, handles, file, lock, boot, saved, clean>>
  BY BusyDone DEF WriteKey, Goto, Inv, Typed, CallTypes
<1>2. Filed' /\ RootAlone'
  BY <1>1, FiledSame, RootAloneSame DEF Stored, handles
<1>3. PICK f, w, c, b : /\ f = tmp /\ w = arg[t].walk /\ c = w[Len(w)]
                        /\ b = node[c].child
  OBVIOUS
<1>4. Here(t) = c
  BY <1>3 DEF Here
<1>5. arg[t].full = FALSE /\ Saves(f, w, "write")
  BY <1>1, <1>3 DEF Stored, Works
<1>6. /\ pc'[t] = IF b # NIL THEN "write" ELSE "next"
      /\ tmp' = Append(f, Token(c))
      /\ arg' = [arg EXCEPT ![t].full = FALSE,
                            ![t].walk = IF b # NIL THEN Append(@, b) ELSE @]
  BY <1>1, <1>3, <1>4, <1>5 DEF WriteKey, Goto, Token, Inv, Typed, CallTypes
<1>7. arg'[t].full = FALSE /\ arg'[t].walk = IF b # NIL THEN Append(w, b) ELSE w
  BY <1>1, <1>3, <1>6 DEF Args
<1>8. /\ b # NIL => Saves(Append(f, Token(c)), Append(w, b), "write")
      /\ b = NIL => Saves(Append(f, Token(c)), w, "next")
  BY <1>3, <1>5, SavesKey DEF Inv, Typed, Reached, Stored
<1>9. PICK F, W, k : /\ F = tmp' /\ W = arg'[t].walk /\ k = pc'[t]
  OBVIOUS
<1>10. Saves(F, W, k)
  <2>1. CASE b # NIL
    BY <1>6, <1>7, <1>8, <1>9, <2>1
  <2>2. CASE b = NIL
    BY <1>6, <1>7, <1>8, <1>9, <2>2
  <2> QED BY <2>1, <2>2
<1>11. Saves(F, W, k)'
  BY <1>1, <1>10, SavesSame DEF Inv, Typed, Reached
<1>12. Saves(tmp, arg[t].walk, pc[t])'
  BY <1>9, <1>11 DEF Saves
<1>13. Works(t)'
  BY <1>6, <1>7, <1>12 DEF Works
<1>14. Settled'
  BY <1>6, BusySettled
<1> QED BY <1>1, <1>2, <1>13, <1>14, CallStored DEF OneThread

LEMMA WriteNextStored ==
  ASSUME Inv, Reached, Stored, OneThread, NEW t \in Threads, WriteNext(t)
  PROVE  Stored'
<1>1. /\ pc[t] = "next" /\ boot.stage = "done" /\ Len(arg[t].walk) > 1
      /\ arg \in [Threads -> Args] /\ arg[t] \in Args
      /\ UNCHANGED <<tree, handles, disk, boot, saved, clean>>
  BY BusyDone DEF WriteNext, Goto, Inv, Typed, CallTypes
<1>2. Filed' /\ RootAlone'
  BY <1>1, FiledSame, RootAloneSame DEF Stored, handles, disk
<1>3. PICK f, w, x, b : /\ f = tmp /\ w = arg[t].walk /\ x = SubSeq(w, 1, Len(w) - 1)
                        /\ b = node[w[Len(w)]].sib
  OBVIOUS
<1>4. node[Here(t)].sib = b /\ Outside(t) = x
  BY <1>3 DEF Here, Outside
<1>5. arg[t].full = FALSE /\ Saves(f, w, "next")
  BY <1>1, <1>3 DEF Stored, Works
<1>6. /\ pc'[t] = IF b # NIL THEN "write" ELSE "next"
      /\ arg' = [arg EXCEPT ![t].walk = IF b # NIL THEN Append(x, b) ELSE x]
  BY <1>1, <1>3, <1>4 DEF WriteNext, Goto, Inv, Typed, CallTypes
<1>7. arg'[t].full = FALSE /\ arg'[t].walk = IF b # NIL THEN Append(x, b) ELSE x
  BY <1>1, <1>5, <1>6 DEF Args
<1>8. /\ b # NIL => Saves(f, Append(x, b), "write")
      /\ b = NIL => Saves(f, x, "next")
  BY <1>1, <1>3, <1>5, SavesNext DEF Inv, Typed, Reached
<1>9. PICK F, W, k : /\ F = tmp' /\ W = arg'[t].walk /\ k = pc'[t]
  OBVIOUS
<1>10. F = f
  BY <1>1, <1>3, <1>9 DEF disk
<1>11. Saves(F, W, k)
  <2>1. CASE b # NIL
    BY <1>6, <1>7, <1>8, <1>9, <1>10, <2>1
  <2>2. CASE b = NIL
    BY <1>6, <1>7, <1>8, <1>9, <1>10, <2>2
  <2> QED BY <2>1, <2>2
<1>12. Saves(F, W, k)'
  BY <1>1, <1>11, SavesSame DEF Inv, Typed, Reached
<1>13. Saves(tmp, arg[t].walk, pc[t])'
  BY <1>9, <1>12 DEF Saves
<1>14. Works(t)'
  BY <1>6, <1>7, <1>13 DEF Works
<1>15. Settled'
  BY <1>6, BusySettled
<1> QED BY <1>1, <1>2, <1>14, <1>15, CallStored DEF OneThread

LEMMA SaveMoveStored ==
  ASSUME Inv, Reached, Stored, OneThread, NEW t \in Threads, SaveMove(t)
  PROVE  Stored'
<1>1. /\ pc[t] = "next" /\ pc'[t] = "idle" /\ arg'[t] = Idle /\ boot.stage = "done"
      /\ Len(arg[t].walk) = 1 /\ UNCHANGED <<tree, handles, boot>>
  BY BusyDone DEF SaveMove, Return, Goto, Inv, Typed, CallTypes
<1>2. RootAlone' /\ Content' = Content
  BY <1>1, RootAloneSame, SameTree DEF Stored, handles, Inv, Typed, Reached
<1>3. Works(t)'
  BY <1>1 DEF Works, Idle
<1>4. CASE file' = tmp /\ saved' = Content /\ clean' = TRUE
  <2>1. Saves(tmp, arg[t].walk, "next")
    BY <1>1 DEF Stored, Works
  <2>2. Reading(tmp, Content)
    BY <1>1, <2>1, SavesLast DEF Stored, Inv, Typed, Reached
  <2>3. PICK f, C : f = tmp /\ C = Content
    OBVIOUS
  <2>4. Reading(f, C)'
    BY <2>2, <2>3, ReadingSame
  <2>5. file' = f /\ saved' = C
    BY <1>4, <2>3
  <2>8. Reading(file, saved)' <=> Reading(f, C)'
    BY ONLY <2>5 DEF Reading, Reads, NoValues
  <2>9. Reading(file, saved)'
    BY <2>4, <2>8
  <2>6. Filed'
    BY <2>9 DEF Filed
  <2>7. Settled'
    BY <1>2, <1>4 DEF Settled
  <2> QED BY <1>1, <1>2, <1>3, <2>6, <2>7, CallStored DEF OneThread
<1>5. CASE clean' = FALSE /\ UNCHANGED <<file, saved>>
  <2>1. Filed' /\ Settled'
    BY <1>5, FiledSame DEF Stored, Settled
  <2> QED BY <1>1, <1>2, <1>3, <2>1, CallStored DEF OneThread
<1> QED BY <1>4, <1>5 DEF SaveMove

-----------------------------------------------------------------------------
(* The steps of a start and the file                                       *)

LEMMA StartStored ==
  ASSUME Inv, Stored, boot.stage # "done", UNCHANGED <<pc, arg, file, saved>>,
         Distinct', node'[Root].vals = NoValues, Starts',
         boot'.stage = "done" => known' = {} /\ Content' = saved
  PROVE  Stored'
<1>1. \A t \in Threads : pc'[t] = "idle"
  BY Idles DEF Inv, Typed, BootTypes
<1>2. \A t \in Threads : Works(t)'
  BY <1>1 DEF Stored, Works
<1>3. Filed'
  BY FiledSame DEF Stored
<1>4. RootAlone' /\ Settled'
  BY DEF RootAlone, Settled
<1>5. (node[Root].vals = NoValues)'
  BY DEF NoValues
<1> QED BY <1>2, <1>3, <1>4, <1>5 DEF Stored

LEMMA ReadsSame ==
  ASSUME NEW f, NEW p, NEW u, NEW C, Reads(f, p, u, C), file' = f, saved' = C
  PROVE  Reads(file, p, u, saved)'
<1>1. Reads(file, p, u, saved)' <=> Reads(f, p, u, C)'
  BY ONLY file' = f, saved' = C DEF Reads, NoValues
<1>2. Reads(f, p, u, C)'
  BY DEF Reads, NoValues
<1> QED BY <1>1, <1>2

LEMMA LoadsSame ==
  ASSUME NEW f, NEW n, NEW x, NEW p, NEW u, NEW K, NEW s,
         Loads(f, n, x, p, u, K, s), Tree' = Tree, node' = node
  PROVE  Loads(f, n, x, p, u, K, s)'
BY DEF Loads, Later

\* A start goes on loading.
LEMMA LoadStarts ==
  ASSUME NEW f, NEW n, NEW x, NEW p, NEW u, NEW K, NEW s, NEW C,
         Reads(f, p, u, C), Loads(f, n, x, p, u, K, s)',
         file' = f, saved' = C, known' = {},
         boot'.stage = "load", boot'.at = n + 1, boot'.stack = x
  PROVE  Starts'
<1>1. Reads(file, p, u, saved)'
  BY ReadsSame
<1>2. Loads(file, n, boot.stack, p, u, K, s)' <=> Loads(f, n, x, p, u, K, s)'
  BY ONLY file' = f, boot'.stack = x DEF Loads, Later
<1>3. (boot.at = n + 1 /\ Reads(file, p, u, saved)
        /\ Loads(file, n, boot.stack, p, u, K, s))'
  BY <1>1, <1>2
<1>4. (\E m, q, v, L, r : /\ boot.at = m + 1 /\ Reads(file, q, v, saved)
                          /\ Loads(file, m, boot.stack, q, v, L, r))'
  BY <1>3
<1> QED BY <1>4 DEF Starts

\* Without a file, and with one that has only the root in it.
LEMMA BareReads ==
  ASSUME NEW f, NEW C, Reading(f, C), Len(f) = 1
  PROVE  C = BareImage
<1>1. PICK p, u : Reads(f, p, u, C)
  BY DEF Reading
<1>2. 1..Len(f) = {1}
  OBVIOUS
<1>3. C = {[path |-> p[i], vals |-> f[i].vals] : i \in {1}}
  BY <1>1, <1>2 DEF Reads
<1>4. p[1] = <<>> /\ f[1].vals = NoValues
  BY <1>1 DEF Reads
<1> QED BY <1>3, <1>4 DEF BareImage

LEMMA LoadRootStored ==
  ASSUME Inv, Inv', Reached, Stored, LoadRoot
  PROVE  Stored'
<1>1. /\ Tree' = Tree /\ Content' = Content /\ node' = node /\ boot.stage = "root"
      /\ UNCHANGED <<tree, handles, disk, pc, arg, saved>>
  BY SameTree DEF Inv, Typed, Reached, LoadRoot, tree
<1>2. Tree = {<<Root, <<>>>>} /\ known' = {}
  BY <1>1 DEF Stored, Starts, handles
<1>3. Distinct' /\ node'[Root].vals = NoValues
  BY <1>1 DEF Distinct, Stored
<1>4. Content = BareImage
  BY <1>2, ContentIs DEF BareImage, Stored
<1>5. PICK e : e = [key |-> Root, left |-> file[1].subs]
  OBVIOUS
<1>6. PICK x : x = <<e>>
  OBVIOUS
<1>7. CASE file \in {Absent, <<>>} \/ file[1].vals # NoValues
  <2>1. boot'.stage = "dump"
    BY <1>7 DEF LoadRoot, Booting
  <2>2. saved = BareImage
    <3>1. CASE Reading(file, saved)
      <4>1. file # <<>> /\ file[1].vals = NoValues
        BY <3>1 DEF Reading, Reads
      <4>2. file = <<NIL>>
        BY <1>7, <4>1 DEF Absent
      <4>3. Len(file) = 1
        BY <4>2
      <4> QED BY <3>1, <4>3, BareReads
    <3> QED BY <3>1 DEF Stored, Filed
  <2>3. Starts'
    BY <1>1, <1>2, <1>4, <2>1, <2>2 DEF Starts
  <2> QED BY <1>1, <1>3, <2>1, <2>3, StartStored DEF disk
<1>8. CASE ~(file \in {Absent, <<>>} \/ file[1].vals # NoValues)
  <2>1. boot' = [Booting EXCEPT !.stage = "load", !.at = 2, !.stack = x]
    BY <1>5, <1>6, <1>8 DEF LoadRoot
  <2>2. boot'.stage = "load" /\ boot'.at = 1 + 1 /\ boot'.stack = x
    BY <2>1 DEF Booting
  <2>3. Reading(file, saved)
    BY <1>8 DEF Stored, Filed
  <2>4. PICK f, C : f = file /\ C = saved
    OBVIOUS
  <2>5. PICK p, u : Reads(f, p, u, C)
    BY <2>3, <2>4 DEF Reading
  <2>6. x = <<[key |-> Root, left |-> f[1].subs]>>
    BY <1>5, <1>6, <2>4
  <2>7. PICK K, s : Loads(f, 1, x, p, u, K, s)
    BY <1>2, <2>5, <2>6, LoadsFirst DEF Stored
  <2>8. Loads(f, 1, x, p, u, K, s)'
    BY <1>1, <2>7, LoadsSame
  <2>9. file' = f /\ saved' = C
    BY <1>1, <2>4 DEF disk
  <2>10. Starts'
    BY <1>2, <2>2, <2>5, <2>8, <2>9, LoadStarts
  <2> QED BY <1>1, <1>3, <2>2, <2>10, StartStored DEF disk
<1> QED BY <1>7, <1>8

LEMMA LoadReturnStored ==
  ASSUME Inv, Inv', Reached, Stored, LoadReturn
  PROVE  Stored'
<1>1. /\ Tree' = Tree /\ Content' = Content /\ node' = node /\ boot.stage = "load"
      /\ UNCHANGED <<tree, handles, disk, pc, arg, saved>>
  BY SameTree DEF Inv, Typed, Reached, LoadReturn, tree
<1>2. known' = {}
  BY <1>1 DEF Stored, Starts, handles
<1>3. Distinct' /\ node'[Root].vals = NoValues
  BY <1>1 DEF Distinct, Stored
<1>4. PICK f, C, x : f = file /\ C = saved /\ x = boot.stack
  OBVIOUS
<1>5. PICK n, p, u, K, s : boot.at = n + 1 /\ Reads(f, p, u, C) /\ Loads(f, n, x, p, u, K, s)
  BY <1>1, <1>4 DEF Stored, Starts
<1> DEFINE E == [key : Keys, left : Nat]
<1>6. boot \in Boots /\ x # <<>> /\ x \in Seq(E)
  BY <1>1, <1>4 DEF Inv, Typed, BootTypes, Boots
<1> HIDE DEF E
<1>7. PICK l \in Nat : Len(x) = l + 1
  <2>1. PICK k \in Nat : k = Len(x) /\ k # 0
    BY <1>6
  <2>2. k - 1 \in Nat /\ k = (k - 1) + 1
    BY <2>1
  <2> QED BY <2>1, <2>2
<1>8. x[l + 1].left = 0 \/ n + 1 > Len(f)
  BY <1>4, <1>5, <1>7 DEF LoadReturn, Top
<1>9. /\ l = 0 => Content = C
      /\ l # 0 => Loads(f, n, SubSeq(x, 1, l), p, u, K, SubSeq(s, 1, l))
  BY <1>5, <1>6, <1>7, <1>8, LoadsReturn
<1>10. file' = f /\ saved' = C
  BY <1>1, <1>4 DEF disk
<1>11. CASE l = 0
  <2>1. boot' = [boot EXCEPT !.stage = "dump"]
    BY <1>4, <1>7, <1>11 DEF LoadReturn
  <2>2. boot'.stage = "dump"
    BY <1>6, <2>1 DEF Boots
  <2>3. Starts'
    BY <1>1, <1>2, <1>9, <1>10, <1>11, <2>2 DEF Starts
  <2> QED BY <1>1, <1>3, <2>2, <2>3, StartStored DEF disk
<1>12. CASE l # 0
  <2>1. PICK y, r : y = SubSeq(x, 1, l) /\ r = SubSeq(s, 1, l)
    OBVIOUS
  <2>2. Rest = y
    <3>1. (l + 1) - 1 = l
      OBVIOUS
    <3> QED BY <1>4, <1>7, <2>1, <3>1 DEF Rest
  <2>3. boot' = [boot EXCEPT !.stack = y]
    <3>1. Len(boot.stack) # 1
      BY <1>4, <1>7, <1>12
    <3> QED BY <2>2, <3>1 DEF LoadReturn
  <2>4. boot'.stage = "load" /\ boot'.at = n + 1 /\ boot'.stack = y
    BY <1>1, <1>5, <1>6, <2>3 DEF Boots
  <2>5. Loads(f, n, y, p, u, K, r)'
    BY <1>1, <1>9, <1>12, <2>1, LoadsSame
  <2>6. Starts'
    BY <1>2, <1>5, <1>10, <2>4, <2>5, LoadStarts
  <2> QED BY <1>1, <1>3, <2>4, <2>6, StartStored DEF disk
<1> QED BY <1>11, <1>12

LEMMA LoadKeyStored ==
  ASSUME Inv, Inv', Reached, Stored, LoadKey
  PROVE  Stored'
<1>1. boot.stage = "load" /\ Top.left > 0 /\ UNCHANGED <<handles, disk, pc, arg, saved, clean>>
  BY DEF LoadKey
<1>2. PICK b \in free, r \in Record :
        /\ AddKey(Top.key, b, r.name, r.vals)
        /\ boot' = [boot EXCEPT !.at = @ + 1,
                     !.stack = Rest \o <<[Top EXCEPT !.left = @ - 1],
                                         [key |-> b, left |-> r.subs]>>]
  BY DEF LoadKey
<1>3. known' = {}
  BY <1>1 DEF Stored, Starts, handles
<1>4. PICK f, C, x : f = file /\ C = saved /\ x = boot.stack
  OBVIOUS
<1>5. PICK n, p, u, K, s : boot.at = n + 1 /\ Reads(f, p, u, C) /\ Loads(f, n, x, p, u, K, s)
  BY <1>1, <1>4 DEF Stored, Starts
<1> DEFINE E == [key : Keys, left : Nat]
<1>6. boot \in Boots /\ x # <<>> /\ x \in Seq(E) /\ Top \in E
  BY <1>1, <1>4, LoadFacts DEF Inv
<1> HIDE DEF E
<1>7. PICK l \in Nat : Len(x) = l + 1
  <2>1. PICK k \in Nat : k = Len(x) /\ k # 0
    BY <1>6
  <2>2. k - 1 \in Nat /\ k = (k - 1) + 1
    BY <2>1
  <2> QED BY <2>1, <2>2
<1>8. Top = x[l + 1]
  BY <1>4, <1>7 DEF Top
<1>9. Due(f, n, x, l + 1, p, u, K, s)
  <2>1. PICK k \in Nat : k = l + 1 /\ k # 0
    OBVIOUS
  <2>2. Due(f, n, x, k, p, u, K, s)
    BY <1>1, <1>5, <1>7, <1>8, <2>1, LoadsTop
  <2> QED BY <2>1, <2>2
<1>10. PICK h : h = n + 1
  OBVIOUS
<1>11. h \in 2..Len(f) /\ h \in 1..Len(f) /\ f[h].name \in Names /\ f[h] \in Tokens
  BY <1>5, <1>9, <1>10 DEF Due, Reads
<1>12. r = f[h]
  <2>1. boot.at <= Len(file) /\ boot.at = h
    BY <1>4, <1>5, <1>10, <1>11
  <2> QED BY <1>2, <1>4, <2>1 DEF Record
<1>13. PICK m \in Tree : /\ m[1] = Top.key /\ p[h] = Append(m[2], f[h].name)
  <2>1. PICK y, z : y = K[s[l + 1]] /\ z = p[s[l + 1]]
    OBVIOUS
  <2>2. <<y, z>> \in Tree /\ Top.key = y /\ p[h] = Append(z, f[h].name)
    BY <1>8, <1>9, <1>10, <2>1 DEF Due
  <2> QED BY <2>2
<1>14. AddKey(m[1], b, f[h].name, f[h].vals) /\ f[h].vals \in Contents
  BY <1>2, <1>11, <1>12, <1>13 DEF Tokens
<1>15. /\ Tree' = Tree \cup {<<b, p[h]>>} /\ b \in Keys
       /\ \A k \in Tree : node'[k[1]].vals = node[k[1]].vals
       /\ node'[b].vals = f[h].vals
  <2>1. b \in Keys
    BY NullFacts DEF Inv, Typed, Heap
  <2> QED BY <1>11, <1>13, <1>14, <2>1, AddTree DEF Inv, Typed, Reached
<1>16. PICK e, g : e = [Top EXCEPT !.left = @ - 1] /\ g = [key |-> b, left |-> f[h].subs]
  OBVIOUS
<1>17. PICK q : q = Rest \o <<e, g>>
  OBVIOUS
<1>18. /\ Len(q) = l + 2 /\ q[l + 1] = e /\ q[l + 2] = g
       /\ \A i \in 1..l : q[i] = x[i]
  <2>1. PICK y, z : y = Rest /\ z = <<e, g>>
    OBVIOUS
  <2>2. y = SubSeq(x, 1, l)
    <3>1. (l + 1) - 1 = l
      OBVIOUS
    <3> QED BY <1>4, <1>7, <2>1, <3>1 DEF Rest
  <2>3. q = y \o z
    BY <1>17, <2>1
  <2> QED BY <1>6, <1>7, <2>1, <2>2, <2>3, PutOn
<1>19. boot'.stage = "load" /\ boot'.at = h + 1 /\ boot'.stack = q
  <2>1. boot' = [boot EXCEPT !.at = @ + 1, !.stack = q]
    BY <1>2, <1>12, <1>16, <1>17
  <2> QED BY <1>1, <1>5, <1>6, <1>10, <2>1 DEF Boots
<1>20. /\ e.key = x[l + 1].key /\ e.left = x[l + 1].left - 1
       /\ g.key = b /\ g.left = f[h].subs
  BY <1>6, <1>8, <1>16 DEF E
<1>21. Loads(f, n + 1, q, p, u, Append(K, b), Append(s, n + 1))'
  BY <1>1, <1>5, <1>7, <1>8, <1>10, <1>15, <1>18, <1>20, LoadsKey
<1>22. PICK L, v : L = Append(K, b) /\ v = Append(s, n + 1)
  OBVIOUS
<1>23. Loads(f, h, q, p, u, L, v)'
  BY <1>10, <1>21, <1>22
<1>24. Starts'
  <2>1. file' = f /\ saved' = C
    BY <1>1, <1>4 DEF disk
  <2> QED BY <1>3, <1>5, <1>19, <1>23, <2>1, LoadStarts
<1>25. Distinct'
  <2>1. Tree' = {<<L[j], p[j]>> : j \in 1..h} /\ h <= Len(f)
    BY <1>11, <1>23 DEF Loads
  <2>2. \A i, j \in 1..Len(f) : p[i] = p[j] => i = j
    BY <1>5 DEF Reads
  <2>3. \A i \in 1..h : i \in 1..Len(f)
    BY <1>11
  <2> QED BY <2>1, <2>2, <2>3 DEF Distinct
<1>26. node'[Root].vals = NoValues
  <2>1. <<Root, <<>>>> \in Tree
    BY TreeFacts DEF Inv, Typed, Reached
  <2>2. node'[<<Root, <<>>>>[1]].vals = node[<<Root, <<>>>>[1]].vals
    BY <1>15, <2>1
  <2> QED BY <2>2 DEF Stored
<1> QED BY <1>1, <1>19, <1>24, <1>25, <1>26, StartStored DEF disk

LEMMA DumpStage ==
  ASSUME Inv, Stored, DumpBegin \/ DumpOpen \/ DumpClose
  PROVE  /\ boot'.stage \in {"open", "close", "done"}
         /\ boot'.stage = "done" => known' = {}
<1>1. CASE DumpBegin
  <2>1. known' = {} /\ boot.stage = "dump"
    BY <1>1 DEF DumpBegin, handles, Stored, Starts
  <2>2. CASE \E k \in Tree : k[2] = DumpPath
    <3>1. PICK n : n = CHOOSE m \in Keys : <<m, DumpPath>> \in Tree
      OBVIOUS
    <3>2. boot' = [Booting EXCEPT !.stage = "open", !.walk = <<n>>]
      BY <1>1, <2>2, <3>1 DEF DumpBegin
    <3>3. boot'.stage = "open"
      BY <3>2 DEF Booting
    <3> QED BY <3>3
  <2>3. CASE ~ \E k \in Tree : k[2] = DumpPath
    <3>1. boot' = [Booting EXCEPT !.stage = "done", !.walk = <<>>]
      BY <1>1, <2>3 DEF DumpBegin
    <3>2. boot'.stage = "done"
      BY <3>1 DEF Booting
    <3> QED BY <2>1, <3>2
  <2> QED BY <2>2, <2>3
<1>2. CASE DumpOpen
  <2>1. boot \in Boots /\ boot.stage = "open"
    BY <1>2 DEF Inv, Typed, BootTypes, DumpOpen
  <2>2. \/ boot' = [boot EXCEPT !.walk = Append(@, node[Dumped].child)]
        \/ boot' = [boot EXCEPT !.stage = "close"]
    BY <1>2 DEF DumpOpen
  <2> QED BY <2>1, <2>2 DEF Boots
<1>3. CASE DumpClose
  <2>1. boot \in Boots /\ boot.stage = "close" /\ known' = {}
    BY <1>3 DEF Inv, Typed, BootTypes, DumpClose
  <2>2. PICK w, v : \/ boot' = [Booting EXCEPT !.stage = "done"]
                    \/ boot' = [boot EXCEPT !.stage = "open", !.walk = w]
                    \/ boot' = [boot EXCEPT !.walk = v]
    BY <1>3 DEF DumpClose
  <2> QED BY <2>1, <2>2 DEF Boots, Booting
<1> QED BY <1>1, <1>2, <1>3

LEMMA DumpStored ==
  ASSUME Inv, Inv', Reached, Stored, DumpBegin \/ DumpOpen \/ DumpClose
  PROVE  Stored'
<1>1. /\ boot.stage \in {"dump", "open", "close"}
      /\ UNCHANGED <<tree, disk, pc, arg, saved>>
  BY DEF DumpBegin, DumpOpen, DumpClose
<1>2. Tree' = Tree /\ Content' = Content /\ node' = node
  BY <1>1, SameTree DEF Inv, Typed, Reached, tree
<1>3. Content' = saved
  BY <1>1, <1>2 DEF Stored, Starts
<1>4. Distinct' /\ node'[Root].vals = NoValues
  BY <1>2 DEF Distinct, Stored
<1>5. /\ boot'.stage \in {"open", "close", "done"}
      /\ boot'.stage = "done" => known' = {}
  BY DumpStage
<1>6. Starts'
  BY <1>1, <1>3, <1>5 DEF Starts
<1> QED BY <1>1, <1>3, <1>4, <1>5, <1>6, StartStored DEF disk

\* A start begins with nothing in memory.
Blank == /\ Empty /\ Filed /\ node[Root].vals = NoValues /\ known = {}
         /\ boot = Booting /\ pc = Fresh.pc /\ arg = Fresh.arg

LEMMA BlankStored == Blank => Stored
<1> SUFFICES ASSUME Blank PROVE Stored
  OBVIOUS
<1> USE DEF Blank
<1>1. Tree = {<<Root, <<>>>>} /\ boot.stage = "root"
  BY DEF Empty, Booting
<1>2. Distinct
  BY <1>1 DEF Distinct
<1>3. Starts /\ RootAlone /\ Settled
  BY <1>1 DEF Starts, RootAlone, Settled
<1>4. \A t \in Threads : pc[t] = "idle"
  BY Idles
<1>5. \A t \in Threads : arg[t].full = FALSE
  BY DEF Fresh, Idle
<1>6. \A t \in Threads : Works(t)
  BY <1>4, <1>5 DEF Works
<1> QED BY <1>2, <1>3, <1>6 DEF Stored

LEMMA BareRoot == Bare => node[Root].vals = NoValues
<1> SUFFICES ASSUME Bare PROVE node[Root].vals = NoValues
  OBVIOUS
<1>1. Root \in Keys
  BY DEF Keys
<1> QED BY <1>1 DEF Bare, NewKey

LEMMA InitStored == Init => Stored
<1> SUFFICES ASSUME Init PROVE Stored
  OBVIOUS
<1>1. Bare
  BY Idles DEF Init, Bare
<1>2. Filed
  BY DEF Init, Filed, BareImage
<1> QED BY <1>1, <1>2, BareEmpty, BareRoot, BlankStored DEF Init, Blank

LEMMA RestartStored ==
  ASSUME Stored, Restart
  PROVE  Stored'
<1>1. Empty'
  BY BareEmptyNext DEF Restart
<1>2. Filed'
  BY FiledSame DEF Stored, Restart
<1>3. (node[Root].vals = NoValues)'
  <2>1. Root \in Keys /\ node' = [b \in Keys |-> NewKey(NIL, NIL)]
    BY Idles DEF Keys, Restart
  <2> QED BY <2>1 DEF NewKey, NoValues
<1>4. Blank'
  BY <1>1, <1>2, <1>3 DEF Restart, Blank, Booting, Fresh, Idle
<1>5. Blank' => Stored'
  BY BlankStored, PTL
<1> QED BY <1>4, <1>5

LEMMA StutterStored ==
  ASSUME Inv, Reached, Stored, UNCHANGED vars
  PROVE  Stored'
<1>1. UNCHANGED <<tree, handles, disk, boot, pc, arg, saved, clean>>
  BY DEF vars
<1>2. /\ Heap /\ Sound
      /\ Tree' = Tree /\ Content' = Content /\ node' = node
      /\ \A n \in Keys : Kids(n)' = Kids(n)
  BY <1>1, SameTree DEF Inv, Typed, Reached, tree
<1>3. Distinct' /\ node'[Root].vals = NoValues
  BY <1>2 DEF Distinct, Stored
<1>4. Starts'
  <2>1. CASE boot.stage # "load"
    BY <1>1, <1>2, <2>1 DEF Stored, Starts, handles
  <2>2. CASE boot.stage = "load"
    <3>1. PICK f, C, x : f = file /\ C = saved /\ x = boot.stack
      OBVIOUS
    <3>2. PICK n, p, u, K, s : boot.at = n + 1 /\ Reads(f, p, u, C) /\ Loads(f, n, x, p, u, K, s)
      BY <2>2, <3>1 DEF Stored, Starts
    <3>3. Loads(f, n, x, p, u, K, s)'
      BY <1>2, <3>2, LoadsSame
    <3>4. /\ file' = f /\ saved' = C /\ known' = {} /\ boot'.stage = "load"
          /\ boot'.at = n + 1 /\ boot'.stack = x
      BY <1>1, <2>2, <3>1, <3>2 DEF disk, handles, Stored, Starts
    <3> QED BY <3>2, <3>3, <3>4, LoadStarts
  <2> QED BY <2>1, <2>2
<1>5. CASE boot.stage # "done"
  <2>1. boot'.stage # "done"
    BY <1>1, <1>5
  <2> QED BY <1>1, <1>3, <1>4, <1>5, <2>1, StartStored DEF disk
<1>6. CASE boot.stage = "done"
  <2>1. Filed'
    BY <1>1, FiledSame DEF Stored, disk
  <2>2. RootAlone'
    BY <1>1, RootAloneSame DEF Stored, handles
  <2>3. Settled'
    BY <1>1, <1>2 DEF Stored, Settled, Quiet
  <2>4. ASSUME NEW t \in Threads PROVE Works(t)'
    <3>1. PICK a, k, f : a = arg[t] /\ k = pc[t] /\ f = tmp
      OBVIOUS
    <3>2. arg'[t] = a /\ pc'[t] = k /\ tmp' = f
      BY <1>1, <3>1 DEF disk
    <3>3. /\ a.full = FALSE
          /\ k \in {"navigate", "create", "lookup", "add"} => a.path # <<>>
          /\ k = "create" => /\ a.op = "create"
                             /\ \A c \in Kids(a.key) : node[c].name # Head(a.rest)
          /\ k \in {"write", "next"} => Saves(f, a.walk, k)
      BY <3>1 DEF Stored, Works
    <3>4. k = "create" => \A c \in Kids(a.key)' : node'[c].name # Head(a.rest)
      <4>1. k = "create" => a.key \in Keys
        BY <1>2, <3>1, TreeFacts DEF Reached, Calling
      <4> QED BY <1>2, <3>3, <4>1
    <3>5. k \in {"write", "next"} => Saves(f, a.walk, k)'
      BY <1>1, <1>2, <3>3, SavesSame
    <3> QED BY <3>2, <3>3, <3>4, <3>5 DEF Works, Saves
  <2> QED BY <1>1, <1>6, <2>1, <2>2, <2>3, <2>4, CallStored
<1> QED BY <1>5, <1>6

\* One thread opens keys, not the root itself, and deletes no key that the
\* cache has a handle for, and the disk has room for what is saved.
Careful == OneThread /\ ~DeleteCached /\ "write" \notin Faults /\ <<>> \notin Subs

LEMMA NextStored ==
  Careful /\ Inv /\ Opens /\ Inv' /\ Reached /\ Stored /\ [Next]_vars => Stored'
<1> SUFFICES ASSUME Careful, Inv, Opens, Inv', Reached, Stored, [Next]_vars
             PROVE  Stored'
  OBVIOUS
<1> USE DEF Careful
<1>1. ASSUME NEW t \in Threads, NEW op \in {"create", "open"}, NEW sub \in Subs,
             \/ \E root \in {"HKLM", "HKCU"} : OpenUnderRoot(t, op, root, sub)
             \/ \E h \in known : OpenUnderHandle(t, op, h, sub)
      PROVE  Stored'
  BY <1>1, OpensStored
<1>2. ASSUME NEW t \in Threads, NEW h \in known,
             \E v \in Values : \/ DeleteValueW(t, h, v)
                               \/ \E d \in Data : SetValueExW(t, h, v, d)
      PROVE  Stored'
  <2>1. PICK v \in Values : \/ DeleteValueW(t, h, v)
                            \/ \E d \in Data : SetValueExW(t, h, v, d)
    BY <1>2
  <2> QED BY <2>1, ValueStored
<1>3. ASSUME NEW t \in Threads, NEW h \in known, NEW x \in Names, DeleteKeyW(t, h, x)
      PROVE  Stored'
  BY <1>3, DeleteKeyStored
<1>4. ASSUME NEW t \in Threads,
             \/ Navigate(t) \/ CreateKey(t)
             \/ AllocHandle(t) \/ CacheLookup(t) \/ CacheAdd(t)
      PROVE  Stored'
  <2>1. Opening(t)
    BY DEF Opens
  <2> QED BY <1>4, <2>1, NavigateStored, CreateKeyStored, AllocHandleStored, CacheStored
<1>5. ASSUME NEW t \in Threads,
             SaveBegin(t) \/ WriteKey(t) \/ WriteNext(t) \/ SaveMove(t)
      PROVE  Stored'
  BY <1>5, SaveBeginStored, WriteKeyStored, WriteNextStored, SaveMoveStored
<1>6. CASE \E h \in known : CloseKey(h)
  BY <1>6, CloseKeyStored
<1>7. CASE LoadRoot \/ LoadKey \/ LoadReturn
  BY <1>7, LoadRootStored, LoadKeyStored, LoadReturnStored
<1>8. CASE DumpBegin \/ DumpOpen \/ DumpClose
  BY <1>8, DumpStored
<1>9. CASE Restart
  BY <1>9, RestartStored
<1>10. CASE UNCHANGED vars
  BY <1>10, StutterStored
<1> QED BY <1>1, <1>2, <1>3, <1>4, <1>5, <1>6, <1>7, <1>8, <1>9, <1>10 DEF Next

\* What always holds for a careful service.
AllOfIt == Inv /\ Opens /\ Reached /\ Stored

LEMMA AlwaysAllOfIt ==
  ASSUME Careful
  PROVE  Spec => []AllOfIt
<1>1. Inv /\ Opens /\ Inv' /\ Reached /\ [Next]_vars => Reached'
  BY NextReached DEF Careful
<1>2. Inv /\ Opens /\ Inv' /\ Reached /\ Stored /\ [Next]_vars => Stored'
  BY NextStored
<1>3. Spec => [](Inv /\ Opens)
  BY AlwaysInv DEF Careful
<1> QED BY <1>1, <1>2, <1>3, InitReached, InitStored, PTL DEF Spec, AllOfIt

\* The tree holds no freed key, and a path names one key: a careful service
\* never makes a key that is there already (NavigatePath, register.c:347-349),
\* and loading the file brings every key back once.
THEOREM TreeStaysSound ==
  ASSUME Careful
  PROVE  Spec => []TreeIsSound
<1>1. AllOfIt => TreeIsSound
  BY TreeFacts DEF AllOfIt, TreeIsSound, Stored, Distinct, Inv, Typed, Reached
<1> QED BY <1>1, AlwaysAllOfIt, PTL

\* After a call has returned a restart would find its change, unless the save
\* reported an error: AutoSave follows every modification, and what
\* SaveRegistryToFile wrote, key by key, is the tree that it walked.
THEOREM ChangesAreSaved ==
  ASSUME Careful
  PROVE  Spec => []SavedWhenReturned
<1>1. AllOfIt => SavedWhenReturned
  <2> SUFFICES ASSUME AllOfIt, Running, clean, pc = Fresh.pc
               PROVE  saved = Content
    BY DEF SavedWhenReturned
  <2>1. \A t \in Threads : Quiet(t)
    BY Idles DEF Quiet
  <2> QED BY <2>1 DEF AllOfIt, Stored, Settled, Running
<1> QED BY <1>1, AlwaysAllOfIt, PTL

\* A start of the service brings back the whole registry that was saved last,
\* whatever its shape: LoadKeyFromFile finds below every key the keys that
\* SaveKeyToFile wrote there, and the interrupted temporary file is not read.
THEOREM StartsRestore ==
  ASSUME Careful
  PROVE  Spec => RestartRestores
<1>1. AllOfIt /\ AllOfIt' /\ [Next]_vars =>
        [boot.stage \in {"root", "load"} /\ boot'.stage = "dump" => Content' = saved]_vars
  <2> SUFFICES ASSUME AllOfIt', Next,
                      boot.stage \in {"root", "load"}, boot'.stage = "dump"
               PROVE  Content' = saved
    OBVIOUS
  <2>1. Content' = saved'
    BY DEF AllOfIt, Stored, Starts
  <2>2. saved' = saved
    <3>1. ASSUME NEW t \in Threads, SaveMove(t) PROVE saved' = saved
      <4>1. boot' = boot
        BY <3>1 DEF SaveMove
      <4> QED BY <4>1
    <3>2. ASSUME NEW t \in Threads, NEW op, NEW sub,
                 \/ \E root \in {"HKLM", "HKCU"} : OpenUnderRoot(t, op, root, sub)
                 \/ \E h \in known : OpenUnderHandle(t, op, h, sub)
          PROVE  saved' = saved
      BY <3>2 DEF OpenUnderRoot, OpenUnderHandle
    <3>3. ASSUME NEW t \in Threads, NEW h \in known,
                 \/ \E v \in Values : \/ DeleteValueW(t, h, v)
                                      \/ \E d \in Data : SetValueExW(t, h, v, d)
                 \/ \E x \in Names : DeleteKeyW(t, h, x)
          PROVE  saved' = saved
      BY <3>3 DEF DeleteValueW, SetValueExW, DeleteKeyW
    <3>4. ASSUME NEW t \in Threads,
                 \/ Navigate(t) \/ CreateKey(t)
                 \/ AllocHandle(t) \/ CacheLookup(t) \/ CacheAdd(t)
                 \/ SaveBegin(t) \/ WriteKey(t) \/ WriteNext(t)
          PROVE  saved' = saved
      BY <3>4 DEF Navigate, CreateKey, AllocHandle, CacheLookup, CacheAdd,
                  SaveBegin, WriteKey, WriteNext
    <3>5. CASE \/ \E h \in known : CloseKey(h)
               \/ LoadRoot \/ LoadKey \/ LoadReturn
               \/ DumpBegin \/ DumpOpen \/ DumpClose \/ Restart
      BY <3>5 DEF CloseKey, LoadRoot, LoadKey, LoadReturn, DumpBegin, DumpOpen,
                  DumpClose, Restart
    <3> QED BY <3>1, <3>2, <3>3, <3>4, <3>5 DEF Next
  <2> QED BY <2>1, <2>2
<1> QED BY <1>1, AlwaysAllOfIt, PTL DEF Spec, RestartRestores

-----------------------------------------------------------------------------
(* The registry that the service was promised                              *)

Paths == UNION {[1..n -> Names] : n \in 0..Cardinality(Blocks)}
PathLaw == Heap => \A k \in Tree : k[2] \in Paths

LEMMA PathLawHolds == PathLaw
<1> SUFFICES ASSUME Heap, NEW k \in Tree PROVE k[2] \in Paths
  BY DEF PathLaw
<1>1. PICK w \in Lines[Depth] : k = <<w[Len(w)], PathOf(w)>>
  BY DEF Tree, Depth
<1>2. IsLine(w) /\ Len(w) <= Depth + 1
  BY LinesAreLines
<1>3. PICK p : p = PathOf(w)
  OBVIOUS
<1>4. p \in Seq(Names) /\ Len(p) = Len(w) - 1 /\ k[2] = p
  BY <1>1, <1>2, <1>3, PathTypes
<1>5. PICK n \in Nat : n = Len(p)
  BY <1>4
<1>6. n \in 0..Depth
  <2>1. Len(w) \in Nat
    BY <1>2 DEF IsLine
  <2> QED BY <1>2, <1>4, <1>5, <2>1, DepthNat
<1>7. p \in [1..n -> Names]
  BY <1>4, <1>5
<1> QED BY <1>4, <1>6, <1>7 DEF Paths, Depth

LEMMA PathLawNext == PathLaw'
BY PathLawHolds, PTL

LEMMA ContentNext ==
  Content' = {[path |-> k[2], vals |-> node'[k[1]].vals] : k \in Tree'}
<1> DEFINE Law == Content = {[path |-> k[2], vals |-> node[k[1]].vals] : k \in Tree}
<1>1. Law
  BY ContentIs
<1> HIDE DEF Law
<1>2. Law'
  BY <1>1, PTL
<1> QED BY <1>2 DEF Law

LEMMA StoreCreates ==
  ASSUME boot.stage = "done", boot'.stage = "done", saved' = saved, NEW p, p # <<>>,
         \E q \in Content : q.path = SubSeq(p, 1, Len(p) - 1),
         ~ \E q \in Content : q.path = p,
         Content' = Content \cup {[path |-> p, vals |-> NoValues]}
  PROVE  Store!CreateKey(p)
BY DEF Store!CreateKey, Store!Has, Store!NoValues, NoValues

LEMMA CreateStore ==
  ASSUME Inv, Inv', Reached, Stored, Stored', OneThread, NEW t \in Threads, CreateKey(t)
  PROVE  \E p \in Paths : Store!CreateKey(p)
<1>1. /\ boot.stage = "done" /\ boot'.stage = "done" /\ saved' = saved
      /\ Heap /\ Heap' /\ Sound /\ Distinct'
  BY BusyDone DEF CreateKey, Goto, Inv, Typed, Reached, Stored
<1>2. PICK k \in Tree : \E b \in free, x \in Names :
        /\ arg[t].key = k[1] /\ arg[t].path = k[2] \o arg[t].rest
        /\ x = Head(arg[t].rest) /\ AddKey(k[1], b, x, NoValues)
        /\ Tree' = Tree \cup {<<b, Append(k[2], x)>>}
        /\ arg' = [arg EXCEPT ![t].key = b, ![t].rest = Tail(@)]
  BY CreateTree
<1>3. PICK b \in free, x \in Names : AddKey(k[1], b, x, NoValues)
  BY <1>2
<1>4. NoValues \in Contents
  BY DEF NoValues, Contents
<1>5. PICK p : p = Append(k[2], x)
  OBVIOUS
<1>6. PICK n : n = <<b, p>>
  OBVIOUS
<1>7. /\ Tree' = Tree \cup {n} /\ n[1] = b /\ n[2] = p
      /\ \A l \in Tree : l[1] # b /\ node'[l[1]].vals = node[l[1]].vals
      /\ node'[b].vals = NoValues
  BY <1>1, <1>3, <1>4, <1>5, <1>6, AddTree
<1>8. p \in Paths
  BY <1>1, <1>7, PathLawNext DEF PathLaw
<1>9. p # <<>> /\ SubSeq(p, 1, Len(p) - 1) = k[2]
  <2>1. k[2] \in Seq(Names)
    BY <1>1, TreeFacts
  <2> QED BY <1>5, <2>1
<1>10. \E q \in Content : q.path = k[2]
  <2>1. PICK q : q = [path |-> k[2], vals |-> node[k[1]].vals]
    OBVIOUS
  <2>2. q \in Content /\ q.path = k[2]
    BY <2>1, ContentIs
  <2> QED BY <2>2
<1>11. ~ \E q \in Content : q.path = p
  <2> SUFFICES ASSUME NEW l \in Tree, l[2] = p PROVE FALSE
    BY ContentIs
  <2>1. l = n
    BY <1>1, <1>7 DEF Distinct
  <2> QED BY <1>7, <2>1
<1>12. Content' = Content \cup {[path |-> p, vals |-> NoValues]}
  <2>1. Content' = {[path |-> l[2], vals |-> node'[l[1]].vals] : l \in Tree \cup {n}}
    BY <1>7, ContentNext
  <2>2. {[path |-> l[2], vals |-> node'[l[1]].vals] : l \in Tree} = Content
    BY <1>7, ContentIs
  <2>3. [path |-> n[2], vals |-> node'[n[1]].vals] = [path |-> p, vals |-> NoValues]
    BY <1>7
  <2> QED BY <2>1, <2>2, <2>3
<1>13. Store!CreateKey(p)
  BY <1>1, <1>9, <1>10, <1>11, <1>12, StoreCreates
<1> QED BY <1>8, <1>13

\* With a key everything below it is gone, and nothing else.
LEMMA UnlinkBelow ==
  ASSUME Heap, Heap', Sound, Distinct, NEW k \in Tree, NEW c \in Kids(k[1]),
         Unlinks(k[1], c), NEW p, p = Append(k[2], node[c].name)
  PROVE  Tree' = {l \in Tree : ~Below(p, l[2])}
<1>1. /\ Tree' \subseteq Tree /\ k \in Tree'
      /\ \A l \in Tree \ Tree' : Below(p, l[2])
      /\ \A l \in Tree' : l[1] # c
      /\ \A l \in Tree' : l[1] = Root \/ l = k \/
           \E m \in Tree' : l[1] \in Kids(m[1]) /\ l[2] = Append(m[2], node[l[1]].name)
  BY UnlinkTree
<1>2. /\ \A l \in Tree : l[2] \in Seq(Names) /\ l = <<l[1], l[2]>>
      /\ \A l, m \in Tree : l[1] = m[1] => l = m
      /\ <<Root, <<>>>> \in Tree /\ <<c, p>> \in Tree /\ node[c].name \in Names
  BY TreeFacts DEF NamedKeys
<1>3. p \in Seq(Names) /\ Len(p) = Len(k[2]) + 1 /\ k[2] \in Seq(Names)
  BY <1>2
<1>4. ASSUME NEW l \in Tree', Below(p, l[2])
      PROVE  \E m \in Tree' : Below(p, m[2]) /\ Len(m[2]) < Len(l[2])
  <2>1. l \in Tree /\ l[2] \in Seq(Names) /\ Len(l[2]) \in Nat /\ Len(p) <= Len(l[2])
    BY <1>1, <1>2, <1>4 DEF Below
  <2>2. CASE l[1] = Root
    <3>1. l[2] = <<>>
      <4>1. PICK r : r = <<Root, <<>>>>
        OBVIOUS
      <4>2. r \in Tree /\ r[1] = Root /\ r[2] = <<>>
        BY <1>2, <4>1
      <4> QED BY <1>2, <2>1, <2>2, <4>2
    <3> QED BY <1>3, <2>1, <3>1
  <2>3. CASE l = k
    BY <1>3, <2>1, <2>3
  <2>4. CASE \E m \in Tree' : l[1] \in Kids(m[1]) /\ l[2] = Append(m[2], node[l[1]].name)
    <3>1. PICK m \in Tree' : l[1] \in Kids(m[1]) /\ l[2] = Append(m[2], node[l[1]].name)
      BY <2>4
    <3>2. PICK x : x = node[l[1]].name
      OBVIOUS
    <3>3. x \in Names /\ m \in Tree /\ m[2] \in Seq(Names)
      BY <1>1, <1>2, <3>1, <3>2, TreeFacts DEF NamedKeys
    <3>4. p # l[2]
      <4> SUFFICES ASSUME p = l[2] PROVE FALSE
        OBVIOUS
      <4>1. PICK r : r = <<c, p>>
        OBVIOUS
      <4>2. r \in Tree /\ r[1] = c /\ r[2] = p
        BY <1>2, <4>1
      <4>3. l = r
        BY <2>1, <4>2 DEF Distinct
      <4> QED BY <1>1, <4>2, <4>3
    <3>5. Below(p, m[2])
      BY <1>3, <1>4, <3>1, <3>2, <3>3, <3>4, BelowAppend
    <3>6. Len(m[2]) < Len(l[2])
      BY <3>1, <3>2, <3>3
    <3> QED BY <3>5, <3>6
  <2> QED BY <1>1, <2>2, <2>3, <2>4
<1>5. \A l \in Tree' : ~Below(p, l[2])
  <2> SUFFICES ASSUME NEW o \in Tree', Below(p, o[2]) PROVE FALSE
    OBVIOUS
  <2>1. PICK T : T = {Len(l[2]) : l \in {m \in Tree' : Below(p, m[2])}}
    OBVIOUS
  <2>2. T \in SUBSET Nat /\ T # {}
    <3>1. \A l \in Tree' : Len(l[2]) \in Nat
      <4>1. \A l \in Tree' : l[2] \in Seq(Names)
        BY <1>1, <1>2
      <4> QED BY <4>1
    <3>2. Len(o[2]) \in T
      BY <2>1
    <3> QED BY <2>1, <3>1, <3>2
  <2>3. PICK n \in T : \A i \in T : n <= i
    BY <2>2, LeastNat
  <2>4. PICK l \in Tree' : Below(p, l[2]) /\ n = Len(l[2])
    BY <2>1
  <2>5. PICK m \in Tree' : Below(p, m[2]) /\ Len(m[2]) < n
    BY <1>4, <2>4
  <2>6. Len(m[2]) \in T
    BY <2>1, <2>5
  <2> QED BY <2>2, <2>3, <2>5, <2>6
<1> QED BY <1>1, <1>5

LEMMA StoreDeletes ==
  ASSUME boot.stage = "done", boot'.stage = "done", saved' = saved, NEW p, p # <<>>,
         \E q \in Content : q.path = p,
         Content' = {q \in Content : ~Below(p, q.path)}
  PROVE  Store!DeleteKey(p)
BY DEF Store!DeleteKey, Store!Has, Store!Below, Below

LEMMA DeleteStore ==
  ASSUME Inv, Inv', Reached, Stored, NEW t \in Threads, NEW h \in known,
         NEW x \in Names, DeleteKeyW(t, h, x)
  PROVE  \E p \in Paths : Store!DeleteKey(p)
<1>1. PICK k \in Tree : \E c \in Kids(k[1]) :
        /\ k = <<table[h].key, table[h].path>> /\ node[c].name = x
        /\ Unlinks(k[1], c)
  BY DeleteTree
<1>2. PICK c \in Kids(k[1]) : Unlinks(k[1], c)
  BY <1>1
<1>3. /\ boot.stage = "done" /\ boot'.stage = "done" /\ saved' = saved
      /\ Heap /\ Heap' /\ Sound /\ Distinct
  BY DEF DeleteKeyW, Call, Running, Inv, Typed, Reached, Stored
<1>4. PICK p : p = Append(k[2], node[c].name)
  OBVIOUS
<1>5. PICK n : n = <<c, p>>
  OBVIOUS
<1>6. n \in Tree /\ n[1] = c /\ n[2] = p /\ p # <<>>
  <2>1. n \in Tree /\ k[2] \in Seq(Names) /\ node[c].name \in Names
    BY <1>3, <1>4, <1>5, TreeFacts DEF NamedKeys
  <2> QED BY <1>4, <1>5, <2>1
<1>7. p \in Paths
  BY <1>3, <1>6, PathLawHolds DEF PathLaw
<1>8. \E q \in Content : q.path = p
  <2>1. PICK q : q = [path |-> n[2], vals |-> node[n[1]].vals]
    OBVIOUS
  <2>2. q \in Content /\ q.path = p
    BY <1>6, <2>1, ContentIs
  <2> QED BY <2>2
<1>9. Tree' = {l \in Tree : ~Below(p, l[2])}
  BY <1>2, <1>3, <1>4, UnlinkBelow
<1>10. \A l \in Tree : node'[l[1]].vals = node[l[1]].vals
  BY <1>2, <1>3, UnlinkTree
<1>11. Content' = {q \in Content : ~Below(p, q.path)}
  <2>1. Content' = {[path |-> l[2], vals |-> node[l[1]].vals] :
                      l \in {m \in Tree : ~Below(p, m[2])}}
    BY <1>9, <1>10, ContentNext
  <2>2. Content = {[path |-> l[2], vals |-> node[l[1]].vals] : l \in Tree}
    BY ContentIs
  <2> QED BY <2>1, <2>2
<1>12. Store!DeleteKey(p)
  BY <1>3, <1>6, <1>8, <1>11, StoreDeletes
<1> QED BY <1>7, <1>12

LEMMA StoreAssigns ==
  ASSUME boot.stage = "done", boot'.stage = "done", saved' = saved,
         NEW p, NEW v, NEW d, \E q \in Content : q.path = p,
         Content' = {IF q.path = p THEN [q EXCEPT !.vals[v] = d] ELSE q : q \in Content}
  PROVE  Store!Assign(p, v, d)
BY DEF Store!Assign, Store!Has

LEMMA AssignStore ==
  ASSUME Inv, Inv', Reached, Stored, NEW t \in Threads, NEW h \in known,
         NEW v \in Values,
         DeleteValueW(t, h, v) \/ \E d \in Data : SetValueExW(t, h, v, d)
  PROVE  \E p \in Paths, d \in Data \cup {NIL} : Store!Assign(p, v, d)
<1>1. PICK d \in Data \cup {NIL} : node' = [node EXCEPT ![table[h].key].vals[v] = d]
  BY DEF DeleteValueW, SetValueExW
<1>2. /\ free' = free /\ Call(t, h) /\ boot' = boot /\ saved' = saved
      /\ Heap /\ Heap' /\ Sound /\ Distinct
  BY DEF DeleteValueW, SetValueExW, Inv, Typed, Reached, Stored
<1>3. Tree' = Tree
  BY <1>1, <1>2, ValueTree
<1>4. PICK k : k = <<table[h].key, table[h].path>>
  OBVIOUS
<1>5. k \in Tree /\ k[1] = table[h].key
  BY <1>4 DEF Reached, Held, Resolves
<1>6. PICK p : p = k[2]
  OBVIOUS
<1>7. p \in Paths
  BY <1>2, <1>5, <1>6, PathLawHolds DEF PathLaw
<1>8. \E q \in Content : q.path = p
  <2>1. PICK q : q = [path |-> k[2], vals |-> node[k[1]].vals]
    OBVIOUS
  <2>2. q \in Content /\ q.path = p
    BY <1>5, <1>6, <2>1, ContentIs
  <2> QED BY <2>2
<1> DEFINE New(q) == IF q.path = p THEN [q EXCEPT !.vals[v] = d] ELSE q
           Old(l) == [path |-> l[2], vals |-> node[l[1]].vals]
<1>9. ASSUME NEW l \in Tree
      PROVE  New(Old(l)) = [path |-> l[2], vals |-> node'[l[1]].vals]
  <2>1. PICK n \in Keys : n = k[1]
    BY <1>2, <1>5, TreeFacts
  <2>2. node' = [node EXCEPT ![n].vals[v] = d] /\ node \in [Keys -> Nodes]
    BY <1>1, <1>2, <1>5, <2>1 DEF Heap
  <2>3. node'[n].vals = [node[n].vals EXCEPT ![v] = d]
    BY <2>2 DEF Nodes
  <2>4. CASE l = k
    <3>1. PICK a : a = node[n].vals
      OBVIOUS
    <3>2. Old(l) = [path |-> p, vals |-> a]
      BY <1>6, <2>1, <2>4, <3>1
    <3>3. New(Old(l)) = [path |-> p, vals |-> [a EXCEPT ![v] = d]]
      BY <3>2
    <3> QED BY <1>6, <2>1, <2>3, <2>4, <3>1, <3>3
  <2>5. CASE l # k
    <3>1. l[2] # p
      BY <1>2, <1>5, <1>6, <2>5 DEF Distinct
    <3>2. l[1] # n /\ l[1] \in Keys
      BY <1>2, <1>5, <2>1, <2>5, TreeFacts
    <3>3. node'[l[1]] = node[l[1]]
      BY <2>2, <3>2
    <3> QED BY <3>1, <3>3
  <2> QED BY <2>4, <2>5
<1>10. Content' = {New(q) : q \in Content}
  <2>1. Content' = {[path |-> l[2], vals |-> node'[l[1]].vals] : l \in Tree}
    BY <1>3, ContentNext
  <2>2. Content = {Old(l) : l \in Tree}
    BY ContentIs
  <2> HIDE DEF New, Old
  <2> QED BY <1>9, <2>1, <2>2
<1>11. Store!Assign(p, v, d)
  BY <1>2, <1>8, <1>10, StoreAssigns DEF Call, Running
<1> QED BY <1>7, <1>11

\* Everything else in the memory of the service stays as it is.
LEMMA StoreStays ==
  ASSUME boot' = boot, Content' = Content, saved' = saved
  PROVE  [Store!Next]_(Store!vars)
BY DEF Store!vars

LEMMA StoreNext ==
  ASSUME \/ \E p \in Paths : Store!CreateKey(p) \/ Store!DeleteKey(p)
         \/ \E p \in Paths, v \in Values, d \in Data \cup {NIL} : Store!Assign(p, v, d)
         \/ Store!Save \/ Store!Restart
  PROVE  Store!Next
BY DEF Store!Next, Paths

LEMMA StoreInit == Init => Store!Init
<1> SUFFICES ASSUME Init PROVE Store!Init
  OBVIOUS
<1>1. boot.stage = "root" /\ saved = {[path |-> <<>>, vals |-> NoValues]}
  BY DEF Init, Booting
<1> QED BY <1>1 DEF Store!Init, Store!Fresh, Store!NoValues, NoValues

LEMMA SaveStore ==
  ASSUME Inv, Reached, Stored, NEW t \in Threads, SaveMove(t)
  PROVE  [Store!Next]_(Store!vars)
<1>1. boot.stage = "done" /\ boot' = boot /\ Content' = Content
  BY BusyDone, SameTree DEF SaveMove, Return, Goto, Inv, Typed, CallTypes, Reached
<1>2. CASE saved' = Content
  <2>1. Store!Save
    BY <1>1, <1>2 DEF Store!Save
  <2> QED BY <2>1, StoreNext
<1>3. CASE saved' = saved
  BY <1>1, <1>3, StoreStays
<1> QED BY <1>2, <1>3 DEF SaveMove

LEMMA RestartStore ==
  ASSUME Restart
  PROVE  Store!Next
<1>1. boot'.stage = "root" /\ saved' = saved
  BY DEF Restart, Booting
<1>2. Store!Restart
  BY <1>1 DEF Store!Restart
<1> QED BY <1>2, StoreNext

\* What is read of the file was in the memory of the promised registry from
\* the restart on.
LEMMA StartStore ==
  ASSUME Inv, Inv', Reached, Stored, Stored',
         LoadRoot \/ LoadKey \/ LoadReturn \/ DumpBegin \/ DumpOpen \/ DumpClose
  PROVE  [Store!Next]_(Store!vars)
<1>1. saved' = saved
  BY DEF LoadRoot, LoadKey, LoadReturn, DumpBegin, DumpOpen, DumpClose
<1>2. CASE LoadRoot \/ LoadKey \/ LoadReturn
  <2>1. boot.stage \in {"root", "load"}
    BY <1>2 DEF LoadRoot, LoadKey, LoadReturn
  <2>2. boot'.stage \in {"load", "dump"}
    <3>1. CASE LoadRoot
      BY <3>1 DEF LoadRoot, Booting
    <3>2. CASE LoadKey \/ LoadReturn
      <4>1. boot \in Boots /\ boot.stage = "load"
        BY <3>2, LoadFacts DEF LoadKey, LoadReturn, Inv
      <4>2. CASE LoadKey
        <5>1. PICK x : boot' = [boot EXCEPT !.at = @ + 1, !.stack = x]
          BY <4>2 DEF LoadKey
        <5> QED BY <4>1, <5>1 DEF Boots
      <4>3. CASE LoadReturn
        BY <4>1, <4>3 DEF LoadReturn, Boots
      <4> QED BY <3>2, <4>2, <4>3
    <3> QED BY <1>2, <3>1, <3>2
  <2>3. boot'.stage = "dump" => Content' = saved'
    BY DEF Stored, Starts
  <2> QED BY <1>1, <2>1, <2>2, <2>3 DEF Store!vars
<1>3. CASE DumpBegin \/ DumpOpen \/ DumpClose
  <2>1. boot.stage \in {"dump", "open", "close"} /\ UNCHANGED tree
    BY <1>3 DEF DumpBegin, DumpOpen, DumpClose
  <2>2. Content' = Content
    BY <2>1, SameTree DEF Inv, Typed, Reached
  <2>3. boot'.stage \notin {"root", "load"}
    BY <1>3, DumpStage
  <2> QED BY <1>1, <2>1, <2>2, <2>3 DEF Store!vars
<1> QED BY <1>2, <1>3

LEMMA StepStore ==
  Careful /\ AllOfIt /\ AllOfIt' /\ [Next]_vars => [Store!Next]_(Store!vars)
<1> SUFFICES ASSUME Careful, AllOfIt, AllOfIt', [Next]_vars
             PROVE  [Store!Next]_(Store!vars)
  OBVIOUS
<1> USE DEF Careful, AllOfIt
<1>1. ASSUME UNCHANGED <<tree, boot, saved>> PROVE [Store!Next]_(Store!vars)
  <2>1. Content' = Content
    BY <1>1, SameTree DEF Inv, Typed, Reached
  <2> QED BY <1>1, <2>1, StoreStays
<1>2. ASSUME NEW t \in Threads, NEW op, NEW sub,
             \/ \E root \in {"HKLM", "HKCU"} : OpenUnderRoot(t, op, root, sub)
             \/ \E h \in known : OpenUnderHandle(t, op, h, sub)
      PROVE  [Store!Next]_(Store!vars)
  BY <1>1, <1>2 DEF OpenUnderRoot, OpenUnderHandle
<1>3. ASSUME NEW t \in Threads, NEW h \in known,
             \E v \in Values : \/ DeleteValueW(t, h, v)
                               \/ \E d \in Data : SetValueExW(t, h, v, d)
      PROVE  [Store!Next]_(Store!vars)
  <2>1. PICK v \in Values : \/ DeleteValueW(t, h, v)
                            \/ \E d \in Data : SetValueExW(t, h, v, d)
    BY <1>3
  <2>2. \E p \in Paths, d \in Data \cup {NIL} : Store!Assign(p, v, d)
    BY <2>1, AssignStore
  <2> QED BY <2>2, StoreNext
<1>4. ASSUME NEW t \in Threads, NEW h \in known, NEW x \in Names, DeleteKeyW(t, h, x)
      PROVE  [Store!Next]_(Store!vars)
  BY <1>4, DeleteStore, StoreNext
<1>5. ASSUME NEW t \in Threads, CreateKey(t) PROVE [Store!Next]_(Store!vars)
  BY <1>5, CreateStore, StoreNext
<1>6. ASSUME NEW t \in Threads,
             \/ Navigate(t) \/ AllocHandle(t) \/ CacheLookup(t) \/ CacheAdd(t)
             \/ SaveBegin(t) \/ WriteKey(t) \/ WriteNext(t)
      PROVE  [Store!Next]_(Store!vars)
  BY <1>1, <1>6 DEF Navigate, AllocHandle, CacheLookup, CacheAdd, SaveBegin,
                    WriteKey, WriteNext
<1>7. ASSUME NEW t \in Threads, SaveMove(t) PROVE [Store!Next]_(Store!vars)
  BY <1>7, SaveStore
<1>8. CASE \E h \in known : CloseKey(h)
  BY <1>1, <1>8 DEF CloseKey
<1>9. CASE LoadRoot \/ LoadKey \/ LoadReturn \/ DumpBegin \/ DumpOpen \/ DumpClose
  BY <1>9, StartStore
<1>10. CASE Restart
  BY <1>10, RestartStore
<1>11. CASE UNCHANGED vars
  BY <1>1, <1>11 DEF vars
<1> QED BY <1>2, <1>3, <1>4, <1>5, <1>6, <1>7, <1>8, <1>9, <1>10, <1>11 DEF Next

\* The tree, its file and the rename are the registry that register.c promises:
\* every call of a careful service takes effect once and at once, what is on
\* disk is at every moment a whole registry that was in memory, and a restart,
\* wherever it comes, brings back exactly that.
THEOREM RegistryIsAStore ==
  ASSUME Careful
  PROVE  Spec => StoreSpec
<1>1. AllOfIt /\ AllOfIt' /\ [Next]_vars => [Store!Next]_(Store!vars)
  BY StepStore
<1> QED BY <1>1, AlwaysAllOfIt, StoreInit, PTL DEF Spec, StoreSpec, Store!Spec
==============================================================================
