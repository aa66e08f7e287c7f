------------------------------ MODULE Registry ------------------------------
(***************************************************************************)
(* The emulated registry of register.c: a tree of RegKeys on the heap, a   *)
(* table of handles that only grows, a cache that gives every path one     *)
(* handle for ever, and a file that is rewritten after every change and    *)
(* read when the service starts.                                           *)
(*                                                                         *)
(* Only the saving of the file holds a lock, so a step of a thread is one  *)
(* helper of register.c outside it - the search for one component of a     *)
(* path, the creation of one key, the allocation of a handle, the search   *)
(* of the cache, the entry there, the change of one list - and the writing *)
(* of one key while the file is saved.                                     *)
(***************************************************************************)
EXTENDS Naturals, Sequences, FiniteSets

CONSTANTS
  Threads,       (* threads of the service                                 *)
  Blocks,        (* bound: heap blocks for RegKeys besides g_regRoot       *)
  Root,          (* g_regRoot                                              *)
  NIL,           (* the null pointer; also no name, no value and no thread *)
  Names,         (* names of keys, upper and lower case being one          *)
  Software,      (* the name SOFTWARE                                      *)
  Wow64Node,     (* the name WOW6432Node                                   *)
  IsWow64,       (* g_isWow64                                              *)
  Subs,          (* the relative paths that calls are made with            *)
  Values, Data,  (* names and contents of values                           *)
  DumpPath,      (* the path DumpRegistryTree opens, redirected            *)
  MaxHandles,    (* bound: handles allocated by one run of the service     *)
  MaxCached,     (* MAX_CACHED_HANDLES                                     *)
  DeleteCached,  (* the service deletes keys that have been opened         *)
  Faults         (* which failures may occur                               *)

Keys == Blocks \cup {Root}
Null == Blocks \cup {NIL}

ASSUME RegistryAssumption ==
  /\ NIL \notin Keys \cup Names \cup Data \cup Threads
  /\ Root \notin Blocks
  /\ IsFiniteSet(Blocks)
  /\ {Software, Wow64Node} \subseteq Names
  /\ DumpPath \in Seq(Names) /\ Subs \subseteq Seq(Names)
  /\ MaxHandles \in Nat /\ MaxCached \in Nat
  /\ IsWow64 \in BOOLEAN /\ DeleteCached \in BOOLEAN
  /\ Faults \subseteq {"tmp", "move", "write", "crash"}

VARIABLES
  node,    (* the RegKeys, stale in a freed block                          *)
  free,    (* the blocks HeapAlloc may return                              *)
  table,   (* g_fakeKeyTable and g_fakeKeyPaths: handle i is entry i       *)
  cache,   (* g_handleCache                                                *)
  known,   (* auxiliary: the handles the service holds open                *)
  file,    (* register.reg: the keys in it, or Absent                      *)
  tmp,     (* register.reg.tmp                                             *)
  lock,    (* the owner of g_regLock                                       *)
  boot,    (* the progress of Register_InstallHooks                        *)
  pc, arg, (* the next step of each thread, the locals of its call         *)
  saved,   (* auxiliary: the registry at the last rename                   *)
  clean    (* auxiliary: the last save succeeded                           *)

tree == <<node, free>>
handles == <<table, cache, known>>
disk == <<file, tmp, lock>>
vars == <<tree, handles, disk, boot, pc, arg, saved, clean>>

NoValues == [v \in Values |-> NIL]
NewKey(x, s) == [name |-> x, child |-> NIL, sib |-> s, vals |-> NoValues]
Absent == <<NIL>>

Idle == [op |-> "none", key |-> NIL, rest |-> <<>>, path |-> <<>>,
         h |-> 0, walk |-> <<>>, full |-> FALSE]
Booting == [stage |-> "root", at |-> 1, stack |-> <<>>, walk |-> <<>>]

\* The process as Register_InstallHooks finds it.
Fresh ==
  [node |-> [b \in Keys |-> NewKey(NIL, NIL)], pc |-> [t \in Threads |-> "idle"],
   arg |-> [t \in Threads |-> Idle]]

Init ==
  /\ node = Fresh.node /\ free = Blocks
  /\ table = <<>> /\ cache = <<>> /\ known = {}
  /\ file = Absent /\ tmp = Absent /\ lock = NIL
  /\ boot = Booting
  /\ pc = Fresh.pc /\ arg = Fresh.arg
  /\ saved = {[path |-> <<>>, vals |-> NoValues]}
  /\ clean = TRUE

-----------------------------------------------------------------------------
(* The tree *)

\* The keys of the sibling list from b on: the least set that has b in it
\* and with every key the next one.
List(b) ==
  {c \in Blocks :
     \A S \in SUBSET Null :
       b \in S /\ (\A d \in S \ {NIL} : node[d].sib \in S) => c \in S}

\* The first key named x in the sibling list from b on, or NIL.
Find(b, x) ==
  LET hits == {c \in List(b) : node[c].name = x}
  IN  IF hits = {} THEN NIL ELSE CHOOSE c \in hits : hits \subseteq List(c)

Kids(n) == List(node[n].child)

\* The ways down the tree from the root, d levels deep, and where each of
\* them leads.
Deeper(W) == W \cup UNION {{Append(w, c) : c \in Kids(w[Len(w)])} : w \in W}
Lines[d \in 0..Cardinality(Blocks)] ==
  IF d = 0 THEN {<<Root>>} ELSE Deeper(Lines[d - 1])
PathOf(w) == [i \in 1..(Len(w) - 1) |-> node[w[i + 1]].name]

\* The keys of the tree with their paths, and the registry they make.
Tree == {<<w[Len(w)], PathOf(w)>> : w \in Lines[Cardinality(Blocks)]}

Content == {[path |-> k[2], vals |-> node[k[1]].vals] : k \in Tree}

Below(p, q) == Len(q) >= Len(p) /\ SubSeq(q, 1, Len(p)) = p

\* RedirectSubKey: what a 32-bit process means by a path under HKLM.
Redirect(p) ==
  LET plain == p # <<>> /\ p[1] = Software
      done == Len(p) > 1 /\ p[2] = Wow64Node
  IN  IF IsWow64 /\ plain /\ ~done
      THEN <<Software, Wow64Node>> \o Tail(p) ELSE p

-----------------------------------------------------------------------------
(* Steps of the threads *)

Running == boot.stage = "done"

Goto(t, from, to) == pc[t] = from /\ pc' = [pc EXCEPT ![t] = to]
Return(t, from) == Goto(t, from, "idle") /\ arg' = [arg EXCEPT ![t] = Idle]

\* Bound: the handle an opening call will need is there to be allocated.
HandleLeft ==
  Len(table) + Cardinality({t \in Threads : pc[t] \in {"navigate", "create"}})
    < MaxHandles

\* A call on an open handle that changes nothing but the tree.
Call(t, h) == Running /\ h \in known /\ Goto(t, "idle", "save")

\* RegCreateKeyExW, RegCreateKeyW (op "create"), RegOpenKeyExW and
\* RegOpenKeyW (op "open") on a predefined root: all roots are one tree, but
\* only HKLM is redirected.
OpenUnderRoot(t, op, root, sub) ==
  /\ Running /\ HandleLeft
  /\ Goto(t, "idle", "navigate")
  /\ LET p == IF root = "HKLM" THEN Redirect(sub) ELSE sub IN
     arg' = [arg EXCEPT ![t] = [Idle EXCEPT !.op = op, !.key = Root,
                                            !.rest = p, !.path = p]]
  /\ UNCHANGED <<tree, handles, disk, boot, saved, clean>>

\* Faulty variant: BuildFullPath forgets the path of the base.
OpenUnderHandleShort(t, op, h, sub) ==
  /\ Running /\ HandleLeft
  /\ h \in known
  /\ Goto(t, "idle", "navigate")
  /\ arg' = [arg EXCEPT ![t] = [Idle EXCEPT !.op = op, !.key = table[h].key,
                                            !.rest = sub, !.path = sub]]
  /\ UNCHANGED <<tree, handles, disk, boot, saved, clean>>

\* The same calls on a handle: BuildFullPath joins the paths.
OpenUnderHandle(t, op, h, sub) ==
  /\ Running /\ HandleLeft
  /\ h \in known
  /\ Goto(t, "idle", "navigate")
  /\ arg' = [arg EXCEPT ![t] = [Idle EXCEPT !.op = op, !.key = table[h].key,
                                            !.rest = sub,
                                            !.path = table[h].path \o sub]]
  /\ UNCHANGED <<tree, handles, disk, boot, saved, clean>>

\* NavigatePath looks for one component.
Navigate(t) ==
  LET a == arg[t]
      c == Find(node[a.key].child, Head(a.rest))
  IN
  /\ pc[t] = "navigate"
  /\ a.rest # <<>>
  /\ \/ /\ c # NIL
        /\ arg' = [arg EXCEPT ![t].key = c, ![t].rest = Tail(@)]
        /\ UNCHANGED pc
     \/ /\ c = NIL
        /\ a.op = "create"
        /\ Goto(t, "navigate", "create")
        /\ UNCHANGED arg
     \/ /\ c = NIL
        /\ a.op = "open"              \* ERROR_FILE_NOT_FOUND
        /\ Return(t, "navigate")
  /\ UNCHANGED <<tree, handles, disk, boot, saved, clean>>

\* CreateKey: a new key at the head of its parent's list.
AddKey(parent, b, x, vals) ==
  /\ free' = free \ {b}
  /\ node' = [node EXCEPT ![b] = [NewKey(x, node[parent].child)
                                    EXCEPT !.vals = vals],
                          ![parent].child = b]

CreateKey(t) ==
  /\ Goto(t, "create", "navigate")
  /\ \E b \in free :
       /\ AddKey(arg[t].key, b, Head(arg[t].rest), NoValues)
       /\ arg' = [arg EXCEPT ![t].key = b, ![t].rest = Tail(@)]
  /\ UNCHANGED <<handles, disk, boot, saved, clean>>

\* AllocHandle takes the next handle, whether it is needed or not.
AllocHandle(t) ==
  /\ arg[t].rest = <<>>
  /\ Goto(t, "navigate", "lookup")
  /\ table' = Append(table, [key |-> arg[t].key, path |-> arg[t].path])
  /\ arg' = [arg EXCEPT ![t].h = Len(table) + 1]
  /\ UNCHANGED <<tree, cache, known, disk, boot, saved, clean>>

\* The call answers with a handle; RegCreateKeyExW saves first.
Answer(t, from, h) ==
  /\ Goto(t, from, IF arg[t].op = "create" THEN "save" ELSE "idle")
  /\ known' = known \cup {h}
  /\ arg' = [arg EXCEPT ![t] = Idle]

\* Where a path is in the cache.
Hits(p) == {i \in 1..Len(cache) : cache[i].path = p}

\* Faulty variants: no search of the cache; no test of its size.
CacheLookupBlind(t) ==
  /\ \/ /\ Len(cache) < MaxCached
        /\ Goto(t, "lookup", "add")
        /\ UNCHANGED <<known, arg>>
     \/ /\ Len(cache) >= MaxCached
        /\ Answer(t, "lookup", arg[t].h)
  /\ UNCHANGED <<tree, table, cache, disk, boot, saved, clean>>

CacheLookupUnbounded(t) ==
  /\ \/ \E i \in Hits(arg[t].path) : Answer(t, "lookup", cache[i].h)
     \/ /\ Hits(arg[t].path) = {}
        /\ Goto(t, "lookup", "add")
        /\ UNCHANGED <<known, arg>>
  /\ UNCHANGED <<tree, table, cache, disk, boot, saved, clean>>

\* CacheLookup searches for the first handle that the path ever had, and
\* sees whether there is room for another path.
CacheLookup(t) ==
  LET hits == Hits(arg[t].path) IN
  /\ \/ \E i \in hits :
          /\ \A j \in hits : i <= j
          /\ Answer(t, "lookup", cache[i].h)
     \/ /\ hits = {}
        /\ Len(cache) < MaxCached
        /\ Goto(t, "lookup", "add")
        /\ UNCHANGED <<known, arg>>
     \/ /\ hits = {}
        /\ Len(cache) >= MaxCached    \* "Handle cache full"
        /\ Answer(t, "lookup", arg[t].h)
  /\ UNCHANGED <<tree, table, cache, disk, boot, saved, clean>>

\* Its second half takes the place it saw, whatever came between.
CacheAdd(t) ==
  /\ cache' = Append(cache, [path |-> arg[t].path, h |-> arg[t].h])
  /\ Answer(t, "add", arg[t].h)
  /\ UNCHANGED <<tree, table, disk, boot, saved, clean>>

\* The hook does nothing; the service no longer uses the handle.
CloseKey(h) ==
  /\ h \in known
  /\ known' = known \ {h}
  /\ UNCHANGED <<tree, table, cache, disk, boot, pc, arg, saved, clean>>

SetValueExW(t, h, v, d) ==
  /\ Call(t, h)
  /\ node' = [node EXCEPT ![table[h].key].vals[v] = d]
  /\ UNCHANGED <<free, handles, disk, boot, arg, saved, clean>>

\* Faulty variant: the change is not saved.
DeleteValueUnsaved(t, h, v) ==
  /\ Running
  /\ h \in known
  /\ pc[t] = "idle"
  /\ node[table[h].key].vals[v] # NIL
  /\ node' = [node EXCEPT ![table[h].key].vals[v] = NIL]
  /\ UNCHANGED <<free, handles, disk, boot, pc, arg, saved, clean>>

DeleteValueW(t, h, v) ==
  /\ Call(t, h)
  /\ node[table[h].key].vals[v] # NIL    \* else ERROR_FILE_NOT_FOUND
  /\ node' = [node EXCEPT ![table[h].key].vals[v] = NIL]
  /\ UNCHANGED <<free, handles, disk, boot, arg, saved, clean>>

\* The service deletes a key when it holds no handle to it or below it.
MayDelete(p) ==
  /\ \A h \in known : ~Below(p, table[h].path)
  /\ DeleteCached \/ \A i \in 1..Len(cache) : ~Below(p, cache[i].path)

\* Faulty variant: the key is freed and stays in its parent's list.
DeleteKeyLinked(t, h, x) ==
  LET c == Find(node[table[h].key].child, x) IN
  /\ Call(t, h)
  /\ MayDelete(Append(table[h].path, x))
  /\ c # NIL
  /\ free' = free \cup {c}
  /\ UNCHANGED <<node, handles, disk, boot, arg, saved, clean>>

\* RegDeleteKeyW, RegDeleteKeyExW and RegDeleteTreeW: the key is unlinked
\* and freed.  Its subkeys are leaked, handles and cache are left alone.
DeleteKeyW(t, h, x) ==
  LET n == table[h].key
      c == Find(node[n].child, x)
      before == {b \in Kids(n) : node[b].sib = c}
  IN
  /\ Call(t, h)
  /\ MayDelete(Append(table[h].path, x))
  /\ c # NIL                             \* else ERROR_FILE_NOT_FOUND
  /\ \/ \E b \in before : node' = [node EXCEPT ![b].sib = node[c].sib]
     \/ before = {} /\ node' = [node EXCEPT ![n].child = node[c].sib]
  /\ free' = free \cup {c}
  /\ UNCHANGED <<handles, disk, boot, arg, saved, clean>>

-----------------------------------------------------------------------------
(* Saving: SaveRegistryToFile, which AutoSave calls and nobody asks whether *)
(* it succeeded.                                                            *)

SaveBegin(t) ==
  /\ lock = NIL
  /\ \/ /\ Goto(t, "save", "write")
        /\ lock' = t
        /\ tmp' = <<>>
        /\ arg' = [arg EXCEPT ![t].walk = <<Root>>]
        /\ UNCHANGED clean
     \/ /\ "tmp" \in Faults              \* the temporary file cannot be made
        /\ Return(t, "save")
        /\ clean' = FALSE
        /\ UNCHANGED <<lock, tmp>>
  /\ UNCHANGED <<tree, handles, file, boot, saved>>

\* The key a save has reached, and the keys it is inside of.
Here(t) == arg[t].walk[Len(arg[t].walk)]
Outside(t) == SubSeq(arg[t].walk, 1, Len(arg[t].walk) - 1)

\* WriteToFile ignores errors: once the disk is full nothing more arrives.
WriteKey(t) ==
  LET n == Here(t)
      token == [name |-> node[n].name, vals |-> node[n].vals,
                subs |-> Cardinality(Kids(n))]
      into == node[n].child
  IN
  /\ Goto(t, "write", IF into # NIL THEN "write" ELSE "next")
  /\ \E full \in {arg[t].full} \cup (IF "write" \in Faults THEN {TRUE} ELSE {}) :
       /\ tmp' = IF full THEN tmp ELSE Append(tmp, token)
       /\ arg' = [arg EXCEPT ![t].full = full,
                             ![t].walk = IF into # NIL THEN Append(@, into)
                                         ELSE @]
  /\ UNCHANGED <<tree, handles, file, lock, boot, saved, clean>>

\* Faulty variant: the siblings of a key are forgotten.
WriteNextUp(t) ==
  /\ Len(arg[t].walk) > 1
  /\ Goto(t, "next", "next")
  /\ arg' = [arg EXCEPT ![t].walk = Outside(t)]
  /\ UNCHANGED <<tree, handles, disk, boot, saved, clean>>

\* The loop of SaveKeyToFile goes to the next sibling, or the call returns.
WriteNext(t) ==
  LET s == node[Here(t)].sib IN
  /\ Len(arg[t].walk) > 1
  /\ \/ /\ s # NIL
        /\ Goto(t, "next", "write")
        /\ arg' = [arg EXCEPT ![t].walk = Append(Outside(t), s)]
     \/ /\ s = NIL
        /\ Goto(t, "next", "next")
        /\ arg' = [arg EXCEPT ![t].walk = Outside(t)]
  /\ UNCHANGED <<tree, handles, disk, boot, saved, clean>>

\* MoveFileExW replaces the file, or fails and the temporary is deleted.
SaveMove(t) ==
  /\ Len(arg[t].walk) = 1
  /\ Return(t, "next")
  /\ lock' = NIL
  /\ tmp' = Absent
  /\ \/ file' = tmp /\ saved' = Content /\ clean' = TRUE
     \/ "move" \in Faults /\ clean' = FALSE /\ UNCHANGED <<file, saved>>
  /\ UNCHANGED <<tree, handles, boot>>

-----------------------------------------------------------------------------
(* Starting: LoadRegistryFromFile, ResetHandleTable, DumpRegistryTree *)

\* The record of the root.  A missing or empty file leaves an empty tree, and
\* values of the root make the loader take them for keys: none of the file's
\* keys come back.
LoadRoot ==
  /\ boot.stage = "root"
  /\ boot' = IF file \in {Absent, <<>>} \/ file[1].vals # NoValues
             THEN [Booting EXCEPT !.stage = "dump"]
             ELSE [Booting EXCEPT !.stage = "load", !.at = 2,
                                  !.stack = <<[key |-> Root,
                                               left |-> file[1].subs]>>]
  /\ UNCHANGED <<tree, handles, disk, pc, arg, saved, clean>>

Top == boot.stack[Len(boot.stack)]
Rest == SubSeq(boot.stack, 1, Len(boot.stack) - 1)

\* What ReadFromFile leaves in the variables: the next record of the file, or,
\* past its end, whatever they held before.
Record ==
  IF boot.at <= Len(file) THEN {file[boot.at]}
  ELSE [name : Names, vals : {NoValues}, subs : {0}]

\* LoadKeyFromFile: one key below the one being loaded.
LoadKey ==
  /\ boot.stage = "load"
  /\ Top.left > 0
  /\ \E b \in free, r \in Record :
       /\ AddKey(Top.key, b, r.name, r.vals)
       /\ boot' = [boot EXCEPT !.at = @ + 1,
                     !.stack = Rest \o <<[Top EXCEPT !.left = @ - 1],
                                         [key |-> b, left |-> r.subs]>>]
  /\ UNCHANGED <<handles, disk, pc, arg, saved, clean>>

\* All subkeys are loaded, or the file has ended too early and the length of
\* the next name happens to be 0.
LoadReturn ==
  /\ boot.stage = "load"
  /\ Top.left = 0 \/ boot.at > Len(file)
  /\ boot' = IF Len(boot.stack) = 1 THEN [boot EXCEPT !.stage = "dump"]
             ELSE [boot EXCEPT !.stack = Rest]
  /\ UNCHANGED <<tree, handles, disk, pc, arg, saved, clean>>

\* DumpRegistryTree logs the keys of the service through the hooks: each of
\* them gets a handle and a place in the cache before the service runs.
DumpBegin ==
  /\ boot.stage = "dump"
  /\ boot' = [Booting EXCEPT
                !.stage = IF \E k \in Tree : k[2] = DumpPath
                          THEN "open" ELSE "done",
                !.walk = IF \E k \in Tree : k[2] = DumpPath
                         THEN <<CHOOSE n \in Keys : <<n, DumpPath>> \in Tree>>
                         ELSE <<>>]
  /\ UNCHANGED <<tree, handles, disk, pc, arg, saved, clean>>

Dumped == boot.walk[Len(boot.walk)]
DumpedPath == DumpPath \o [i \in 1..(Len(boot.walk) - 1) |->
                             node[boot.walk[i + 1]].name]

\* AllocHandle and CacheLookup before there are threads to come between.
OpenAlone(k, p) ==
  LET h == Len(table) + 1 IN
  /\ table' = Append(table, [key |-> k, path |-> p])
  /\ \/ \E i \in Hits(p) :
          /\ \A j \in Hits(p) : i <= j
          /\ known' = known \cup {cache[i].h}
          /\ UNCHANGED cache
     \/ /\ Hits(p) = {}
        /\ cache' = IF Len(cache) < MaxCached
                    THEN Append(cache, [path |-> p, h |-> h]) ELSE cache
        /\ known' = known \cup {h}

DumpOpen ==
  /\ boot.stage = "open"
  /\ OpenAlone(Dumped, DumpedPath)
  /\ boot' = IF node[Dumped].child # NIL
             THEN [boot EXCEPT !.walk = Append(@, node[Dumped].child)]
             ELSE [boot EXCEPT !.stage = "close"]
  /\ UNCHANGED <<tree, disk, pc, arg, saved, clean>>

DumpClose ==
  LET s == node[Dumped].sib
      out == SubSeq(boot.walk, 1, Len(boot.walk) - 1)
  IN
  /\ boot.stage = "close"
  /\ boot' = IF out = <<>> THEN [Booting EXCEPT !.stage = "done"]
             ELSE IF s # NIL THEN [boot EXCEPT !.stage = "open",
                                               !.walk = Append(out, s)]
             ELSE [boot EXCEPT !.walk = out]
  /\ known' = {}
  /\ UNCHANGED <<tree, table, cache, disk, pc, arg, saved, clean>>

\* A null or wild pointer: CreateKey on a full heap, a length read from
\* beyond the end of the file.
Crashes ==
  \/ free = {} /\ \E t \in Threads : pc[t] = "create"
  \/ boot.stage = "load" /\ boot.at > Len(file) /\ Top.left > 0

\* The service ends and is started again; in the middle of a call with the
\* fault "crash".  What was in memory is lost, an unfinished temporary file
\* stays.
Restart ==
  /\ \/ Running /\ pc = Fresh.pc
     \/ "crash" \in Faults
     \/ Crashes
  /\ boot # Booting
  /\ node' = Fresh.node /\ free' = Blocks
  /\ table' = <<>> /\ cache' = <<>> /\ known' = {}
  /\ lock' = NIL
  /\ boot' = Booting
  /\ pc' = Fresh.pc /\ arg' = Fresh.arg
  /\ clean' = TRUE
  /\ UNCHANGED <<file, tmp, saved>>

Next ==
  \/ \E t \in Threads :
       \/ \E op \in {"create", "open"}, sub \in Subs :
            \/ \E root \in {"HKLM", "HKCU"} : OpenUnderRoot(t, op, root, sub)
            \/ \E h \in known : OpenUnderHandle(t, op, h, sub)
       \/ \E h \in known :
            \/ \E v \in Values : \/ DeleteValueW(t, h, v)
                                 \/ \E d \in Data : SetValueExW(t, h, v, d)
            \/ \E x \in Names : DeleteKeyW(t, h, x)
       \/ Navigate(t) \/ CreateKey(t)
       \/ AllocHandle(t) \/ CacheLookup(t) \/ CacheAdd(t)
       \/ SaveBegin(t) \/ WriteKey(t) \/ WriteNext(t) \/ SaveMove(t)
  \/ \E h \in known : CloseKey(h)
  \/ LoadRoot \/ LoadKey \/ LoadReturn
  \/ DumpBegin \/ DumpOpen \/ DumpClose
  \/ Restart

Spec == Init /\ [][Next]_vars

-----------------------------------------------------------------------------
(* Properties *)

Images == Seq([name : Names \cup {NIL}, vals : [Values -> Data \cup {NIL}],
               subs : Nat])

TypeOK ==
  /\ node \in [Keys -> [name : Names \cup {NIL}, child : Null, sib : Null,
                        vals : [Values -> Data \cup {NIL}]]]
  /\ free \in SUBSET Blocks
  /\ table \in Seq([key : Keys, path : Seq(Names)])
  /\ cache \in Seq([path : Seq(Names), h : 1..Len(table)])
  /\ Len(cache) <= MaxCached
  /\ known \in SUBSET (1..Len(table))
  /\ file = Absent \/ file \in Images
  /\ tmp = Absent \/ tmp \in Images
  /\ lock \in Threads \cup {NIL}
  /\ boot.stage \in {"root", "load", "dump", "open", "close", "done"}
  /\ pc \in [Threads -> {"idle", "navigate", "create", "lookup", "add", "save",
                         "write", "next"}]
  /\ clean \in BOOLEAN

\* No freed key is left in the tree, and a path names one key: NavigatePath
\* creates only components that are missing (register.c:347-349).
TreeIsSound ==
  /\ \A k \in Tree : k[1] \notin free
  /\ \A k, l \in Tree : k[2] = l[2] => k[1] = l[1]

\* A handle the service holds means the live key at the path it was opened
\* with: what is set through it is found by a search and reaches the file
\* ("keys stay in memory", register.c:1181).
HandlesResolve ==
  Running => \A h \in known : <<table[h].key, table[h].path>> \in Tree

\* A path in the cache has one handle: two opens of it that the service has
\* not closed share it (register.c:296).
OneHandlePerPath ==
  \A h, g \in known :
    /\ table[h].path = table[g].path
    /\ \E i \in 1..Len(cache) : cache[i].path = table[h].path
    => h = g

\* After a call has returned a restart would find its change, unless the save
\* reported an error (AutoSave: "Called after every modification").
SavedWhenReturned ==
  Running /\ clean /\ pc = Fresh.pc => saved = Content

\* Memory and file implement the registry the service was promised.
Store == INSTANCE RegistryStore WITH
  Path <- UNION {[1..n -> Names] : n \in 0..Cardinality(Blocks)},
  NONE <- NIL,
  mem <- IF boot.stage \in {"root", "load"} THEN saved ELSE Content,
  disk <- saved
StoreSpec == Store!Spec

\* The temporary file and the rename are there so that the file is always a
\* whole registry (register.c:621): a restart brings back what was saved.
RestartRestores ==
  [][boot.stage \in {"root", "load"} /\ boot'.stage = "dump" => Content' = saved]_vars
=============================================================================
