---------------------------- MODULE RegistryStore ----------------------------
(***************************************************************************)
(* What register.c promises to the service: a registry in memory whose     *)
(* changes take effect one at a time, a copy of it on disk that is at      *)
(* every moment a whole earlier state of it, and a restart that brings     *)
(* back exactly that copy.  Registry shows that the key tree, the          *)
(* temporary file and the rename keep this promise.                        *)
(***************************************************************************)
EXTENDS Naturals, Sequences

CONSTANTS
  Path,     (* paths of keys, the root's is <<>>                           *)
  Values,   (* names of values                                             *)
  Data,     (* contents of values                                          *)
  NONE      (* no such value                                               *)

VARIABLES
  mem,      (* the keys in memory, each with its values                    *)
  disk      (* the keys a restart would find                               *)

vars == <<mem, disk>>

NoValues == [v \in Values |-> NONE]
Fresh == {[path |-> <<>>, vals |-> NoValues]}
Has(p) == \E k \in mem : k.path = p
Below(p, k) == Len(k.path) >= Len(p) /\ SubSeq(k.path, 1, Len(p)) = p

Init == mem = Fresh /\ disk = Fresh

CreateKey(p) ==
  /\ p # <<>>
  /\ Has(SubSeq(p, 1, Len(p) - 1))
  /\ ~Has(p)
  /\ mem' = mem \cup {[path |-> p, vals |-> NoValues]}
  /\ UNCHANGED disk

\* With everything below it.
DeleteKey(p) ==
  /\ p # <<>>
  /\ Has(p)
  /\ mem' = {k \in mem : ~Below(p, k)}
  /\ UNCHANGED disk

\* d is NONE to delete the value.
Assign(p, v, d) ==
  /\ Has(p)
  /\ mem' = {IF k.path = p THEN [k EXCEPT !.vals[v] = d] ELSE k : k \in mem}
  /\ UNCHANGED disk

Save == disk' = mem /\ UNCHANGED mem

Restart == mem' = disk /\ UNCHANGED disk

Next ==
  \/ \E p \in Path :
       \/ CreateKey(p) \/ DeleteKey(p)
       \/ \E v \in Values, d \in Data \cup {NONE} : Assign(p, v, d)
  \/ Save \/ Restart

Spec == Init /\ [][Next]_vars
=============================================================================
