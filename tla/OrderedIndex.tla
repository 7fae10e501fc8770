---------------------------- MODULE OrderedIndex ----------------------------
(***************************************************************************)
(* What an index promises the tables: a finite map from keys to the        *)
(* records that hold them, in which a key is inserted once and erased once.*)
(***************************************************************************)
CONSTANTS Keys, Rids, NoRid

VARIABLE index

Present(k) == index[k] # NoRid

Init == index = [k \in Keys |-> NoRid]

(* The record of k becomes r and no other record changes.                   *)
Becomes(k, r) ==
  index'[k] = r /\ \A j \in Keys \ {k} : index'[j] = index[j]

Insert(k, r) == ~Present(k) /\ Becomes(k, r)

Erase(k) == Present(k) /\ Becomes(k, NoRid)

Next == \E k \in Keys : Erase(k) \/ \E r \in Rids : Insert(k, r)

Spec == Init /\ [][Next]_index
=============================================================================
