--------------------------- MODULE TreeProperties ---------------------------
(***************************************************************************)
(* What must hold of the B+ tree of BPlusTree.tla.                         *)
(***************************************************************************)
EXTENDS BPlusTree

(* The leaves of the tree from left to right.                               *)
Leaves ==
  LET under[p \in PageIds] ==
        LET kids == pages[p].pointers
        IN  IF pages[p].leaf THEN <<p>>
            ELSE FlattenSeq([i \in DOMAIN kids |-> under[kids[i]]])
  IN  IF root = 0 THEN <<>> ELSE under[root]

(* The middle nodes and the children of one.  A released page is blank, so  *)
(* every middle node is in the tree.                                        *)
Middles     == { p \in PageIds : ~pages[p].leaf }
Children(p) == ToSet(pages[p].pointers)
InTree      == ({root} \ {0}) \cup UNION { Children(q) : q \in Middles }

Content == UNION { ToSet(pages[p].data) : p \in ToSet(Leaves) }

(* How many levels a node stands on; 0 for a node whose children differ.    *)
Height(top) ==
  LET height[p \in PageIds] ==
        IF pages[p].leaf THEN 1
        ELSE LET below == { height[c] : c \in ToSet(pages[p].pointers) }
             IN  IF \E h \in below \ {0} : below = {h}
                 THEN 1 + (CHOOSE h \in below : TRUE) ELSE 0
  IN  height[top]

(* All leaves stay on one level, also while splits, borrows and merges are  *)
(* under way (split_node, grow_tree, borrow_sibling, merge_sibling,         *)
(* shrink_root).                                                            *)
Balanced == root # 0 => Height(root) > 0

(* A node other than the root holds t - 1 to 2 t - 1 keys, the root of a    *)
(* tree of several levels at least one.  Only the node that is being        *)
(* repaired may be one key off, and the array of a node never takes more    *)
(* than the 2 t entries it has room for; so an overfull node meets the loop *)
(* that splits it before the next insertion, and a merge never overflows    *)
(* (BPlusTree.h:60-89, 513-539, 650-705).                                   *)
Occupancy ==
  \A p \in InTree :
    LET low  == IF p # root THEN MinKeys ELSE IF pages[p].leaf THEN 0 ELSE 1
        less == IF <<pc, p>> \in {<<"shrink_root", root>>, <<"balance_delete", curr>>}
                THEN 1 ELSE 0
        more == IF <<pc, p>> = <<"balance_insert", curr>> THEN 1 ELSE 0
    IN  Count(p) \in low - less .. MaxKeys + more

(* The path that was remembered before a node was split or merged still     *)
(* leads from the root to the node being repaired, so every split and merge *)
(* changes the true parent (find_path, balance_insert, balance_delete).     *)
PathLeadsToNode ==
  LET line == Append(path, curr)
  IN  pc \in {"balance_insert", "balance_delete"} =>
        /\ line[1] = root
        /\ \A i \in 1 .. Len(path) :
             line[i + 1] \in ToSet(pages[line[i]].pointers)

(* The keys of the leaves below a node.                                     *)
KeysBelow(top) ==
  LET below[p \in PageIds] ==
        IF pages[p].leaf THEN ToSet(KeysOf(pages[p]))
        ELSE UNION { below[c] : c \in ToSet(pages[p].pointers) }
  IN  below[top]

(* A middle node separates its children: what is below the pointer before a *)
(* key is smaller than the key, what is below the pointer after it is not.  *)
(* Separators outlive the entries they were copied from, so this is more    *)
(* than order among entries: it is what makes a lookup find every key       *)
(* (binary_search_in_node, split_leaf, split_middle, borrow_sibling,        *)
(* merge_sibling).                                                          *)
Separated ==
  \A p \in Middles :
    LET node == pages[p]
    IN  /\ Len(node.pointers) = Len(node.keys) + 1
        /\ \A i \in DOMAIN node.keys :
             /\ \A k \in KeysBelow(node.pointers[i]) : k < node.keys[i]
             /\ \A k \in KeysBelow(node.pointers[i + 1]) : k >= node.keys[i]

(* The chain of the leaves is the tree's leaves from left to right: a scan  *)
(* misses no leaf, visits none twice and ends (split_leaf, merge_sibling).  *)
LeafChain ==
  \A i \in DOMAIN Leaves :
    pages[Leaves[i]].next = IF i < Len(Leaves) THEN Leaves[i + 1] ELSE 0

(* No page is in the tree twice, on the free list twice, or on both: an     *)
(* allocation never hands out a page that is in use, across splits, merges, *)
(* root changes and the reuse of freed pages (allocate_new_page,            *)
(* release_page, TablePageManager).                                         *)
PagesOwned ==
  LET Free == ToSet(space.free_list)
      File == 1 .. space.page_count - 1
  IN  /\ \A p \in Middles : /\ IsInjective(pages[p].pointers)
                            /\ Children(p) \subseteq File \ (Free \cup {root})
      /\ \A p, q \in Middles : p # q => Children(p) \cap Children(q) = {}
      /\ root # 0 => root \in File \ Free
      /\ IsInjective(space.free_list) /\ Free \subseteq File

(* Pages of the file that are neither in the tree nor on the free list.     *)
Lost == (1 .. space.page_count - 1) \ (InTree \cup ToSet(space.free_list))

(* A step loses a page only by releasing one while the free list is full:   *)
(* no split, merge or change of root leaves a page behind                   *)
(* (TablePageManager.h:28-32, shrink_root, merge_sibling).                  *)
PagesAccounted ==
  [][ Lost' # Lost =>
        /\ Len(space.free_list) = FreeLimit
        /\ \E p \in InTree : Lost' = Lost \cup {p} ]_vars

-----------------------------------------------------------------------------
InOrder(S) ==
  [i \in 1 .. Cardinality(S) |->
     CHOOSE e \in S : Cardinality({ x \in S : x[1] < e[1] }) = i - 1]

(* The record of the least key of S.                                        *)
First(S) == IF S = {} THEN NoRid ELSE InOrder(S)[1][2]

(* Between operations the bounds and the scans return what the entries of   *)
(* the tree, taken as a set, say: in order, across leaf boundaries, for     *)
(* keys that are there and keys that are not, and when the separators on    *)
(* the way belong to erased keys (lower_bound, upper_bound, range_scan,     *)
(* lower_bound_scan, for_each).                                             *)
ScansAgree ==
  Idle =>
    /\ ForEach = InOrder(Content)
    /\ \A k \in Keys :
         LET from  == { e \in Content : e[1] >= k }
             above == { e \in Content : e[1] > k }
         IN  /\ LowerBound(k) = First(from)
             /\ UpperBound(k) = First(above)
             /\ LowerBoundScan(k) = InOrder(from)
             /\ \A h \in Keys :
                  RangeScan(k, h) = InOrder({ e \in from : e[1] < h })

(* The tree is an ordered index: the first step of an insertion or deletion *)
(* is the whole of it for anyone who looks keys up, and no step of the      *)
(* repair that follows loses, adds or moves an entry (insert, erase, find). *)
Index == INSTANCE OrderedIndex WITH index <- [k \in Keys |-> Find(k)]
ImplementsIndex == Index!Spec
=============================================================================
