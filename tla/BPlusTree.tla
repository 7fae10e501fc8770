------------------------------ MODULE BPlusTree ------------------------------
(***************************************************************************)
(* The B+ tree of storage/include/BPlusTree.h in the pages of a table      *)
(* file, with the page allocator of logic/include/TablePageManager.h.      *)
(*                                                                         *)
(* pages[p] is the node in page p.  A leaf holds its entries (key, record) *)
(* and the page of the next leaf, a middle node keys and one child more.   *)
(* Page 0 is the table's header and serves as the null page.  An operation *)
(* first changes one leaf; then pc says which loop repairs the tree, curr  *)
(* is the node it looks at and path the middle nodes above curr.           *)
(***************************************************************************)
EXTENDS Integers, FiniteSets, SequencesExt

CONSTANTS
  Keys, Rids, NoRid,  \* indexed values, records, and the absence of a record
  RidsOf,             \* the records each value is inserted for
  Erasable,           \* bound: the keys that may be erased
  T,                  \* the template parameter t, at least 2 (get_optimal_t)
  FreeLimit,          \* MAX_FREE_PAGES
  MaxPages            \* bound: the pages the file may grow to

ASSUME TreeAssumption ==
  /\ Keys \subseteq Int
  /\ NoRid \notin Rids /\ RidsOf \in [Keys -> SUBSET Rids]
  /\ Erasable \subseteq Keys
  /\ T \in Nat /\ T >= 2
  /\ FreeLimit \in Nat /\ MaxPages \in Nat \ {0}

VARIABLES pages, root, space, pc, curr, path

vars == <<pages, root, space, pc, curr, path>>

PageIds == 1 .. MaxPages
MinKeys == T - 1
MaxKeys == 2 * T - 1

Leaf(data, next) == [leaf |-> TRUE, data |-> data, next |-> next]
Middle(keys, pointers) ==
  [leaf |-> FALSE, keys |-> keys, pointers |-> pointers]
Blank == Leaf(<<>>, 0)

KeysOf(node) ==
  IF node.leaf THEN [i \in DOMAIN node.data |-> node.data[i][1]] ELSE node.keys
Count(p) == Len(KeysOf(pages[p]))

(* binary_search_in_node: how many keys of the node are not above k.  Bug   *)
(* variant: in middle nodes the lower bound, which leads a separator left.  *)
BugPosition(node, k) ==
  IF node.leaf
  THEN Cardinality({ i \in DOMAIN node.data : node.data[i][1] <= k })
  ELSE Cardinality({ i \in DOMAIN node.keys : node.keys[i] < k })
Position(node, k) ==
  IF node.leaf
  THEN Cardinality({ i \in DOMAIN node.data : node.data[i][1] <= k })
  ELSE Cardinality({ i \in DOMAIN node.keys : node.keys[i] <= k })

(* find_path with the leaf it returns as its last element.                  *)
FindPath(k) ==
  LET down[p \in PageIds] ==
        IF pages[p].leaf THEN <<p>>
        ELSE <<p>> \o down[pages[p].pointers[Position(pages[p], k) + 1]]
  IN  down[root]

(* The leaf a lookup of k ends in.                                          *)
LeafOf(k) ==
  LET down[p \in PageIds] ==
        LET node == pages[p]
        IN  IF node.leaf THEN node
            ELSE down[node.pointers[Position(node, k) + 1]]
  IN  down[root]

-----------------------------------------------------------------------------
(* Reading the tree.                                                        *)

Find(k) ==
  IF root = 0 THEN NoRid
  ELSE LET leaf == LeafOf(k)
           i    == Position(leaf, k)
       IN  IF i > 0 /\ leaf.data[i][1] = k THEN leaf.data[i][2] ELSE NoRid

HasKey(k) == Find(k) # NoRid

(* The first entry after position i of a leaf, or else of the leaf after it.*)
(* Bug variant: only this leaf is looked at.                                *)
BugEntryAfter(leaf, i) ==
  IF i < Len(leaf.data) THEN leaf.data[i + 1][2] ELSE NoRid
EntryAfter(leaf, i) ==
  IF i < Len(leaf.data) THEN leaf.data[i + 1][2]
  ELSE IF leaf.next # 0 /\ pages[leaf.next].data # <<>>
       THEN pages[leaf.next].data[1][2]
       ELSE NoRid

LowerBound(k) ==
  IF HasKey(k) THEN Find(k)
  ELSE IF root = 0 THEN NoRid ELSE EntryAfter(LeafOf(k), Position(LeafOf(k), k))

UpperBound(k) ==
  IF root = 0 THEN NoRid ELSE EntryAfter(LeafOf(k), Position(LeafOf(k), k))

(* The entries a walk along the leaf chain from page start meets.           *)
Chain(start) ==
  LET along[p \in {0} \cup { q \in PageIds : pages[q].leaf }] ==
        IF p = 0 THEN <<>> ELSE pages[p].data \o along[pages[p].next]
  IN  along[start]

(* The walk passes over the keys below lo.                                  *)
LowerBoundScan(lo) ==
  LET met == Chain(Last(FindPath(lo)))
  IN  IF root = 0 THEN <<>>
      ELSE FlattenSeq([i \in DOMAIN met |->
                         IF met[i][1] < lo THEN <<>> ELSE <<met[i]>>])

(* The walk skips keys below lo and stops at the first other one from hi on.*)
RangeScan(lo, hi) ==
  LET found == LowerBoundScan(lo)
      stop  == SelectInSeq(found, LAMBDA e : e[1] >= hi)
  IN  IF stop = 0 THEN found ELSE SubSeq(found, 1, stop - 1)

ForEach ==
  LET leftmost[p \in PageIds] ==
        IF pages[p].leaf THEN p ELSE leftmost[pages[p].pointers[1]]
  IN  IF root = 0 THEN <<>> ELSE Chain(leftmost[root])

-----------------------------------------------------------------------------
(* The page allocator: freed pages are reused last in first out, then the   *)
(* file grows; a page freed when the list is full is forgotten.             *)

Allocated(s) ==
  IF s.free_list # <<>> THEN Last(s.free_list) ELSE s.page_count

Allocate(s) ==
  IF s.free_list # <<>> THEN [s EXCEPT !.free_list = Front(@)]
  ELSE [s EXCEPT !.page_count = @ + 1]

(* Bug variant: the last place of the list is never used.                   *)
BugDeallocate(s, p) ==
  IF Len(s.free_list) + 1 < FreeLimit
  THEN [s EXCEPT !.free_list = Append(@, p)] ELSE s
Deallocate(s, p) ==
  IF Len(s.free_list) < FreeLimit
  THEN [s EXCEPT !.free_list = Append(@, p)] ELSE s

(* Bound: an insertion into a full leaf starts only if the file can hold    *)
(* what it may need, a page per level and a new root.                       *)
Room(k) ==
  LET line == FindPath(k)
  IN  \/ Count(Last(line)) < MaxKeys
      \/ Len(space.free_list) + (MaxPages + 1 - space.page_count) > Len(line)

-----------------------------------------------------------------------------
(* Insertion.                                                               *)

Idle == pc = "idle"

Finish == pc' = "idle" /\ curr' = 0 /\ path' = <<>>

(* A key that is there already is refused and nothing changes.              *)
InsertFirst(k, r) ==
  /\ Idle /\ root = 0
  /\ root'  = Allocated(space)
  /\ space' = Allocate(space)
  /\ pages' = [pages EXCEPT ![root'] = Leaf(<< <<k, r>> >>, 0)]
  /\ UNCHANGED <<pc, curr, path>>

InsertIntoLeaf(k, r) ==
  /\ Idle /\ root # 0 /\ ~HasKey(k) /\ Room(k)
  /\ curr'  = Last(FindPath(k))
  /\ path'  = Front(FindPath(k))
  /\ pages' = [pages EXCEPT ![curr'].data =
                 InsertAt(@, Position(LeafOf(k), k) + 1, <<k, r>>)]
  /\ pc' = "balance_insert"
  /\ UNCHANGED <<root, space>>

Insert(k, r) == InsertFirst(k, r) \/ InsertIntoLeaf(k, r)

(* The two halves of an overfull node and the key its parent gets: a leaf   *)
(* copies the first key of its right half, a middle node gives its key up.  *)
UpKey(node) == KeysOf(node)[IF node.leaf THEN T + 1 ELSE T]

LeftHalf(node, new) ==
  IF node.leaf
  THEN Leaf(SubSeq(node.data, 1, T), new)
  ELSE Middle(SubSeq(node.keys, 1, T - 1), SubSeq(node.pointers, 1, T))

RightHalf(node) ==
  IF node.leaf
  THEN Leaf(SubSeq(node.data, T + 1, Len(node.data)), node.next)
  ELSE Middle(SubSeq(node.keys, T + 1, Len(node.keys)),
              SubSeq(node.pointers, T + 1, Len(node.pointers)))

WithChild(parent, key, child) ==
  LET i == Position(parent, key)
  IN  Middle(InsertAt(parent.keys, i + 1, key),
             InsertAt(parent.pointers, i + 2, child))

(* The middle node above curr.                                              *)
ParentId == Last(path)

(* split_leaf and split_middle of page p under page parent, in the pages pg *)
(* with the new node in page new.                                           *)
Split(pg, p, parent, new) ==
  [pg EXCEPT ![p]      = LeftHalf(pg[p], new),
             ![new]    = RightHalf(pg[p]),
             ![parent] = WithChild(@, UpKey(pg[p]), new)]

Overfull(p) == Count(p) > MaxKeys

BalanceInsertDone ==
  /\ pc = "balance_insert" /\ ~Overfull(curr)
  /\ Finish
  /\ UNCHANGED <<pages, root, space>>

(* Bug variant: the parent is taken from the wrong end of the path.         *)
BugSplitNode ==
  /\ pc = "balance_insert" /\ Overfull(curr) /\ curr # root
  /\ pages' = Split(pages, curr, path[1], Allocated(space))
  /\ space' = Allocate(space)
  /\ curr'  = path[1]
  /\ path'  = Tail(path)
  /\ UNCHANGED <<root, pc>>
SplitNode ==
  /\ pc = "balance_insert" /\ Overfull(curr) /\ curr # root
  /\ pages' = Split(pages, curr, ParentId, Allocated(space))
  /\ space' = Allocate(space)
  /\ curr'  = ParentId
  /\ path'  = Front(path)
  /\ UNCHANGED <<root, pc>>

(* grow_tree: a new root above the old one, which is then split.            *)
GrowTree ==
  /\ pc = "balance_insert" /\ Overfull(curr) /\ curr = root
  /\ LET above  == [pages EXCEPT ![Allocated(space)] = Middle(<<>>, <<root>>)]
         space2 == Allocate(space)
     IN  /\ root'  = Allocated(space)
         /\ pages' = Split(above, root, root', Allocated(space2))
         /\ space' = Allocate(space2)
  /\ Finish

-----------------------------------------------------------------------------
(* Deletion.                                                                *)

(* is_node_underfull.  Bug variant: one key too late.                       *)
BugUnderfull(n) == n + 1 < MinKeys
Underfull(n)    == n < MinKeys

(* A key that is not there is refused and nothing changes.                  *)
Erase(k) ==
  /\ Idle /\ HasKey(k)
  /\ LET leaf == Last(FindPath(k))
     IN  /\ pages' = [pages EXCEPT ![leaf].data =
                        RemoveAt(@, Position(pages[leaf], k))]
         /\ IF leaf # root /\ Underfull(Count(leaf) - 1)
            THEN /\ pc' = "balance_delete"
                 /\ curr' = leaf /\ path' = Front(FindPath(k))
            ELSE /\ pc' = "shrink_root"
                 /\ UNCHANGED <<curr, path>>
  /\ UNCHANGED <<root, space>>

Parent == pages[ParentId]

(* The place of curr among its parent's children, from 1.                   *)
Place == SelectInSeq(Parent.pointers, LAMBDA p : p = curr)
HasRight == Place < Len(Parent.pointers)
HasLeft  == Place > 1
RightSibling == Parent.pointers[Place + 1]
LeftSibling  == Parent.pointers[Place - 1]

CanLend(p)    == Count(p) > MinKeys

Balancing ==
  pc = "balance_delete" /\ curr # root /\ Underfull(Count(curr)) /\ path # <<>>

(* The node, its sibling and the separator between them after a borrow: the *)
(* sibling's nearest entry moves over, through the parent in middle nodes.  *)
Rotation(low, high, sep, fromHigh) ==
  LET data == low.data \o high.data
      keys == low.keys \o <<sep>> \o high.keys
      kids == low.pointers \o high.pointers
      cut  == Len(KeysOf(low)) + (IF fromHigh THEN 1 ELSE -1)
  IN  IF low.leaf
      THEN [low  |-> Leaf(SubSeq(data, 1, cut), low.next),
            high |-> Leaf(SubSeq(data, cut + 1, Len(data)), high.next),
            sep  |-> data[cut + 1][1]]
      ELSE [low  |-> Middle(SubSeq(keys, 1, cut), SubSeq(kids, 1, cut + 1)),
            high |-> Middle(SubSeq(keys, cut + 2, Len(keys)),
                            SubSeq(kids, cut + 2, Len(kids))),
            sep  |-> keys[cut + 1]]

(* The separator a borrow leaves.  Bug variant: the old one.                *)
BugSeparator(rotation, old) == old
Separator(rotation, old)    == rotation.sep

(* One entry moves between the nodes left and right of separator i.         *)
Borrow(low, high, i, fromHigh) ==
  LET rotation == Rotation(pages[low], pages[high], Parent.keys[i], fromHigh)
  IN  /\ pages' = [pages EXCEPT ![low] = rotation.low, ![high] = rotation.high,
                     ![ParentId].keys[i] = Separator(rotation, @)]
      /\ pc' = "shrink_root" /\ curr' = 0 /\ path' = <<>>
      /\ UNCHANGED <<root, space>>

(* borrow_sibling: the right sibling is tried first.                        *)
BorrowRight ==
  /\ Balancing /\ HasRight /\ CanLend(RightSibling)
  /\ Borrow(curr, RightSibling, Place, TRUE)

BorrowLeft ==
  /\ Balancing /\ ~(HasRight /\ CanLend(RightSibling))
  /\ HasLeft /\ CanLend(LeftSibling)
  /\ Borrow(LeftSibling, curr, Place - 1, FALSE)

(* The left node after it took the right one in.  Bug variant: the leaf     *)
(* keeps its successor.                                                     *)
BugMerged(left, right, sep) ==
  IF left.leaf
  THEN Leaf(left.data \o right.data, left.next)
  ELSE Middle(left.keys \o <<sep>> \o right.keys,
              left.pointers \o right.pointers)
Merged(left, right, sep) ==
  IF left.leaf
  THEN Leaf(left.data \o right.data, right.next)
  ELSE Middle(left.keys \o <<sep>> \o right.keys,
              left.pointers \o right.pointers)

(* The page a merge releases.  Bug variant: the one it keeps.               *)
BugReleased(left, right) == left
Released(left, right)    == right

(* merge_sibling: with the right sibling, or else with the left one.  The   *)
(* page of the right node is released; nobody reads it until it is          *)
(* allocated again, so its content is forgotten here.                       *)
MergeSibling ==
  /\ Balancing
  /\ ~(HasRight /\ CanLend(RightSibling)) /\ ~(HasLeft /\ CanLend(LeftSibling))
  /\ LET i     == IF HasRight THEN Place ELSE Place - 1
         left  == Parent.pointers[i]
         right == Parent.pointers[i + 1]
     IN  /\ pages' = [pages EXCEPT
                        ![left] = Merged(@, pages[right], Parent.keys[i]),
                        ![right] = Blank,
                        ![ParentId] = Middle(RemoveAt(@.keys, i),
                                               RemoveAt(@.pointers, i + 1))]
         /\ space' = Deallocate(space, Released(left, right))
  /\ curr' = ParentId
  /\ path' = Front(path)
  /\ UNCHANGED <<root, pc>>

BalanceDeleteDone ==
  /\ pc = "balance_delete" /\ ~Balancing
  /\ pc' = "shrink_root" /\ curr' = 0 /\ path' = <<>>
  /\ UNCHANGED <<pages, root, space>>

(* A middle root without keys is replaced by its only child.                *)
RootIsEmpty == ~pages[root].leaf /\ Count(root) = 0

ShrinkRoot ==
  /\ pc = "shrink_root"
  /\ IF RootIsEmpty
     THEN /\ root'  = pages[root].pointers[1]
          /\ pages' = [pages EXCEPT ![root] = Blank]
          /\ space' = Deallocate(space, root)
     ELSE UNCHANGED <<pages, root, space>>
  /\ Finish

-----------------------------------------------------------------------------
Init ==
  /\ pages = [p \in PageIds |-> Blank]
  /\ root = 0
  /\ space = [free_list |-> <<>>, page_count |-> 1]
  /\ pc = "idle" /\ curr = 0 /\ path = <<>>

Balance ==
  \/ BalanceInsertDone \/ SplitNode \/ GrowTree
  \/ BorrowRight \/ BorrowLeft \/ MergeSibling \/ BalanceDeleteDone
  \/ ShrinkRoot

Next ==
  \/ Balance
  \/ \E k \in Erasable : Erase(k)
  \/ \E k \in Keys : \E r \in RidsOf[k] : Insert(k, r)

Spec == Init /\ [][Next]_vars
=============================================================================
