------------------------------- MODULE MCTree -------------------------------
(* Small instances of BPlusTree for TLC.                                    *)
EXTENDS TreeProperties, TLC

(* Every key stands for a record of its own.                                *)
SevenKeys == 1 .. 7
OwnRecord == [k \in Keys |-> {k}]

(* A tree of three levels, as the insertion of the even keys up to 26 in    *)
(* ascending order leaves it: its second middle node is full.               *)
ThirtyKeys == 1 .. 30
Changing   == {4, 6, 8, 15, 17, 28, 30}
SomeChange == [k \in Keys |-> {k} \cap Changing]
Pair(k)    == << <<k, k>>, <<k + 2, k + 2>> >>

GrownInit ==
  /\ root = 7
  /\ pages = [p \in PageIds |->
       CASE p = 7 -> Middle(<<10>>, <<2, 8>>)
         [] p = 2 -> Middle(<<6>>, <<1, 3>>)
         [] p = 8 -> Middle(<<14, 18, 22>>, <<4, 5, 6, 9>>)
         [] p = 1 -> Leaf(Pair(2), 3)
         [] p \in 3 .. 5 -> Leaf(Pair(4 * p - 6), p + 1)
         [] p = 6 -> Leaf(Pair(18), 9)
         [] p = 9 -> Leaf(Pair(22) \o << <<26, 26>> >>, 0)
         [] OTHER -> Blank]
  /\ space = [free_list |-> <<>>, page_count |-> 10]
  /\ pc = "idle" /\ curr = 0 /\ path = <<>>

GrownSpec == GrownInit /\ [][Next]_vars

(* The pages of the tree, each before its children, the children in order.  *)
Preorder ==
  LET under[p \in PageIds] ==
        IF pages[p].leaf THEN <<p>>
        ELSE FoldLeft(LAMBDA seen, c : seen \o under[c], <<p>>,
                      pages[p].pointers)
  IN  IF root = 0 THEN <<>> ELSE under[root]

(* A state without the numbers of its pages: the nodes in the order of      *)
(* Preorder with their number of children and the places of their next, of  *)
(* curr and of path in it.  Renaming pages maps behaviours to behaviours    *)
(* and no property tells page numbers apart, so states with the same shape  *)
(* are explored once.                                                       *)
Shape ==
  LET order   == Preorder
      place(p) == SelectInSeq(order, LAMBDA q : q = p)
  IN  << [i \in DOMAIN order |->
            LET node == pages[order[i]]
            IN  IF node.leaf THEN <<node.data, place(node.next)>>
                ELSE <<node.keys, Len(node.pointers)>>],
         pc, place(curr), [i \in DOMAIN path |-> place(path[i])],
         Len(space.free_list), space.page_count >>
=============================================================================
