----------------------------- MODULE Conditions -----------------------------
(***************************************************************************)
(* Values and WHERE conditions: Value::compare of shared/include/common.h  *)
(* and the evaluate methods of shared/include/ASTNode.h.                   *)
(*                                                                         *)
(* A row is a function from columns to values.  The values of a column are *)
(* integers, which stand for numbers or for strings in their order.  Null  *)
(* is a null value; as a literal it also stands for one of another type    *)
(* than the column it is compared with, which compares the same way.       *)
(***************************************************************************)
EXTENDS Integers, Sequences

CONSTANTS
  Null,
  Nodes  \* the nodes of all conditions

ASSUME NullAssumption == Null \notin Int

All == [kind |-> "all"]
Comparison(c, op, v) ==
  [kind |-> "comparison", column |-> c, op |-> op, value |-> v]
Between(c, lo, hi) ==
  [kind |-> "between", column |-> c, low |-> lo, high |-> hi]
Not(child) == [kind |-> "not", child |-> child]
Logical(op, l, r) == [kind |-> op, left |-> l, right |-> r]

(* Value::compare: a comparison with null is false, whatever the operator.  *)
Compare(x, op, y) ==
  /\ x # Null /\ y # Null
  /\ CASE op = "="  -> x = y
       [] op = "!=" -> x # y
       [] op = "<"  -> x < y
       [] op = ">"  -> x > y
       [] op = "<=" -> x <= y
       [] op = ">=" -> x >= y

(* The leaves of a condition: none at all, which is always true, and the    *)
(* predicates on a column.  An unknown column makes a predicate false.      *)
Predicates == {"all", "comparison", "between"}
Satisfies(row, node) ==
  CASE node.kind = "all" -> TRUE
    [] node.kind = "comparison" ->
         /\ node.column \in DOMAIN row
         /\ Compare(row[node.column], node.op, node.value)
    [] node.kind = "between" ->
         /\ node.column \in DOMAIN row
         /\ Compare(row[node.column], ">=", node.low)
         /\ Compare(row[node.column], "<", node.high)

(* matches: the condition holds of the row.                                 *)
Matches(row, cond) ==
  LET holds[node \in Nodes] ==
        CASE node.kind \in Predicates -> Satisfies(row, node)
          [] node.kind = "not" -> ~holds[node.child]
          [] node.kind = "AND" -> holds[node.left] /\ holds[node.right]
          [] node.kind = "OR"  -> holds[node.left] \/ holds[node.right]
  IN  IF cond.kind \in Predicates THEN Satisfies(row, cond) ELSE holds[cond]
=============================================================================
