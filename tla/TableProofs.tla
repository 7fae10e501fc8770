----------------------------- MODULE TableProofs -----------------------------
(***************************************************************************)
(* The pages and indexes of a table file that no process uses with an old  *)
(* page count.                                                             *)
(***************************************************************************)
EXTENDS TableProperties, FiniteSetTheorems, SequenceTheorems, TLAPS

-----------------------------------------------------------------------------
(* Numbers.                                                                 *)

(* A set of numbers has a least one: what stands in for induction here.     *)
LEMMA LeastIn ==
  ASSUME NEW S, S \subseteq Nat, S # {}
  PROVE  \E m \in S : \A n \in S : m <= n
<1> DEFINE below == { 1 .. n : n \in S }
<1>1. \A n \in S : IsFiniteSet(1 .. n)
  BY FS_Interval
<1>2. below \subseteq FiniteSubsetsOf(Nat) /\ below # {}
  <2>1. \A n \in S : 1 .. n \subseteq Nat
    OBVIOUS
  <2>2. \A n \in S : 1 .. n \in FiniteSubsetsOf(Nat)
    BY <1>1, <2>1 DEF FiniteSubsetsOf
  <2> QED
    BY <2>2
<1>3. PICK x \in below :
        \A y \in below : ~(<<y, x>> \in StrictSubsetOrdering(Nat))
  <2> HIDE DEF below
  <2> QED
    BY <1>2, FS_StrictSubsetOrderingWellFounded, WFMin
<1>4. PICK m \in S : x = 1 .. m
  OBVIOUS
<1>5. SUFFICES ASSUME NEW n \in S, n < m PROVE FALSE
  OBVIOUS
<1>6. /\ 1 .. n \subseteq 1 .. m
      /\ m \in 1 .. m /\ m \notin 1 .. n
  BY <1>5
<1>7. <<1 .. n, x>> \in StrictSubsetOrdering(Nat)
  BY <1>4, <1>6 DEF StrictSubsetOrdering
<1> QED
  BY <1>3, <1>7

LEMMA MaxIs ==
  ASSUME NEW n \in Nat, NEW t \in SUBSET (1 .. n), t # {}
  PROVE  Max(t) \in t /\ \A i \in t : i <= Max(t)
<1> DEFINE S == { n - i : i \in t }
<1>1. S \subseteq Nat /\ S # {}
  <2>1. \A i \in t : n - i \in Nat
    OBVIOUS
  <2>2. PICK i \in t : TRUE
    OBVIOUS
  <2>3. n - i \in S
    OBVIOUS
  <2> QED
    BY <2>1, <2>3
<1>2. PICK m \in S : \A k \in S : m <= k
  <2> HIDE DEF S
  <2> QED
    BY <1>1, LeastIn
<1>3. PICK i \in t : m = n - i
  OBVIOUS
<1>4. \A j \in t : i >= j
  <2> SUFFICES ASSUME NEW j \in t PROVE i >= j
    OBVIOUS
  <2>1. m <= n - j
    BY <1>2
  <2> QED
    BY <1>3, <2>1
<1>5. \E k \in t : \A j \in t : k >= j
  BY <1>4
<1>6. Max(t) \in t /\ \A j \in t : Max(t) >= j
  BY <1>5 DEF Max
<1> QED
  BY <1>6

LEMMA MinIs ==
  ASSUME NEW t, t \subseteq Nat, t # {}
  PROVE  Min(t) \in t /\ \A i \in t : Min(t) <= i
<1>1. PICK m \in t : \A n \in t : m <= n
  BY LeastIn
<1>2. \E m2 \in t : \A n \in t : m2 =< n
  BY <1>1
<1> QED
  BY <1>2 DEF Min

-----------------------------------------------------------------------------
(* Folds.  A fold of the module Folds is the last value of a function that  *)
(* is defined on all subsets of the indices; that there is such a function  *)
(* is what is to be proved of it.                                           *)

(* It takes the elements with the indices in t, in order.                   *)
Folding(it, n, x, G) ==
  \A t \in SUBSET (1 .. n) :
    it[t] = IF t = {} THEN x ELSE G[Max(t)][it[t \ {Max(t)}]]

LEMMA OneMore ==
  ASSUME NEW X, NEW n \in Nat, NEW x \in X,
         NEW G \in [1 .. n + 1 -> [X -> X]],
         NEW it \in [SUBSET (1 .. n) -> X], Folding(it, n, x, G)
  PROVE  \E f \in [SUBSET (1 .. n + 1) -> X] : Folding(f, n + 1, x, G)
<1> DEFINE m == n + 1
           f == [t \in SUBSET (1 .. m) |->
                   IF m \in t THEN G[m][it[t \ {m}]] ELSE it[t]]
<1>1. \A t \in SUBSET (1 .. m) : /\ m \in t => t \ {m} \in SUBSET (1 .. n)
                                 /\ m \notin t => t \in SUBSET (1 .. n)
  OBVIOUS
<1>2. m \in 1 .. m /\ G[m] \in [X -> X] /\ m \in Nat
  OBVIOUS
<1> HIDE DEF m
<1>3. f \in [SUBSET (1 .. m) -> X]
  BY <1>1, <1>2
<1>4. ASSUME NEW t \in SUBSET (1 .. m)
      PROVE  f[t] = IF t = {} THEN x ELSE G[Max(t)][f[t \ {Max(t)}]]
  <2>1. CASE t = {}
    BY <1>1, <2>1 DEF Folding
  <2>2. CASE m \in t
    <3>1. Max(t) = m
      <4>1. Max(t) \in t /\ m <= Max(t)
        BY <1>2, <2>2, MaxIs
      <4>2. Max(t) \in 1 .. m
        BY <4>1
      <4> QED
        BY <1>2, <4>1, <4>2
    <3>2. f[t] = G[m][it[t \ {m}]]
      BY <2>2
    <3>3. f[t \ {m}] = it[t \ {m}]
      OBVIOUS
    <3> QED
      BY <2>2, <3>1, <3>2, <3>3
  <2>3. CASE t # {} /\ m \notin t
    <3>1. t \in SUBSET (1 .. n) /\ t \ {Max(t)} \in SUBSET (1 .. m)
      BY <1>1, <2>3
    <3>2. f[t] = it[t] /\ f[t \ {Max(t)}] = it[t \ {Max(t)}]
      BY <2>3, <3>1
    <3> QED
      BY <2>3, <3>1, <3>2 DEF Folding
  <2> QED
    BY <2>1, <2>2, <2>3
<1>5. Folding(f, m, x, G)
  BY <1>4 DEF Folding
<1> QED
  BY <1>3, <1>5 DEF m

LEMMA FoldExists ==
  ASSUME NEW X, NEW n \in Nat, NEW x \in X, NEW G \in [1 .. n -> [X -> X]]
  PROVE  \E it \in [SUBSET (1 .. n) -> X] : Folding(it, n, x, G)
<1> DEFINE Has(k) == \E it \in [SUBSET (1 .. k) -> X] : Folding(it, k, x, G)
           S == { k \in 0 .. n : ~Has(k) }
<1>1. Has(0)
  <2> DEFINE it == [t \in SUBSET (1 .. 0) |-> x]
  <2>1. it \in [SUBSET (1 .. 0) -> X]
    OBVIOUS
  <2>2. Folding(it, 0, x, G)
    BY DEF Folding
  <2> QED
    BY <2>1, <2>2
<1>2. ASSUME NEW k \in 0 .. n, k # n, Has(k) PROVE Has(k + 1)
  <2> DEFINE H == [i \in 1 .. k + 1 |-> G[i]]
  <2>1. /\ k \in Nat /\ k + 1 \in Nat /\ 1 .. k + 1 \subseteq 1 .. n
        /\ 1 .. k \subseteq 1 .. k + 1
    <3>1. k \in Nat /\ k < n
      BY <1>2
    <3> QED
      BY <3>1
  <2>7. H \in [1 .. k + 1 -> [X -> X]] /\ \A i \in 1 .. k + 1 : H[i] = G[i]
    BY <2>1
  <2>2. PICK it \in [SUBSET (1 .. k) -> X] : Folding(it, k, x, G)
    BY <1>2
  <2>3. ASSUME NEW j \in {k, k + 1}, NEW t \in SUBSET (1 .. j), t # {}
        PROVE  H[Max(t)] = G[Max(t)]
    <3>1. j \in Nat
      BY <2>1
    <3>2. Max(t) \in t
      BY <2>3, <3>1, MaxIs
    <3>3. Max(t) \in 1 .. k + 1
      BY <2>1, <3>2
    <3> QED
      BY <2>7, <3>3
  <2> HIDE DEF H
  <2>4. Folding(it, k, x, H)
    BY <2>2, <2>3 DEF Folding
  <2>5. PICK f \in [SUBSET (1 .. k + 1) -> X] : Folding(f, k + 1, x, H)
    BY <2>1, <2>7, <2>4, OneMore
  <2>6. Folding(f, k + 1, x, G)
    BY <2>3, <2>5 DEF Folding
  <2> QED
    BY <2>6
<1> HIDE DEF Has
<1>8. SUFFICES S = {}
  <2>1. n \in 0 .. n
    OBVIOUS
  <2>2. ~Has(n) => n \in S
    BY <2>1
  <2> HIDE DEF S
  <2> QED
    BY <2>2 DEF Has
<1>3. SUFFICES ASSUME S # {} PROVE FALSE
  OBVIOUS
<1>4. PICK m \in S : \A k \in S : m <= k
  <2>1. S \subseteq Nat
    OBVIOUS
  <2> HIDE DEF S
  <2> QED
    BY <1>3, <2>1, LeastIn
<1>5. m # 0
  BY <1>1
<1>6. m - 1 \in 0 .. n /\ m - 1 # n /\ m - 1 < m /\ (m - 1) + 1 = m
  BY <1>5
<1>7. Has(m - 1)
  BY <1>4, <1>6
<1> QED
  BY <1>2, <1>6, <1>7

(* The values a fold takes: one after each element.                         *)
Stepping(f, n, x, G) == f[0] = x /\ \A k \in 1 .. n : f[k] = G[k][f[k - 1]]

(* C meets the equation of the fold, at least where it is in X.             *)
Meets(C, X, n, x, G) ==
  /\ C[{}] = x
  /\ \A t \in SUBSET (1 .. n) : t # {} /\ C[t \ {Max(t)}] \in X =>
       C[t] = G[Max(t)][C[t \ {Max(t)}]]

Arrives(C, X, n, x, G) ==
  \E f \in [0 .. n -> X] : Stepping(f, n, x, G) /\ C[1 .. n] = f[n]

(* Whatever function is chosen that does, it is the one that takes these    *)
(* values.                                                                  *)
LEMMA FoldSteps ==
  ASSUME NEW X, NEW n \in Nat, NEW x \in X, NEW G \in [1 .. n -> [X -> X]],
         NEW C, Meets(C, X, n, x, G)
  PROVE  Arrives(C, X, n, x, G)
<1> DEFINE f == [k \in 0 .. n |-> C[1 .. k]]
           S == { k \in 0 .. n : f[k] \notin X }
<1>1. f[0] = x
  <2>1. 1 .. 0 = {}
    OBVIOUS
  <2> QED
    BY <2>1 DEF Meets
<1>2. ASSUME NEW k \in 1 .. n, f[k - 1] \in X PROVE f[k] = G[k][f[k - 1]] /\ f[k] \in X
  <2> DEFINE t == 1 .. k
  <2>1. t \in SUBSET (1 .. n) /\ k \in t /\ \A i \in t : i <= k
    OBVIOUS
  <2> HIDE DEF t
  <2>2. Max(t) = k
    <3>1. Max(t) \in t /\ k <= Max(t)
      BY <2>1, MaxIs
    <3>2. Max(t) <= k /\ Max(t) \in 1 .. n
      BY <2>1, <3>1
    <3> QED
      BY <3>1, <3>2
  <2>3. t \ {k} = 1 .. k - 1
    BY DEF t
  <2>4. f[k] = C[t] /\ f[k - 1] = C[t \ {k}]
    <3>1. f[k] = C[1 .. k] /\ f[k - 1] = C[1 .. k - 1]
      OBVIOUS
    <3> QED
      BY <2>3, <3>1 DEF t
  <2> HIDE DEF f
  <2>5. f[k] = G[k][f[k - 1]]
    BY <1>2, <2>1, <2>2, <2>4 DEF Meets
  <2>6. G[k] \in [X -> X]
    OBVIOUS
  <2> QED
    BY <1>2, <2>5, <2>6
<1>3. S = {}
  <2> SUFFICES ASSUME S # {} PROVE FALSE
    OBVIOUS
  <2>1. S \subseteq Nat
    OBVIOUS
  <2>2. PICK m \in S : \A k \in S : m <= k
    <3> HIDE DEF S
    <3> QED
      BY <2>1, LeastIn
  <2>3. m # 0
    BY <1>1
  <2>4. m \in 1 .. n /\ m - 1 \in 0 .. n /\ m - 1 < m
    BY <2>3
  <2>5. f[m - 1] \in X
    <3> HIDE DEF f
    <3> QED
      BY <2>2, <2>4
  <2> HIDE DEF f
  <2> QED
    BY <1>2, <2>4, <2>5
<1>4. f \in [0 .. n -> X]
  BY <1>3
<1>5. Stepping(f, n, x, G)
  <2>1. \A k \in 1 .. n : k - 1 \in 0 .. n
    OBVIOUS
  <2> HIDE DEF f
  <2> QED
    BY <1>1, <1>2, <1>4, <2>1 DEF Stepping
<1>6. C[1 .. n] = f[n]
  OBVIOUS
<1> HIDE DEF f
<1> QED
  BY <1>4, <1>5, <1>6 DEF Arrives

(* Induction up to n.                                                       *)
LEMMA Upward ==
  ASSUME NEW n \in Nat, NEW S, 0 \in S, \A k \in 1 .. n : k - 1 \in S => k \in S
  PROVE  \A k \in 0 .. n : k \in S
<1> DEFINE T == { k \in 0 .. n : k \notin S }
<1>1. SUFFICES ASSUME T # {} PROVE FALSE
  OBVIOUS
<1>2. PICK m \in T : \A k \in T : m <= k
  <2>1. T \subseteq Nat
    OBVIOUS
  <2> HIDE DEF T
  <2> QED
    BY <1>1, <2>1, LeastIn
<1>3. m \in 0 .. n /\ m # 0
  OBVIOUS
<1>4. m \in 1 .. n /\ m - 1 \in 0 .. n /\ m - 1 < m
  BY <1>3
<1>5. m - 1 \in S
  BY <1>2, <1>4
<1> QED
  BY <1>4, <1>5

-----------------------------------------------------------------------------
(* The length of the records of a page.                                     *)

Slots == { slot \in [row : RowSet \cup {<<>>}, len : Nat] :
             slot.len > 0 => slot.row \in RowSet }

(* The sums of the first lengths.                                           *)
Adding(f, slots) ==
  /\ f \in [0 .. Len(slots) -> Nat] /\ f[0] = 0
  /\ \A k \in 1 .. Len(slots) : f[k] = f[k - 1] + slots[k].len

LEMMA TakenIs ==
  ASSUME NEW slots \in Seq(Slots)
  PROVE  \E f : Adding(f, slots) /\ Taken(slots) = f[Len(slots)]
<1> DEFINE n == Len(slots)
           G == [i \in 1 .. n |-> [v \in Nat |-> v + slots[i].len]]
           C == CHOOSE it : it = [t \in SUBSET (1 .. n) |->
                  IF t = {} THEN 0 ELSE it[t \ {Max(t)}] + slots[Max(t)].len]
<1>1. n \in Nat /\ DOMAIN slots = 1 .. n /\ \A i \in 1 .. n : slots[i].len \in Nat
  BY DEF Slots
<1>2. G \in [1 .. n -> [Nat -> Nat]]
  BY <1>1
<1>3. Taken(slots) = C[1 .. n]
  BY <1>1 DEF Taken, FoldLeft, MapThenFoldSet
<1> HIDE DEF n
<1>4. PICK it \in [SUBSET (1 .. n) -> Nat] : Folding(it, n, 0, G)
  <2> HIDE DEF G
  <2> QED
    BY <1>1, <1>2, FoldExists
<1>5. ASSUME NEW t \in SUBSET (1 .. n), t # {}
      PROVE  /\ Max(t) \in 1 .. n /\ t \ {Max(t)} \in SUBSET (1 .. n)
             /\ \A v \in Nat : G[Max(t)][v] = v + slots[Max(t)].len
  BY <1>1, <1>5, MaxIs
<1> HIDE DEF G
<1>6. it = [t \in SUBSET (1 .. n) |->
              IF t = {} THEN 0 ELSE it[t \ {Max(t)}] + slots[Max(t)].len]
  BY <1>4, <1>5 DEF Folding
<1>7. C = [t \in SUBSET (1 .. n) |->
              IF t = {} THEN 0 ELSE C[t \ {Max(t)}] + slots[Max(t)].len]
  BY <1>6
<1> HIDE DEF C
<1>8. C[{}] = 0
  BY <1>7
<1>9. Meets(C, Nat, n, 0, G)
  BY <1>5, <1>7, <1>8 DEF Meets
<1>10. PICK f \in [0 .. n -> Nat] : Stepping(f, n, 0, G) /\ C[1 .. n] = f[n]
  <2>1. n \in Nat /\ 0 \in Nat
    BY <1>1
  <2>2. Arrives(C, Nat, n, 0, G)
    BY <1>2, <1>9, <2>1, FoldSteps
  <2> QED
    BY <2>2 DEF Arrives
<1>11. ASSUME NEW k \in 1 .. n PROVE k - 1 \in 0 .. n /\ f[k] = f[k - 1] + slots[k].len
  <2>1. k - 1 \in 0 .. n
    BY <1>1
  <2>2. f[k - 1] \in Nat
    BY <1>10, <2>1
  <2>3. f[k] = G[k][f[k - 1]]
    BY <1>10 DEF Stepping
  <2> QED
    BY <2>1, <2>2, <2>3 DEF G
<1> QED
  BY <1>3, <1>10, <1>11 DEF Adding, Stepping, n

LEMMA TakenNat ==
  ASSUME NEW slots \in Seq(Slots)
  PROVE  Taken(slots) \in Nat /\ (slots = <<>> => Taken(slots) = 0)
<1>1. PICK f : Adding(f, slots) /\ Taken(slots) = f[Len(slots)]
  BY TakenIs
<1>2. Len(slots) \in Nat /\ (slots = <<>> => Len(slots) = 0)
  OBVIOUS
<1> QED
  BY <1>1, <1>2 DEF Adding

LEMMA TakenAppend ==
  ASSUME NEW slots \in Seq(Slots), NEW slot \in Slots
  PROVE  Taken(Append(slots, slot)) = Taken(slots) + slot.len
<1> DEFINE n == Len(slots)
           more == Append(slots, slot)
<1>1. PICK f : Adding(f, slots) /\ Taken(slots) = f[n]
  BY TakenIs
<1>2. /\ more \in Seq(Slots) /\ Len(more) = n + 1 /\ n \in Nat /\ more[n + 1] = slot
      /\ \A i \in 1 .. n : more[i] = slots[i]
  OBVIOUS
<1> HIDE DEF n, more
<1>3. PICK g : Adding(g, more) /\ Taken(more) = g[n + 1]
  BY <1>2, TakenIs
<1>4. \A k \in 0 .. n : k \in { j \in 0 .. n : g[j] = f[j] }
  <2> DEFINE S == { j \in 0 .. n : g[j] = f[j] }
  <2>1. 0 \in S
    BY <1>1, <1>2, <1>3 DEF Adding
  <2>2. ASSUME NEW k \in 1 .. n, k - 1 \in S PROVE k \in S
    <3>1. f[k] = f[k - 1] + slots[k].len
      BY <1>1 DEF Adding, n
    <3>2. g[k] = g[k - 1] + more[k].len
      BY <1>2, <1>3 DEF Adding
    <3> QED
      BY <1>2, <2>2, <3>1, <3>2
  <2> HIDE DEF S
  <2>3. \A k \in 0 .. n : k \in S
    BY <1>2, <2>1, <2>2, Upward
  <2> QED
    BY <2>3 DEF S
<1>5. g[n + 1] = g[n] + slot.len
  <2>1. n + 1 \in 1 .. n + 1 /\ (n + 1) - 1 = n
    BY <1>2
  <2> QED
    BY <1>2, <1>3, <2>1 DEF Adding
<1>6. g[n] = f[n]
  BY <1>2, <1>4
<1> QED
  BY <1>1, <1>3, <1>5, <1>6 DEF more

LEMMA TakenSet ==
  ASSUME NEW slots \in Seq(Slots), NEW slot \in Slots, NEW i \in DOMAIN slots
  PROVE  Taken([slots EXCEPT ![i] = slot]) = Taken(slots) - slots[i].len + slot.len
<1> DEFINE n == Len(slots)
           other == [slots EXCEPT ![i] = slot]
<1>1. PICK f : Adding(f, slots) /\ Taken(slots) = f[n]
  BY TakenIs
<1>2. /\ other \in Seq(Slots) /\ Len(other) = n /\ n \in Nat /\ other[i] = slot
      /\ \A k \in 1 .. n : k # i => other[k] = slots[k]
      /\ i \in 1 .. n
  OBVIOUS
<1>3. slot.len \in Nat /\ \A k \in 1 .. n : slots[k].len \in Nat
  BY DEF Slots
<1>4. \A k \in 0 .. n : f[k] \in Nat
  BY <1>1 DEF Adding
<1> HIDE DEF n, other
<1>5. PICK g : Adding(g, other) /\ Taken(other) = g[n]
  BY <1>2, TakenIs
<1> DEFINE S == { k \in 0 .. n : g[k] = IF k < i THEN f[k] ELSE f[k] - slots[i].len + slot.len }
<1>6. 0 \in S
  BY <1>1, <1>2, <1>5 DEF Adding
<1>7. ASSUME NEW k \in 1 .. n, k - 1 \in S PROVE k \in S
  <2>1. f[k] = f[k - 1] + slots[k].len
    BY <1>1 DEF Adding, n
  <2>2. g[k] = g[k - 1] + other[k].len
    BY <1>2, <1>5 DEF Adding
  <2>3. f[k - 1] \in Nat /\ slots[k].len \in Nat /\ slots[i].len \in Nat
    BY <1>2, <1>3, <1>4
  <2>4. g[k - 1] = IF k - 1 < i THEN f[k - 1] ELSE f[k - 1] - slots[i].len + slot.len
    BY <1>7
  <2>5. CASE k < i
    BY <1>2, <2>1, <2>2, <2>3, <2>4, <2>5
  <2>6. CASE k = i
    <3>1. g[k] = f[k - 1] + slot.len
      BY <1>2, <2>2, <2>4, <2>6
    <3> QED
      BY <1>2, <1>3, <2>1, <2>3, <2>6, <3>1
  <2>7. CASE k > i
    <3>1. g[k] = f[k - 1] - slots[i].len + slot.len + slots[k].len
      BY <1>2, <2>2, <2>4, <2>7
    <3> QED
      BY <1>2, <1>3, <2>1, <2>3, <2>7, <3>1
  <2> QED
    BY <1>2, <2>5, <2>6, <2>7
<1>8. \A k \in 0 .. n : k \in S
  <2> HIDE DEF S
  <2> QED
    BY <1>2, <1>6, <1>7, Upward
<1>9. g[n] = f[n] - slots[i].len + slot.len
  <2>1. n \in S /\ ~(n < i)
    BY <1>2, <1>8
  <2> QED
    BY <2>1
<1> QED
  BY <1>1, <1>5, <1>9 DEF other

(* The units of a row.                                                      *)
LEMMA SizeNat ==
  ASSUME NEW row \in RowSet
  PROVE  Size(row) \in Nat /\ Size(row) > 0
<1> DEFINE n == Cardinality(Columns)
           s == [i \in DOMAIN row |-> i]
           G == [i \in 1 .. n |-> [v \in Nat |-> v + Width[i][row[i]]]]
           C == CHOOSE it : it = [t \in SUBSET (DOMAIN s) |->
                  IF t = {} THEN 0 ELSE it[t \ {Max(t)}] + Width[s[Max(t)]][row[s[Max(t)]]]]
<1>1. n \in Nat /\ Columns = 1 .. n
  BY TableAssumption, FS_CardinalityType
<1>2. DOMAIN row = 1 .. n /\ \A i \in 1 .. n : Width[i][row[i]] \in Nat
  <2>1. \A i \in Columns : row[i] \in DOMAIN Width[i] /\ Width[i] \in [DOMAIN Width[i] -> Nat]
    BY WidthAssumption DEF RowSet
  <2>2. DOMAIN row = Columns
    BY DEF RowSet
  <2> QED
    BY <1>1, <2>1, <2>2
<1>3. G \in [1 .. n -> [Nat -> Nat]]
  BY <1>2
<1>4. Size(row) = 1 + C[DOMAIN s]
  BY DEF Size, FoldLeftDomain, FoldLeft, MapThenFoldSet
<1>5. DOMAIN s = 1 .. n /\ \A i \in 1 .. n : s[i] = i
  BY <1>2
<1> HIDE DEF n, s
<1>6. PICK it \in [SUBSET (1 .. n) -> Nat] : Folding(it, n, 0, G)
  <2> HIDE DEF G
  <2> QED
    BY <1>1, <1>3, FoldExists
<1>7. ASSUME NEW t \in SUBSET (1 .. n), t # {}
      PROVE  /\ Max(t) \in 1 .. n /\ t \ {Max(t)} \in SUBSET (1 .. n)
             /\ \A v \in Nat : G[Max(t)][v] = v + Width[Max(t)][row[Max(t)]]
             /\ s[Max(t)] = Max(t)
  BY <1>1, <1>5, <1>7, MaxIs
<1> HIDE DEF G
<1>8. it = [t \in SUBSET (DOMAIN s) |->
              IF t = {} THEN 0 ELSE it[t \ {Max(t)}] + Width[s[Max(t)]][row[s[Max(t)]]]]
  BY <1>5, <1>6, <1>7 DEF Folding
<1>9. C = [t \in SUBSET (DOMAIN s) |->
              IF t = {} THEN 0 ELSE C[t \ {Max(t)}] + Width[s[Max(t)]][row[s[Max(t)]]]]
  BY <1>8
<1> HIDE DEF C
<1>10. Meets(C, Nat, n, 0, G)
  <2>1. C[{}] = 0
    BY <1>9
  <2>2. ASSUME NEW t \in SUBSET (1 .. n), t # {}
        PROVE  C[t] = C[t \ {Max(t)}] + Width[Max(t)][row[Max(t)]]
    <3>1. C[t] = C[t \ {Max(t)}] + Width[s[Max(t)]][row[s[Max(t)]]]
      BY <1>5, <1>9, <2>2
    <3> QED
      BY <1>7, <2>2, <3>1
  <2> QED
    BY <1>7, <2>1, <2>2 DEF Meets
<1>11. Arrives(C, Nat, n, 0, G)
  <2>1. 0 \in Nat
    OBVIOUS
  <2> QED
    BY <1>1, <1>3, <1>10, <2>1, FoldSteps
<1>12. C[1 .. n] \in Nat
  BY <1>1, <1>11 DEF Arrives
<1> QED
  BY <1>4, <1>5, <1>12

-----------------------------------------------------------------------------
(* Heap pages.                                                              *)

HeapRecord(page) ==
  page \in [type : {"heap"}, slots : Seq(Slots), used : Nat, free : Nat]

(* The records and the slot array have their space.                         *)
Packed(page) ==
  page.used + SlotSize * Len(page.slots) <= Room /\ Taken(page.slots) <= page.used

Heaps ==
  { page \in [type : {"heap"}, slots : Seq(Slots), used : Nat, free : Nat] :
      /\ page.used + SlotSize * Len(page.slots) + page.free <= Room
      /\ Taken(page.slots) <= page.used }

LEMMA ArrayNat ==
  ASSUME NEW n \in Nat
  PROVE  /\ SlotSize * n \in Nat /\ SlotSize * (n + 1) = SlotSize * n + SlotSize
         /\ SlotSize \in Nat /\ Room \in Nat /\ SlotSize * 0 = 0
<1>1. SlotSize \in Nat /\ Room \in Nat
  BY TableAssumption
<1> QED
  BY <1>1

LEMMA HeapsPacked ==
  ASSUME NEW page \in Heaps
  PROVE  HeapRecord(page) /\ Packed(page)
<1>1. HeapRecord(page)
  BY DEF Heaps, HeapRecord
<1>2. Len(page.slots) \in Nat /\ page.used \in Nat /\ page.free \in Nat
  BY DEF Heaps
<1> DEFINE e == SlotSize * Len(page.slots)
<1>3. e \in Nat /\ Room \in Nat
  BY <1>2, ArrayNat
<1>4. page.used + e + page.free <= Room /\ Taken(page.slots) <= page.used
  BY DEF Heaps
<1> HIDE DEF e
<1>5. page.used + e <= Room
  BY <1>2, <1>3, <1>4
<1> QED
  BY <1>1, <1>4, <1>5 DEF Packed, e

LEMMA RecalcIs ==
  ASSUME NEW page, HeapRecord(page), Packed(page)
  PROVE  /\ Recalc(page) \in Heaps
         /\ Recalc(page).slots = page.slots /\ Recalc(page).used = page.used
<1> DEFINE e == SlotSize * Len(page.slots)
           r == Recalc(page)
           free == IF Room - page.used > e THEN Room - page.used - e ELSE 0
<1>1. r = [page EXCEPT !.free = free]
  BY DEF Recalc
<1>2. Len(page.slots) \in Nat /\ page.used \in Nat
  BY DEF HeapRecord
<1>3. e \in Nat /\ Room \in Nat
  BY <1>2, ArrayNat
<1>4. page.used + e <= Room /\ Taken(page.slots) <= page.used
  BY DEF Packed
<1> HIDE DEF e
<1>5. free \in Nat /\ page.used + e + free <= Room
  BY <1>2, <1>3, <1>4
<1> HIDE DEF free, r
<1>6. /\ r \in [type : {"heap"}, slots : Seq(Slots), used : Nat, free : Nat]
      /\ r.slots = page.slots /\ r.used = page.used /\ r.free = free
  BY <1>1, <1>5 DEF HeapRecord
<1>7. r.used + SlotSize * Len(r.slots) + r.free <= Room
  BY <1>5, <1>6 DEF e
<1>8. r \in Heaps
  BY <1>4, <1>6, <1>7 DEF Heaps
<1> QED
  BY <1>6, <1>8 DEF r

LEMMA CompactIs ==
  ASSUME NEW page \in Heaps
  PROVE  /\ Compact(page) \in Heaps
         /\ Compact(page).slots = page.slots
         /\ Compact(page).used = Taken(page.slots)
<1> DEFINE q == [page EXCEPT !.used = Taken(page.slots)]
<1>1. HeapRecord(page) /\ Packed(page)
  BY HeapsPacked
<1>2. page.slots \in Seq(Slots) /\ page.used \in Nat /\ Len(page.slots) \in Nat
  BY <1>1 DEF HeapRecord
<1>3. Taken(page.slots) \in Nat
  BY <1>2, TakenNat
<1>4. HeapRecord(q) /\ q.slots = page.slots /\ q.used = Taken(page.slots)
  BY <1>1, <1>3 DEF HeapRecord
<1>5. Packed(q)
  <2>1. SlotSize * Len(page.slots) \in Nat /\ Room \in Nat
    BY <1>2, ArrayNat
  <2> HIDE DEF q
  <2> QED
    BY <1>1, <1>2, <1>3, <1>4, <2>1 DEF Packed
<1>6. Compact(page) = Recalc(q)
  BY DEF Compact
<1> HIDE DEF q
<1> QED
  BY <1>4, <1>5, <1>6, RecalcIs

LEMMA EmptyHeaps ==
  Blank \in Heaps /\ Clean \in Heaps
<1>1. <<>> \in Seq(Slots) /\ Len(<<>>) = 0
  OBVIOUS
<1>2. Taken(<<>>) = 0
  BY <1>1, TakenNat
<1>3. SlotSize * 0 = 0 /\ Room \in Nat
  BY ArrayNat
<1> QED
  BY <1>1, <1>2, <1>3 DEF Blank, Clean, Heaps

LEMMA NewSlot ==
  ASSUME NEW row \in RowSet
  PROVE  [row |-> row, len |-> Size(row)] \in Slots
BY SizeNat DEF Slots

LEMMA AppendRecordIs ==
  ASSUME NEW page \in Heaps, NEW row \in RowSet, Fits(page, Size(row))
  PROVE  /\ AppendRecord(page, row) \in Heaps
         /\ AppendRecord(page, row).slots
              = Append(page.slots, [row |-> row, len |-> Size(row)])
<1> DEFINE slot == [row |-> row, len |-> Size(row)]
           q == [page EXCEPT !.slots = Append(@, slot), !.used = @ + Size(row)]
<1>1. HeapRecord(page) /\ Packed(page)
  BY HeapsPacked
<1>2. page.slots \in Seq(Slots) /\ page.used \in Nat /\ Len(page.slots) \in Nat /\ page.free \in Nat
  BY <1>1 DEF HeapRecord
<1>3. slot \in Slots /\ Size(row) \in Nat
  BY NewSlot, SizeNat
<1>4. AppendRecord(page, row) = Recalc(q)
  BY DEF AppendRecord
<1>5. slot.len = Size(row)
  OBVIOUS
<1> HIDE DEF slot
<1>6. /\ Append(page.slots, slot) \in Seq(Slots)
      /\ Len(Append(page.slots, slot)) = Len(page.slots) + 1
      /\ page.used + Size(row) \in Nat
  BY <1>2, <1>3
<1>7. /\ HeapRecord(q) /\ q.slots = Append(page.slots, slot)
      /\ q.used = page.used + Size(row)
  BY <1>1, <1>6 DEF HeapRecord
<1> HIDE DEF q
<1>8. Taken(q.slots) <= q.used
  <2>1. Taken(q.slots) = Taken(page.slots) + slot.len
    BY <1>2, <1>3, <1>7, TakenAppend
  <2>2. Taken(page.slots) \in Nat
    BY <1>2, TakenNat
  <2> QED
    BY <1>1, <1>2, <1>3, <1>5, <1>7, <2>1, <2>2 DEF Packed
<1>9. q.used + SlotSize * Len(q.slots) <= Room
  <2>1. page.used + SlotSize * Len(page.slots) + page.free <= Room
    BY DEF Heaps
  <2>2. page.free >= Size(row) + SlotSize
    BY DEF Fits
  <2>3. /\ SlotSize * Len(q.slots) = SlotSize * Len(page.slots) + SlotSize
        /\ SlotSize * Len(page.slots) \in Nat /\ SlotSize \in Nat /\ Room \in Nat
    BY <1>2, <1>6, <1>7, ArrayNat
  <2> DEFINE e == SlotSize * Len(page.slots)
             d == SlotSize * Len(q.slots)
  <2>4. page.used + e + page.free <= Room /\ d = e + SlotSize /\ e \in Nat /\ d \in Nat
    BY <2>1, <2>3
  <2> HIDE DEF e, d
  <2>5. page.used + Size(row) + d <= Room
    BY <1>2, <1>3, <2>2, <2>3, <2>4
  <2> QED
    BY <1>7, <2>5 DEF d
<1> QED
  BY <1>4, <1>7, <1>8, <1>9, RecalcIs DEF Packed, slot

LEMMA GoneIs ==
  ASSUME NEW page \in Heaps, NEW i \in DOMAIN page.slots
  PROVE  /\ [page EXCEPT !.slots[i] = Gone] \in Heaps
         /\ [page EXCEPT !.slots[i] = Gone].slots = [page.slots EXCEPT ![i] = Gone]
<1> DEFINE q == [page EXCEPT !.slots[i] = Gone]
<1>1. HeapRecord(page)
  BY HeapsPacked
<1>2. page.slots \in Seq(Slots) /\ Gone \in Slots /\ Gone.len = 0 /\ page.slots[i].len \in Nat
  BY <1>1 DEF HeapRecord, Gone, Slots
<1>3. /\ q \in [type : {"heap"}, slots : Seq(Slots), used : Nat, free : Nat]
      /\ q.slots = [page.slots EXCEPT ![i] = Gone] /\ q.used = page.used /\ q.free = page.free
  BY <1>1, <1>2 DEF HeapRecord
<1>4. Len(q.slots) = Len(page.slots)
  BY <1>2, <1>3
<1> HIDE DEF q
<1>5. Taken(q.slots) <= q.used
  <2>1. Taken(q.slots) = Taken(page.slots) - page.slots[i].len + 0
    BY <1>2, <1>3, TakenSet
  <2>2. Taken(page.slots) \in Nat /\ page.used \in Nat
    BY <1>1, <1>2, TakenNat DEF HeapRecord
  <2> QED
    BY <1>2, <1>3, <2>1, <2>2 DEF Heaps
<1>6. q \in Heaps
  BY <1>3, <1>4, <1>5 DEF Heaps
<1> QED
  BY <1>3, <1>6 DEF q

-----------------------------------------------------------------------------
(* The pages of a file.                                                     *)

Rids == Nat \X Nat

Leaves ==
  [type : {"index"}, entries : UNION { [K -> Rids] : K \in SUBSET Int }]

IsHeap(pg, p) == p \in DOMAIN pg /\ pg[p] \in Heaps
IsLeaf(pg, p) == p \in DOMAIN pg /\ pg[p] \in Leaves

(* Every entry of an index leads to a heap page.                            *)
Into(pg, entries) == \A k \in DOMAIN entries : IsHeap(pg, entries[k][1])
Pointing(pg) == \A q \in DOMAIN pg : pg[q] \in Leaves => Into(pg, pg[q].entries)

PagesOk(pg) == pg \in Seq(Heaps \cup Leaves) /\ Pointing(pg)

(* The roots are pages with indexes, each of its own.                       *)
Rooted(pg, rt) ==
  \A c \in Indexed : rt[c] # 0 =>
    IsLeaf(pg, rt[c]) /\ \A d \in Indexed : rt[d] = rt[c] => d = c

(* The file only grows, and its pages remain what they are.                 *)
Alike(pg, pg2) ==
  \A p \in DOMAIN pg : /\ pg[p] \in Heaps => IsHeap(pg2, p)
                       /\ pg[p] \in Leaves => IsLeaf(pg2, p)

LEMMA Kinds ==
  /\ \A page \in Heaps : page.type = "heap" /\ page \notin Leaves
  /\ \A page \in Leaves : page.type = "index" /\ page \notin Heaps
BY DEF Heaps, Leaves

LEMMA AlikeRooted ==
  ASSUME NEW pg, NEW pg2, Alike(pg, pg2), NEW rt, Rooted(pg, rt)
  PROVE  Rooted(pg2, rt)
BY DEF Alike, Rooted, IsLeaf

LEMMA AlikeHeap ==
  ASSUME NEW pg, NEW pg2, Alike(pg, pg2), NEW p, IsHeap(pg, p)
  PROVE  IsHeap(pg2, p)
BY DEF Alike, IsHeap

LEMMA AlikeInto ==
  ASSUME NEW pg, NEW pg2, Alike(pg, pg2), NEW entries, Into(pg, entries)
  PROVE  Into(pg2, entries)
BY AlikeHeap DEF Into

LEMMA HeapWritten ==
  ASSUME NEW pg, PagesOk(pg), NEW q, IsHeap(pg, q), NEW page \in Heaps
  PROVE  /\ PagesOk([pg EXCEPT ![q] = page])
         /\ Alike(pg, [pg EXCEPT ![q] = page])
         /\ Len([pg EXCEPT ![q] = page]) = Len(pg)
<1> DEFINE pg2 == [pg EXCEPT ![q] = page]
<1>1. pg \in Seq(Heaps \cup Leaves) /\ q \in DOMAIN pg /\ pg[q] \in Heaps
  BY DEF PagesOk, IsHeap
<1>2. /\ pg2 \in Seq(Heaps \cup Leaves) /\ Len(pg2) = Len(pg)
      /\ DOMAIN pg2 = DOMAIN pg /\ pg2[q] = page
      /\ \A p \in DOMAIN pg : p # q => pg2[p] = pg[p]
  BY <1>1
<1> HIDE DEF pg2
<1>3. Alike(pg, pg2)
  BY <1>1, <1>2, Kinds DEF Alike, IsHeap, IsLeaf
<1>4. Pointing(pg2)
  <2> SUFFICES ASSUME NEW p \in DOMAIN pg2, pg2[p] \in Leaves
               PROVE  Into(pg2, pg2[p].entries)
    BY DEF Pointing
  <2>1. p # q
    BY <1>2, Kinds
  <2>2. p \in DOMAIN pg /\ pg2[p] = pg[p]
    BY <1>2, <2>1
  <2>3. Into(pg, pg[p].entries)
    BY <2>2 DEF PagesOk, Pointing
  <2> QED
    BY <1>3, <2>2, <2>3, AlikeInto
<1> QED
  BY <1>2, <1>3, <1>4 DEF PagesOk, pg2

LEMMA LeafWritten ==
  ASSUME NEW pg, PagesOk(pg), NEW q, IsLeaf(pg, q),
         NEW page \in Leaves, Into(pg, page.entries)
  PROVE  /\ PagesOk([pg EXCEPT ![q] = page])
         /\ Alike(pg, [pg EXCEPT ![q] = page])
         /\ Len([pg EXCEPT ![q] = page]) = Len(pg)
<1> DEFINE pg2 == [pg EXCEPT ![q] = page]
<1>1. pg \in Seq(Heaps \cup Leaves) /\ q \in DOMAIN pg /\ pg[q] \in Leaves
  BY DEF PagesOk, IsLeaf
<1>2. /\ pg2 \in Seq(Heaps \cup Leaves) /\ Len(pg2) = Len(pg)
      /\ DOMAIN pg2 = DOMAIN pg /\ pg2[q] = page
      /\ \A p \in DOMAIN pg : p # q => pg2[p] = pg[p]
  BY <1>1
<1> HIDE DEF pg2
<1>3. Alike(pg, pg2)
  BY <1>1, <1>2, Kinds DEF Alike, IsHeap, IsLeaf
<1>4. Pointing(pg2)
  <2> SUFFICES ASSUME NEW p \in DOMAIN pg2, pg2[p] \in Leaves
               PROVE  Into(pg2, pg2[p].entries)
    BY DEF Pointing
  <2>1. CASE p = q
    BY <1>2, <1>3, <2>1, AlikeInto
  <2>2. CASE p # q
    <3>1. p \in DOMAIN pg /\ pg2[p] = pg[p]
      BY <1>2, <2>2
    <3>2. Into(pg, pg[p].entries)
      BY <3>1 DEF PagesOk, Pointing
    <3> QED
      BY <1>3, <3>1, <3>2, AlikeInto
  <2> QED
    BY <2>1, <2>2
<1> QED
  BY <1>2, <1>3, <1>4 DEF PagesOk, pg2

LEMMA PageAdded ==
  ASSUME NEW pg, PagesOk(pg), NEW page \in Heaps \cup Leaves,
         page \in Leaves => Into(pg, page.entries)
  PROVE  /\ PagesOk(Append(pg, page))
         /\ Alike(pg, Append(pg, page))
         /\ Len(Append(pg, page)) = Len(pg) + 1 /\ Len(pg) \in Nat
         /\ Append(pg, page)[Len(pg) + 1] = page
         /\ Len(pg) + 1 \in DOMAIN Append(pg, page)
         /\ \A p \in DOMAIN pg : p # Len(pg) + 1
<1> DEFINE pg2 == Append(pg, page)
           n == Len(pg)
<1>1. pg \in Seq(Heaps \cup Leaves)
  BY DEF PagesOk
<1>2. /\ pg2 \in Seq(Heaps \cup Leaves) /\ Len(pg2) = n + 1 /\ n \in Nat
      /\ DOMAIN pg2 = DOMAIN pg \cup {n + 1} /\ pg2[n + 1] = page
      /\ \A p \in DOMAIN pg : p # n + 1 /\ pg2[p] = pg[p]
  BY <1>1
<1> HIDE DEF pg2, n
<1>3. Alike(pg, pg2)
  BY <1>1, <1>2 DEF Alike, IsHeap, IsLeaf
<1>4. Pointing(pg2)
  <2> SUFFICES ASSUME NEW p \in DOMAIN pg2, pg2[p] \in Leaves
               PROVE  Into(pg2, pg2[p].entries)
    BY DEF Pointing
  <2>1. CASE p = n + 1
    BY <1>2, <1>3, <2>1, AlikeInto
  <2>2. CASE p # n + 1
    <3>1. p \in DOMAIN pg /\ pg2[p] = pg[p]
      BY <1>2, <2>2
    <3>2. Into(pg, pg[p].entries)
      BY <3>1, <2>2 DEF PagesOk, Pointing
    <3> QED
      BY <1>3, <3>1, <3>2, AlikeInto
  <2> QED
    BY <2>1, <2>2
<1> QED
  BY <1>2, <1>3, <1>4 DEF PagesOk, pg2, n

LEMMA AlikeTrans ==
  ASSUME NEW pg, NEW pg2, NEW pg3, Alike(pg, pg2), Alike(pg2, pg3)
  PROVE  Alike(pg, pg3)
BY DEF Alike, IsHeap, IsLeaf

-----------------------------------------------------------------------------
(* Executions.                                                              *)

Execs ==
  [pages : Seq(Heaps \cup Leaves), disk : [Indexed -> Nat], roots : [Indexed -> Nat],
   count : Nat, writes : Nat, out : {"ok", "error", "io error", "stopped"},
   events : SUBSET {"stale", "lost", "nulled"},
   at : Nat, buf : Heaps, row : RowSet \cup {<<>>}, dirty : BOOLEAN]

(* The header that the execution has is as good as the one in the file, or  *)
(* has more roots.                                                          *)
Header(x) ==
  /\ Rooted(x.pages, x.disk)
  /\ x.out = "ok" =>
       Rooted(x.pages, x.roots) /\ \A c \in Indexed : x.disk[c] \in {0, x.roots[c]}

(* p is a page with rows, or 0.                                             *)
Sounds(p) ==
  { x \in Execs : /\ x.count = Len(x.pages) + 1 /\ PagesOk(x.pages) /\ Header(x)
                  /\ p # 0 => IsHeap(x.pages, p) }

(* What most operations leave alone.                                        *)
Frame(x, y) ==
  /\ y.buf = x.buf /\ y.row = x.row /\ y.dirty = x.dirty /\ y.events = x.events
Headers(x, y) == y.disk = x.disk /\ y.roots = x.roots

LEMMA SoundStep ==
  ASSUME NEW p, NEW x \in Sounds(p), NEW y \in Execs,
         y.count = Len(y.pages) + 1, PagesOk(y.pages), Alike(x.pages, y.pages),
         Headers(x, y), y.out = "ok" => x.out = "ok"
  PROVE  y \in Sounds(p)
<1>1. Header(x) /\ (p # 0 => IsHeap(x.pages, p))
  BY DEF Sounds
<1>2. Header(y)
  BY <1>1, AlikeRooted DEF Header, Headers
<1>3. p # 0 => IsHeap(y.pages, p)
  BY <1>1, AlikeHeap
<1> QED
  BY <1>2, <1>3 DEF Sounds

LEMMA AlikeSame ==
  ASSUME NEW pg
  PROVE  Alike(pg, pg)
BY DEF Alike, IsHeap, IsLeaf

(* An execution that ends in another way only.                              *)
LEMMA Ending ==
  ASSUME NEW p, NEW x \in Sounds(p), NEW o \in {"error", "io error", "stopped"}
  PROVE  /\ [x EXCEPT !.out = o] \in Sounds(p) /\ [x EXCEPT !.out = o].out = o
         /\ [x EXCEPT !.out = o].pages = x.pages /\ [x EXCEPT !.out = o].at = x.at
         /\ Frame(x, [x EXCEPT !.out = o]) /\ Headers(x, [x EXCEPT !.out = o])
<1> DEFINE y == [x EXCEPT !.out = o]
<1>1. x \in Execs /\ x.count = Len(x.pages) + 1 /\ PagesOk(x.pages)
  BY DEF Sounds
<1>2. /\ y \in Execs /\ y.pages = x.pages /\ y.count = x.count /\ y.out = o
      /\ y.disk = x.disk /\ y.roots = x.roots /\ y.at = x.at
      /\ y.buf = x.buf /\ y.row = x.row /\ y.dirty = x.dirty /\ y.events = x.events
  BY <1>1 DEF Execs
<1>3. o # "ok"
  OBVIOUS
<1> HIDE DEF y
<1>4. Headers(x, y) /\ Frame(x, y)
  BY <1>2 DEF Headers, Frame
<1>5. y \in Sounds(p)
  BY <1>1, <1>2, <1>3, <1>4, AlikeSame, SoundStep
<1> QED
  BY <1>2, <1>4, <1>5 DEF y

(* A page is written, or the execution stopped before.                      *)
LEMMA PageWritten ==
  ASSUME NEW p, NEW x \in Sounds(p), x.out = "ok", NEW q \in DOMAIN x.pages, NEW page,
         PagesOk([x.pages EXCEPT ![q] = page]),
         Alike(x.pages, [x.pages EXCEPT ![q] = page]),
         Len([x.pages EXCEPT ![q] = page]) = Len(x.pages)
  PROVE  /\ WritePage(x, q, page) \in Sounds(p)
         /\ Frame(x, WritePage(x, q, page)) /\ Headers(x, WritePage(x, q, page))
         /\ WritePage(x, q, page).at = x.at
         /\ WritePage(x, q, page).pages =
              IF WritePage(x, q, page).out = "ok" THEN [x.pages EXCEPT ![q] = page]
              ELSE x.pages
<1> DEFINE y == WritePage(x, q, page)
           z == [x EXCEPT !.writes = x.writes - 1]
           w == [z EXCEPT !.pages = [x.pages EXCEPT ![q] = page]]
           pg == [x.pages EXCEPT ![q] = page]
<1>1. x \in Execs /\ x.count = Len(x.pages) + 1 /\ PagesOk(x.pages)
  BY DEF Sounds
<1>2. q \in Nat /\ Len(x.pages) \in Nat /\ q <= Len(x.pages)
  <2>1. x.pages \in Seq(Heaps \cup Leaves)
    BY <1>1 DEF PagesOk
  <2> QED
    BY <2>1
<1>3. ~(q >= x.count)
  BY <1>1, <1>2
<1>4. CASE x.writes = 0
  <2>1. y = [x EXCEPT !.out = "stopped"]
    BY <1>3, <1>4 DEF WritePage, Then, Writing
  <2> HIDE DEF y
  <2>2. "stopped" \in {"error", "io error", "stopped"} /\ "stopped" # "ok"
    OBVIOUS
  <2>3. /\ y \in Sounds(p) /\ y.out # "ok" /\ y.pages = x.pages /\ y.at = x.at
        /\ Frame(x, y) /\ Headers(x, y)
    BY <2>1, <2>2, Ending
  <2> QED
    BY <2>3 DEF y
<1>5. CASE x.writes # 0
  <2>8. x.writes \in Nat
    BY <1>1 DEF Execs
  <2>9. x.writes - 1 \in Nat
    BY <1>5, <2>8
  <2>1. z.out = "ok" /\ z.pages = x.pages /\ z \in Execs
    BY <1>1, <2>9 DEF Execs
  <2>2. y = [z EXCEPT !.pages[q] = page]
    BY <1>3, <1>5, <2>1 DEF WritePage, Then, Writing
  <2>3. y = w
    BY <2>1, <2>2
  <2>4. pg \in Seq(Heaps \cup Leaves)
    BY DEF PagesOk
  <2> HIDE DEF y, pg
  <2>5. /\ w \in Execs /\ w.pages = pg /\ w.count = x.count /\ w.out = "ok"
        /\ w.disk = x.disk /\ w.roots = x.roots /\ w.at = x.at
        /\ w.buf = x.buf /\ w.row = x.row /\ w.dirty = x.dirty /\ w.events = x.events
    BY <1>1, <2>1, <2>4 DEF Execs, pg
  <2> HIDE DEF w, z
  <2>6. /\ y \in Execs /\ y.pages = pg /\ y.count = x.count /\ y.out = "ok" /\ y.at = x.at
        /\ Headers(x, y) /\ Frame(x, y)
    BY <2>3, <2>5 DEF Headers, Frame
  <2>7. y \in Sounds(p)
    BY <1>1, <2>6, SoundStep DEF pg
  <2> QED
    BY <2>6, <2>7 DEF y, pg
<1> QED
  BY <1>4, <1>5

-----------------------------------------------------------------------------
(* The rows of a file, by their places.                                     *)

View(pg) ==
  [rid \in Rids |->
     IF IsHeap(pg, rid[1]) THEN RowAt(pg[rid[1]], rid[2]) ELSE <<>>]

SameLeaves(pg, pg2) == \A q \in DOMAIN pg : pg[q] \in Leaves => pg2[q] = pg[q]

(* The rows and the indexes are left alone.                                 *)
Keeps(pg, pg2) ==
  Alike(pg, pg2) /\ View(pg2) = View(pg) /\ SameLeaves(pg, pg2)

LEMMA KeepsSame ==
  ASSUME NEW pg
  PROVE  Keeps(pg, pg)
BY AlikeSame DEF Keeps, SameLeaves

LEMMA KeepsTrans ==
  ASSUME NEW pg, NEW pg2, NEW pg3, Keeps(pg, pg2), Keeps(pg2, pg3)
  PROVE  Keeps(pg, pg3)
BY AlikeTrans DEF Keeps, SameLeaves, Alike, IsLeaf

(* The same slots on each page, and none on new ones.                       *)
SameSlots(pg, pg2) ==
  /\ \A p : IsHeap(pg, p) => IsHeap(pg2, p) /\ pg2[p].slots = pg[p].slots
  /\ \A p : IsHeap(pg2, p) /\ ~IsHeap(pg, p) => pg2[p].slots = <<>>

LEMMA SameView ==
  ASSUME NEW pg, NEW pg2, SameSlots(pg, pg2)
  PROVE  View(pg2) = View(pg)
<1>1. ASSUME NEW rid \in Rids PROVE View(pg2)[rid] = View(pg)[rid]
  <2> DEFINE p == rid[1]
             i == rid[2]
  <2>1. View(pg)[rid] = IF IsHeap(pg, p) THEN RowAt(pg[p], i) ELSE <<>>
    BY DEF View
  <2>2. View(pg2)[rid] = IF IsHeap(pg2, p) THEN RowAt(pg2[p], i) ELSE <<>>
    BY DEF View
  <2> HIDE DEF p, i
  <2>3. CASE IsHeap(pg, p)
    <3>1. IsHeap(pg2, p) /\ pg2[p].slots = pg[p].slots
      BY <2>3 DEF SameSlots
    <3> QED
      BY <2>1, <2>2, <2>3, <3>1 DEF RowAt
  <2>4. CASE ~IsHeap(pg, p) /\ IsHeap(pg2, p)
    <3>1. pg2[p].slots = <<>>
      BY <2>4 DEF SameSlots
    <3>2. i \notin DOMAIN pg2[p].slots
      BY <3>1
    <3> QED
      BY <2>1, <2>2, <2>4, <3>2 DEF RowAt
  <2>5. CASE ~IsHeap(pg, p) /\ ~IsHeap(pg2, p)
    BY <2>1, <2>2, <2>5
  <2> QED
    BY <2>3, <2>4, <2>5
<1>2. /\ View(pg) = [rid \in Rids |-> View(pg)[rid]]
      /\ View(pg2) = [rid \in Rids |-> View(pg2)[rid]]
  BY DEF View
<1> QED
  BY <1>1, <1>2

LEMMA HeapKept ==
  ASSUME NEW pg, PagesOk(pg), NEW q, IsHeap(pg, q), NEW page \in Heaps,
         page.slots = pg[q].slots
  PROVE  Keeps(pg, [pg EXCEPT ![q] = page])
<1> DEFINE pg2 == [pg EXCEPT ![q] = page]
<1>1. /\ DOMAIN pg2 = DOMAIN pg /\ q \in DOMAIN pg /\ pg2[q] = page /\ pg[q] \in Heaps
      /\ \A p \in DOMAIN pg : p # q => pg2[p] = pg[p]
  BY DEF IsHeap, PagesOk
<1>2. Alike(pg, pg2)
  BY HeapWritten
<1> HIDE DEF pg2
<1>3. SameSlots(pg, pg2)
  BY <1>1 DEF SameSlots, IsHeap
<1>4. SameLeaves(pg, pg2)
  BY <1>1, Kinds DEF SameLeaves
<1> QED
  BY <1>2, <1>3, <1>4, SameView DEF Keeps, pg2

LEMMA AddedKept ==
  ASSUME NEW pg, PagesOk(pg), NEW page \in Heaps \cup Leaves,
         page \in Leaves => Into(pg, page.entries),
         page \in Heaps => page.slots = <<>>
  PROVE  Keeps(pg, Append(pg, page))
<1> DEFINE pg2 == Append(pg, page)
           n == Len(pg) + 1
<1>1. pg \in Seq(Heaps \cup Leaves)
  BY DEF PagesOk
<1>2. /\ DOMAIN pg2 = DOMAIN pg \cup {n} /\ n \notin DOMAIN pg /\ pg2[n] = page
      /\ \A p \in DOMAIN pg : pg2[p] = pg[p]
  BY <1>1
<1>3. Alike(pg, pg2)
  BY PageAdded
<1> HIDE DEF pg2, n
<1>4. SameSlots(pg, pg2)
  BY <1>2 DEF SameSlots, IsHeap
<1>5. SameLeaves(pg, pg2)
  BY <1>2 DEF SameLeaves
<1> QED
  BY <1>3, <1>4, <1>5, SameView DEF Keeps, pg2

LEMMA LeafView ==
  ASSUME NEW pg, PagesOk(pg), NEW q, IsLeaf(pg, q), NEW page \in Leaves
  PROVE  View([pg EXCEPT ![q] = page]) = View(pg)
<1> DEFINE pg2 == [pg EXCEPT ![q] = page]
<1>1. /\ DOMAIN pg2 = DOMAIN pg /\ q \in DOMAIN pg /\ pg2[q] = page /\ pg[q] \in Leaves
      /\ \A p \in DOMAIN pg : p # q => pg2[p] = pg[p]
  BY DEF IsLeaf, PagesOk
<1> HIDE DEF pg2
<1>2. SameSlots(pg, pg2)
  BY <1>1, Kinds DEF SameSlots, IsHeap
<1> QED
  BY <1>2, SameView DEF pg2

-----------------------------------------------------------------------------
(* Operations on pages.                                                     *)

LEMMA AllocateIs ==
  ASSUME NEW p, NEW x \in Sounds(p), x.out = "ok"
  PROVE  /\ AllocatePage(x) \in Sounds(p)
         /\ Frame(x, AllocatePage(x)) /\ Headers(x, AllocatePage(x))
         /\ AllocatePage(x).out # "ok" => AllocatePage(x).pages = x.pages
         /\ AllocatePage(x).out = "ok" =>
              /\ AllocatePage(x).pages = Append(x.pages, Blank)
              /\ AllocatePage(x).at = Len(x.pages) + 1
<1> DEFINE y == AllocatePage(x)
           z == [x EXCEPT !.writes = x.writes - 1]
           pg == Append(x.pages, Blank)
           w == [z EXCEPT !.pages = pg, !.at = x.count, !.count = x.count + 1]
<1>1. x \in Execs /\ x.count = Len(x.pages) + 1 /\ PagesOk(x.pages)
  BY DEF Sounds
<1>2. CASE x.writes = 0
  <2>1. y = [x EXCEPT !.out = "stopped"]
    BY <1>2 DEF AllocatePage, Then, Writing
  <2> HIDE DEF y
  <2>2. "stopped" \in {"error", "io error", "stopped"} /\ "stopped" # "ok"
    OBVIOUS
  <2>3. /\ y \in Sounds(p) /\ y.out # "ok" /\ y.pages = x.pages
        /\ Frame(x, y) /\ Headers(x, y)
    BY <2>1, <2>2, Ending
  <2> QED
    BY <2>3 DEF y
<1>3. CASE x.writes # 0
  <2>1. x.writes \in Nat
    BY <1>1 DEF Execs
  <2>2. x.writes - 1 \in Nat
    BY <1>3, <2>1
  <2>3. z.out = "ok" /\ z.pages = x.pages /\ z.count = x.count /\ z \in Execs
    BY <1>1, <2>2 DEF Execs
  <2>4. y = [z EXCEPT !.pages = Append(@, Blank), !.at = z.count, !.count = @ + 1,
                      !.events = IF z.count = Len(z.pages) + 1 THEN @
                                 ELSE @ \cup {"stale"}]
    BY <1>3, <2>3 DEF AllocatePage, Then, Writing
  <2>5. y = w
    BY <1>1, <2>3, <2>4 DEF Execs
  <2>6. Blank \in Heaps /\ Blank \notin Leaves
    BY EmptyHeaps, Kinds
  <2>7. PagesOk(pg) /\ Alike(x.pages, pg) /\ Len(pg) = Len(x.pages) + 1 /\ Len(x.pages) \in Nat
    BY <1>1, <2>6, PageAdded
  <2>8. pg \in Seq(Heaps \cup Leaves)
    BY <2>7 DEF PagesOk
  <2>9. x.count \in Nat /\ x.count + 1 \in Nat
    BY <1>1, <2>7
  <2> HIDE DEF y, pg
  <2>10. /\ w \in Execs /\ w.pages = pg /\ w.count = x.count + 1 /\ w.out = "ok"
         /\ w.disk = x.disk /\ w.roots = x.roots /\ w.at = x.count
         /\ w.buf = x.buf /\ w.row = x.row /\ w.dirty = x.dirty /\ w.events = x.events
    BY <2>3, <2>8, <2>9 DEF Execs
  <2> HIDE DEF w, z
  <2>11. /\ y \in Execs /\ y.pages = pg /\ y.count = Len(pg) + 1 /\ y.out = "ok"
         /\ y.at = Len(x.pages) + 1 /\ Headers(x, y) /\ Frame(x, y)
    BY <1>1, <2>5, <2>7, <2>10 DEF Headers, Frame
  <2>12. y \in Sounds(p)
    BY <2>7, <2>11, SoundStep
  <2> QED
    BY <2>11, <2>12 DEF y, pg
<1> QED
  BY <1>2, <1>3

LEMMA AtSet ==
  ASSUME NEW p, NEW x \in Sounds(p), NEW q \in Nat
  PROVE  /\ [x EXCEPT !.at = q] \in Sounds(p)
         /\ Frame(x, [x EXCEPT !.at = q]) /\ Headers(x, [x EXCEPT !.at = q])
         /\ [x EXCEPT !.at = q].pages = x.pages /\ [x EXCEPT !.at = q].at = q
         /\ [x EXCEPT !.at = q].out = x.out
<1> DEFINE y == [x EXCEPT !.at = q]
<1>1. x \in Execs /\ x.count = Len(x.pages) + 1 /\ PagesOk(x.pages)
  BY DEF Sounds
<1>2. /\ y \in Execs /\ y.pages = x.pages /\ y.count = x.count /\ y.out = x.out
      /\ y.disk = x.disk /\ y.roots = x.roots /\ y.at = q
      /\ y.buf = x.buf /\ y.row = x.row /\ y.dirty = x.dirty /\ y.events = x.events
  BY <1>1 DEF Execs
<1> HIDE DEF y
<1>3. Headers(x, y) /\ Frame(x, y)
  BY <1>2 DEF Headers, Frame
<1>4. y \in Sounds(p)
  BY <1>1, <1>2, <1>3, AlikeSame, SoundStep
<1> QED
  BY <1>2, <1>3, <1>4 DEF y

(* A heap page is written, with the same slots as before or other ones.     *)
LEMMA HeapPageWritten ==
  ASSUME NEW p, NEW x \in Sounds(p), x.out = "ok", NEW q, IsHeap(x.pages, q),
         NEW page \in Heaps
  PROVE  /\ WritePage(x, q, page) \in Sounds(p)
         /\ Frame(x, WritePage(x, q, page)) /\ Headers(x, WritePage(x, q, page))
         /\ WritePage(x, q, page).at = x.at
         /\ WritePage(x, q, page).pages =
              IF WritePage(x, q, page).out = "ok" THEN [x.pages EXCEPT ![q] = page]
              ELSE x.pages
         /\ page.slots = x.pages[q].slots => Keeps(x.pages, WritePage(x, q, page).pages)
<1> DEFINE y == WritePage(x, q, page)
<1>1. PagesOk(x.pages) /\ q \in DOMAIN x.pages
  BY DEF Sounds, IsHeap
<1>2. /\ PagesOk([x.pages EXCEPT ![q] = page])
      /\ Alike(x.pages, [x.pages EXCEPT ![q] = page])
      /\ Len([x.pages EXCEPT ![q] = page]) = Len(x.pages)
  BY <1>1, HeapWritten
<1>3. /\ y \in Sounds(p) /\ Frame(x, y) /\ Headers(x, y) /\ y.at = x.at
      /\ y.pages = IF y.out = "ok" THEN [x.pages EXCEPT ![q] = page] ELSE x.pages
  BY <1>1, <1>2, PageWritten
<1>4. page.slots = x.pages[q].slots => Keeps(x.pages, [x.pages EXCEPT ![q] = page])
  BY <1>1, HeapKept
<1> HIDE DEF y
<1>5. page.slots = x.pages[q].slots => Keeps(x.pages, y.pages)
  BY <1>3, <1>4, KeepsSame
<1> QED
  BY <1>3, <1>5 DEF y

(* A page with room for a record of this length.                            *)
Placed(x, y, size) ==
  /\ Frame(x, y) /\ Headers(x, y) /\ Keeps(x.pages, y.pages)
  /\ y.out = "ok" => IsHeap(y.pages, y.at) /\ Fits(y.pages[y.at], size)

LEMMA CleanPage ==
  ASSUME NEW p, NEW x \in Sounds(p), x.out = "ok", NEW size \in Nat,
         size + SlotSize <= Room
  PROVE  /\ Then(AllocatePage(x), LAMBDA y : WritePage(y, y.at, Clean)) \in Sounds(p)
         /\ Placed(x, Then(AllocatePage(x), LAMBDA y : WritePage(y, y.at, Clean)), size)
<1> DEFINE y == AllocatePage(x)
           z == WritePage(y, y.at, Clean)
           r == Then(AllocatePage(x), LAMBDA v : WritePage(v, v.at, Clean))
<1>1. r = IF y.out = "ok" THEN z ELSE y
  BY DEF Then
<1>2. /\ y \in Sounds(p) /\ Frame(x, y) /\ Headers(x, y)
      /\ y.out # "ok" => y.pages = x.pages
      /\ y.out = "ok" => y.pages = Append(x.pages, Blank) /\ y.at = Len(x.pages) + 1
  BY AllocateIs
<1>3. PagesOk(x.pages)
  BY DEF Sounds
<1>4. Blank \in Heaps /\ Clean \in Heaps /\ Blank.slots = <<>> /\ Clean.slots = <<>>
  BY EmptyHeaps DEF Blank, Clean
<1>5. Keeps(x.pages, Append(x.pages, Blank))
  BY <1>3, <1>4, Kinds, AddedKept
<1> HIDE DEF r, y, z
<1>6. CASE y.out # "ok"
  BY <1>1, <1>2, <1>6, KeepsSame DEF Placed, r
<1>7. CASE y.out = "ok"
  <2>1. IsHeap(y.pages, y.at) /\ y.pages[y.at] = Blank
    <3>1. /\ Append(x.pages, Blank)[Len(x.pages) + 1] = Blank
          /\ Len(x.pages) + 1 \in DOMAIN Append(x.pages, Blank)
      BY <1>3, <1>4, Kinds, PageAdded
    <3> QED
      BY <1>2, <1>4, <1>7, <3>1 DEF IsHeap
  <2>2. /\ z \in Sounds(p) /\ Frame(y, z) /\ Headers(y, z) /\ z.at = y.at
        /\ z.pages = IF z.out = "ok" THEN [y.pages EXCEPT ![y.at] = Clean] ELSE y.pages
        /\ Keeps(y.pages, z.pages)
    BY <1>2, <1>4, <1>7, <2>1, HeapPageWritten DEF z
  <2>3. z.out = "ok" => IsHeap(z.pages, z.at) /\ Fits(z.pages[z.at], size)
    <3>1. Clean.free >= size + SlotSize
      BY DEF Clean
    <3>2. z.out = "ok" => z.pages[z.at] = Clean /\ z.at \in DOMAIN z.pages
      BY <2>1, <2>2 DEF IsHeap
    <3> QED
      BY <1>4, <3>1, <3>2 DEF Fits, IsHeap
  <2>4. Keeps(x.pages, z.pages)
    BY <1>2, <1>5, <1>7, <2>2, KeepsTrans
  <2>5. Frame(x, z) /\ Headers(x, z)
    BY <1>2, <2>2 DEF Frame, Headers
  <2> QED
    BY <1>1, <1>7, <2>2, <2>3, <2>4, <2>5 DEF Placed, r
<1> QED
  BY <1>6, <1>7

LEMMA FindAvailableSlotIs ==
  ASSUME NEW p, NEW x \in Sounds(p), x.out = "ok", NEW size \in Nat,
         size + SlotSize <= Room
  PROVE  /\ FindAvailableSlot(x, size) \in Sounds(p)
         /\ Placed(x, FindAvailableSlot(x, size), size)
<1> DEFINE usable == {q \in 1 .. x.count - 1 :
                        /\ x.pages[q].type = "heap"
                        /\ \/ Fits(x.pages[q], size)
                           \/ Fits(Compact(x.pages[q]), size)}
           first == Min(usable)
           y == [x EXCEPT !.at = first]
           z == WritePage(y, first, Compact(x.pages[first]))
           r == FindAvailableSlot(x, size)
<1>1. x.count = Len(x.pages) + 1 /\ PagesOk(x.pages) /\ x.pages \in Seq(Heaps \cup Leaves)
  BY DEF Sounds, PagesOk
<1>2. CASE usable = {}
  <2>1. r = Then(AllocatePage(x), LAMBDA v : WritePage(v, v.at, Clean))
    BY <1>2 DEF FindAvailableSlot
  <2> QED
    BY <2>1, CleanPage
<1>3. CASE usable # {}
  <2>1. r = IF Fits(x.pages[first], size) THEN y ELSE z
    BY <1>3 DEF FindAvailableSlot
  <2>2. 1 .. x.count - 1 = DOMAIN x.pages /\ DOMAIN x.pages \subseteq Nat
    BY <1>1
  <2>3. first \in usable
    <3>1. usable \subseteq Nat
      BY <2>2
    <3> HIDE DEF usable
    <3> QED
      BY <1>3, <3>1, MinIs
  <2>4. first \in DOMAIN x.pages /\ x.pages[first].type = "heap"
    BY <2>2, <2>3
  <2>5. first \in Nat
    BY <2>2, <2>4
  <2>7. Fits(x.pages[first], size) \/ Fits(Compact(x.pages[first]), size)
    BY <2>3
  <2> HIDE DEF usable, first, r
  <2>6. x.pages[first] \in Heaps
    <3>1. x.pages[first] \in Heaps \cup Leaves
      BY <1>1, <2>4
    <3> QED
      BY <2>4, <3>1, Kinds
  <2>8. /\ y \in Sounds(p) /\ Frame(x, y) /\ Headers(x, y) /\ y.pages = x.pages
        /\ y.at = first /\ y.out = "ok"
    BY <2>5, AtSet
  <2> HIDE DEF y
  <2>9. CASE Fits(x.pages[first], size)
    <3>1. Placed(x, y, size)
      BY <2>4, <2>6, <2>8, <2>9, KeepsSame DEF Placed, IsHeap
    <3> QED
      BY <2>1, <2>8, <2>9, <3>1 DEF r
  <2>10. CASE ~Fits(x.pages[first], size)
    <3>1. IsHeap(y.pages, first)
      BY <2>4, <2>6, <2>8 DEF IsHeap
    <3>2. /\ Compact(x.pages[first]) \in Heaps
          /\ Compact(x.pages[first]).slots = y.pages[first].slots
      BY <2>6, <2>8, CompactIs
    <3> DEFINE page == Compact(x.pages[first])
    <3> HIDE DEF page
    <3>3. /\ z \in Sounds(p) /\ Frame(y, z) /\ Headers(y, z) /\ z.at = first
          /\ z.pages = IF z.out = "ok" THEN [y.pages EXCEPT ![first] = page] ELSE y.pages
          /\ Keeps(y.pages, z.pages)
      BY <2>8, <3>1, <3>2, HeapPageWritten DEF page
    <3> HIDE DEF z
    <3>4. z.out = "ok" => IsHeap(z.pages, z.at) /\ Fits(z.pages[z.at], size)
      <4>1. z.out = "ok" => z.pages[first] = page /\ first \in DOMAIN z.pages
        BY <3>1, <3>3 DEF IsHeap
      <4> QED
        BY <2>7, <2>10, <3>2, <3>3, <4>1 DEF IsHeap, page
    <3>5. Placed(x, z, size)
      BY <2>8, <3>3, <3>4 DEF Placed, Frame, Headers
    <3> QED
      BY <2>1, <2>10, <3>3, <3>5 DEF r
  <2> QED
    BY <2>9, <2>10
<1> QED
  BY <1>2, <1>3

SameBut(page, old, i) == \A j \in Nat : j # i => RowAt(page, j) = RowAt(old, j)

LEMMA ViewWritten ==
  ASSUME NEW pg, PagesOk(pg), NEW q \in Nat, IsHeap(pg, q), NEW page \in Heaps,
         NEW i \in Nat, SameBut(page, pg[q], i)
  PROVE  View([pg EXCEPT ![q] = page]) = [View(pg) EXCEPT ![<<q, i>>] = RowAt(page, i)]
<1> DEFINE pg2 == [pg EXCEPT ![q] = page]
           V == [View(pg) EXCEPT ![<<q, i>>] = RowAt(page, i)]
<1>1. /\ DOMAIN pg2 = DOMAIN pg /\ q \in DOMAIN pg /\ pg2[q] = page /\ pg[q] \in Heaps
      /\ \A p \in DOMAIN pg : p # q => pg2[p] = pg[p]
  BY DEF IsHeap, PagesOk
<1> HIDE DEF pg2
<1>2. ASSUME NEW rid \in Rids PROVE View(pg2)[rid] = V[rid]
  <2>1. View(pg)[rid] = IF IsHeap(pg, rid[1]) THEN RowAt(pg[rid[1]], rid[2]) ELSE <<>>
    BY DEF View
  <2>2. View(pg2)[rid] = IF IsHeap(pg2, rid[1]) THEN RowAt(pg2[rid[1]], rid[2]) ELSE <<>>
    BY DEF View
  <2>3. rid[2] \in Nat /\ rid = <<rid[1], rid[2]>>
    BY DEF Rids
  <2>4. V[rid] = IF rid = <<q, i>> THEN RowAt(page, i) ELSE View(pg)[rid]
    BY DEF View
  <2> HIDE DEF V
  <2>5. CASE rid[1] # q
    BY <1>1, <2>1, <2>2, <2>4, <2>5 DEF IsHeap
  <2>6. CASE rid[1] = q
    <3>1. View(pg2)[rid] = RowAt(page, rid[2]) /\ View(pg)[rid] = RowAt(pg[q], rid[2])
      BY <1>1, <2>1, <2>2, <2>6 DEF IsHeap
    <3>2. CASE rid[2] = i
      BY <2>3, <2>4, <2>6, <3>1, <3>2
    <3>3. CASE rid[2] # i
      <4>1. RowAt(page, rid[2]) = RowAt(pg[q], rid[2])
        BY <2>3, <3>3 DEF SameBut
      <4> QED
        BY <2>4, <3>1, <3>3, <4>1
    <3> QED
      BY <3>2, <3>3
  <2> QED
    BY <2>5, <2>6
<1>3. View(pg2) = [rid \in Rids |-> View(pg2)[rid]] /\ V = [rid \in Rids |-> V[rid]]
  BY DEF View
<1> HIDE DEF V
<1> QED
  BY <1>2, <1>3 DEF pg2, V

LEMMA WriteHeaderIs ==
  ASSUME NEW p, NEW x \in Sounds(p), x.out = "ok"
  PROVE  /\ WriteHeader(x) \in Sounds(p) /\ Frame(x, WriteHeader(x))
         /\ WriteHeader(x).pages = x.pages /\ WriteHeader(x).roots = x.roots
         /\ WriteHeader(x).at = x.at
         /\ WriteHeader(x).disk = IF WriteHeader(x).out = "ok" THEN x.roots ELSE x.disk
<1> DEFINE y == WriteHeader(x)
           z == [x EXCEPT !.writes = x.writes - 1]
           w == [z EXCEPT !.disk = x.roots]
<1>1. x \in Execs /\ x.count = Len(x.pages) + 1 /\ PagesOk(x.pages) /\ Header(x)
      /\ (p # 0 => IsHeap(x.pages, p))
  BY DEF Sounds
<1>2. CASE x.writes = 0
  <2>1. y = [x EXCEPT !.out = "stopped"]
    BY <1>2 DEF WriteHeader, Then, Writing
  <2> HIDE DEF y
  <2>2. "stopped" \in {"error", "io error", "stopped"} /\ "stopped" # "ok"
    OBVIOUS
  <2>3. /\ y \in Sounds(p) /\ y.out # "ok" /\ y.pages = x.pages /\ y.at = x.at
        /\ Frame(x, y) /\ Headers(x, y)
    BY <2>1, <2>2, Ending
  <2> QED
    BY <2>3 DEF y, Headers
<1>3. CASE x.writes # 0
  <2>1. x.writes \in Nat
    BY <1>1 DEF Execs
  <2>2. x.writes - 1 \in Nat
    BY <1>3, <2>1
  <2>3. z.out = "ok" /\ z.roots = x.roots /\ z.pages = x.pages /\ z \in Execs
    BY <1>1, <2>2 DEF Execs
  <2>4. y = w
    BY <1>3, <2>3 DEF WriteHeader, Then, Writing
  <2> HIDE DEF y
  <2>5. /\ w \in Execs /\ w.pages = x.pages /\ w.count = x.count /\ w.out = "ok"
        /\ w.disk = x.roots /\ w.roots = x.roots /\ w.at = x.at
        /\ w.buf = x.buf /\ w.row = x.row /\ w.dirty = x.dirty /\ w.events = x.events
    BY <1>1, <2>3 DEF Execs
  <2> HIDE DEF w, z
  <2>6. Header(y)
    BY <1>1, <2>4, <2>5 DEF Header
  <2>7. y \in Sounds(p)
    BY <1>1, <2>4, <2>5, <2>6 DEF Sounds
  <2> QED
    BY <2>4, <2>5, <2>7 DEF y, Frame
<1> QED
  BY <1>2, <1>3

(* A record is added in a place of its own.                                 *)
Added(x, y, row) ==
  /\ Rid(y) \in Rids /\ IsHeap(y.pages, Rid(y)[1])
  /\ View(x.pages)[Rid(y)] = <<>>
  /\ View(y.pages) = [View(x.pages) EXCEPT ![Rid(y)] = row]
  /\ Alike(x.pages, y.pages) /\ SameLeaves(x.pages, y.pages)

LEMMA RecordAdded ==
  ASSUME NEW p, NEW x \in Sounds(p), x.out = "ok", NEW row \in RowSet,
         IsHeap(x.pages, x.at), Fits(x.pages[x.at], Size(row)), NEW y,
         y = WritePage(x, x.at, AppendRecord(x.pages[x.at], row))
  PROVE  /\ y \in Sounds(p) /\ Frame(x, y) /\ Headers(x, y)
         /\ y.out = "ok" => Added(x, y, row)
         /\ y.out # "ok" => Keeps(x.pages, y.pages)
<1> DEFINE old == x.pages[x.at]
           page == AppendRecord(old, row)
           slot == [row |-> row, len |-> Size(row)]
           q == x.at
           i == Len(old.slots) + 1
<1>1. PagesOk(x.pages) /\ q \in Nat /\ old \in Heaps
  BY DEF Sounds, Execs, IsHeap
<1>2. page \in Heaps /\ page.slots = Append(old.slots, slot)
  BY <1>1, AppendRecordIs
<1>3. old.slots \in Seq(Slots) /\ slot \in Slots /\ slot.len > 0 /\ slot.row = row
  BY <1>1, SizeNat, NewSlot DEF Heaps
<1> HIDE DEF page, slot, old
<1>4. /\ page.slots[i] = slot /\ i \in Nat /\ DOMAIN page.slots = DOMAIN old.slots \cup {i}
      /\ i \notin DOMAIN old.slots /\ Len(page.slots) = i
      /\ \A j \in DOMAIN old.slots : page.slots[j] = old.slots[j]
  BY <1>2, <1>3
<1> HIDE DEF i, q
<1>5. RowAt(page, i) = row /\ RowAt(old, i) = <<>>
  BY <1>3, <1>4 DEF RowAt
<1>6. SameBut(page, old, i)
  BY <1>4 DEF SameBut, RowAt
<1>7. IsHeap(x.pages, q) /\ x.pages[q] = old /\ y = WritePage(x, q, page)
  BY DEF q, old, page
<1>8. /\ y \in Sounds(p) /\ Frame(x, y) /\ Headers(x, y) /\ y.at = q
      /\ y.pages = IF y.out = "ok" THEN [x.pages EXCEPT ![q] = page] ELSE x.pages
  BY <1>2, <1>7, HeapPageWritten DEF q
<1>9. y.out # "ok" => Keeps(x.pages, y.pages)
  BY <1>8, KeepsSame
<1>10. ASSUME y.out = "ok" PROVE Added(x, y, row)
  <2>1. y.pages = [x.pages EXCEPT ![q] = page] /\ q \in DOMAIN x.pages
    BY <1>7, <1>8, <1>10 DEF IsHeap
  <2>2. y.pages[q] = page /\ q \in DOMAIN y.pages
    BY <2>1
  <2>3. Rid(y) = <<q, i>> /\ <<q, i>> \in Rids /\ Rid(y)[1] = q
    BY <1>1, <1>4, <1>8, <2>2 DEF Rid, Rids, q
  <2>4. View(y.pages) = [View(x.pages) EXCEPT ![<<q, i>>] = row]
    <3>1. SameBut(page, x.pages[q], i)
      BY <1>6, <1>7
    <3>2. View([x.pages EXCEPT ![q] = page])
            = [View(x.pages) EXCEPT ![<<q, i>>] = RowAt(page, i)]
      BY <1>1, <1>2, <1>4, <1>7, <3>1, ViewWritten
    <3> QED
      BY <1>5, <2>1, <3>2
  <2>5. View(x.pages)[<<q, i>>] = <<>>
    BY <1>5, <1>7, <2>3 DEF View
  <2>6. Alike(x.pages, y.pages)
    BY <1>1, <1>2, <1>7, <2>1, HeapWritten
  <2>7. SameLeaves(x.pages, y.pages)
    BY <1>1, <1>7, <2>1, Kinds DEF SameLeaves
  <2> QED
    BY <1>2, <2>2, <2>3, <2>4, <2>5, <2>6, <2>7 DEF Added, IsHeap
<1> QED
  BY <1>8, <1>9, <1>10

LEMMA StoreIs ==
  ASSUME RowsFit, NEW p, NEW x \in Sounds(p), x.out = "ok", NEW row \in RowSet
  PROVE  /\ Store(x, row) \in Sounds(p)
         /\ Frame(x, Store(x, row)) /\ Headers(x, Store(x, row))
         /\ Store(x, row).out = "ok" => Added(x, Store(x, row), row)
         /\ Store(x, row).out # "ok" => Keeps(x.pages, Store(x, row).pages)
<1> DEFINE y == FindAvailableSlot(x, Size(row))
           z == WritePage(y, y.at, AppendRecord(y.pages[y.at], row))
           r == Store(x, row)
<1>1. r = IF y.out = "ok" THEN z ELSE y
  BY DEF Store, Then
<1>2. y \in Sounds(p) /\ Placed(x, y, Size(row))
  BY SizeNat, FindAvailableSlotIs DEF RowsFit
<1> HIDE DEF r, y
<1>3. CASE y.out # "ok"
  BY <1>1, <1>2, <1>3 DEF Placed, r
<1>4. CASE y.out = "ok"
  <2>1. IsHeap(y.pages, y.at) /\ Fits(y.pages[y.at], Size(row))
    BY <1>2, <1>4 DEF Placed
  <2>2. /\ z \in Sounds(p) /\ Frame(y, z) /\ Headers(y, z)
        /\ z.out = "ok" => Added(y, z, row)
        /\ z.out # "ok" => Keeps(y.pages, z.pages)
    BY <1>2, <1>4, <2>1, RecordAdded
  <2> HIDE DEF z
  <2>3. Keeps(x.pages, y.pages) /\ Frame(x, y) /\ Headers(x, y)
    BY <1>2 DEF Placed
  <2>4. Frame(x, z) /\ Headers(x, z)
    BY <2>2, <2>3 DEF Frame, Headers
  <2>5. z.out # "ok" => Keeps(x.pages, z.pages)
    BY <2>2, <2>3, KeepsTrans
  <2>6. ASSUME z.out = "ok" PROVE Added(x, z, row)
    <3>1. Added(y, z, row)
      BY <2>2, <2>6
    <3>2. Alike(x.pages, z.pages)
      BY <2>3, <3>1, AlikeTrans DEF Added, Keeps
    <3>3. SameLeaves(x.pages, z.pages)
      BY <2>3, <3>1 DEF Added, Keeps, SameLeaves, Alike, IsLeaf
    <3>4. View(y.pages) = View(x.pages)
      BY <2>3 DEF Keeps
    <3> QED
      BY <3>1, <3>2, <3>3, <3>4 DEF Added
  <2> QED
    BY <1>1, <1>4, <2>2, <2>4, <2>5, <2>6 DEF r
<1> QED
  BY <1>3, <1>4

-----------------------------------------------------------------------------
(* The indexes.                                                             *)

Maps == UNION { [K -> Rids] : K \in SUBSET Int }

(* The entries of an index by its root.                                     *)
Ent(pg, rt) == IF rt = 0 THEN <<>> ELSE pg[rt].entries

LEMMA MapIs ==
  ASSUME NEW e
  PROVE  e \in Maps <=> /\ DOMAIN e \subseteq Int /\ e = [k \in DOMAIN e |-> e[k]]
                        /\ \A k \in DOMAIN e : e[k] \in Rids
<1>1. ASSUME e \in Maps
      PROVE  /\ DOMAIN e \subseteq Int /\ e = [k \in DOMAIN e |-> e[k]]
             /\ \A k \in DOMAIN e : e[k] \in Rids
  <2>1. PICK K \in SUBSET Int : e \in [K -> Rids]
    BY <1>1 DEF Maps
  <2> QED
    BY <2>1
<1>2. ASSUME DOMAIN e \subseteq Int, e = [k \in DOMAIN e |-> e[k]],
             \A k \in DOMAIN e : e[k] \in Rids
      PROVE  e \in Maps
  <2>1. e \in [DOMAIN e -> Rids]
    BY <1>2
  <2> QED
    BY <1>2, <2>1 DEF Maps
<1> QED
  BY <1>1, <1>2

LEMMA EmptyMap ==
  <<>> \in Maps /\ DOMAIN <<>> = {}
<1>1. <<>> \in [{} -> Rids] /\ DOMAIN <<>> = {}
  OBVIOUS
<1> QED
  BY <1>1 DEF Maps

WithEntry(m, e, k, rid) ==
  /\ m \in Maps /\ DOMAIN m = DOMAIN e \cup {k} /\ m[k] = rid
  /\ \A j \in DOMAIN e : j # k => m[j] = e[j]

LEMMA PutIs ==
  ASSUME NEW e \in Maps, NEW k, k \in Int, NEW rid \in Rids
  PROVE  WithEntry(Put(e, k, rid), e, k, rid)
<1> DEFINE m == Put(e, k, rid)
<1>1. /\ DOMAIN e \subseteq Int /\ \A j \in DOMAIN e : e[j] \in Rids
  BY MapIs
<1>2. m = [j \in DOMAIN e \cup {k} |-> IF j = k THEN rid ELSE e[j]]
  BY DEF Put
<1> HIDE DEF m
<1>3. /\ DOMAIN m = DOMAIN e \cup {k} /\ m[k] = rid
      /\ \A j \in DOMAIN e : j # k => m[j] = e[j]
  BY <1>2
<1>4. m \in [DOMAIN e \cup {k} -> Rids]
  BY <1>1, <1>2
<1>5. m \in Maps
  BY <1>1, <1>4 DEF Maps
<1> QED
  BY <1>3, <1>5 DEF m, WithEntry

Without(e, k) == Restrict(e, DOMAIN e \ {k})

LEMMA WithoutIs ==
  ASSUME NEW e \in Maps, NEW k
  PROVE  /\ Without(e, k) \in Maps /\ DOMAIN Without(e, k) = DOMAIN e \ {k}
         /\ \A j \in DOMAIN e : j # k => Without(e, k)[j] = e[j]
<1> DEFINE m == Without(e, k)
<1>1. /\ DOMAIN e \subseteq Int /\ \A j \in DOMAIN e : e[j] \in Rids
  BY MapIs
<1>2. m = [j \in DOMAIN e \ {k} |-> e[j]]
  BY DEF Without, Restrict
<1> HIDE DEF m
<1>3. m \in [DOMAIN e \ {k} -> Rids]
  BY <1>1, <1>2
<1>4. m \in Maps
  BY <1>1, <1>3 DEF Maps
<1> QED
  BY <1>2, <1>4 DEF m

LEMMA LeafIs ==
  ASSUME NEW e
  PROVE  e \in Maps <=> Index(e) \in Leaves
BY DEF Index, Leaves, Maps

LEMMA EntMap ==
  ASSUME NEW pg, NEW rt, PagesOk(pg), Rooted(pg, rt), NEW c \in Indexed
  PROVE  Ent(pg, rt[c]) \in Maps /\ Into(pg, Ent(pg, rt[c]))
<1>1. CASE rt[c] = 0
  BY <1>1, EmptyMap DEF Ent, Into
<1>2. CASE rt[c] # 0
  <2>1. rt[c] \in DOMAIN pg /\ pg[rt[c]] \in Leaves
    BY <1>2 DEF Rooted, IsLeaf
  <2>2. pg[rt[c]].entries \in Maps /\ Into(pg, pg[rt[c]].entries)
    BY <2>1 DEF PagesOk, Pointing, Leaves, Maps
  <2> QED
    BY <1>2, <2>2 DEF Ent
<1> QED
  BY <1>1, <1>2

(* The other indexes stay as they are.                                      *)
OthersSame(x, y, c) ==
  \A d \in Indexed : d # c =>
    y.roots[d] = x.roots[d] /\ Ent(y.pages, y.roots[d]) = Ent(x.pages, x.roots[d])

(* What an operation on the index of column c does: it turns the entries    *)
(* into e, or fails and changes nothing.                                    *)
Indexing(x, y, c, e) ==
  /\ Frame(x, y) /\ y.disk = x.disk
  /\ Alike(x.pages, y.pages) /\ View(y.pages) = View(x.pages)
  /\ y.out # "ok" => Keeps(x.pages, y.pages)
  /\ y.out = "ok" => /\ Ent(y.pages, y.roots[c]) = e /\ OthersSame(x, y, c)
                     /\ x.roots[c] # 0 => y.roots = x.roots

LEMMA AllReadable ==
  ASSUME NEW p, NEW x \in Sounds(p), x.out = "ok", NEW c \in Indexed
  PROVE  Readable(x, c) /\ x.roots[c] \in Nat /\ Entries(x, c) = Ent(x.pages, x.roots[c])
<1>1. /\ x.count = Len(x.pages) + 1 /\ PagesOk(x.pages) /\ Rooted(x.pages, x.roots)
      /\ x.roots[c] \in Nat
  BY DEF Sounds, Header, Execs
<1>2. x.pages \in Seq(Heaps \cup Leaves)
  BY <1>1 DEF PagesOk
<1>3. x.roots[c] < x.count
  <2>1. x.roots[c] # 0 => x.roots[c] \in DOMAIN x.pages
    BY <1>1 DEF Rooted, IsLeaf
  <2>2. Len(x.pages) \in Nat /\ DOMAIN x.pages = 1 .. Len(x.pages)
    BY <1>2
  <2> QED
    BY <1>1, <2>1, <2>2
<1> QED
  BY <1>1, <1>3 DEF Readable, Entries, Ent

(* The leaf of an index is written.                                         *)
LEMMA LeafPageWritten ==
  ASSUME NEW p, NEW x \in Sounds(p), x.out = "ok", NEW c \in Indexed, x.roots[c] # 0,
         NEW e \in Maps, Into(x.pages, e)
  PROVE  /\ WritePage(x, x.roots[c], Index(e)) \in Sounds(p)
         /\ Indexing(x, WritePage(x, x.roots[c], Index(e)), c, e)
         /\ WritePage(x, x.roots[c], Index(e)).roots = x.roots
<1> DEFINE q == x.roots[c]
           y == WritePage(x, q, Index(e))
<1>1. PagesOk(x.pages) /\ Rooted(x.pages, x.roots)
  BY DEF Sounds, Header
<1>2. IsLeaf(x.pages, q) /\ q # 0
  BY <1>1 DEF Rooted
<1>3. q \in DOMAIN x.pages
  BY <1>2 DEF IsLeaf
<1>4. Index(e) \in Leaves /\ Index(e).entries = e
  BY LeafIs DEF Index
<1>5. Into(x.pages, Index(e).entries)
  BY <1>4
<1> DEFINE page == Index(e)
<1> HIDE DEF page
<1>6. /\ PagesOk([x.pages EXCEPT ![q] = page])
      /\ Alike(x.pages, [x.pages EXCEPT ![q] = page])
      /\ Len([x.pages EXCEPT ![q] = page]) = Len(x.pages)
  BY <1>1, <1>2, <1>4, <1>5, LeafWritten DEF page
<1>7. View([x.pages EXCEPT ![q] = page]) = View(x.pages)
  BY <1>1, <1>2, <1>4, LeafView DEF page
<1>8. /\ y \in Sounds(p) /\ Frame(x, y) /\ Headers(x, y)
      /\ y.pages = IF y.out = "ok" THEN [x.pages EXCEPT ![q] = page] ELSE x.pages
  BY <1>3, <1>6, PageWritten DEF page
<1> HIDE DEF y
<1>9. y.disk = x.disk /\ y.roots = x.roots
  BY <1>8 DEF Headers
<1>10. Alike(x.pages, y.pages) /\ View(y.pages) = View(x.pages)
  BY <1>6, <1>7, <1>8, AlikeSame
<1>11. y.out # "ok" => Keeps(x.pages, y.pages)
  BY <1>8, KeepsSame
<1>12. ASSUME y.out = "ok" PROVE Ent(y.pages, y.roots[c]) = e
  <2>1. y.pages[q] = page
    BY <1>3, <1>8, <1>12
  <2> QED
    BY <1>2, <1>4, <1>9, <2>1 DEF Ent, page
<1>13. ASSUME y.out = "ok" PROVE OthersSame(x, y, c)
  <2> SUFFICES ASSUME NEW d \in Indexed, d # c
               PROVE  Ent(y.pages, x.roots[d]) = Ent(x.pages, x.roots[d])
    BY <1>9 DEF OthersSame
  <2>1. x.roots[d] # q
    BY <1>1, <1>2 DEF Rooted
  <2>2. x.roots[d] # 0 => y.pages[x.roots[d]] = x.pages[x.roots[d]]
    <3>1. x.roots[d] # 0 => x.roots[d] \in DOMAIN x.pages
      BY <1>1 DEF Rooted, IsLeaf
    <3> QED
      BY <1>8, <1>13, <2>1, <3>1
  <2> QED
    BY <2>2 DEF Ent
<1>14. Indexing(x, y, c, e)
  BY <1>8, <1>9, <1>10, <1>11, <1>12, <1>13 DEF Indexing
<1> QED
  BY <1>8, <1>9, <1>14 DEF y

(* The first leaf of an index is added.                                     *)
FirstLeaf(y, c, e) == WritePage([y EXCEPT !.roots[c] = y.at], y.at, Index(e))
NewIndex(x, c, e) == Then(AllocatePage(x), LAMBDA y : FirstLeaf(y, c, e))

LEMMA NewIndexWritten ==
  ASSUME NEW p, NEW z \in Sounds(p), z.out = "ok", NEW c \in Indexed, NEW e,
         z.at \in DOMAIN z.pages, NEW y,
         y = FirstLeaf(z, c, e),
         y.out # "ok" \/ [z.pages EXCEPT ![z.at] = Index(e)] \in Seq(Heaps \cup Leaves)
  PROVE  /\ y \in Execs /\ y.count = z.count /\ Frame(z, y) /\ y.disk = z.disk
         /\ y.pages = IF y.out = "ok" THEN [z.pages EXCEPT ![z.at] = Index(e)] ELSE z.pages
         /\ y.roots = [z.roots EXCEPT ![c] = z.at]
<1> DEFINE w == [z EXCEPT !.roots[c] = z.at]
           v == [w EXCEPT !.writes = w.writes - 1]
           u == [v EXCEPT !.pages[w.at] = Index(e)]
           t == [w EXCEPT !.out = "stopped"]
<1>1. z \in Execs /\ z.count = Len(z.pages) + 1 /\ PagesOk(z.pages)
  BY DEF Sounds
<1>2. z.at \in Nat /\ z.roots \in [Indexed -> Nat] /\ z.writes \in Nat
  BY <1>1 DEF Execs
<1>3. ~(z.at >= z.count)
  <2>1. z.pages \in Seq(Heaps \cup Leaves)
    BY <1>1 DEF PagesOk
  <2>2. Len(z.pages) \in Nat /\ z.at <= Len(z.pages)
    BY <2>1
  <2> QED
    BY <1>1, <1>2, <2>2
<1>4. [z.roots EXCEPT ![c] = z.at] \in [Indexed -> Nat]
  BY <1>2
<1>5. /\ w \in Execs /\ w.out = "ok" /\ w.count = z.count /\ w.at = z.at /\ w.pages = z.pages
      /\ w.writes = z.writes /\ w.roots = [z.roots EXCEPT ![c] = z.at]
      /\ w.disk = z.disk /\ Frame(z, w)
  BY <1>1, <1>4 DEF Execs, Frame
<1>6. y = WritePage(w, z.at, Index(e))
  BY DEF FirstLeaf
<1> HIDE DEF w
<1>7. CASE z.writes = 0
  <2>1. y = t
    BY <1>3, <1>5, <1>6, <1>7 DEF WritePage, Then, Writing
  <2>2. /\ t \in Execs /\ t.out = "stopped" /\ t.count = w.count /\ t.pages = w.pages
        /\ t.roots = w.roots /\ t.disk = w.disk /\ Frame(w, t)
    BY <1>5 DEF Execs, Frame
  <2> HIDE DEF t
  <2> QED
    BY <1>5, <2>1, <2>2 DEF Frame
<1>8. CASE z.writes # 0
  <2>1. w.writes - 1 \in Nat
    BY <1>2, <1>5, <1>8
  <2>2. /\ v \in Execs /\ v.out = "ok" /\ v.count = w.count /\ v.pages = w.pages
        /\ v.roots = w.roots /\ v.disk = w.disk /\ Frame(w, v)
    BY <1>5, <2>1 DEF Execs, Frame
  <2>3. y = u
    BY <1>3, <1>5, <1>6, <1>8, <2>2 DEF WritePage, Then, Writing
  <2> DEFINE pg == [z.pages EXCEPT ![z.at] = Index(e)]
  <2>4. u = [v EXCEPT !.pages = pg]
    BY <1>5, <2>2
  <2> HIDE DEF v, u, pg
  <2>5. y.out = "ok"
    BY <2>2, <2>3, <2>4 DEF Execs
  <2>6. pg \in Seq(Heaps \cup Leaves)
    BY <2>5 DEF pg
  <2>7. /\ u \in Execs /\ u.out = "ok" /\ u.count = v.count /\ u.pages = pg
        /\ u.roots = v.roots /\ u.disk = v.disk /\ Frame(v, u)
    BY <2>2, <2>4, <2>6 DEF Execs, Frame
  <2> QED
    BY <1>5, <2>2, <2>3, <2>7 DEF Frame, pg
<1> QED
  BY <1>2, <1>7, <1>8

LEMMA NewIndexIs ==
  ASSUME NEW p, NEW x \in Sounds(p), x.out = "ok", NEW c \in Indexed, x.roots[c] = 0,
         NEW e \in Maps, Into(x.pages, e)
  PROVE  NewIndex(x, c, e) \in Sounds(p) /\ Indexing(x, NewIndex(x, c, e), c, e)
<1> DEFINE z == AllocatePage(x)
           y == FirstLeaf(z, c, e)
           r == NewIndex(x, c, e)
           n == Len(x.pages) + 1
           pg == Append(x.pages, Index(e))
<1>1. r = IF z.out = "ok" THEN y ELSE z
  BY DEF NewIndex, Then
<1>2. /\ z \in Sounds(p) /\ Frame(x, z) /\ Headers(x, z)
      /\ z.out # "ok" => z.pages = x.pages
      /\ z.out = "ok" => z.pages = Append(x.pages, Blank) /\ z.at = n
  BY AllocateIs
<1>3. PagesOk(x.pages) /\ Header(x) /\ x.pages \in Seq(Heaps \cup Leaves)
  BY DEF Sounds, PagesOk
<1>4. Rooted(x.pages, x.roots) /\ Rooted(x.pages, x.disk) /\ x.disk[c] = 0
      /\ \A d \in Indexed : x.disk[d] \in {0, x.roots[d]}
  BY <1>3 DEF Header
<1> HIDE DEF r, z
<1>5. CASE z.out # "ok"
  <2>1. Indexing(x, z, c, e)
    BY <1>2, <1>5, KeepsSame DEF Indexing, Headers, Keeps
  <2> QED
    BY <1>1, <1>2, <1>5, <2>1 DEF r
<1>6. CASE z.out = "ok"
  <2>1. Index(e) \in Leaves /\ Index(e).entries = e /\ Blank \in Heaps /\ Blank \notin Leaves
        /\ Blank.slots = <<>> /\ Index(e) \notin Heaps
    BY LeafIs, EmptyHeaps, Kinds DEF Index, Blank
  <2> DEFINE leaf == Index(e)
  <2>2. Into(x.pages, leaf.entries)
    BY <2>1
  <2> HIDE DEF leaf
  <2>3. /\ pg \in Seq(Heaps \cup Leaves) /\ n \in Nat /\ n # 0 /\ n \in DOMAIN Append(x.pages, Blank)
        /\ [Append(x.pages, Blank) EXCEPT ![n] = Index(e)] = pg
        /\ n \in DOMAIN pg /\ pg[n] = Index(e) /\ n \notin DOMAIN x.pages
        /\ \A q \in DOMAIN x.pages : q \in DOMAIN pg /\ pg[q] = x.pages[q]
    <3>1. \A a : /\ DOMAIN Append(x.pages, a) = 1 .. n
                 /\ Append(x.pages, a)[n] = a
                 /\ \A q \in DOMAIN x.pages : Append(x.pages, a)[q] = x.pages[q]
      BY <1>3
    <3>2. DOMAIN x.pages = 1 .. n - 1 /\ n \in Nat \ {0}
      BY <1>3
    <3>4. pg \in Seq(Heaps \cup Leaves)
      BY <1>3, <2>1
    <3>3. [Append(x.pages, Blank) EXCEPT ![n] = Index(e)] = pg
      <4> DEFINE pg2 == [Append(x.pages, Blank) EXCEPT ![n] = Index(e)]
      <4>1. DOMAIN pg2 = 1 .. n /\ DOMAIN pg = 1 .. n
        BY <3>1
      <4>2. ASSUME NEW q \in 1 .. n PROVE pg2[q] = pg[q]
        <5>1. CASE q = n
          BY <3>1, <3>2, <5>1
        <5>2. CASE q # n
          <6>1. q \in DOMAIN x.pages
            BY <3>2, <5>2
          <6> QED
            BY <3>1, <5>2, <6>1
        <5> QED
          BY <5>1, <5>2
      <4>3. pg = [q \in 1 .. n |-> pg[q]]
        BY <3>1, <3>4
      <4>4. pg2 = [q \in 1 .. n |-> pg2[q]]
        BY <4>1
      <4> HIDE DEF pg2, pg, n
      <4> QED
        BY <4>2, <4>3, <4>4 DEF pg2
    <3> HIDE DEF n
    <3> QED
      BY <3>1, <3>2, <3>3, <3>4
  <2>4. PagesOk(pg) /\ Alike(x.pages, pg) /\ Keeps(x.pages, pg) /\ Len(pg) = Len(x.pages) + 1
    BY <1>3, <2>1, <2>2, PageAdded, AddedKept DEF leaf
  <2>5. Keeps(x.pages, Append(x.pages, Blank))
    BY <1>3, <2>1, AddedKept
  <2>6. /\ y \in Execs /\ y.count = z.count /\ Frame(z, y) /\ y.disk = z.disk
        /\ y.pages = IF y.out = "ok" THEN [z.pages EXCEPT ![z.at] = Index(e)] ELSE z.pages
        /\ y.roots = [z.roots EXCEPT ![c] = z.at]
    <3>1. z.at \in DOMAIN z.pages
      BY <1>2, <1>6, <2>3
    <3>2. [z.pages EXCEPT ![z.at] = Index(e)] \in Seq(Heaps \cup Leaves)
      BY <1>2, <1>6, <2>3
    <3> HIDE DEF y
    <3>3. y = FirstLeaf(z, c, e)
      BY DEF y
    <3> QED
      BY <1>2, <1>6, <3>1, <3>2, <3>3, NewIndexWritten, SMTT(30)
  <2> HIDE DEF y, pg, n
  <2>7. /\ y.pages = IF y.out = "ok" THEN pg ELSE z.pages
        /\ y.roots = [x.roots EXCEPT ![c] = n] /\ y.disk = x.disk
    BY <1>2, <1>6, <2>3, <2>6 DEF Headers
  <2>8. Keeps(x.pages, y.pages)
    BY <1>2, <1>6, <2>4, <2>5, <2>7
  <2>9. x.roots \in [Indexed -> Nat] /\ y.roots[c] = n
        /\ \A d \in Indexed : d # c => y.roots[d] = x.roots[d]
    <3>1. x.roots \in [Indexed -> Nat]
      BY DEF Sounds, Execs
    <3> QED
      BY <2>7, <3>1
  <2>10. \A d \in Indexed : x.roots[d] # n /\ (x.roots[d] # 0 => IsLeaf(x.pages, x.roots[d]))
    BY <1>4, <2>3 DEF Rooted, IsLeaf
  <2>11. y.out = "ok" => Rooted(y.pages, y.roots)
    <3> SUFFICES ASSUME y.out = "ok", NEW d \in Indexed, y.roots[d] # 0
                 PROVE  IsLeaf(pg, y.roots[d])
                        /\ \A f \in Indexed : y.roots[f] = y.roots[d] => f = d
      BY <2>7 DEF Rooted
    <3>1. IsLeaf(pg, y.roots[d])
      <4>1. CASE d = c
        BY <2>1, <2>3, <2>9, <4>1 DEF IsLeaf
      <4>2. CASE d # c
        BY <2>3, <2>9, <2>10, <4>2 DEF IsLeaf
      <4> QED
        BY <4>1, <4>2
    <3>2. ASSUME NEW f \in Indexed, y.roots[f] = y.roots[d] PROVE f = d
      BY <1>4, <2>9, <2>10, <3>2 DEF Rooted
    <3> QED
      BY <3>1, <3>2
  <2>12. Header(y)
    <3>1. Rooted(y.pages, y.disk)
      BY <1>4, <2>7, <2>8, AlikeRooted DEF Keeps
    <3>2. \A d \in Indexed : y.disk[d] \in {0, y.roots[d]}
      BY <1>4, <2>7, <2>9
    <3> QED
      BY <2>11, <3>1, <3>2 DEF Header
  <2>13. y \in Sounds(p)
    <3>1. z.count = Len(z.pages) + 1 /\ Len(z.pages) = n
      <4>1. Len(Append(x.pages, Blank)) = Len(x.pages) + 1
        BY <1>3
      <4> QED
        BY <1>2, <1>6, <4>1 DEF Sounds, n
    <3>2. y.count = Len(y.pages) + 1
      BY <2>4, <2>6, <2>7, <3>1 DEF n
    <3>3. PagesOk(y.pages)
      BY <1>2, <2>4, <2>7 DEF Sounds
    <3>4. p # 0 => IsHeap(y.pages, p)
      BY <2>8, AlikeHeap DEF Sounds, Keeps
    <3> QED
      BY <2>6, <2>12, <3>2, <3>3, <3>4 DEF Sounds
  <2>14. y.out = "ok" => Ent(y.pages, y.roots[c]) = e /\ OthersSame(x, y, c)
    <3> SUFFICES ASSUME y.out = "ok"
                 PROVE  Ent(y.pages, y.roots[c]) = e /\ OthersSame(x, y, c)
      OBVIOUS
    <3>1. Ent(y.pages, y.roots[c]) = e
      BY <2>1, <2>3, <2>7, <2>9 DEF Ent
    <3>2. ASSUME NEW d \in Indexed, d # c
          PROVE  y.roots[d] = x.roots[d] /\ Ent(y.pages, y.roots[d]) = Ent(x.pages, x.roots[d])
      BY <2>3, <2>7, <2>9, <2>10, <3>2 DEF Ent, IsLeaf
    <3> QED
      BY <3>1, <3>2 DEF OthersSame
  <2>15. Frame(x, y)
    BY <1>2, <2>6 DEF Frame
  <2>16. Indexing(x, y, c, e)
    BY <2>7, <2>8, <2>14, <2>15 DEF Indexing, Keeps
  <2> QED
    BY <1>1, <1>6, <2>13, <2>16 DEF r, y
<1> QED
  BY <1>5, <1>6

LEMMA IndexInsertIs ==
  ASSUME NEW p, NEW x \in Sounds(p), x.out = "ok", NEW c \in Indexed,
         NEW k \in Int, NEW rid \in Rids, IsHeap(x.pages, rid[1])
  PROVE  /\ IndexInsert(x, c, k, rid) \in Sounds(p)
         /\ Indexing(x, IndexInsert(x, c, k, rid), c, Put(Ent(x.pages, x.roots[c]), k, rid))
         /\ IndexInsert(x, c, k, rid).out = "ok" => k \notin DOMAIN Ent(x.pages, x.roots[c])
<1> DEFINE e == Ent(x.pages, x.roots[c])
           m == Put(e, k, rid)
           y == IndexInsert(x, c, k, rid)
           t == [x EXCEPT !.out = "error"]
           w == WritePage(x, x.roots[c], Index(m))
           new == NewIndex(x, c, Put(<<>>, k, rid))
<1>1. Readable(x, c) /\ Entries(x, c) = e
  BY AllReadable
<1>2. e \in Maps /\ Into(x.pages, e)
  BY EntMap DEF Sounds, Header
<1>3. m \in Maps /\ Into(x.pages, m)
  <2>1. /\ m \in Maps /\ DOMAIN m = DOMAIN e \cup {k} /\ m[k] = rid
        /\ \A j \in DOMAIN e : j # k => m[j] = e[j]
    <3>1. k \in Int
      OBVIOUS
    <3>2. WithEntry(m, e, k, rid)
      BY <1>2, <3>1, PutIs
    <3> HIDE DEF m, e
    <3> QED
      BY <3>2 DEF WithEntry
  <2> HIDE DEF m, e
  <2> QED
    BY <1>2, <2>1 DEF Into
<1>4. y = IF k \in DOMAIN e THEN t ELSE IF x.roots[c] = 0 THEN new ELSE w
  BY <1>1 DEF IndexInsert, Throw, NewIndex, FirstLeaf
<1>5. x.roots[c] = 0 => e = <<>>
  BY DEF Ent
<1> HIDE DEF m, e, y
<1>6. CASE k \in DOMAIN e
  <2>1. /\ t \in Sounds(p) /\ t.out = "error" /\ t.pages = x.pages
        /\ Frame(x, t) /\ Headers(x, t)
    BY Ending
  <2> HIDE DEF t
  <2>2. Indexing(x, t, c, m)
    BY <2>1, AlikeSame, KeepsSame DEF Indexing, Headers
  <2> QED
    BY <1>4, <1>6, <2>1, <2>2 DEF y, m, e
<1>7. CASE k \notin DOMAIN e /\ x.roots[c] = 0
  <2>1. new = NewIndex(x, c, m)
    BY <1>5, <1>7 DEF m
  <2> HIDE DEF new
  <2>2. new \in Sounds(p) /\ Indexing(x, new, c, m)
    BY <1>3, <1>7, <2>1, NewIndexIs
  <2> QED
    BY <1>4, <1>7, <2>2 DEF y, m, e
<1>8. CASE k \notin DOMAIN e /\ x.roots[c] # 0
  <2>1. w \in Sounds(p) /\ Indexing(x, w, c, m)
    BY <1>3, <1>8, LeafPageWritten
  <2> HIDE DEF w
  <2> QED
    BY <1>4, <1>8, <2>1 DEF y, m, e
<1> QED
  BY <1>6, <1>7, <1>8

LEMMA IndexEraseIs ==
  ASSUME NEW p, NEW x \in Sounds(p), x.out = "ok", NEW c \in Indexed, NEW k
  PROVE  /\ IndexErase(x, c, k) \in Sounds(p)
         /\ Indexing(x, IndexErase(x, c, k), c, Without(Ent(x.pages, x.roots[c]), k))
         /\ IndexErase(x, c, k).out = "ok" => k \in DOMAIN Ent(x.pages, x.roots[c])
         /\ IndexErase(x, c, k).roots = x.roots
<1> DEFINE e == Ent(x.pages, x.roots[c])
           m == Without(e, k)
           y == IndexErase(x, c, k)
           t == [x EXCEPT !.out = "error"]
           w == WritePage(x, x.roots[c], Index(m))
<1>1. Readable(x, c) /\ Entries(x, c) = e
  BY AllReadable
<1>2. e \in Maps /\ Into(x.pages, e)
  BY EntMap DEF Sounds, Header
<1>3. m \in Maps /\ Into(x.pages, m)
  <2>1. /\ m \in Maps /\ DOMAIN m = DOMAIN e \ {k}
        /\ \A j \in DOMAIN e : j # k => m[j] = e[j]
    BY <1>2, WithoutIs
  <2> HIDE DEF m, e
  <2> QED
    BY <1>2, <2>1 DEF Into
<1>4. y = IF k \notin DOMAIN e THEN t ELSE w
  BY <1>1 DEF IndexErase, Throw, Without
<1>5. x.roots[c] = 0 => DOMAIN e = {}
  BY EmptyMap DEF Ent
<1> HIDE DEF m, e, y
<1>6. CASE k \notin DOMAIN e
  <2>1. /\ t \in Sounds(p) /\ t.out = "error" /\ t.pages = x.pages
        /\ Frame(x, t) /\ Headers(x, t)
    BY Ending
  <2> HIDE DEF t
  <2>2. Indexing(x, t, c, m)
    BY <2>1, AlikeSame, KeepsSame DEF Indexing, Headers
  <2> QED
    BY <1>4, <1>6, <2>1, <2>2 DEF y, m, e, Headers
<1>7. CASE k \in DOMAIN e
  <2>1. x.roots[c] # 0
    BY <1>5, <1>7
  <2>2. w \in Sounds(p) /\ Indexing(x, w, c, m) /\ w.roots = x.roots
    BY <1>3, <2>1, LeafPageWritten
  <2> HIDE DEF w
  <2> QED
    BY <1>4, <1>7, <2>2 DEF y, m, e
<1> QED
  BY <1>6, <1>7

-----------------------------------------------------------------------------
(* Indexes and rows.                                                        *)

Views == [Rids -> RowSet \cup {<<>>}]

(* The entries m of the index of column c lead to rows of V that have the   *)
(* key; if exact, there is one for every row that has one.                  *)
Leading(m, c, V) == \A k \in DOMAIN m : V[m[k]] # <<>> /\ V[m[k]][c] = k
Covering(m, c, V) ==
  \A rid \in Rids : V[rid] # <<>> /\ V[rid][c] # Null =>
    V[rid][c] \in DOMAIN m /\ m[V[rid][c]] = rid
Tied(exact, m, c, V) == Leading(m, c, V) /\ (exact => Covering(m, c, V))

(* As the execution sees the indexes, and as they are in the file.          *)
AllTied(exact, x, V) ==
  \A c \in Indexed : Tied(exact, Ent(x.pages, x.roots[c]), c, V)
FileTied(x, V) ==
  \A c \in Indexed : Tied(FALSE, Ent(x.pages, x.disk[c]), c, V)

LEMMA RowIs ==
  ASSUME NEW row \in RowSet
  PROVE  row # <<>> /\ DOMAIN row = Columns /\ \A c \in Columns : row[c] \in Int \cup {Null}
<1>1. Columns # {}
  BY TableAssumption
<1>2. DOMAIN row = Columns /\ \A c \in Columns : row[c] \in DOMAIN Width[c]
  BY DEF RowSet
<1>3. \A c \in Columns : DOMAIN Width[c] \subseteq Int \cup {Null}
  BY WidthAssumption
<1>4. DOMAIN <<>> = {}
  BY EmptyMap
<1> QED
  BY <1>1, <1>2, <1>3, <1>4

LEMMA ViewIs ==
  ASSUME NEW pg, PagesOk(pg)
  PROVE  View(pg) \in Views
<1>1. ASSUME NEW rid \in Rids
      PROVE  (IF IsHeap(pg, rid[1]) THEN RowAt(pg[rid[1]], rid[2]) ELSE <<>>)
               \in RowSet \cup {<<>>}
  <2>1. CASE IsHeap(pg, rid[1])
    <3> DEFINE page == pg[rid[1]]
    <3>1. page \in Heaps
      BY <2>1 DEF IsHeap
    <3> HIDE DEF page
    <3>2. page.slots \in Seq(Slots)
      BY <3>1 DEF Heaps
    <3>3. RowAt(page, rid[2]) \in RowSet \cup {<<>>}
      BY <3>2 DEF RowAt, Slots
    <3> QED
      BY <2>1, <3>3 DEF page
  <2>2. CASE ~IsHeap(pg, rid[1])
    BY <2>2
  <2> QED
    BY <2>1, <2>2
<1> QED
  BY <1>1 DEF View, Views

LEMMA TiedFalse ==
  ASSUME NEW exact, NEW m, NEW c, NEW V, Tied(exact, m, c, V)
  PROVE  Tied(FALSE, m, c, V)
BY DEF Tied

(* A row goes, with its entry.                                              *)
LEMMA TiedErased ==
  ASSUME NEW exact, NEW m \in Maps, NEW c, NEW V \in Views, Tied(exact, m, c, V),
         NEW rid \in Rids, V[rid] # <<>>, V[rid][c] \in DOMAIN m
  PROVE  Tied(exact, Without(m, V[rid][c]), c, [V EXCEPT ![rid] = <<>>])
<1> DEFINE k == V[rid][c]
           w == Without(m, k)
           U == [V EXCEPT ![rid] = <<>>]
<1>1. /\ DOMAIN w = DOMAIN m \ {k} /\ \A j \in DOMAIN m : j # k => w[j] = m[j]
  BY WithoutIs
<1>2. \A j \in DOMAIN m : m[j] \in Rids
  BY MapIs
<1>3. /\ U[rid] = <<>> /\ \A r \in Rids : r # rid => U[r] = V[r]
  BY DEF Views
<1>4. V[rid][c] = k /\ k \in DOMAIN m
  OBVIOUS
<1> HIDE DEF k, w, U
<1>5. Leading(w, c, U)
  <2> SUFFICES ASSUME NEW j \in DOMAIN w PROVE U[w[j]] # <<>> /\ U[w[j]][c] = j
    BY DEF Leading
  <2>1. j \in DOMAIN m /\ j # k /\ w[j] = m[j]
    BY <1>1
  <2>2. V[m[j]] # <<>> /\ V[m[j]][c] = j
    BY <2>1 DEF Tied, Leading
  <2>3. m[j] # rid
    BY <1>4, <2>1, <2>2
  <2> QED
    BY <1>2, <1>3, <2>1, <2>2, <2>3
<1>6. ASSUME exact PROVE Covering(w, c, U)
  <2> SUFFICES ASSUME NEW r \in Rids, U[r] # <<>>, U[r][c] # Null
               PROVE  U[r][c] \in DOMAIN w /\ w[U[r][c]] = r
    BY DEF Covering
  <2>1. r # rid /\ U[r] = V[r]
    BY <1>3
  <2>2. V[r][c] \in DOMAIN m /\ m[V[r][c]] = r
    BY <1>6, <2>1 DEF Tied, Covering
  <2>3. k # Null
    <3>1. k \in Int
      BY <1>4, MapIs
    <3> QED
      BY <3>1, NullAssumption
  <2>4. m[k] = rid
    BY <1>4, <1>6, <2>3 DEF Tied, Covering
  <2>5. V[r][c] # k
    BY <2>1, <2>2, <2>4
  <2> QED
    BY <1>1, <2>1, <2>2, <2>5
<1> QED
  BY <1>5, <1>6 DEF Tied, k, w, U

(* A row without a key goes or comes.                                       *)
LEMMA TiedGone ==
  ASSUME NEW exact, NEW m \in Maps, NEW c, NEW V \in Views, Tied(exact, m, c, V),
         NEW rid \in Rids, V[rid] = <<>> \/ V[rid][c] = Null
  PROVE  Tied(exact, m, c, [V EXCEPT ![rid] = <<>>])
<1> DEFINE U == [V EXCEPT ![rid] = <<>>]
<1>2. /\ \A j \in DOMAIN m : m[j] \in Rids /\ j # Null
  BY MapIs, NullAssumption
<1>3. /\ U[rid] = <<>> /\ \A r \in Rids : r # rid => U[r] = V[r]
  BY DEF Views
<1> HIDE DEF U
<1>5. Leading(m, c, U)
  BY <1>2, <1>3 DEF Tied, Leading
<1>6. ASSUME exact PROVE Covering(m, c, U)
  BY <1>3, <1>6 DEF Tied, Covering
<1> QED
  BY <1>5, <1>6 DEF Tied, U

LEMMA TiedNull ==
  ASSUME NEW exact, NEW m \in Maps, NEW c, NEW V \in Views, Tied(exact, m, c, V),
         NEW rid \in Rids, V[rid] = <<>>, NEW row, exact => row[c] = Null
  PROVE  Tied(exact, m, c, [V EXCEPT ![rid] = row])
<1> DEFINE U == [V EXCEPT ![rid] = row]
<1>2. /\ \A j \in DOMAIN m : m[j] \in Rids
  BY MapIs
<1>3. /\ U[rid] = row /\ \A r \in Rids : r # rid => U[r] = V[r]
  BY DEF Views
<1> HIDE DEF U
<1>5. Leading(m, c, U)
  BY <1>2, <1>3 DEF Tied, Leading
<1>6. ASSUME exact PROVE Covering(m, c, U)
  BY <1>3, <1>6 DEF Tied, Covering
<1> QED
  BY <1>5, <1>6 DEF Tied, U

(* A row comes, with an entry.                                              *)
LEMMA TiedPut ==
  ASSUME NEW exact, NEW m \in Maps, NEW c, NEW V \in Views, Tied(exact, m, c, V),
         NEW rid \in Rids, V[rid] = <<>>, NEW row, row # <<>>, row[c] \in Int,
         row[c] \notin DOMAIN m
  PROVE  Tied(exact, Put(m, row[c], rid), c, [V EXCEPT ![rid] = row])
<1> DEFINE k == row[c]
           w == Put(m, k, rid)
           U == [V EXCEPT ![rid] = row]
<1>4. row[c] = k /\ k \notin DOMAIN m /\ k \in Int
  OBVIOUS
<1> HIDE DEF k
<1>1. /\ DOMAIN w = DOMAIN m \cup {k} /\ w[k] = rid
      /\ \A j \in DOMAIN m : j # k => w[j] = m[j]
  <2>1. WithEntry(w, m, k, rid)
    BY <1>4, PutIs
  <2> HIDE DEF w
  <2> QED
    BY <2>1 DEF WithEntry
<1>2. \A j \in DOMAIN m : m[j] \in Rids
  BY MapIs
<1>3. /\ U[rid] = row /\ \A r \in Rids : r # rid => U[r] = V[r]
  BY DEF Views
<1> HIDE DEF w, U
<1>5. Leading(w, c, U)
  <2> SUFFICES ASSUME NEW j \in DOMAIN w PROVE U[w[j]] # <<>> /\ U[w[j]][c] = j
    BY DEF Leading
  <2>1. CASE j = k
    BY <1>1, <1>3, <1>4, <2>1
  <2>2. CASE j # k
    <3>1. j \in DOMAIN m /\ w[j] = m[j]
      BY <1>1, <2>2
    <3>2. V[m[j]] # <<>> /\ V[m[j]][c] = j
      BY <3>1 DEF Tied, Leading
    <3> QED
      BY <1>2, <1>3, <3>1, <3>2
  <2> QED
    BY <2>1, <2>2
<1>6. ASSUME exact PROVE Covering(w, c, U)
  <2> SUFFICES ASSUME NEW r \in Rids, U[r] # <<>>, U[r][c] # Null
               PROVE  U[r][c] \in DOMAIN w /\ w[U[r][c]] = r
    BY DEF Covering
  <2>1. CASE r = rid
    BY <1>1, <1>3, <1>4, <2>1
  <2>2. CASE r # rid
    <3>1. U[r] = V[r]
      BY <1>3, <2>2
    <3>2. V[r][c] \in DOMAIN m /\ m[V[r][c]] = r
      BY <1>6, <3>1 DEF Tied, Covering
    <3> QED
      BY <1>1, <1>4, <3>1, <3>2
  <2> QED
    BY <2>1, <2>2
<1> QED
  BY <1>5, <1>6 DEF Tied, k, w, U

(* A row changes in other columns.                                          *)
LEMMA TiedOther ==
  ASSUME NEW exact, NEW m \in Maps, NEW c, NEW V \in Views, Tied(exact, m, c, V),
         NEW rid \in Rids, V[rid] # <<>>, NEW row, row # <<>>, row[c] = V[rid][c]
  PROVE  Tied(exact, m, c, [V EXCEPT ![rid] = row])
<1> DEFINE U == [V EXCEPT ![rid] = row]
<1>2. /\ \A j \in DOMAIN m : m[j] \in Rids
  BY MapIs
<1>3. /\ U[rid] = row /\ \A r \in Rids : r # rid => U[r] = V[r]
  BY DEF Views
<1> HIDE DEF U
<1>5. Leading(m, c, U)
  BY <1>2, <1>3 DEF Tied, Leading
<1>6. ASSUME exact PROVE Covering(m, c, U)
  BY <1>3, <1>6 DEF Tied, Covering
<1> QED
  BY <1>5, <1>6 DEF Tied, U

-----------------------------------------------------------------------------
(* updateIndices.                                                           *)

(* The executions that can enter rows of page q.                            *)
SoundsAt(p, q) == { x \in Sounds(p) : IsHeap(x.pages, q) }

EnterKey(y, c, row, rid) ==
  IF Keyed(row, c)
  THEN Then(y, LAMBDA z : IndexInsert(z, c, row[c], rid)) ELSE y

(* The executions after each column.                                        *)
Entering(f, x, row, rid, p) ==
  /\ f \in [0 .. Cardinality(Columns) -> SoundsAt(p, rid[1])] /\ f[0] = x
  /\ \A c \in Columns : f[c] = EnterKey(f[c - 1], c, row, rid)

LEMMA EnterKeyIs ==
  ASSUME NEW p, NEW rid \in Rids, NEW row \in RowSet, NEW c \in Columns,
         NEW x \in SoundsAt(p, rid[1])
  PROVE  EnterKey(x, c, row, rid) \in SoundsAt(p, rid[1])
<1>1. x \in Sounds(p) /\ IsHeap(x.pages, rid[1])
  BY DEF SoundsAt
<1>2. CASE ~Keyed(row, c) \/ x.out # "ok"
  BY <1>2 DEF EnterKey, Then
<1>3. CASE Keyed(row, c) /\ x.out = "ok"
  <2> DEFINE y == IndexInsert(x, c, row[c], rid)
             m == Put(Ent(x.pages, x.roots[c]), row[c], rid)
  <2>1. c \in Indexed /\ row[c] \in Int
    BY <1>3, RowIs DEF Keyed
  <2>2. y \in Sounds(p) /\ Indexing(x, y, c, m)
    BY <1>1, <1>3, <2>1, IndexInsertIs
  <2>3. EnterKey(x, c, row, rid) = y
    BY <1>3 DEF EnterKey, Then
  <2> HIDE DEF y, m
  <2>4. IsHeap(y.pages, rid[1])
    BY <1>1, <2>2, AlikeHeap DEF Indexing
  <2> QED
    BY <2>2, <2>3, <2>4 DEF SoundsAt
<1> QED
  BY <1>2, <1>3

LEMMA UpdateIndicesFold ==
  ASSUME NEW p, NEW rid \in Rids, NEW row \in RowSet, NEW x \in SoundsAt(p, rid[1])
  PROVE  \E f : /\ Entering(f, x, row, rid, p)
                /\ UpdateIndices(x, row, rid) =
                     IF \E c \in Columns : Keyed(row, c)
                     THEN Then(f[Cardinality(Columns)], WriteHeader)
                     ELSE f[Cardinality(Columns)]
<1> DEFINE n == Cardinality(Columns)
           X == SoundsAt(p, rid[1])
           s == [i \in DOMAIN row |-> i]
           G == [i \in 1 .. n |-> [y \in X |-> EnterKey(y, i, row, rid)]]
           C == CHOOSE it : it = [t \in SUBSET (DOMAIN s) |->
                  IF t = {} THEN x ELSE EnterKey(it[t \ {Max(t)}], s[Max(t)], row, rid)]
<1>1. n \in Nat /\ Columns = 1 .. n
  BY TableAssumption, FS_CardinalityType
<1>2. DOMAIN row = Columns
  BY RowIs
<1>3. G \in [1 .. n -> [X -> X]]
  BY <1>1, EnterKeyIs
<1>4. UpdateIndices(x, row, rid) =
        IF \E c \in DOMAIN row : Keyed(row, c) THEN Then(C[DOMAIN s], WriteHeader)
        ELSE C[DOMAIN s]
  BY DEF UpdateIndices, EnterKey, Then, WriteHeader, FoldLeftDomain, FoldLeft, MapThenFoldSet
<1>5. DOMAIN s = 1 .. n /\ \A i \in 1 .. n : s[i] = i
  BY <1>1, <1>2
<1> HIDE DEF n, s, X
<1>6. PICK it \in [SUBSET (1 .. n) -> X] : Folding(it, n, x, G)
  <2>1. x \in X
    BY DEF X
  <2> HIDE DEF G
  <2> QED
    BY <1>1, <1>3, <2>1, FoldExists
<1>7. ASSUME NEW t \in SUBSET (1 .. n), t # {}
      PROVE  /\ Max(t) \in 1 .. n /\ t \ {Max(t)} \in SUBSET (1 .. n)
             /\ \A v \in X : G[Max(t)][v] = EnterKey(v, Max(t), row, rid)
             /\ s[Max(t)] = Max(t)
  BY <1>1, <1>5, <1>7, MaxIs
<1> HIDE DEF G
<1>8. it = [t \in SUBSET (DOMAIN s) |->
              IF t = {} THEN x ELSE EnterKey(it[t \ {Max(t)}], s[Max(t)], row, rid)]
  BY <1>5, <1>6, <1>7 DEF Folding
<1>9. C = [t \in SUBSET (DOMAIN s) |->
              IF t = {} THEN x ELSE EnterKey(C[t \ {Max(t)}], s[Max(t)], row, rid)]
  BY <1>8
<1> HIDE DEF C
<1>10. Meets(C, X, n, x, G)
  <2>1. C[{}] = x
    BY <1>9
  <2>2. ASSUME NEW t \in SUBSET (1 .. n), t # {}
        PROVE  C[t] = EnterKey(C[t \ {Max(t)}], Max(t), row, rid)
    <3>1. C[t] = EnterKey(C[t \ {Max(t)}], s[Max(t)], row, rid)
      BY <1>5, <1>9, <2>2
    <3> QED
      BY <1>7, <2>2, <3>1
  <2> QED
    BY <1>7, <2>1, <2>2 DEF Meets
<1>11. Arrives(C, X, n, x, G)
  <2>1. x \in X
    BY DEF X
  <2> QED
    BY <1>1, <1>3, <1>10, <2>1, FoldSteps
<1>12. PICK f \in [0 .. n -> X] : Stepping(f, n, x, G) /\ C[1 .. n] = f[n]
  BY <1>11 DEF Arrives
<1>13. ASSUME NEW c \in 1 .. n PROVE f[c] = EnterKey(f[c - 1], c, row, rid)
  <2>1. c - 1 \in 0 .. n
    BY <1>1
  <2>2. f[c - 1] \in X
    BY <1>12, <2>1
  <2>3. f[c] = G[c][f[c - 1]]
    BY <1>12 DEF Stepping
  <2> QED
    BY <2>2, <2>3 DEF G
<1>14. Entering(f, x, row, rid, p)
  BY <1>1, <1>12, <1>13 DEF Entering, Stepping, X, n
<1> QED
  BY <1>2, <1>4, <1>5, <1>12, <1>14 DEF n

LEMMA EntMapRoots ==
  ASSUME NEW p, NEW x \in Sounds(p), x.out = "ok", NEW c \in Indexed
  PROVE  Ent(x.pages, x.roots[c]) \in Maps
<1>1. PagesOk(x.pages) /\ Rooted(x.pages, x.roots)
  BY DEF Sounds, Header
<1> QED
  BY <1>1, EntMap

LEMMA FileTiedKept ==
  ASSUME NEW p, NEW x \in Sounds(p), NEW y, y.disk = x.disk, Keeps(x.pages, y.pages),
         NEW V, FileTied(x, V)
  PROVE  FileTied(y, V)
<1>1. Rooted(x.pages, x.disk)
  BY DEF Sounds, Header
<1> SUFFICES ASSUME NEW c \in Indexed
             PROVE  Ent(y.pages, x.disk[c]) = Ent(x.pages, x.disk[c])
  BY DEF FileTied
<1>2. x.disk[c] # 0 => y.pages[x.disk[c]] = x.pages[x.disk[c]]
  BY <1>1 DEF Rooted, IsLeaf, Keeps, SameLeaves
<1> QED
  BY <1>2 DEF Ent

LEMMA TiedNone ==
  ASSUME NEW c, NEW V
  PROVE  Tied(FALSE, <<>>, c, V)
BY EmptyMap DEF Tied, Leading

LEMMA FileTiedFrom ==
  ASSUME NEW p, NEW x \in Sounds(p), x.out = "ok", NEW V, NEW exact, AllTied(exact, x, V)
  PROVE  FileTied(x, V)
<1> SUFFICES ASSUME NEW c \in Indexed
             PROVE  Tied(FALSE, Ent(x.pages, x.disk[c]), c, V)
  BY DEF FileTied
<1>1. x.disk[c] \in {0, x.roots[c]}
  BY DEF Sounds, Header
<1>2. CASE x.disk[c] = 0
  BY <1>2, TiedNone DEF Ent
<1>3. CASE x.disk[c] = x.roots[c]
  BY <1>3, TiedFalse DEF AllTied
<1> QED
  BY <1>1, <1>2, <1>3

(* What operations on indexes leave alone.                                  *)
OnIndexes(x, y) ==
  /\ Frame(x, y) /\ y.disk = x.disk
  /\ Alike(x.pages, y.pages) /\ View(y.pages) = View(x.pages)
  /\ y.out = "ok" => x.out = "ok"

LEMMA OnIndexesTrans ==
  ASSUME NEW x, NEW y, NEW z, OnIndexes(x, y), OnIndexes(y, z)
  PROVE  OnIndexes(x, z)
BY AlikeTrans DEF OnIndexes, Frame

LEMMA OnIndexesSame ==
  ASSUME NEW x
  PROVE  OnIndexes(x, x)
BY AlikeSame DEF OnIndexes, Frame

LEMMA EnterKeyStep ==
  ASSUME NEW p, NEW rid \in Rids, NEW row \in RowSet, NEW c \in Columns,
         NEW x \in SoundsAt(p, rid[1])
  PROVE  OnIndexes(x, EnterKey(x, c, row, rid))
<1>1. x \in Sounds(p) /\ IsHeap(x.pages, rid[1])
  BY DEF SoundsAt
<1>2. CASE ~Keyed(row, c) \/ x.out # "ok"
  BY <1>2, OnIndexesSame DEF EnterKey, Then
<1>3. CASE Keyed(row, c) /\ x.out = "ok"
  <2> DEFINE y == IndexInsert(x, c, row[c], rid)
             m == Put(Ent(x.pages, x.roots[c]), row[c], rid)
  <2>1. c \in Indexed /\ row[c] \in Int
    BY <1>3, RowIs DEF Keyed
  <2>2. y \in Sounds(p) /\ Indexing(x, y, c, m)
    BY <1>1, <1>3, <2>1, IndexInsertIs
  <2>3. EnterKey(x, c, row, rid) = y
    BY <1>3 DEF EnterKey, Then
  <2> HIDE DEF y, m
  <2> QED
    BY <1>3, <2>2, <2>3 DEF Indexing, OnIndexes
<1> QED
  BY <1>2, <1>3

LEMMA EnteringSteps ==
  ASSUME NEW p, NEW rid \in Rids, NEW row \in RowSet, NEW x,
         NEW f, Entering(f, x, row, rid, p), NEW k \in 0 .. Cardinality(Columns)
  PROVE  OnIndexes(x, f[k])
<1> DEFINE n == Cardinality(Columns)
           S == { j \in 0 .. n : OnIndexes(x, f[j]) }
<1>1. n \in Nat /\ Columns = 1 .. n
  BY TableAssumption, FS_CardinalityType
<1> HIDE DEF n
<1>2. f \in [0 .. n -> SoundsAt(p, rid[1])] /\ f[0] = x
      /\ \A c \in Columns : f[c] = EnterKey(f[c - 1], c, row, rid)
  BY DEF Entering, n
<1>3. 0 \in S
  BY <1>1, <1>2, OnIndexesSame
<1>4. ASSUME NEW j \in 1 .. n, j - 1 \in S PROVE j \in S
  <2>1. f[j] = EnterKey(f[j - 1], j, row, rid) /\ j \in Columns
    BY <1>1, <1>2
  <2>2. f[j - 1] \in SoundsAt(p, rid[1])
    BY <1>1, <1>2
  <2>3. OnIndexes(f[j - 1], f[j])
    BY <2>1, <2>2, EnterKeyStep
  <2>4. OnIndexes(x, f[j - 1])
    BY <1>4
  <2>5. OnIndexes(x, f[j])
    BY <2>3, <2>4, OnIndexesTrans
  <2> QED
    BY <1>1, <2>5
<1>5. \A j \in 0 .. n : j \in S
  <2> HIDE DEF S
  <2> QED
    BY <1>1, <1>3, <1>4, Upward
<1> QED
  BY <1>5 DEF n

(* Columns up to k have their entry, the others not yet.                    *)
Half(exact, x, k, V, U) ==
  \A c \in Indexed : Tied(exact, Ent(x.pages, x.roots[c]), c, IF c <= k THEN U ELSE V)

LEMMA EnterKeyTied ==
  ASSUME NEW p, NEW rid \in Rids, NEW row \in RowSet, NEW c \in Columns,
         NEW x \in SoundsAt(p, rid[1]), x.out = "ok", NEW exact \in BOOLEAN,
         NEW V \in Views, V[rid] = <<>>, NEW U, U = [V EXCEPT ![rid] = row],
         Half(exact, x, c - 1, V, U), FileTied(x, U),
         NEW y, y = EnterKey(x, c, row, rid)
  PROVE  FileTied(y, U) /\ (y.out = "ok" => Half(exact, y, c, V, U))
<1>1. x \in Sounds(p) /\ IsHeap(x.pages, rid[1]) /\ y \in Sounds(p)
  BY EnterKeyIs DEF SoundsAt
<1>2. Columns \subseteq Int /\ Indexed \subseteq Columns
  BY TableAssumption, FS_CardinalityType
<1>3. row # <<>> /\ row[c] \in Int \cup {Null}
  BY RowIs
<1>4. \A d \in Indexed : d # c => (d <= c <=> d <= c - 1)
  BY <1>2
<1>5. ~(c <= c - 1) /\ c <= c
  BY <1>2
<1>6. c \in Indexed => Tied(exact, Ent(x.pages, x.roots[c]), c, V)
  BY <1>5 DEF Half
<1>7. CASE ~Keyed(row, c)
  <2>1. y = x
    BY <1>7 DEF EnterKey
  <2>2. ASSUME c \in Indexed PROVE Tied(exact, Ent(x.pages, x.roots[c]), c, U)
    <3>1. row[c] = Null
      BY <1>7, <2>2 DEF Keyed
    <3>2. Ent(x.pages, x.roots[c]) \in Maps
      BY <1>1, <2>2, EntMapRoots
    <3> QED
      BY <1>6, <2>2, <3>1, <3>2, TiedNull
  <2>3. Half(exact, x, c, V, U)
    BY <1>4, <1>5, <2>2 DEF Half
  <2> QED
    BY <2>1, <2>3
<1>8. CASE Keyed(row, c)
  <2> DEFINE e == Ent(x.pages, x.roots[c])
             m == Put(e, row[c], rid)
  <2>1. c \in Indexed /\ row[c] \in Int
    BY <1>3, <1>8 DEF Keyed
  <2>2. y = IndexInsert(x, c, row[c], rid)
    BY <1>8 DEF EnterKey, Then
  <2>3. Indexing(x, y, c, m) /\ (y.out = "ok" => row[c] \notin DOMAIN e)
    BY <1>1, <2>1, <2>2, IndexInsertIs
  <2>4. e \in Maps
    BY <1>1, <2>1, EntMapRoots
  <2>5. Tied(exact, e, c, V)
    BY <1>6, <2>1
  <2>6. y.out = "ok" => Tied(exact, m, c, U)
    BY <1>3, <2>1, <2>3, <2>4, <2>5, TiedPut
  <2> HIDE DEF m, e
  <2>7. ASSUME y.out = "ok" PROVE Half(exact, y, c, V, U)
    <3>1. Ent(y.pages, y.roots[c]) = m /\ OthersSame(x, y, c)
      BY <2>3, <2>7 DEF Indexing
    <3> SUFFICES ASSUME NEW d \in Indexed
                 PROVE  Tied(exact, Ent(y.pages, y.roots[d]), d, IF d <= c THEN U ELSE V)
      BY DEF Half
    <3>2. CASE d = c
      BY <1>5, <2>6, <2>7, <3>1, <3>2
    <3>3. CASE d # c
      BY <1>4, <3>1, <3>3 DEF OthersSame, Half
    <3> QED
      BY <3>2, <3>3
  <2>8. FileTied(y, U)
    <3>1. CASE y.out = "ok"
      <4> SUFFICES ASSUME NEW d \in Indexed
                   PROVE  Tied(FALSE, Ent(y.pages, y.roots[d]), d, U)
        BY <1>1, <3>1, FileTiedFrom DEF AllTied
      <4>1. Ent(y.pages, y.roots[d]) \in Maps
        BY <1>1, <3>1, EntMapRoots
      <4>2. Tied(exact, Ent(y.pages, y.roots[d]), d, IF d <= c THEN U ELSE V)
        BY <2>7, <3>1 DEF Half
      <4>3. Tied(FALSE, Ent(y.pages, y.roots[d]), d, IF d <= c THEN U ELSE V)
        BY <4>2, TiedFalse
      <4>4. CASE d <= c
        BY <4>3, <4>4
      <4>5. CASE ~(d <= c)
        <5>1. Tied(FALSE, Ent(y.pages, y.roots[d]), d, V)
          BY <4>3, <4>5
        <5> QED
          BY <4>1, <5>1, TiedNull
      <4> QED
        BY <4>4, <4>5
    <3>2. CASE y.out # "ok"
      BY <1>1, <2>3, <3>2, FileTiedKept DEF Indexing
    <3> QED
      BY <3>1, <3>2
  <2> QED
    BY <2>7, <2>8
<1> QED
  BY <1>7, <1>8

LEMMA UpdateIndicesIs ==
  ASSUME NEW p, NEW rid \in Rids, NEW row \in RowSet, NEW x \in SoundsAt(p, rid[1]),
         NEW y, y = UpdateIndices(x, row, rid)
  PROVE  /\ y \in Sounds(p) /\ Frame(x, y) /\ View(y.pages) = View(x.pages)
         /\ y.out = "ok" => x.out = "ok" /\ (x.disk = x.roots => y.disk = y.roots)
         /\ x.out = "ok" => \A exact \in BOOLEAN, V \in Views : \A U :
              V[rid] = <<>> /\ U = [V EXCEPT ![rid] = row] /\ AllTied(exact, x, V)
              => FileTied(y, U) /\ (y.out = "ok" => AllTied(exact, y, U))
<1> DEFINE n == Cardinality(Columns)
<1>1. n \in Nat /\ Columns = 1 .. n /\ Indexed \subseteq Columns
  BY TableAssumption, FS_CardinalityType
<1> HIDE DEF n
<1>2. PICK f : /\ Entering(f, x, row, rid, p)
               /\ y = IF \E c \in Columns : Keyed(row, c)
                      THEN Then(f[n], WriteHeader) ELSE f[n]
  BY UpdateIndicesFold, ZenonT(30) DEF n
<1> DEFINE z == f[n]
           w == WriteHeader(z)
<1>3. /\ f \in [0 .. n -> SoundsAt(p, rid[1])] /\ f[0] = x
      /\ \A c \in Columns : f[c] = EnterKey(f[c - 1], c, row, rid)
  BY <1>2 DEF Entering, n
<1>4. OnIndexes(x, z) /\ z \in Sounds(p)
  <2>1. n \in 0 .. n
    BY <1>1
  <2> QED
    BY <1>2, <1>3, <2>1, EnteringSteps DEF SoundsAt, n
<1>5. y = IF (\E c \in Columns : Keyed(row, c)) /\ z.out = "ok" THEN w ELSE z
  BY <1>2 DEF Then
<1>6. z.out = "ok" =>
        /\ w \in Sounds(p) /\ Frame(z, w) /\ w.pages = z.pages /\ w.roots = z.roots
        /\ w.disk = IF w.out = "ok" THEN z.roots ELSE z.disk
  BY <1>4, WriteHeaderIs
<1> HIDE DEF z, w
<1>7. y \in Sounds(p) /\ Frame(x, y) /\ View(y.pages) = View(x.pages)
  BY <1>4, <1>5, <1>6 DEF OnIndexes, Frame
<1>8. y.out = "ok" => x.out = "ok"
  BY <1>4, <1>5, <1>6 DEF OnIndexes
<1>9. ASSUME x.out = "ok", NEW exact \in BOOLEAN, NEW V \in Views, V[rid] = <<>>,
             NEW U, U = [V EXCEPT ![rid] = row], AllTied(exact, x, V)
      PROVE  FileTied(y, U) /\ (y.out = "ok" => AllTied(exact, y, U))
  <2> DEFINE S == { k \in 0 .. n : /\ FileTied(f[k], U)
                                   /\ f[k].out = "ok" => Half(exact, f[k], k, V, U) }
  <2>1. 0 \in S
    <3>1. x \in Sounds(p)
      BY DEF SoundsAt
    <3>2. \A c \in Indexed : ~(c <= 0)
      BY <1>1
    <3>3. Half(exact, x, 0, V, U)
      BY <1>9, <3>2 DEF Half, AllTied
    <3>4. FileTied(x, U)
      <4> SUFFICES ASSUME NEW c \in Indexed
                   PROVE  Tied(FALSE, Ent(x.pages, x.disk[c]), c, U)
        BY DEF FileTied
      <4>1. FileTied(x, V)
        BY <1>9, <3>1, FileTiedFrom
      <4>2. Tied(FALSE, Ent(x.pages, x.disk[c]), c, V)
        BY <4>1 DEF FileTied
      <4>3. Ent(x.pages, x.disk[c]) \in Maps
        BY <3>1, EntMap DEF Sounds, Header
      <4> QED
        <5> DEFINE m == Ent(x.pages, x.disk[c])
        <5>1. m \in Maps /\ Tied(FALSE, m, c, V)
          BY <4>2, <4>3
        <5> HIDE DEF m
        <5>2. Tied(FALSE, m, c, [V EXCEPT ![rid] = row])
          BY <1>9, <5>1, TiedNull
        <5> QED
          BY <1>9, <5>2 DEF m
    <3> QED
      BY <1>1, <1>3, <3>3, <3>4
  <2>2. ASSUME NEW k \in 1 .. n, k - 1 \in S PROVE k \in S
    <3>1. k \in Columns /\ k - 1 \in 0 .. n /\ k \in 0 .. n
      BY <1>1
    <3>2. f[k] = EnterKey(f[k - 1], k, row, rid) /\ f[k - 1] \in SoundsAt(p, rid[1])
      BY <1>3, <3>1
    <3>3. FileTied(f[k - 1], U) /\ (f[k - 1].out = "ok" => Half(exact, f[k - 1], k - 1, V, U))
      BY <2>2
    <3>4. CASE f[k - 1].out = "ok"
      <4>1. FileTied(f[k], U) /\ (f[k].out = "ok" => Half(exact, f[k], k, V, U))
        BY <1>9, <3>1, <3>2, <3>3, <3>4, EnterKeyTied
      <4> QED
        BY <3>1, <4>1
    <3>5. CASE f[k - 1].out # "ok"
      <4>1. f[k] = f[k - 1]
        BY <3>2, <3>5 DEF EnterKey, Then
      <4> QED
        BY <3>1, <3>3, <3>5, <4>1
    <3> QED
      BY <3>4, <3>5
  <2>3. n \in S
    <3>1. \A k \in 0 .. n : k \in S
      <4> HIDE DEF S
      <4> QED
        BY <1>1, <2>1, <2>2, Upward
    <3> QED
      BY <1>1, <3>1
  <2>4. FileTied(z, U) /\ (z.out = "ok" => Half(exact, z, n, V, U))
    BY <2>3 DEF z
  <2>5. z.out = "ok" => AllTied(exact, z, U)
    <3>1. \A c \in Indexed : c <= n
      BY <1>1
    <3> QED
      BY <2>4, <3>1 DEF Half, AllTied
  <2>6. CASE (\E c \in Columns : Keyed(row, c)) /\ z.out = "ok"
    <3>1. y = w
      BY <1>5, <2>6
    <3>2. AllTied(exact, w, U)
      BY <1>6, <2>5, <2>6 DEF AllTied
    <3>3. CASE w.out = "ok"
      <4>1. FileTied(w, U)
        BY <1>6, <2>6, <3>2, <3>3, FileTiedFrom
      <4> QED
        BY <1>6, <2>6, <3>1, <3>2, <3>3, <4>1
    <3>4. CASE w.out # "ok"
      <4>1. FileTied(w, U)
        BY <1>6, <2>4, <2>6, <3>4 DEF FileTied
      <4> QED
        BY <3>1, <3>4, <4>1
    <3> QED
      BY <3>3, <3>4
  <2>7. CASE z.out # "ok"
    BY <1>5, <2>4, <2>7
  <2>8. CASE ~(\E c \in Columns : Keyed(row, c))
    <3>1. y = z
      BY <1>5, <2>8
    <3> QED
      BY <2>4, <2>5, <3>1
  <2> QED
    BY <2>6, <2>7, <2>8
<1>10. y.out = "ok" /\ x.disk = x.roots => y.disk = y.roots
  <2>1. CASE \E c \in Columns : Keyed(row, c)
    BY <1>5, <1>6, <2>1
  <2>2. CASE ~(\E c \in Columns : Keyed(row, c))
    <3> DEFINE T == { k \in 0 .. n : f[k] = x }
    <3>1. 0 \in T
      BY <1>1, <1>3
    <3>2. ASSUME NEW k \in 1 .. n, k - 1 \in T PROVE k \in T
      <4>1. k \in Columns
        BY <1>1
      <4>2. f[k] = f[k - 1]
        BY <1>3, <2>2, <4>1 DEF EnterKey
      <4> QED
        BY <1>1, <3>2, <4>2
    <3>3. \A k \in 0 .. n : k \in T
      <4> HIDE DEF T
      <4> QED
        BY <1>1, <3>1, <3>2, Upward
    <3> QED
      BY <1>1, <1>5, <2>2, <3>3 DEF z
  <2> QED
    BY <2>1, <2>2
<1> QED
  BY <1>7, <1>8, <1>9, <1>10

-----------------------------------------------------------------------------
(* clearIndicesForRow.                                                      *)

EraseKey(y, c, row) ==
  IF Keyed(row, c) /\ y.roots[c] # 0
  THEN Then(y, LAMBDA z : IndexErase(z, c, row[c])) ELSE y

Erasing(f, x, row, p) ==
  /\ f \in [0 .. Cardinality(Columns) -> Sounds(p)] /\ f[0] = x
  /\ \A c \in Columns : f[c] = EraseKey(f[c - 1], c, row)

(* Entries only go.                                                         *)
Erases(x, y) ==
  /\ OnIndexes(x, y) /\ y.roots = x.roots
  /\ \A W : FileTied(x, W) => FileTied(y, W)

LEMMA ErasesTrans ==
  ASSUME NEW x, NEW y, NEW z, Erases(x, y), Erases(y, z)
  PROVE  Erases(x, z)
BY OnIndexesTrans DEF Erases

LEMMA ErasesSame ==
  ASSUME NEW x
  PROVE  Erases(x, x)
BY OnIndexesSame DEF Erases

LEMMA IndexEraseErases ==
  ASSUME NEW p, NEW x \in Sounds(p), x.out = "ok", NEW c \in Indexed, NEW k,
         NEW y, y = IndexErase(x, c, k)
  PROVE  y \in Sounds(p) /\ Erases(x, y)
<1> DEFINE e == Ent(x.pages, x.roots[c])
           m == Without(e, k)
<1>1. y \in Sounds(p) /\ Indexing(x, y, c, m) /\ y.roots = x.roots
  BY IndexEraseIs
<1>2. OnIndexes(x, y)
  BY <1>1 DEF Indexing, OnIndexes
<1>3. e \in Maps
  BY EntMapRoots
<1>4. /\ DOMAIN m = DOMAIN e \ {k} /\ \A j \in DOMAIN e : j # k => m[j] = e[j]
  BY <1>3, WithoutIs
<1> HIDE DEF e, m
<1>5. ASSUME NEW W, FileTied(x, W) PROVE FileTied(y, W)
  <2>1. CASE y.out # "ok"
    BY <1>1, <1>5, <2>1, FileTiedKept DEF Indexing
  <2>2. CASE y.out = "ok"
    <3> SUFFICES ASSUME NEW d \in Indexed
                 PROVE  Tied(FALSE, Ent(y.pages, y.disk[d]), d, W)
      BY DEF FileTied
    <3>1. y.disk[d] \in {0, x.roots[d]} /\ y.disk[d] = x.disk[d]
      BY <1>1 DEF Sounds, Header, Indexing
    <3>2. Tied(FALSE, Ent(x.pages, x.disk[d]), d, W)
      BY <1>5 DEF FileTied
    <3>3. CASE y.disk[d] = 0
      BY <3>3, TiedNone DEF Ent
    <3>4. CASE y.disk[d] # 0 /\ d # c
      BY <1>1, <2>2, <3>1, <3>2, <3>4 DEF Indexing, OthersSame
    <3>5. CASE y.disk[d] # 0 /\ d = c
      <4>1. Ent(y.pages, y.disk[d]) = m /\ Ent(x.pages, x.disk[d]) = e
        BY <1>1, <2>2, <3>1, <3>5 DEF Indexing, e
      <4>2. Leading(m, d, W)
        BY <1>4, <3>2, <4>1 DEF Tied, Leading
      <4> QED
        BY <4>1, <4>2 DEF Tied
    <3> QED
      BY <3>3, <3>4, <3>5
  <2> QED
    BY <2>1, <2>2
<1> QED
  BY <1>1, <1>2, <1>5 DEF Erases

LEMMA EraseKeyIs ==
  ASSUME NEW p, NEW row \in RowSet, NEW c \in Columns, NEW x \in Sounds(p)
  PROVE  EraseKey(x, c, row) \in Sounds(p) /\ Erases(x, EraseKey(x, c, row))
<1>1. CASE ~(Keyed(row, c) /\ x.roots[c] # 0) \/ x.out # "ok"
  BY <1>1, ErasesSame DEF EraseKey, Then
<1>2. CASE Keyed(row, c) /\ x.roots[c] # 0 /\ x.out = "ok"
  <2>1. c \in Indexed
    BY <1>2 DEF Keyed
  <2>2. EraseKey(x, c, row) = IndexErase(x, c, row[c])
    BY <1>2 DEF EraseKey, Then
  <2> QED
    BY <1>2, <2>1, <2>2, IndexEraseErases
<1> QED
  BY <1>1, <1>2

LEMMA ClearIndicesFold ==
  ASSUME NEW p, NEW row \in RowSet, NEW x \in Sounds(p)
  PROVE  \E f : /\ Erasing(f, x, row, p)
                /\ ClearIndices(x, row) = f[Cardinality(Columns)]
<1> DEFINE n == Cardinality(Columns)
           X == Sounds(p)
           s == [i \in DOMAIN row |-> i]
           G == [i \in 1 .. n |-> [y \in X |-> EraseKey(y, i, row)]]
           C == CHOOSE it : it = [t \in SUBSET (DOMAIN s) |->
                  IF t = {} THEN x ELSE EraseKey(it[t \ {Max(t)}], s[Max(t)], row)]
<1>1. n \in Nat /\ Columns = 1 .. n
  BY TableAssumption, FS_CardinalityType
<1>2. DOMAIN row = Columns
  BY RowIs
<1>3. G \in [1 .. n -> [X -> X]]
  BY <1>1, EraseKeyIs
<1>4. ClearIndices(x, row) = C[DOMAIN s]
  BY DEF ClearIndices, EraseKey, Then, FoldLeftDomain, FoldLeft, MapThenFoldSet
<1>5. DOMAIN s = 1 .. n /\ \A i \in 1 .. n : s[i] = i
  BY <1>1, <1>2
<1> HIDE DEF n, s, X
<1>6. PICK it \in [SUBSET (1 .. n) -> X] : Folding(it, n, x, G)
  <2>1. x \in X
    BY DEF X
  <2> HIDE DEF G
  <2> QED
    BY <1>1, <1>3, <2>1, FoldExists
<1>7. ASSUME NEW t \in SUBSET (1 .. n), t # {}
      PROVE  /\ Max(t) \in 1 .. n /\ t \ {Max(t)} \in SUBSET (1 .. n)
             /\ \A v \in X : G[Max(t)][v] = EraseKey(v, Max(t), row)
             /\ s[Max(t)] = Max(t)
  BY <1>1, <1>5, <1>7, MaxIs
<1> HIDE DEF G
<1>8. it = [t \in SUBSET (DOMAIN s) |->
              IF t = {} THEN x ELSE EraseKey(it[t \ {Max(t)}], s[Max(t)], row)]
  BY <1>5, <1>6, <1>7 DEF Folding
<1>9. C = [t \in SUBSET (DOMAIN s) |->
              IF t = {} THEN x ELSE EraseKey(C[t \ {Max(t)}], s[Max(t)], row)]
  BY <1>8
<1> HIDE DEF C
<1>10. Meets(C, X, n, x, G)
  <2>1. C[{}] = x
    BY <1>9
  <2>2. ASSUME NEW t \in SUBSET (1 .. n), t # {}
        PROVE  C[t] = EraseKey(C[t \ {Max(t)}], Max(t), row)
    <3>1. C[t] = EraseKey(C[t \ {Max(t)}], s[Max(t)], row)
      BY <1>5, <1>9, <2>2
    <3> QED
      BY <1>7, <2>2, <3>1
  <2> QED
    BY <1>7, <2>1, <2>2 DEF Meets
<1>11. Arrives(C, X, n, x, G)
  <2>1. x \in X
    BY DEF X
  <2> QED
    BY <1>1, <1>3, <1>10, <2>1, FoldSteps
<1>12. PICK f \in [0 .. n -> X] : Stepping(f, n, x, G) /\ C[1 .. n] = f[n]
  BY <1>11 DEF Arrives
<1>13. ASSUME NEW c \in 1 .. n PROVE f[c] = EraseKey(f[c - 1], c, row)
  <2>1. c - 1 \in 0 .. n
    BY <1>1
  <2>2. f[c - 1] \in X
    BY <1>12, <2>1
  <2>3. f[c] = G[c][f[c - 1]]
    BY <1>12 DEF Stepping
  <2> QED
    BY <2>2, <2>3 DEF G
<1>14. Erasing(f, x, row, p)
  BY <1>1, <1>12, <1>13 DEF Erasing, Stepping, X, n
<1> QED
  BY <1>4, <1>5, <1>12, <1>14 DEF n

LEMMA EraseKeyTied ==
  ASSUME NEW p, NEW rid \in Rids, NEW row \in RowSet, NEW c \in Columns,
         NEW x \in Sounds(p), x.out = "ok", NEW exact \in BOOLEAN,
         NEW V \in Views, V[rid] = row, NEW U, U = [V EXCEPT ![rid] = <<>>],
         Half(exact, x, c - 1, V, U),
         NEW y, y = EraseKey(x, c, row), y.out = "ok"
  PROVE  Half(exact, y, c, V, U)
<1>2. Columns \subseteq Int /\ Indexed \subseteq Columns
  BY TableAssumption, FS_CardinalityType
<1>3. row # <<>> /\ row[c] \in Int \cup {Null}
  BY RowIs
<1>4. \A d \in Indexed : d # c => (d <= c <=> d <= c - 1)
  BY <1>2
<1>5. ~(c <= c - 1) /\ c <= c
  BY <1>2
<1> DEFINE e == Ent(x.pages, x.roots[c])
           m == Without(e, row[c])
<1>6. c \in Indexed => Tied(exact, e, c, V) /\ e \in Maps
  BY <1>5, EntMapRoots DEF Half
<1> HIDE DEF e, m
<1>7. CASE ~(Keyed(row, c) /\ x.roots[c] # 0)
  <2>1. y = x
    BY <1>7 DEF EraseKey
  <2>2. ASSUME c \in Indexed PROVE Tied(exact, e, c, U)
    <3>1. CASE row[c] = Null
      BY <1>6, <2>2, <3>1, TiedGone
    <3>2. CASE row[c] # Null
      <4>1. e = <<>>
        BY <1>7, <2>2, <3>2 DEF Keyed, e, Ent
      <4>2. ~exact
        BY <1>3, <1>6, <2>2, <3>2, <4>1, EmptyMap DEF Tied, Covering
      <4>3. Leading(e, c, U)
        BY <4>1, EmptyMap DEF Leading
      <4> QED
        BY <4>2, <4>3 DEF Tied
    <3> QED
      BY <3>1, <3>2
  <2> QED
    BY <1>4, <1>5, <2>1, <2>2 DEF Half, e
<1>8. CASE Keyed(row, c) /\ x.roots[c] # 0
  <2>1. c \in Indexed
    BY <1>8 DEF Keyed
  <2>2. y = IndexErase(x, c, row[c])
    BY <1>8 DEF EraseKey, Then
  <2>3. Indexing(x, y, c, m) /\ row[c] \in DOMAIN e
    BY <2>1, <2>2, IndexEraseIs DEF m, e
  <2>6. Tied(exact, m, c, U)
    BY <1>3, <1>6, <2>1, <2>3, TiedErased DEF m
  <2>7. Ent(y.pages, y.roots[c]) = m /\ OthersSame(x, y, c)
    BY <2>3 DEF Indexing
  <2> SUFFICES ASSUME NEW d \in Indexed
               PROVE  Tied(exact, Ent(y.pages, y.roots[d]), d, IF d <= c THEN U ELSE V)
    BY DEF Half
  <2>8. CASE d = c
    BY <1>5, <2>6, <2>7, <2>8
  <2>9. CASE d # c
    BY <1>4, <2>7, <2>9 DEF OthersSame, Half
  <2> QED
    BY <2>8, <2>9
<1> QED
  BY <1>7, <1>8

LEMMA ErasingSteps ==
  ASSUME NEW p, NEW row \in RowSet, NEW x \in Sounds(p), NEW f, Erasing(f, x, row, p)
  PROVE  \A k \in 0 .. Cardinality(Columns) : f[k] \in Sounds(p) /\ Erases(x, f[k])
<1> DEFINE n == Cardinality(Columns)
<1>1. n \in Nat /\ Columns = 1 .. n
  BY TableAssumption, FS_CardinalityType
<1> HIDE DEF n
<1>2. /\ f \in [0 .. n -> Sounds(p)] /\ f[0] = x
      /\ \A c \in Columns : f[c] = EraseKey(f[c - 1], c, row)
  BY DEF Erasing, n
<1> DEFINE S == { j \in 0 .. n : Erases(x, f[j]) }
<1>3. 0 \in S
  BY <1>1, <1>2, ErasesSame
<1>4. ASSUME NEW k \in 1 .. n, k - 1 \in S PROVE k \in S
  <2>1. k \in Columns /\ k - 1 \in 0 .. n /\ k \in 0 .. n
    BY <1>1
  <2>2. f[k] = EraseKey(f[k - 1], k, row) /\ f[k - 1] \in Sounds(p)
    BY <1>2, <2>1
  <2>3. Erases(f[k - 1], f[k])
    BY <2>1, <2>2, EraseKeyIs
  <2> QED
    BY <1>4, <2>1, <2>3, ErasesTrans
<1>5. \A k \in 0 .. n : k \in S
  <2> HIDE DEF S
  <2> QED
    BY <1>1, <1>3, <1>4, Upward
<1> QED
  BY <1>2, <1>5 DEF n

LEMMA ErasingIs ==
  ASSUME NEW p, NEW row \in RowSet, NEW x \in Sounds(p), NEW f, Erasing(f, x, row, p),
         NEW y, y = f[Cardinality(Columns)]
  PROVE  /\ y \in Sounds(p) /\ Erases(x, y)
         /\ y.out = "ok" => \A exact \in BOOLEAN, V \in Views, rid \in Rids :
              V[rid] = row /\ AllTied(exact, x, V)
              => AllTied(exact, y, [V EXCEPT ![rid] = <<>>])
<1> DEFINE n == Cardinality(Columns)
<1>1. n \in Nat /\ Columns = 1 .. n /\ Indexed \subseteq Columns
  BY TableAssumption, FS_CardinalityType
<1> HIDE DEF n
<1>2. Erasing(f, x, row, p) /\ y = f[n]
  BY DEF n
<1>3. /\ f \in [0 .. n -> Sounds(p)] /\ f[0] = x
      /\ \A c \in Columns : f[c] = EraseKey(f[c - 1], c, row)
  BY <1>2 DEF Erasing, n
<1>4. ASSUME NEW k \in 1 .. n
      PROVE  /\ k \in Columns /\ k - 1 \in 0 .. n /\ k \in 0 .. n
             /\ f[k] = EraseKey(f[k - 1], k, row) /\ f[k - 1] \in Sounds(p)
             /\ Erases(f[k - 1], f[k])
  <2>1. k \in Columns /\ k - 1 \in 0 .. n /\ k \in 0 .. n
    BY <1>1
  <2>2. f[k] = EraseKey(f[k - 1], k, row) /\ f[k - 1] \in Sounds(p)
    BY <1>3, <2>1
  <2> QED
    BY <2>1, <2>2, EraseKeyIs
<1>5. Erases(x, y)
  BY <1>1, <1>2, ErasingSteps DEF n
<1>6. ASSUME y.out = "ok", NEW exact \in BOOLEAN, NEW V \in Views, NEW rid \in Rids,
             V[rid] = row, AllTied(exact, x, V)
      PROVE  AllTied(exact, y, [V EXCEPT ![rid] = <<>>])
  <2> DEFINE U == [V EXCEPT ![rid] = <<>>]
             S == { k \in 0 .. n : f[k].out = "ok" => Half(exact, f[k], k, V, U) }
  <2>1. 0 \in S
    <3>1. \A c \in Indexed : ~(c <= 0)
      BY <1>1
    <3>2. Half(exact, x, 0, V, U)
      BY <1>6, <3>1 DEF Half, AllTied
    <3> QED
      BY <1>1, <1>3, <3>2
  <2>2. ASSUME NEW k \in 1 .. n, k - 1 \in S PROVE k \in S
    <3>1. SUFFICES ASSUME f[k].out = "ok" PROVE Half(exact, f[k], k, V, U)
      BY <1>4
    <3>2. f[k - 1].out = "ok"
      BY <1>4, <3>1 DEF Erases, OnIndexes
    <3>3. Half(exact, f[k - 1], k - 1, V, U)
      BY <2>2, <3>2
    <3> DEFINE U2 == U
    <3>4. U2 = [V EXCEPT ![rid] = <<>>]
      OBVIOUS
    <3> HIDE DEF U
    <3> QED
      BY <1>4, <1>6, <3>1, <3>2, <3>3, <3>4, EraseKeyTied DEF U
  <2>3. n \in S
    <3>1. \A k \in 0 .. n : k \in S
      <4> HIDE DEF S
      <4> QED
        BY <1>1, <2>1, <2>2, Upward
    <3>2. n \in 0 .. n
      BY <1>1
    <3> HIDE DEF S
    <3> QED
      BY <3>1, <3>2
  <2>4. Half(exact, y, n, V, U)
    BY <1>2, <1>6, <2>3
  <2>5. \A c \in Indexed : c <= n
    BY <1>1
  <2> QED
    BY <2>4, <2>5 DEF Half, AllTied
<1>7. y \in Sounds(p)
  BY <1>1, <1>2, <1>3
<1> QED
  BY <1>5, <1>6, <1>7

LEMMA ClearIndicesIs ==
  ASSUME NEW p, NEW row \in RowSet, NEW x \in Sounds(p),
         NEW y, y = ClearIndices(x, row)
  PROVE  /\ y \in Sounds(p) /\ Erases(x, y)
         /\ y.out = "ok" => \A exact \in BOOLEAN, V \in Views, rid \in Rids :
              V[rid] = row /\ AllTied(exact, x, V)
              => AllTied(exact, y, [V EXCEPT ![rid] = <<>>])
<1>1. PICK f : Erasing(f, x, row, p) /\ y = f[Cardinality(Columns)]
  BY ClearIndicesFold
<1> QED
  BY <1>1, ErasingIs

(* When the keys of a row are cleared, they were there.                     *)
LEMMA ErasedWere ==
  ASSUME NEW p, NEW row \in RowSet, NEW x \in Sounds(p), NEW f, Erasing(f, x, row, p),
         f[Cardinality(Columns)].out = "ok",
         NEW c \in Indexed, Keyed(row, c), x.roots[c] # 0
  PROVE  row[c] \in DOMAIN Ent(x.pages, x.roots[c])
<1> DEFINE n == Cardinality(Columns)
<1>1. n \in Nat /\ Columns = 1 .. n /\ c \in 1 .. n
  BY TableAssumption, FS_CardinalityType
<1> HIDE DEF n
<1>2. /\ f \in [0 .. n -> Sounds(p)] /\ f[0] = x /\ f[n].out = "ok"
      /\ \A d \in Columns : f[d] = EraseKey(f[d - 1], d, row)
  BY DEF Erasing, n
<1>3. ASSUME NEW k \in 1 .. n
      PROVE  /\ k \in Columns /\ k - 1 \in 0 .. n /\ k \in 0 .. n
             /\ f[k] = EraseKey(f[k - 1], k, row) /\ f[k - 1] \in Sounds(p)
             /\ Erases(f[k - 1], f[k])
  <2>1. k \in Columns /\ k - 1 \in 0 .. n /\ k \in 0 .. n
    BY <1>1
  <2>2. f[k] = EraseKey(f[k - 1], k, row) /\ f[k - 1] \in Sounds(p)
    BY <1>2, <2>1
  <2> QED
    BY <2>1, <2>2, EraseKeyIs
<1>4. ASSUME NEW k \in 0 .. n PROVE f[n - k].out = "ok"
  <2> DEFINE S == { j \in 0 .. n : f[n - j].out = "ok" }
  <2>1. 0 \in S
    BY <1>1, <1>2
  <2>2. ASSUME NEW j \in 1 .. n, j - 1 \in S PROVE j \in S
    <3> DEFINE i == n - (j - 1)
    <3>1. i \in 1 .. n /\ i - 1 = n - j /\ j \in 0 .. n
      BY <1>1
    <3>2. f[i].out = "ok"
      BY <2>2
    <3> HIDE DEF i
    <3>3. f[i - 1].out = "ok"
      BY <1>3, <3>1, <3>2 DEF Erases, OnIndexes
    <3> QED
      BY <3>1, <3>3
  <2>3. \A j \in 0 .. n : j \in S
    <3> HIDE DEF S
    <3> QED
      BY <1>1, <2>1, <2>2, Upward
  <2> QED
    BY <2>3
<1>5. ASSUME NEW k \in 0 .. n PROVE f[k].out = "ok"
  <2>1. n - k \in 0 .. n /\ n - (n - k) = k
    BY <1>1
  <2> QED
    BY <1>4, <2>1
<1> DEFINE e == Ent(x.pages, x.roots[c])
           S == { j \in 0 .. n : j < c => /\ f[j].roots[c] = x.roots[c]
                                          /\ Ent(f[j].pages, f[j].roots[c]) = e }
<1>6. 0 \in S
  BY <1>1, <1>2
<1>7. ASSUME NEW k \in 1 .. n, k - 1 \in S PROVE k \in S
  <2>1. CASE ~(k < c)
    BY <1>1, <2>1
  <2>2. CASE k < c
    <3>1. k # c /\ f[k - 1].roots[c] = x.roots[c]
          /\ Ent(f[k - 1].pages, f[k - 1].roots[c]) = e
      BY <1>1, <1>7, <2>2
    <3>2. f[k].roots[c] = f[k - 1].roots[c]
      BY <1>3 DEF Erases
    <3>3. Ent(f[k].pages, f[k].roots[c]) = Ent(f[k - 1].pages, f[k - 1].roots[c])
      <4>1. CASE ~(Keyed(row, k) /\ f[k - 1].roots[k] # 0)
        BY <1>3, <4>1 DEF EraseKey
      <4>2. CASE Keyed(row, k) /\ f[k - 1].roots[k] # 0
        <5> DEFINE a == f[k - 1]
                   b == f[k]
        <5>1. a.out = "ok" /\ b.out = "ok" /\ a \in Sounds(p) /\ k \in Indexed
          BY <1>1, <1>3, <1>5, <4>2 DEF Keyed
        <5>2. b = IndexErase(a, k, row[k])
          BY <1>3, <4>2, <5>1 DEF EraseKey, Then
        <5> HIDE DEF a, b
        <5>3. Indexing(a, b, k, Without(Ent(a.pages, a.roots[k]), row[k]))
          BY <5>1, <5>2, IndexEraseIs
        <5> QED
          BY <3>1, <5>1, <5>3 DEF Indexing, OthersSame, a, b
      <4> QED
        BY <4>1, <4>2
    <3> QED
      BY <1>1, <3>1, <3>2, <3>3
  <2> QED
    BY <2>1, <2>2
<1>8. c - 1 \in S
  <2>1. \A k \in 0 .. n : k \in S
    <3> HIDE DEF S
    <3> QED
      BY <1>1, <1>6, <1>7, Upward
  <2>2. c - 1 \in 0 .. n
    BY <1>1
  <2> HIDE DEF S
  <2> QED
    BY <2>1, <2>2
<1>9. f[c - 1].roots[c] = x.roots[c] /\ Ent(f[c - 1].pages, f[c - 1].roots[c]) = e
  BY <1>1, <1>8
<1> DEFINE a == f[c - 1]
           b == f[c]
<1>10. a.out = "ok" /\ b.out = "ok" /\ a \in Sounds(p) /\ b = IndexErase(a, c, row[c])
  <2>1. f[c] = EraseKey(f[c - 1], c, row) /\ f[c - 1] \in Sounds(p)
        /\ f[c].out = "ok" /\ f[c - 1].out = "ok"
    BY <1>1, <1>3, <1>5
  <2> QED
    BY <1>9, <2>1 DEF EraseKey, Then
<1> HIDE DEF a, b, e
<1>11. row[c] \in DOMAIN Ent(a.pages, a.roots[c])
  BY <1>10, IndexEraseIs
<1> QED
  BY <1>9, <1>11 DEF a, e

(* Of the keys of old those that the row no longer has are gone.            *)
Vacated(x, old) ==
  \A c \in Indexed :
    \/ x.row[c] = old[c]
    \/ old[c] # Null /\ old[c] \notin DOMAIN Ent(x.pages, x.roots[c])

RowGone(V, rid) == [V EXCEPT ![rid] = <<>>]

(* Then to clear the keys of old is to clear those of the row.              *)
LEMMA ClearVacated ==
  ASSUME NEW p, NEW x \in Sounds(p), NEW row \in RowSet, x.row = row,
         NEW old \in RowSet, Vacated(x, old),
         NEW y, y = ClearIndices(x, old), y.out = "ok",
         NEW exact \in BOOLEAN, NEW V \in Views, NEW rid \in Rids, V[rid] = row,
         AllTied(exact, x, V)
  PROVE  AllTied(exact, y, RowGone(V, rid))
<1> DEFINE n == Cardinality(Columns)
<1>1. n \in Nat /\ Columns = 1 .. n
  BY TableAssumption, FS_CardinalityType
<1> HIDE DEF n
<1>2. PICK f : Erasing(f, x, old, p) /\ y = f[n]
  BY ClearIndicesFold DEF n
<1>3. ASSUME NEW c \in Columns PROVE f[c] = EraseKey(f[c - 1], c, row)
  <2>1. c - 1 \in 0 .. n
    BY <1>1
  <2>2. f[c] = EraseKey(f[c - 1], c, old) /\ f[c - 1].roots = x.roots
    <3>1. f[c] = EraseKey(f[c - 1], c, old)
      BY <1>2 DEF Erasing
    <3>2. Erases(x, f[c - 1])
      BY <1>2, <2>1, ErasingSteps DEF n
    <3> QED
      BY <3>1, <3>2 DEF Erases
  <2>3. CASE c \notin Indexed \/ row[c] = old[c]
    <3>1. Keyed(row, c) <=> Keyed(old, c)
      BY <2>3 DEF Keyed
    <3>2. Keyed(old, c) => row[c] = old[c]
      BY <2>3 DEF Keyed
    <3> DEFINE g == f[c - 1]
    <3>3. EraseKey(g, c, old) = IF Keyed(old, c) /\ g.roots[c] # 0 /\ g.out = "ok"
                                THEN IndexErase(g, c, old[c]) ELSE g
      BY DEF EraseKey, Then
    <3>4. EraseKey(g, c, row) = IF Keyed(row, c) /\ g.roots[c] # 0 /\ g.out = "ok"
                                THEN IndexErase(g, c, row[c]) ELSE g
      BY DEF EraseKey, Then
    <3> HIDE DEF g
    <3>5. EraseKey(g, c, old) = EraseKey(g, c, row)
      <4>1. CASE Keyed(old, c)
        <5>1. row[c] = old[c] /\ Keyed(row, c)
          BY <3>1, <3>2, <4>1
        <5>2. IndexErase(g, c, row[c]) = IndexErase(g, c, old[c])
          BY <5>1
        <5> QED
          BY <3>3, <3>4, <4>1, <5>1, <5>2
      <4>2. CASE ~Keyed(old, c)
        BY <3>1, <3>3, <3>4, <4>2
      <4> QED
        BY <4>1, <4>2
    <3> QED
      BY <2>2, <3>5 DEF g
  <2>4. CASE c \in Indexed /\ row[c] # old[c]
    <3>1. old[c] # Null /\ old[c] \notin DOMAIN Ent(x.pages, x.roots[c])
      BY <2>4 DEF Vacated
    <3>2. x.roots[c] = 0
      <4> SUFFICES ASSUME x.roots[c] # 0 PROVE FALSE
        OBVIOUS
      <4>1. Keyed(old, c) /\ f[Cardinality(Columns)].out = "ok"
        BY <1>2, <2>4, <3>1 DEF Keyed, n
      <4> QED
        BY <1>2, <2>4, <3>1, <4>1, ErasedWere
    <3> QED
      BY <2>2, <3>2 DEF EraseKey
  <2> QED
    BY <2>3, <2>4
<1>4. Erasing(f, x, row, p)
  BY <1>2, <1>3 DEF Erasing
<1>5. y = f[Cardinality(Columns)]
  BY <1>2 DEF n
<1>6. AllTied(exact, y, [V EXCEPT ![rid] = <<>>])
  BY <1>4, <1>5, ErasingIs
<1> QED
  BY <1>6 DEF RowGone

-----------------------------------------------------------------------------
(* applyAssignments.                                                        *)

WithRow(x, row, marks) == [x EXCEPT !.row = row, !.events = marks]

Marks == SUBSET {"stale", "lost", "nulled"}

LEMMA RowSetTo ==
  ASSUME NEW p, NEW x \in Sounds(p), NEW row \in RowSet, NEW marks \in Marks,
         NEW y, y = WithRow(x, row, marks)
  PROVE  /\ y \in Sounds(p) /\ y.row = row /\ y.events = marks /\ y.out = x.out
         /\ y.pages = x.pages /\ Headers(x, y) /\ y.buf = x.buf /\ y.dirty = x.dirty
<1>1. x \in Execs /\ x.count = Len(x.pages) + 1 /\ PagesOk(x.pages)
  BY DEF Sounds
<1>2. /\ y \in Execs /\ y.pages = x.pages /\ y.count = x.count /\ y.out = x.out
      /\ y.disk = x.disk /\ y.roots = x.roots /\ y.row = row /\ y.events = marks
      /\ y.buf = x.buf /\ y.dirty = x.dirty
  BY <1>1 DEF Execs, WithRow, Marks
<1>3. Headers(x, y)
  BY <1>2 DEF Headers
<1>4. y \in Sounds(p)
  BY <1>1, <1>2, <1>3, AlikeSame, SoundStep
<1> QED
  BY <1>2, <1>3, <1>4

(* The executions that change a row of page q.                              *)
Changing(p, q) == { x \in SoundsAt(p, q) : x.row \in RowSet }

(* An assignment, as applyAssignments performs it.                          *)
Assign(y, a, rid) ==
  LET c == a[1]
      v == a[2]
      keyed == IndexErase(y, c, Key(y.row[c]))
      done(z) == [z EXCEPT !.row[c] = v]
  IN  IF c \notin Indexed THEN done(y)
      ELSE Then(Then(keyed, done), LAMBDA z :
             IndexInsert([z EXCEPT !.events =
                            IF Null \in {v, y.row[c]}
                            THEN @ \cup {"nulled"} ELSE @],
                         c, Key(v), rid))

(* What an assignment leaves alone.                                         *)
Assigned(x, y) ==
  /\ y.buf = x.buf /\ y.dirty = x.dirty /\ y.disk = x.disk
  /\ x.events \subseteq y.events
  /\ Alike(x.pages, y.pages) /\ View(y.pages) = View(x.pages)
  /\ y.out = "ok" => x.out = "ok" /\ y.roots = x.roots

(* The indexes go with the row being changed.                               *)
RowTied(exact, x, V, rid) == AllTied(exact, x, [V EXCEPT ![rid] = x.row])

(* The keys of x that the row no longer has are out of the indexes; what is *)
(* in them was there or is a key of the row.                                *)
Rekeyed(x, y) ==
  \A c \in Indexed :
    /\ \A k \in DOMAIN Ent(y.pages, y.roots[c]) :
         k \in DOMAIN Ent(x.pages, x.roots[c]) \/ k = y.row[c]
    /\ \/ y.row[c] = x.row[c]
       \/ x.row[c] # Null /\ x.row[c] \notin DOMAIN Ent(y.pages, y.roots[c])

StillTied(x, y, rid) ==
  y.out = "ok" /\ y.events = {} =>
    /\ Rekeyed(x, y)
    /\ \A exact \in BOOLEAN, V \in Views :
         RowTied(exact, x, V, rid) => RowTied(exact, y, V, rid)

LEMMA RekeyedTrans ==
  ASSUME NEW x, NEW y, NEW z, Rekeyed(x, y), Rekeyed(y, z)
  PROVE  Rekeyed(x, z)
<1> SUFFICES ASSUME NEW c \in Indexed
             PROVE  /\ \A k \in DOMAIN Ent(z.pages, z.roots[c]) :
                         k \in DOMAIN Ent(x.pages, x.roots[c]) \/ k = z.row[c]
                    /\ \/ z.row[c] = x.row[c]
                       \/ /\ x.row[c] # Null
                          /\ x.row[c] \notin DOMAIN Ent(z.pages, z.roots[c])
  BY DEF Rekeyed
<1> DEFINE a == DOMAIN Ent(x.pages, x.roots[c])
           b == DOMAIN Ent(y.pages, y.roots[c])
           e == DOMAIN Ent(z.pages, z.roots[c])
<1>1. /\ \A k \in b : k \in a \/ k = y.row[c]
      /\ y.row[c] = x.row[c] \/ (x.row[c] # Null /\ x.row[c] \notin b)
  BY DEF Rekeyed
<1>2. /\ \A k \in e : k \in b \/ k = z.row[c]
      /\ z.row[c] = y.row[c] \/ (y.row[c] # Null /\ y.row[c] \notin e)
  BY DEF Rekeyed
<1> HIDE DEF a, b, e
<1>3. \A k \in e : k \in a \/ k = z.row[c]
  BY <1>1, <1>2
<1>4. z.row[c] = x.row[c] \/ (x.row[c] # Null /\ x.row[c] \notin e)
  BY <1>1, <1>2
<1> QED
  BY <1>3, <1>4 DEF a, e

LEMMA RowAssigned ==
  ASSUME NEW row \in RowSet, NEW c \in Columns, NEW v \in DOMAIN Width[c]
  PROVE  /\ [row EXCEPT ![c] = v] \in RowSet /\ [row EXCEPT ![c] = v][c] = v
         /\ \A d \in Columns : d # c => [row EXCEPT ![c] = v][d] = row[d]
<1>1. /\ row \in [Columns -> UNION {DOMAIN Width[d] : d \in Columns}]
      /\ \A d \in Columns : row[d] \in DOMAIN Width[d]
  BY DEF RowSet
<1>2. v \in UNION {DOMAIN Width[d] : d \in Columns}
  OBVIOUS
<1> DEFINE new == [row EXCEPT ![c] = v]
<1>3. /\ new \in [Columns -> UNION {DOMAIN Width[d] : d \in Columns}] /\ new[c] = v
      /\ \A d \in Columns : d # c => new[d] = row[d]
  BY <1>1, <1>2
<1> HIDE DEF new
<1>4. new \in RowSet
  BY <1>1, <1>3 DEF RowSet
<1> QED
  BY <1>3, <1>4 DEF new

LEMMA Overwritten ==
  ASSUME NEW V \in Views, NEW rid, NEW a, NEW b
  PROVE  [[V EXCEPT ![rid] = a] EXCEPT ![rid] = b] = [V EXCEPT ![rid] = b]
BY DEF Views

LEMMA ViewSet ==
  ASSUME NEW V \in Views, NEW rid \in Rids, NEW row \in RowSet \cup {<<>>}
  PROVE  [V EXCEPT ![rid] = row] \in Views /\ [V EXCEPT ![rid] = row][rid] = row
BY DEF Views

(* A column without an index.                                               *)
LEMMA AssignPlain ==
  ASSUME NEW p, NEW rid \in Rids, NEW x \in Changing(p, rid[1]), x.out = "ok",
         NEW c \in Columns, NEW v \in DOMAIN Width[c], c \notin Indexed,
         NEW y, y = Assign(x, <<c, v>>, rid)
  PROVE  /\ y \in Changing(p, rid[1]) /\ Assigned(x, y) /\ Rekeyed(x, y)
         /\ \A exact \in BOOLEAN, V \in Views :
              RowTied(exact, x, V, rid) => RowTied(exact, y, V, rid)
<1> DEFINE row == x.row
           new == [row EXCEPT ![c] = v]
<1>1. x \in Sounds(p) /\ IsHeap(x.pages, rid[1]) /\ row \in RowSet
  BY DEF Changing, SoundsAt
<1>2. /\ new \in RowSet /\ \A d \in Columns : d # c => new[d] = row[d]
  BY <1>1, RowAssigned
<1>3. x \in Execs
  BY <1>1 DEF Sounds
<1>4. y = WithRow(x, new, x.events)
  BY <1>3 DEF Assign, Execs, WithRow
<1>5. x.events \in Marks
  BY <1>3 DEF Execs, Marks
<1> HIDE DEF row, new
<1>6. /\ y \in Sounds(p) /\ y.row = new /\ y.events = x.events /\ y.out = x.out
      /\ y.pages = x.pages /\ Headers(x, y) /\ y.buf = x.buf /\ y.dirty = x.dirty
  BY <1>1, <1>2, <1>4, <1>5, RowSetTo
<1>7. y \in Changing(p, rid[1])
  BY <1>1, <1>2, <1>6 DEF Changing, SoundsAt
<1>8. Assigned(x, y)
  BY <1>6, AlikeSame DEF Assigned, Headers
<1>9. ASSUME NEW exact \in BOOLEAN, NEW V \in Views, RowTied(exact, x, V, rid)
      PROVE  RowTied(exact, y, V, rid)
  <2> DEFINE V1 == [V EXCEPT ![rid] = row]
             V2 == [V EXCEPT ![rid] = new]
  <2>1. V1 \in Views /\ V1[rid] = row
    BY <1>1, ViewSet
  <2>2. V2 = [V1 EXCEPT ![rid] = new]
    BY Overwritten
  <2> HIDE DEF V1, V2
  <2> SUFFICES ASSUME NEW d \in Indexed
               PROVE  Tied(exact, Ent(y.pages, y.roots[d]), d, V2)
    BY <1>6 DEF RowTied, AllTied, V2
  <2>3. Ent(y.pages, y.roots[d]) = Ent(x.pages, x.roots[d])
    BY <1>6 DEF Headers
  <2> DEFINE m == Ent(x.pages, x.roots[d])
  <2>4. m \in Maps
    BY <1>1, EntMapRoots
  <2>5. Tied(exact, m, d, V1)
    BY <1>9 DEF RowTied, AllTied, V1, row
  <2>6. d # c /\ d \in Columns
    BY TableAssumption
  <2> HIDE DEF m
  <2>7. row # <<>> /\ new # <<>> /\ new[d] = V1[rid][d]
    BY <1>1, <1>2, <2>1, <2>6, RowIs
  <2>8. Tied(exact, m, d, V2)
    BY <2>1, <2>2, <2>4, <2>5, <2>7, TiedOther
  <2> QED
    BY <2>3, <2>8 DEF m
<1>10. Rekeyed(x, y)
  <2> SUFFICES ASSUME NEW d \in Indexed
               PROVE  /\ y.row[d] = x.row[d]
                      /\ Ent(y.pages, y.roots[d]) = Ent(x.pages, x.roots[d])
    BY DEF Rekeyed
  <2>1. d # c /\ d \in Columns
    BY TableAssumption
  <2>2. y.row[d] = x.row[d]
    BY <1>2, <1>6, <2>1 DEF row
  <2> QED
    BY <1>6, <2>2 DEF Headers
<1> QED
  BY <1>7, <1>8, <1>9, <1>10

(* A column with an index.                                                  *)
LEMMA AssignKey ==
  ASSUME NEW p, NEW rid \in Rids, NEW x \in Changing(p, rid[1]), x.out = "ok",
         NEW c \in Indexed, NEW v \in DOMAIN Width[c],
         NEW y, y = Assign(x, <<c, v>>, rid)
  PROVE  y \in Changing(p, rid[1]) /\ Assigned(x, y) /\ StillTied(x, y, rid)
<1> USE DEF StillTied
<1> DEFINE row == x.row
           old == row[c]
           new == [row EXCEPT ![c] = v]
           marks == IF Null \in {v, old} THEN x.events \cup {"nulled"} ELSE x.events
           z == IndexErase(x, c, Key(old))
           w == WithRow(z, new, marks)
           e == Ent(x.pages, x.roots[c])
           m == Without(e, Key(old))
           m2 == Put(m, Key(v), rid)
           t == IndexInsert(w, c, Key(v), rid)
<1>1. x \in Sounds(p) /\ IsHeap(x.pages, rid[1]) /\ row \in RowSet
  BY DEF Changing, SoundsAt
<1>2. /\ c \in Columns /\ new \in RowSet /\ new[c] = v
      /\ \A d \in Columns : d # c => new[d] = row[d]
  BY <1>1, RowAssigned, TableAssumption
<1>3. old \in Int \cup {Null} /\ v \in Int \cup {Null}
  BY <1>1, <1>2, RowIs, WidthAssumption
<1>4. Key(v) \in Int /\ (v # Null => Key(v) = v) /\ (old # Null => Key(old) = old)
  BY <1>3 DEF Key
<1>5. x \in Execs /\ x.events \in Marks
  BY <1>1 DEF Sounds, Execs, Marks
<1>6. marks \in Marks /\ x.events \subseteq marks
      /\ (marks = {} => v # Null /\ old # Null)
  BY <1>5 DEF Marks
<1>7. /\ z \in Sounds(p) /\ Indexing(x, z, c, m) /\ z.roots = x.roots
      /\ z.out = "ok" => Key(old) \in DOMAIN e
  BY <1>1, IndexEraseIs
<1>8. z \in Execs /\ z.events = x.events /\ z.row = row
  BY <1>7 DEF Sounds, Indexing, Frame
<1>9. y = IF z.out = "ok" THEN t ELSE z
  <2>1. CASE z.out # "ok"
    BY <2>1 DEF Assign, Then
  <2>2. CASE z.out = "ok"
    <3> DEFINE z2 == [z EXCEPT !.row[c] = v]
               z3 == [z2 EXCEPT !.events = IF Null \in {v, old} THEN @ \cup {"nulled"} ELSE @]
    <3>1. z2.out = "ok" /\ z3 = w
      BY <1>8, <2>2 DEF Execs, WithRow
    <3>2. y = IndexInsert(z3, c, Key(v), rid)
      BY <2>2, <3>1 DEF Assign, Then
    <3> HIDE DEF z3, w
    <3> QED
      BY <2>2, <3>1, <3>2
  <2> QED
    BY <2>1, <2>2
<1> HIDE DEF row, old, new, marks, z, w, e, m, m2, t
<1>10. CASE z.out # "ok"
  <2>1. Assigned(x, z)
    BY <1>7, <1>8, <1>10 DEF Assigned, Indexing, Frame
  <2>2. IsHeap(z.pages, rid[1])
    BY <1>1, <1>7, AlikeHeap DEF Indexing
  <2>3. z \in Changing(p, rid[1])
    BY <1>1, <1>7, <1>8, <2>2 DEF Changing, SoundsAt
  <2> QED
    BY <1>9, <1>10, <2>1, <2>3
<1>11. CASE z.out = "ok"
  <2>1. /\ w \in Sounds(p) /\ w.row = new /\ w.events = marks /\ w.out = "ok"
        /\ w.pages = z.pages /\ Headers(z, w) /\ w.buf = z.buf /\ w.dirty = z.dirty
    <3>1. new \in RowSet /\ marks \in Marks /\ z \in Sounds(p)
      BY <1>2, <1>6, <1>7
    <3>2. w = WithRow(z, new, marks)
      BY DEF w
    <3>3. /\ w \in Sounds(p) /\ w.row = new /\ w.events = marks /\ w.out = z.out
          /\ w.pages = z.pages /\ Headers(z, w) /\ w.buf = z.buf /\ w.dirty = z.dirty
      BY <3>1, <3>2, RowSetTo
    <3> QED
      BY <3>3, <1>11
  <2>2. IsHeap(w.pages, rid[1])
    BY <1>1, <1>7, <2>1, AlikeHeap DEF Indexing
  <2>3. Ent(w.pages, w.roots[c]) = m /\ OthersSame(x, w, c) /\ w.roots = x.roots
    BY <1>7, <1>11, <2>1 DEF Indexing, OthersSame, Headers
  <2>4. t \in Sounds(p) /\ Indexing(w, t, c, m2) /\ (t.out = "ok" => Key(v) \notin DOMAIN m)
    BY <1>4, <2>1, <2>2, <2>3, IndexInsertIs DEF t, m2
  <2>5. Alike(x.pages, t.pages)
    BY <1>7, <2>1, <2>4, AlikeTrans DEF Indexing
  <2>6. x.roots[c] # 0
    BY <1>7, <1>11, EmptyMap DEF e, Ent
  <2>7. Assigned(x, t)
    <3>1. t.buf = x.buf /\ t.dirty = x.dirty /\ t.disk = x.disk /\ t.events = marks
      BY <1>7, <2>1, <2>4 DEF Indexing, Frame, Headers
    <3>2. View(t.pages) = View(x.pages)
      BY <1>7, <2>1, <2>4 DEF Indexing
    <3>3. t.out = "ok" => t.roots = x.roots
      BY <2>3, <2>4, <2>6 DEF Indexing
    <3> QED
      BY <1>6, <2>5, <3>1, <3>2, <3>3 DEF Assigned
  <2>8. t.row = new /\ t.events = marks
    BY <2>1, <2>4 DEF Indexing, Frame
  <2>9. t \in Changing(p, rid[1])
    BY <1>2, <2>2, <2>4, <2>8, AlikeHeap DEF Changing, SoundsAt, Indexing
  <2>10. ASSUME t.out = "ok", t.events = {}, NEW exact \in BOOLEAN, NEW V \in Views,
                RowTied(exact, x, V, rid)
         PROVE  RowTied(exact, t, V, rid)
    <3> DEFINE V0 == [V EXCEPT ![rid] = <<>>]
               V1 == [V EXCEPT ![rid] = row]
               V2 == [V EXCEPT ![rid] = new]
    <3>1. V1 \in Views /\ V1[rid] = row /\ V0 \in Views /\ V0[rid] = <<>>
      <4>1. V1 \in Views /\ V1[rid] = row
        BY <1>1, ViewSet
      <4>2. <<>> \in RowSet \cup {<<>>}
        OBVIOUS
      <4>3. V0 \in Views /\ V0[rid] = <<>>
        BY <4>2, ViewSet
      <4> QED
        BY <4>1, <4>3
    <3>2. V2 = [V1 EXCEPT ![rid] = new] /\ V0 = [V1 EXCEPT ![rid] = <<>>]
          /\ V2 = [V0 EXCEPT ![rid] = new]
      BY Overwritten
    <3> HIDE DEF V0, V1, V2
    <3>3. v # Null /\ old # Null
      BY <1>6, <2>8, <2>10
    <3>4. AllTied(exact, x, V1)
      BY <2>10 DEF RowTied, V1, row
    <3>5. row # <<>> /\ new # <<>>
      BY <1>1, <1>2, RowIs
    <3>6. e \in Maps /\ m \in Maps
      <4>1. e \in Maps
        BY <1>1, EntMapRoots DEF e
      <4> QED
        BY <4>1, WithoutIs DEF m
    <3>7. Tied(exact, m2, c, V2)
      <4>1. Tied(exact, e, c, V1)
        BY <3>4 DEF AllTied, e
      <4>2. V1[rid][c] = old /\ Key(old) = old /\ old \in DOMAIN e /\ V1[rid] # <<>>
        BY <1>4, <1>7, <1>11, <3>1, <3>3, <3>5 DEF old
      <4>3. Tied(exact, m, c, V0)
        <5>1. Tied(exact, Without(e, V1[rid][c]), c, [V1 EXCEPT ![rid] = <<>>])
          BY <3>1, <3>6, <4>1, <4>2, TiedErased
        <5> QED
          BY <3>2, <4>2, <5>1 DEF m
      <4>4. Key(v) = v /\ new[c] = v /\ v \in Int /\ v \notin DOMAIN m
        BY <1>2, <1>3, <1>4, <2>4, <2>10, <3>3
      <4>5. Tied(exact, Put(m, new[c], rid), c, [V0 EXCEPT ![rid] = new])
        BY <3>1, <3>5, <3>6, <4>3, <4>4, TiedPut
      <4> QED
        BY <3>2, <4>4, <4>5 DEF m2
    <3>8. Ent(t.pages, t.roots[c]) = m2 /\ OthersSame(w, t, c)
      BY <2>4, <2>10 DEF Indexing
    <3> SUFFICES ASSUME NEW d \in Indexed
                 PROVE  Tied(exact, Ent(t.pages, t.roots[d]), d, V2)
      BY <2>8 DEF RowTied, AllTied, V2
    <3>9. CASE d = c
      BY <3>7, <3>8, <3>9
    <3>10. CASE d # c
      <4> DEFINE a == Ent(x.pages, x.roots[d])
      <4>1. Ent(t.pages, t.roots[d]) = a
        BY <2>3, <3>8, <3>10 DEF OthersSame
      <4>2. Tied(exact, a, d, V1)
        BY <3>4 DEF AllTied
      <4>3. a \in Maps
        BY <1>1, EntMapRoots
      <4>4. d \in Columns
        BY TableAssumption
      <4> HIDE DEF a
      <4>5. new[d] = V1[rid][d]
        BY <1>2, <3>1, <3>10, <4>4
      <4>6. Tied(exact, a, d, V2)
        BY <3>1, <3>2, <3>5, <4>2, <4>3, <4>5, TiedOther
      <4> QED
        BY <4>1, <4>6
    <3> QED
      BY <3>9, <3>10
  <2>11. ASSUME t.out = "ok", t.events = {} PROVE Rekeyed(x, t)
    <3>1. v # Null /\ old # Null /\ Key(v) = v /\ Key(old) = old
      BY <1>4, <1>6, <2>8, <2>11
    <3>2. Ent(t.pages, t.roots[c]) = m2 /\ OthersSame(w, t, c)
      BY <2>4, <2>11 DEF Indexing
    <3>3. e \in Maps /\ m \in Maps
      <4>1. e \in Maps
        BY <1>1, EntMapRoots DEF e
      <4> QED
        BY <4>1, WithoutIs DEF m
    <3>4. DOMAIN m = DOMAIN e \ {old}
      BY <3>1, <3>3, WithoutIs DEF m
    <3>5. DOMAIN m2 = DOMAIN m \cup {v}
      BY <3>1 DEF m2, Put
    <3> SUFFICES ASSUME NEW d \in Indexed
                 PROVE  /\ \A k \in DOMAIN Ent(t.pages, t.roots[d]) :
                             k \in DOMAIN Ent(x.pages, x.roots[d]) \/ k = t.row[d]
                        /\ \/ t.row[d] = x.row[d]
                           \/ /\ x.row[d] # Null
                              /\ x.row[d] \notin DOMAIN Ent(t.pages, t.roots[d])
      BY DEF Rekeyed
    <3>6. CASE d = c
      <4>1. t.row[c] = v /\ x.row[c] = old
        BY <1>2, <2>8 DEF old, row
      <4>2. Ent(x.pages, x.roots[c]) = e
        BY DEF e
      <4>3. \A k \in DOMAIN m2 : k \in DOMAIN e \/ k = v
        BY <3>4, <3>5
      <4>4. v = old \/ old \notin DOMAIN m2
        BY <3>4, <3>5
      <4> QED
        BY <3>1, <3>2, <3>6, <4>1, <4>2, <4>3, <4>4
    <3>7. CASE d # c
      <4>1. d \in Columns
        BY TableAssumption
      <4>2. t.row[d] = x.row[d]
        BY <1>2, <2>8, <3>7, <4>1 DEF row
      <4>3. Ent(t.pages, t.roots[d]) = Ent(x.pages, x.roots[d])
        BY <2>3, <3>2, <3>7 DEF OthersSame
      <4> QED
        BY <4>2, <4>3
    <3> QED
      BY <3>6, <3>7
  <2> QED
    BY <1>9, <1>11, <2>7, <2>9, <2>10, <2>11
<1> QED
  BY <1>10, <1>11

(* A fold stays in a set that each of its steps stays in.                   *)
Closed(C, X, n, x) ==
  /\ C[{}] = x
  /\ \A t \in SUBSET (1 .. n) : t # {} /\ C[t \ {Max(t)}] \in X => C[t] \in X

LEMMA FoldStays ==
  ASSUME NEW X, NEW n \in Nat, NEW x \in X, NEW C, Closed(C, X, n, x)
  PROVE  C[1 .. n] \in X
<1> DEFINE S == { k \in 0 .. n : C[1 .. k] \in X }
<1>1. 0 \in S
  <2>1. 1 .. 0 = {}
    OBVIOUS
  <2> QED
    BY <2>1 DEF Closed
<1>2. ASSUME NEW k \in 1 .. n, k - 1 \in S PROVE k \in S
  <2> DEFINE t == 1 .. k
  <2>1. t \in SUBSET (1 .. n) /\ k \in t /\ k \in Nat
    OBVIOUS
  <2>2. Max(t) = k
    <3>1. Max(t) \in t /\ k <= Max(t)
      BY <2>1, MaxIs
    <3> QED
      BY <3>1
  <2>3. t \ {k} = 1 .. k - 1 /\ t # {}
    BY <2>1
  <2>4. C[t \ {Max(t)}] \in X
    BY <1>2, <2>2, <2>3
  <2>5. C[t] \in X
    <3> HIDE DEF t
    <3> QED
      BY <2>1, <2>3, <2>4 DEF Closed
  <2> QED
    BY <2>5
<1>3. n \in 0 .. n
  OBVIOUS
<1>4. \A k \in 0 .. n : k \in S
  <2> HIDE DEF S
  <2> QED
    BY <1>1, <1>2, Upward
<1> QED
  BY <1>3, <1>4

(* All assignments of an UPDATE.                                            *)
Setting(set) ==
  /\ set \in Seq(Columns \X (Int \cup {Null}))
  /\ \A i \in 1 .. Len(set) : set[i][2] \in DOMAIN Width[set[i][1]]

AssignTo(y, a, rid) == Then(y, LAMBDA z : Assign(z, a, rid))

(* The executions that have performed some.                                 *)
Assigning(x, p, rid) ==
  { y \in Changing(p, rid[1]) : Assigned(x, y) /\ StillTied(x, y, rid) }

LEMMA AssignToIs ==
  ASSUME NEW p, NEW rid \in Rids, NEW x, NEW y \in Assigning(x, p, rid),
         NEW c \in Columns, NEW v \in DOMAIN Width[c]
  PROVE  AssignTo(y, <<c, v>>, rid) \in Assigning(x, p, rid)
<1> DEFINE z == Assign(y, <<c, v>>, rid)
<1>1. y \in Changing(p, rid[1]) /\ Assigned(x, y) /\ StillTied(x, y, rid)
  BY DEF Assigning
<1>2. CASE y.out # "ok"
  <2>1. AssignTo(y, <<c, v>>, rid) = y
    BY <1>2 DEF AssignTo, Then
  <2> QED
    BY <2>1
<1>3. CASE y.out = "ok"
  <2>1. AssignTo(y, <<c, v>>, rid) = z
    BY <1>3 DEF AssignTo, Then
  <2>2. z \in Changing(p, rid[1]) /\ Assigned(y, z) /\ StillTied(y, z, rid)
    <3> DEFINE w == z
    <3>1. w = Assign(y, <<c, v>>, rid)
      OBVIOUS
    <3> HIDE DEF w
    <3>2. CASE c \in Indexed
      <4>1. w \in Changing(p, rid[1]) /\ Assigned(y, w) /\ StillTied(y, w, rid)
        BY <1>1, <1>3, <3>1, <3>2, AssignKey
      <4> QED
        BY <4>1 DEF w
    <3>3. CASE c \notin Indexed
      <4>1. w \in Changing(p, rid[1]) /\ Assigned(y, w) /\ Rekeyed(y, w)
        BY <1>1, <1>3, <3>1, <3>3, AssignPlain
      <4>2. \A exact \in BOOLEAN, V \in Views :
              RowTied(exact, y, V, rid) => RowTied(exact, w, V, rid)
        BY <1>1, <1>3, <3>1, <3>3, AssignPlain
      <4> QED
        BY <4>1, <4>2 DEF StillTied, w
    <3> QED
      BY <3>2, <3>3
  <2> HIDE DEF z
  <2>3. Assigned(x, z)
    <3>1. Alike(x.pages, z.pages)
      BY <1>1, <2>2, AlikeTrans DEF Assigned
    <3> QED
      BY <1>1, <2>2, <3>1 DEF Assigned
  <2>4. StillTied(x, z, rid)
    <3>1. z.events = {} => y.events = {}
      BY <2>2 DEF Assigned
    <3> QED
      BY <1>1, <1>3, <2>2, <3>1, RekeyedTrans DEF StillTied
  <2> QED
    BY <2>1, <2>2, <2>3, <2>4 DEF Assigning
<1> QED
  BY <1>2, <1>3

LEMMA ApplyAssignmentsIs ==
  ASSUME NEW p, NEW rid \in Rids, NEW x \in Changing(p, rid[1]), NEW set, Setting(set)
  PROVE  ApplyAssignments(x, set, rid) \in Assigning(x, p, rid)
<1> DEFINE n == Len(set)
           X == Assigning(x, p, rid)
           G == [i \in 1 .. n |-> [y \in X |-> AssignTo(y, set[i], rid)]]
           C == CHOOSE it : it = [t \in SUBSET (DOMAIN set) |->
                  IF t = {} THEN x ELSE AssignTo(it[t \ {Max(t)}], set[Max(t)], rid)]
<1>1. n \in Nat /\ DOMAIN set = 1 .. n
  BY DEF Setting
<1>2. ASSUME NEW y \in X, NEW i \in 1 .. n PROVE AssignTo(y, set[i], rid) \in X
  <2>1. set[i] \in Columns \X (Int \cup {Null})
    BY <1>1 DEF Setting
  <2>2. set[i] = <<set[i][1], set[i][2]>> /\ set[i][1] \in Columns
    BY <2>1
  <2>3. set[i][2] \in DOMAIN Width[set[i][1]]
    BY DEF Setting
  <2> DEFINE c == set[i][1]
             v == set[i][2]
  <2>4. c \in Columns /\ v \in DOMAIN Width[c] /\ set[i] = <<c, v>>
    BY <2>2, <2>3
  <2> HIDE DEF c, v
  <2> QED
    BY <2>4, AssignToIs
<1>3. G \in [1 .. n -> [X -> X]]
  BY <1>2
<1>4. x \in X
  <2>1. Assigned(x, x)
    BY AlikeSame DEF Assigned
  <2>2. StillTied(x, x, rid)
    BY DEF StillTied, Rekeyed
  <2> QED
    BY <2>1, <2>2 DEF Assigning
<1>5. ApplyAssignments(x, set, rid) = C[DOMAIN set]
  BY DEF ApplyAssignments, AssignTo, Assign, Then, FoldLeft, MapThenFoldSet
<1> HIDE DEF n, X
<1>6. PICK it \in [SUBSET (1 .. n) -> X] : Folding(it, n, x, G)
  <2> HIDE DEF G
  <2> QED
    BY <1>1, <1>3, <1>4, FoldExists
<1>7. ASSUME NEW t \in SUBSET (1 .. n), t # {}
      PROVE  /\ Max(t) \in 1 .. n /\ t \ {Max(t)} \in SUBSET (1 .. n)
             /\ \A v \in X : G[Max(t)][v] = AssignTo(v, set[Max(t)], rid)
  BY <1>1, <1>7, MaxIs
<1> HIDE DEF G
<1>8. it = [t \in SUBSET (DOMAIN set) |->
              IF t = {} THEN x ELSE AssignTo(it[t \ {Max(t)}], set[Max(t)], rid)]
  BY <1>1, <1>6, <1>7 DEF Folding
<1>9. C = [t \in SUBSET (DOMAIN set) |->
              IF t = {} THEN x ELSE AssignTo(C[t \ {Max(t)}], set[Max(t)], rid)]
  BY <1>8
<1> HIDE DEF C
<1>10. Closed(C, X, n, x)
  <2>1. C[{}] = x
    BY <1>9
  <2>2. ASSUME NEW t \in SUBSET (1 .. n), t # {}, C[t \ {Max(t)}] \in X
        PROVE  C[t] \in X
    <3>1. C[t] = AssignTo(C[t \ {Max(t)}], set[Max(t)], rid)
      BY <1>1, <1>9, <2>2
    <3> QED
      BY <1>2, <1>7, <2>2, <3>1
  <2> QED
    BY <2>1, <2>2 DEF Closed
<1>11. C[1 .. n] \in X
  BY <1>1, <1>4, <1>10, FoldStays
<1> QED
  BY <1>1, <1>5, <1>11 DEF X

-----------------------------------------------------------------------------
(* INSERT.                                                                  *)

(* The indexes are as they were when their pages are.                       *)
LEMMA LeavesTied ==
  ASSUME NEW p, NEW x \in Sounds(p), x.out = "ok", NEW y, Headers(x, y),
         SameLeaves(x.pages, y.pages), NEW exact, NEW V, AllTied(exact, x, V)
  PROVE  AllTied(exact, y, V)
<1> SUFFICES ASSUME NEW c \in Indexed
             PROVE  Tied(exact, Ent(y.pages, y.roots[c]), c, V)
  BY DEF AllTied
<1>1. Tied(exact, Ent(x.pages, x.roots[c]), c, V) /\ y.roots = x.roots
  BY DEF AllTied, Headers
<1>2. x.roots[c] # 0 => IsLeaf(x.pages, x.roots[c])
  BY DEF Sounds, Header, Rooted
<1>3. Ent(y.pages, y.roots[c]) = Ent(x.pages, x.roots[c])
  BY <1>1, <1>2 DEF Ent, IsLeaf, SameLeaves
<1> QED
  BY <1>1, <1>3

(* The header is as it was read or last written.                            *)
HeaderWritten(x) == x.disk = x.roots

LEMMA TiedFromFile ==
  ASSUME NEW x, HeaderWritten(x), NEW V, FileTied(x, V)
  PROVE  AllTied(FALSE, x, V)
BY DEF HeaderWritten, FileTied, AllTied

LEMMA FileFromTied ==
  ASSUME NEW x, HeaderWritten(x), NEW V, NEW exact, AllTied(exact, x, V)
  PROVE  FileTied(x, V)
BY TiedFalse DEF HeaderWritten, FileTied, AllTied

(* What is in the file after a statement on the rows V.                     *)
LeadsAfter(x, y) == FileTied(x, View(x.pages)) => FileTied(y, View(y.pages))
AgreesAfter(x, y) ==
  y.out = "ok" => \A exact \in BOOLEAN :
    AllTied(exact, x, View(x.pages))
    => HeaderWritten(y) /\ AllTied(exact, y, View(y.pages))

(* A record, then the header.                                               *)
LEMMA StoreHeaderIs ==
  ASSUME RowsFit, NEW p, NEW x \in Sounds(p), x.out = "ok", HeaderWritten(x),
         NEW row \in RowSet, NEW h, h = Then(Store(x, row), WriteHeader)
  PROVE  /\ h \in Sounds(p) /\ Frame(x, h)
         /\ h.out = "ok" => /\ Added(x, h, row) /\ HeaderWritten(h) /\ Headers(x, h)
         /\ LeadsAfter(x, h)
<1> DEFINE s == Store(x, row)
           V == View(x.pages)
<1>1. /\ s \in Sounds(p) /\ Frame(x, s) /\ Headers(x, s)
      /\ s.out = "ok" => Added(x, s, row)
      /\ s.out # "ok" => Keeps(x.pages, s.pages)
  BY StoreIs
<1>2. PagesOk(x.pages) /\ PagesOk(s.pages)
  BY <1>1 DEF Sounds
<1>3. h = IF s.out = "ok" THEN WriteHeader(s) ELSE s
  BY DEF Then
<1> HIDE DEF s
<1>4. CASE s.out # "ok"
  <2>1. Keeps(x.pages, s.pages) /\ s.disk = x.disk
    BY <1>1, <1>4 DEF Headers
  <2>2. LeadsAfter(x, s)
    BY <2>1, FileTiedKept DEF LeadsAfter, Keeps
  <2> QED
    BY <1>1, <1>3, <1>4, <2>2
<1>5. CASE s.out = "ok"
  <2>1. h = WriteHeader(s)
    BY <1>3, <1>5
  <2>2. /\ h \in Sounds(p) /\ Frame(s, h) /\ h.pages = s.pages /\ h.roots = s.roots
        /\ h.at = s.at /\ h.disk = IF h.out = "ok" THEN s.roots ELSE s.disk
    BY <1>1, <1>5, <2>1, WriteHeaderIs
  <2>3. h.disk = x.disk /\ h.roots = x.roots /\ HeaderWritten(h)
    BY <1>1, <2>2 DEF Headers, HeaderWritten
  <2>4. Added(x, s, row)
    BY <1>1, <1>5
  <2>5. Rid(h) = Rid(s)
    BY <2>2 DEF Rid
  <2>6. Added(x, h, row)
    BY <2>2, <2>4, <2>5 DEF Added
  <2>7. ASSUME FileTied(x, V) PROVE FileTied(h, View(h.pages))
    <3>1. AllTied(FALSE, x, V)
      BY <2>7, TiedFromFile
    <3>2. SameLeaves(x.pages, h.pages) /\ Headers(x, h)
      BY <2>3, <2>6 DEF Added, Headers
    <3>3. AllTied(FALSE, h, V)
      BY <3>1, <3>2, LeavesTied
    <3>4. V \in Views /\ Rid(h) \in Rids /\ V[Rid(h)] = <<>>
          /\ View(h.pages) = [V EXCEPT ![Rid(h)] = row]
      BY <1>2, <2>6, ViewIs DEF Added
    <3> HIDE DEF V
    <3> SUFFICES ASSUME NEW c \in Indexed
                 PROVE  Tied(FALSE, Ent(h.pages, h.disk[c]), c, View(h.pages))
      BY DEF FileTied
    <3> DEFINE m == Ent(x.pages, x.roots[c])
    <3>5. m \in Maps
      BY EntMapRoots
    <3>6. Ent(h.pages, h.disk[c]) = m
      <4>1. h.disk[c] = x.roots[c]
        BY <2>3 DEF HeaderWritten
      <4>2. x.roots[c] # 0 => IsLeaf(x.pages, x.roots[c])
        BY DEF Sounds, Header, Rooted
      <4> QED
        BY <3>2, <4>1, <4>2 DEF Ent, IsLeaf, SameLeaves
    <3>7. Tied(FALSE, m, c, V)
      BY <3>1 DEF AllTied
    <3> HIDE DEF m
    <3>8. Tied(FALSE, m, c, [V EXCEPT ![Rid(h)] = row])
      BY <3>4, <3>5, <3>7, TiedNull
    <3> QED
      BY <3>4, <3>6, <3>8
  <2> QED
    <3>1. Frame(x, h)
      BY <1>1, <2>2 DEF Frame
    <3>2. Headers(x, h)
      BY <2>3 DEF Headers
    <3> QED
      BY <2>2, <2>3, <2>6, <2>7, <3>1, <3>2 DEF LeadsAfter
<1> QED
  BY <1>4, <1>5

LEMMA InsertRowIs ==
  ASSUME RowsFit,
         NEW x \in Sounds(0), x.out = "ok", HeaderWritten(x), NEW row \in RowSet,
         NEW y, y = InsertRow(x, row)
  PROVE  y \in Sounds(0) /\ LeadsAfter(x, y) /\ AgreesAfter(x, y)
<1> DEFINE h == Then(Store(x, row), WriteHeader)
<1>1. CASE y \in {Throw(x), OutOfBounds(x)}
  <2>1. y \in Sounds(0) /\ y.pages = x.pages /\ Headers(x, y) /\ y.out # "ok"
    <3>1. PICK o \in {"error", "io error", "stopped"} : y = [x EXCEPT !.out = o]
      BY <1>1 DEF Throw, OutOfBounds
    <3>2. o # "ok"
      OBVIOUS
    <3> DEFINE z == [x EXCEPT !.out = o]
    <3>3. z \in Sounds(0) /\ z.out = o /\ z.pages = x.pages /\ Headers(x, z)
      <4>1. z \in Sounds(0)
        BY Ending
      <4>2. z.out = o /\ z.pages = x.pages
        BY Ending
      <4>3. Headers(x, z)
        BY Ending
      <4> QED
        BY <4>1, <4>2, <4>3
    <3> HIDE DEF z
    <3>4. y = z
      BY <3>1 DEF z
    <3> QED
      BY <3>2, <3>3, <3>4
  <2>2. LeadsAfter(x, y)
    BY <2>1 DEF LeadsAfter, FileTied, Headers
  <2> QED
    BY <2>1, <2>2 DEF AgreesAfter
<1>2. CASE y = Then(h, LAMBDA z : UpdateIndices(z, row, Rid(z)))
  <2>1. /\ h \in Sounds(0) /\ Frame(x, h)
        /\ h.out = "ok" => /\ Added(x, h, row) /\ HeaderWritten(h) /\ Headers(x, h)
        /\ LeadsAfter(x, h)
    BY StoreHeaderIs
  <2>2. y = IF h.out = "ok" THEN UpdateIndices(h, row, Rid(h)) ELSE h
    BY <1>2 DEF Then
  <2> HIDE DEF h
  <2>3. CASE h.out # "ok"
    BY <2>1, <2>2, <2>3 DEF AgreesAfter
  <2>4. CASE h.out = "ok"
    <3> DEFINE rid == Rid(h)
               V == View(x.pages)
    <3>1. Added(x, h, row) /\ HeaderWritten(h) /\ Headers(x, h)
      BY <2>1, <2>4
    <3>2. V \in Views
      BY ViewIs DEF Sounds
    <3>3. /\ rid \in Rids /\ IsHeap(h.pages, rid[1]) /\ V[rid] = <<>>
          /\ View(h.pages) = [V EXCEPT ![rid] = row] /\ SameLeaves(x.pages, h.pages)
      BY <3>1 DEF Added
    <3> HIDE DEF rid, V
    <3>4. h \in SoundsAt(0, rid[1])
      BY <2>1, <3>3 DEF SoundsAt
    <3>5. y = UpdateIndices(h, row, rid)
      BY <2>2, <2>4 DEF rid
    <3>6. /\ y \in Sounds(0) /\ View(y.pages) = View(h.pages)
          /\ y.out = "ok" => HeaderWritten(y)
      BY <3>1, <3>3, <3>4, <3>5, UpdateIndicesIs DEF HeaderWritten
    <3>7. ASSUME NEW exact \in BOOLEAN, AllTied(exact, x, V)
          PROVE  /\ FileTied(y, View(h.pages))
                 /\ y.out = "ok" => AllTied(exact, y, View(h.pages))
      <4>1. AllTied(exact, h, V)
        BY <3>1, <3>3, <3>7, LeavesTied
      <4> QED
        BY <2>4, <3>2, <3>3, <3>4, <3>5, <4>1, UpdateIndicesIs
    <3>8. LeadsAfter(x, y)
      <4> SUFFICES ASSUME FileTied(x, V) PROVE FileTied(y, View(y.pages))
        BY DEF LeadsAfter, V
      <4>1. AllTied(FALSE, x, V)
        BY TiedFromFile
      <4> QED
        BY <3>6, <3>7, <4>1
    <3>9. AgreesAfter(x, y)
      BY <3>6, <3>7 DEF AgreesAfter, V
    <3> QED
      BY <3>6, <3>8, <3>9
  <2> QED
    BY <2>3, <2>4
<1> QED
  BY <1>1, <1>2 DEF InsertRow

-----------------------------------------------------------------------------
(* A page in the buffer.                                                    *)

(* The rows when the buffer is written to page p.                           *)
BufView(y, p) == View([y.pages EXCEPT ![p] = y.buf])

(* Whatever is in the buffer, the pages alone decide the other rows.        *)
LEMMA BufViewIs ==
  ASSUME NEW p, NEW y \in Sounds(p), p # 0, NEW rid \in Rids
  PROVE  BufView(y, p)[rid] =
           IF rid[1] = p THEN RowAt(y.buf, rid[2]) ELSE View(y.pages)[rid]
<1> DEFINE pg == [y.pages EXCEPT ![p] = y.buf]
<1>1. y.buf \in Heaps /\ IsHeap(y.pages, p) /\ PagesOk(y.pages)
  BY DEF Sounds, Execs
<1>2. DOMAIN pg = DOMAIN y.pages /\ pg[p] = y.buf /\ \A q : q # p => pg[q] = y.pages[q]
  BY <1>1 DEF IsHeap, PagesOk
<1>3. BufView(y, p) = View(pg)
  BY DEF BufView
<1> HIDE DEF pg
<1>4. CASE rid[1] = p
  BY <1>1, <1>2, <1>3, <1>4 DEF View, IsHeap
<1>5. CASE rid[1] # p
  BY <1>2, <1>3, <1>5 DEF View, IsHeap
<1> QED
  BY <1>4, <1>5

LEMMA BufViewSet ==
  ASSUME NEW p, NEW y \in Sounds(p), p # 0
  PROVE  BufView(y, p) \in Views
<1>1. y.buf \in Heaps /\ IsHeap(y.pages, p) /\ PagesOk(y.pages)
  BY DEF Sounds, Execs
<1>2. PagesOk([y.pages EXCEPT ![p] = y.buf])
  BY <1>1, HeapWritten
<1> QED
  BY <1>2, ViewIs DEF BufView

(* The same other pages, and the same buffer but for a slot.                *)
LEMMA BufViewSame ==
  ASSUME NEW p, NEW y \in Sounds(p), p # 0, NEW z \in Sounds(p),
         View(z.pages) = View(y.pages), z.buf.slots = y.buf.slots
  PROVE  BufView(z, p) = BufView(y, p)
<1>1. BufView(y, p) \in Views /\ BufView(z, p) \in Views
  BY BufViewSet
<1>2. ASSUME NEW rid \in Rids PROVE BufView(z, p)[rid] = BufView(y, p)[rid]
  <2>1. RowAt(z.buf, rid[2]) = RowAt(y.buf, rid[2])
    BY DEF RowAt
  <2> QED
    BY <2>1, BufViewIs
<1> QED
  BY <1>1, <1>2 DEF Views

LEMMA BufViewChanged ==
  ASSUME NEW p, NEW y \in Sounds(p), p # 0, NEW z \in Sounds(p),
         View(z.pages) = View(y.pages), NEW i \in Nat, <<p, i>> \in Rids,
         SameBut(z.buf, y.buf, i)
  PROVE  BufView(z, p) = [BufView(y, p) EXCEPT ![<<p, i>>] = RowAt(z.buf, i)]
<1>1. BufView(y, p) \in Views /\ BufView(z, p) \in Views
  BY BufViewSet
<1> DEFINE W == [BufView(y, p) EXCEPT ![<<p, i>>] = RowAt(z.buf, i)]
<1>2. ASSUME NEW rid \in Rids PROVE BufView(z, p)[rid] = W[rid]
  <2>1. rid = <<rid[1], rid[2]>> /\ rid[2] \in Nat
    BY DEF Rids
  <2>2. CASE rid = <<p, i>>
    <3>1. rid[1] = p /\ rid[2] = i
      BY <2>2
    <3>2. BufView(z, p)[rid] = RowAt(z.buf, i)
      BY <3>1, BufViewIs
    <3> QED
      BY <1>1, <2>2, <3>2 DEF Views
  <2>3. CASE rid # <<p, i>>
    <3>1. W[rid] = BufView(y, p)[rid]
      BY <1>1, <2>3 DEF Views
    <3>2. BufView(z, p)[rid] = BufView(y, p)[rid]
      <4>1. BufView(z, p)[rid] =
              IF rid[1] = p THEN RowAt(z.buf, rid[2]) ELSE View(z.pages)[rid]
        BY BufViewIs
      <4>2. BufView(y, p)[rid] =
              IF rid[1] = p THEN RowAt(y.buf, rid[2]) ELSE View(y.pages)[rid]
        BY BufViewIs
      <4>3. rid[1] = p => RowAt(z.buf, rid[2]) = RowAt(y.buf, rid[2])
        BY <2>1, <2>3 DEF SameBut
      <4> QED
        BY <4>1, <4>2, <4>3
    <3> QED
      BY <3>1, <3>2
  <2> QED
    BY <2>2, <2>3
<1>3. W \in [Rids -> RowSet \cup {<<>>, RowAt(z.buf, i)}]
  BY <1>1 DEF Views
<1> HIDE DEF W
<1>4. W = [rid \in Rids |-> W[rid]]
  BY <1>3
<1>5. BufView(z, p) = [rid \in Rids |-> BufView(z, p)[rid]]
  BY <1>1 DEF Views
<1>6. BufView(z, p) = W
  BY <1>2, <1>4, <1>5
<1> QED
  BY <1>6 DEF W

(* A record is added on another page.                                       *)
LEMMA BufViewAdded ==
  ASSUME NEW p, p # 0, NEW y \in Sounds(p), NEW z \in Sounds(p), z.buf = y.buf,
         NEW row, Added(y, z, row), NEW rid, rid = Rid(z), rid[1] # p
  PROVE  /\ BufView(y, p)[rid] = <<>>
         /\ BufView(z, p) = [BufView(y, p) EXCEPT ![rid] = row]
<1>1. BufView(y, p) \in Views /\ BufView(z, p) \in Views
  BY BufViewSet
<1>2. /\ rid \in Rids /\ View(y.pages)[rid] = <<>>
      /\ View(z.pages) = [View(y.pages) EXCEPT ![rid] = row]
  BY DEF Added
<1>3. View(y.pages) \in Views
  BY ViewIs DEF Sounds
<1>4. BufView(y, p)[rid] = <<>>
  BY <1>2, BufViewIs
<1> DEFINE W == [BufView(y, p) EXCEPT ![rid] = row]
<1>5. ASSUME NEW r \in Rids PROVE BufView(z, p)[r] = W[r]
  <2>1. BufView(z, p)[r] = IF r[1] = p THEN RowAt(z.buf, r[2]) ELSE View(z.pages)[r]
    BY BufViewIs
  <2>2. BufView(y, p)[r] = IF r[1] = p THEN RowAt(y.buf, r[2]) ELSE View(y.pages)[r]
    BY BufViewIs
  <2>3. W[r] = IF r = rid THEN row ELSE BufView(y, p)[r]
    BY <1>1, <1>2 DEF Views
  <2>4. View(z.pages)[r] = IF r = rid THEN row ELSE View(y.pages)[r]
    BY <1>2, <1>3 DEF Views
  <2> HIDE DEF W
  <2> QED
    BY <2>1, <2>2, <2>3, <2>4
<1>6. W = [r \in Rids |-> W[r]] /\ BufView(z, p) = [r \in Rids |-> BufView(z, p)[r]]
  BY <1>1 DEF Views
<1> HIDE DEF W
<1>7. BufView(z, p) = W
  BY <1>5, <1>6
<1> QED
  BY <1>4, <1>7 DEF W

-----------------------------------------------------------------------------
(* UPDATE and DELETE.                                                       *)

Safe(x) == HeaderWritten(x) /\ x.events = {}

(* What y, with the rows V, has kept of x.  leads: even in the file, and    *)
(* even if it failed.                                                       *)
Follows(leads, x, y, V) ==
  /\ y.out = "ok" /\ y.events = {} => x.events = {}
  /\ leads /\ Safe(x) => Safe(y) /\ LeadsAfter(x, y)
  /\ y.out = "ok" /\ y.events = {} /\ HeaderWritten(x) =>
       /\ HeaderWritten(y)
       /\ \A exact \in BOOLEAN :
            AllTied(exact, x, View(x.pages)) => AllTied(exact, y, V)

(* Executions that began as x: in between pages, and on page p.             *)
Finishing(leads, x) == { y \in Sounds(0) : Follows(leads, x, y, View(y.pages)) }
Buffering(leads, x, p) == { y \in Sounds(p) : Follows(leads, x, y, BufView(y, p)) }

LEMMA FollowsSame ==
  ASSUME NEW leads, NEW x
  PROVE  Follows(leads, x, x, View(x.pages))
BY DEF Follows, LeadsAfter

LEMMA FollowsTrans ==
  ASSUME NEW leads, NEW x, NEW y, Follows(leads, x, y, View(y.pages)), y.out = "ok",
         NEW z, NEW V, Follows(leads, y, z, V)
  PROVE  Follows(leads, x, z, V)
<1>1. z.out = "ok" /\ z.events = {} => x.events = {} /\ y.events = {}
  BY DEF Follows
<1>2. leads /\ Safe(x) => Safe(z) /\ LeadsAfter(x, z)
  BY DEF Follows, LeadsAfter
<1>3. ASSUME z.out = "ok", z.events = {}, HeaderWritten(x)
      PROVE  /\ HeaderWritten(z)
             /\ \A exact \in BOOLEAN :
                  AllTied(exact, x, View(x.pages)) => AllTied(exact, z, V)
  <2>1. /\ HeaderWritten(y)
        /\ \A exact \in BOOLEAN :
             AllTied(exact, x, View(x.pages)) => AllTied(exact, y, View(y.pages))
    BY <1>1, <1>3 DEF Follows
  <2>2. /\ HeaderWritten(z)
        /\ \A exact \in BOOLEAN :
             AllTied(exact, y, View(y.pages)) => AllTied(exact, z, V)
    BY <1>3, <2>1 DEF Follows
  <2> QED
    BY <2>1, <2>2
<1> QED
  BY <1>1, <1>2, <1>3 DEF Follows

LEMMA SoundsZero ==
  ASSUME NEW p, NEW y \in Sounds(p)
  PROVE  y \in Sounds(0)
BY DEF Sounds

LEMMA BufferFailed ==
  ASSUME NEW leads, NEW x, NEW p, NEW y \in Buffering(leads, x, p), y.out # "ok"
  PROVE  y \in Finishing(leads, x)
BY SoundsZero DEF Buffering, Finishing, Follows

(* The page is written, as it is in the buffer.                             *)
LEMMA PageBack ==
  ASSUME NEW leads, NEW x, NEW p, p # 0, NEW y \in Buffering(leads, x, p),
         y.out = "ok", NEW page \in Heaps, page.slots = y.buf.slots,
         NEW z, z = WritePage(y, p, page)
  PROVE  z \in Finishing(leads, x)
<1>1. /\ y \in Sounds(p) /\ Follows(leads, x, y, BufView(y, p))
      /\ IsHeap(y.pages, p) /\ PagesOk(y.pages) /\ y.buf \in Heaps
  BY DEF Buffering, Sounds, Execs
<1>2. /\ z \in Sounds(p) /\ Frame(y, z) /\ Headers(y, z)
      /\ z.pages = IF z.out = "ok" THEN [y.pages EXCEPT ![p] = page] ELSE y.pages
  BY <1>1, HeapPageWritten
<1>3. z \in Sounds(0)
  BY <1>2, SoundsZero
<1>4. z.events = y.events /\ z.disk = y.disk /\ z.roots = y.roots
  BY <1>2 DEF Frame, Headers
<1>5. CASE z.out # "ok"
  <2>1. z.pages = y.pages
    BY <1>2, <1>5
  <2>2. Follows(leads, x, z, View(z.pages))
    BY <1>1, <1>4, <1>5, <2>1 DEF Follows, Safe, HeaderWritten, LeadsAfter, FileTied
  <2> QED
    BY <1>3, <2>2 DEF Finishing
<1>6. CASE z.out = "ok"
  <2> DEFINE pg == [y.pages EXCEPT ![p] = y.buf]
  <2>1. z.pages = [pg EXCEPT ![p] = page]
    BY <1>1, <1>2, <1>6 DEF IsHeap, PagesOk
  <2>2. PagesOk(pg)
    BY <1>1, HeapWritten
  <2>3. IsHeap(pg, p) /\ pg[p] = y.buf
    BY <1>1 DEF IsHeap, PagesOk
  <2> HIDE DEF pg
  <2>4. View(z.pages) = View(pg)
    BY <2>1, <2>2, <2>3, HeapKept DEF Keeps
  <2>5. View(z.pages) = BufView(y, p)
    BY <2>4 DEF BufView, pg
  <2>6. SameLeaves(y.pages, z.pages)
    <3>1. \A q \in DOMAIN y.pages : q # p => z.pages[q] = y.pages[q]
      BY <1>1, <1>2, <1>6 DEF PagesOk
    <3>2. y.pages[p] \notin Leaves
      BY <1>1, Kinds DEF IsHeap
    <3> QED
      BY <3>1, <3>2 DEF SameLeaves
  <2>7. ASSUME NEW exact \in BOOLEAN, AllTied(exact, y, BufView(y, p))
        PROVE  AllTied(exact, z, View(z.pages))
    BY <1>1, <1>2, <2>5, <2>6, <2>7, LeavesTied
  <2>8. ASSUME z.events = {}, HeaderWritten(x)
        PROVE  /\ HeaderWritten(z)
               /\ \A exact \in BOOLEAN :
                    AllTied(exact, x, View(x.pages)) => AllTied(exact, z, View(z.pages))
    <3>1. /\ HeaderWritten(y)
          /\ \A exact \in BOOLEAN :
               AllTied(exact, x, View(x.pages)) => AllTied(exact, y, BufView(y, p))
      BY <1>1, <1>4, <2>8 DEF Follows
    <3> QED
      BY <1>4, <2>7, <3>1 DEF HeaderWritten
  <2>9. ASSUME leads, Safe(x) PROVE Safe(z) /\ LeadsAfter(x, z)
    <3>1. Safe(z) /\ HeaderWritten(x) /\ HeaderWritten(z)
      BY <1>1, <1>4, <2>9 DEF Follows, Safe, HeaderWritten
    <3>2. z.events = {}
      BY <3>1 DEF Safe
    <3>3. ASSUME FileTied(x, View(x.pages)) PROVE FileTied(z, View(z.pages))
      <4>1. AllTied(FALSE, x, View(x.pages))
        BY <3>1, <3>3, TiedFromFile
      <4>2. AllTied(FALSE, z, View(z.pages))
        BY <2>8, <3>1, <3>2, <4>1
      <4> QED
        BY <3>1, <4>2, FileFromTied
    <3> QED
      BY <3>1, <3>3 DEF LeadsAfter
  <2>10. z.events = {} => x.events = {}
    BY <1>1, <1>4 DEF Follows
  <2> QED
    BY <1>3, <2>8, <2>9, <2>10 DEF Finishing, Follows
<1> QED
  BY <1>5, <1>6

(* The header is written.                                                   *)
LEMMA HeaderBack ==
  ASSUME NEW leads, NEW x, NEW y \in Finishing(leads, x)
  PROVE  Then(y, WriteHeader) \in Finishing(leads, x)
<1> DEFINE z == WriteHeader(y)
<1>1. y \in Sounds(0) /\ Follows(leads, x, y, View(y.pages))
  BY DEF Finishing
<1>2. CASE y.out # "ok"
  BY <1>2 DEF Then
<1>3. CASE y.out = "ok"
  <2>1. Then(y, WriteHeader) = z
    BY <1>3 DEF Then
  <2>2. /\ z \in Sounds(0) /\ Frame(y, z) /\ z.pages = y.pages /\ z.roots = y.roots
        /\ z.disk = IF z.out = "ok" THEN y.roots ELSE y.disk
    BY <1>1, <1>3, WriteHeaderIs
  <2>3. z.events = y.events
    BY <2>2 DEF Frame
  <2> HIDE DEF z
  <2>4. \A exact, V : AllTied(exact, y, V) => AllTied(exact, z, V)
    BY <2>2 DEF AllTied
  <2>5. ASSUME leads, Safe(x) PROVE Safe(z) /\ LeadsAfter(x, z)
    <3>1. Safe(y) /\ LeadsAfter(x, y)
      BY <1>1, <2>5 DEF Follows
    <3>2. z.disk = y.disk
      BY <2>2, <3>1 DEF Safe, HeaderWritten
    <3> QED
      BY <2>2, <2>3, <3>1, <3>2 DEF Safe, HeaderWritten, LeadsAfter, FileTied
  <2>6. ASSUME z.out = "ok", z.events = {}, HeaderWritten(x)
        PROVE  /\ HeaderWritten(z)
               /\ \A exact \in BOOLEAN :
                    AllTied(exact, x, View(x.pages)) => AllTied(exact, z, View(z.pages))
    <3>1. \A exact \in BOOLEAN :
            AllTied(exact, x, View(x.pages)) => AllTied(exact, y, View(y.pages))
      BY <1>1, <1>3, <2>3, <2>6 DEF Follows
    <3> QED
      BY <2>2, <2>4, <2>6, <3>1 DEF HeaderWritten
  <2>7. z.events = {} => x.events = {}
    BY <1>1, <1>3, <2>3 DEF Follows
  <2>8. Follows(leads, x, z, View(z.pages))
    BY <2>5, <2>6, <2>7 DEF Follows
  <2> QED
    BY <2>1, <2>2, <2>8 DEF Finishing
<1> QED
  BY <1>2, <1>3

-----------------------------------------------------------------------------
(* DELETE: one row.                                                         *)

LEMMA RowAtIs ==
  ASSUME NEW page \in Heaps, NEW i, RowAt(page, i) # <<>>
  PROVE  /\ i \in DOMAIN page.slots /\ i \in Nat /\ page.slots[i] \in Slots
         /\ RowAt(page, i) = page.slots[i].row /\ RowAt(page, i) \in RowSet
<1>1. page.slots \in Seq(Slots)
  BY DEF Heaps
<1>2. i \in DOMAIN page.slots /\ page.slots[i].len > 0 /\ RowAt(page, i) = page.slots[i].row
  BY DEF RowAt
<1>3. i \in Nat /\ page.slots[i] \in Slots
  BY <1>1, <1>2
<1> QED
  BY <1>2, <1>3 DEF Slots

LEMMA SlotSet ==
  ASSUME NEW page \in Heaps, NEW i \in DOMAIN page.slots, NEW slot,
         NEW new \in Heaps, new.slots = [page.slots EXCEPT ![i] = slot]
  PROVE  SameBut(new, page, i) /\ RowAt(new, i) = IF slot.len > 0 THEN slot.row ELSE <<>>
<1>1. page.slots \in Seq(Slots)
  BY DEF Heaps
<1>2. DOMAIN new.slots = DOMAIN page.slots /\ new.slots[i] = slot
      /\ \A j \in DOMAIN page.slots : j # i => new.slots[j] = page.slots[j]
  BY <1>1
<1> QED
  BY <1>2 DEF SameBut, RowAt

(* The buffer and the mark of a change are set.                             *)
WithBuf(x, page, mark) == [x EXCEPT !.buf = page, !.dirty = mark]

LEMMA BufSetTo ==
  ASSUME NEW p, NEW x \in Sounds(p), NEW page \in Heaps, NEW mark \in BOOLEAN,
         NEW y, y = WithBuf(x, page, mark)
  PROVE  /\ y \in Sounds(p) /\ y.pages = x.pages /\ Headers(x, y) /\ y.buf = page
         /\ y.dirty = mark /\ y.out = x.out /\ y.events = x.events /\ y.row = x.row
<1>1. x \in Execs /\ x.count = Len(x.pages) + 1 /\ PagesOk(x.pages)
  BY DEF Sounds
<1>2. /\ y \in Execs /\ y.pages = x.pages /\ y.count = x.count /\ y.out = x.out
      /\ y.disk = x.disk /\ y.roots = x.roots /\ y.row = x.row /\ y.events = x.events
      /\ y.buf = page /\ y.dirty = mark
  BY <1>1 DEF Execs, WithBuf
<1>3. Headers(x, y)
  BY <1>2 DEF Headers
<1>4. y \in Sounds(p)
  BY <1>1, <1>2, <1>3, AlikeSame, SoundStep
<1> QED
  BY <1>2, <1>3, <1>4

(* Nothing but the buffer's mark is different.                              *)
LEMMA FollowsHeaders ==
  ASSUME NEW leads, NEW x, NEW y, NEW z, NEW V, Follows(leads, x, y, V),
         z.pages = y.pages, Headers(y, z), z.out = y.out, z.events = y.events
  PROVE  Follows(leads, x, z, V)
<1>1. z.disk = y.disk /\ z.roots = y.roots
  BY DEF Headers
<1>2. leads /\ Safe(x) => Safe(z) /\ LeadsAfter(x, z)
  BY <1>1 DEF Follows, Safe, HeaderWritten, LeadsAfter, FileTied
<1>3. \A exact : AllTied(exact, y, V) => AllTied(exact, z, V)
  BY <1>1 DEF AllTied
<1> QED
  BY <1>1, <1>2, <1>3 DEF Follows, HeaderWritten

LEMMA MarkSet ==
  ASSUME NEW leads, NEW x, NEW p, p # 0, NEW y \in Buffering(leads, x, p),
         NEW mark \in BOOLEAN, NEW z, z = [y EXCEPT !.dirty = mark]
  PROVE  z \in Buffering(leads, x, p) /\ z.dirty = mark
<1>1. y \in Sounds(p) /\ Follows(leads, x, y, BufView(y, p)) /\ y.buf \in Heaps /\ y \in Execs
  BY DEF Buffering, Sounds, Execs
<1>2. z = WithBuf(y, y.buf, mark)
  BY <1>1 DEF WithBuf, Execs
<1>3. /\ z \in Sounds(p) /\ z.pages = y.pages /\ Headers(y, z) /\ z.buf = y.buf
      /\ z.dirty = mark /\ z.out = y.out /\ z.events = y.events
  BY <1>1, <1>2, BufSetTo
<1>4. BufView(z, p) = BufView(y, p)
  BY <1>3 DEF BufView
<1>5. Follows(leads, x, z, BufView(z, p))
  BY <1>1, <1>3, <1>4, FollowsHeaders
<1> QED
  BY <1>3, <1>5 DEF Buffering

(* The page is read.                                                        *)
ReadPage(x, p, mark) == WithBuf(x, x.pages[p], mark)

LEMMA PageRead ==
  ASSUME NEW leads, NEW x \in Sounds(0), NEW p, p # 0, IsHeap(x.pages, p),
         NEW mark \in BOOLEAN
  PROVE  /\ ReadPage(x, p, mark) \in Buffering(leads, x, p)
         /\ ReadPage(x, p, mark).buf = x.pages[p]
         /\ ReadPage(x, p, mark).out = x.out /\ ReadPage(x, p, mark).pages = x.pages
<1> DEFINE y == ReadPage(x, p, mark)
<1>1. x \in Sounds(p) /\ x.pages[p] \in Heaps /\ PagesOk(x.pages)
  BY DEF Sounds, IsHeap
<1>2. /\ y \in Sounds(p) /\ y.pages = x.pages /\ Headers(x, y) /\ y.buf = x.pages[p]
      /\ y.out = x.out /\ y.events = x.events
  <2>1. y = WithBuf(x, x.pages[p], mark)
    BY DEF ReadPage
  <2> HIDE DEF y
  <2> QED
    BY <1>1, <2>1, BufSetTo
<1> HIDE DEF y
<1>3. [x.pages EXCEPT ![p] = x.pages[p]] = x.pages
  BY <1>1 DEF PagesOk
<1>4. BufView(y, p) = View(x.pages)
  BY <1>2, <1>3 DEF BufView
<1>5. Follows(leads, x, x, View(x.pages))
  BY FollowsSame
<1>6. Follows(leads, x, y, BufView(y, p))
  BY <1>2, <1>4, <1>5, FollowsHeaders
<1> QED
  BY <1>2, <1>6 DEF Buffering, y

LEMMA DeleteRowIs ==
  ASSUME NEW x, NEW p, p # 0, NEW y \in Buffering(TRUE, x, p), y.out = "ok",
         NEW i, <<p, i>> \in Rids, RowAt(y.buf, i) # <<>>,
         NEW z, z = DeleteRow(y, <<p, i>>)
  PROVE  z \in Buffering(TRUE, x, p)
<1> DEFINE old == RowAt(y.buf, i)
           c == ClearIndices(y, old)
           V == BufView(y, p)
           U == [V EXCEPT ![<<p, i>>] = <<>>]
           page == [y.buf EXCEPT !.slots[i] = Gone]
<1>1. /\ y \in Sounds(p) /\ Follows(TRUE, x, y, V) /\ y.buf \in Heaps
      /\ IsHeap(y.pages, p) /\ PagesOk(y.pages)
  BY DEF Buffering, Sounds, Execs
<1>2. i \in DOMAIN y.buf.slots /\ i \in Nat /\ old \in RowSet
  BY <1>1, RowAtIs
<1>3. /\ c \in Sounds(p) /\ Erases(y, c)
      /\ c.out = "ok" => \A exact \in BOOLEAN, W \in Views, rid \in Rids :
           W[rid] = old /\ AllTied(exact, y, W)
           => AllTied(exact, c, [W EXCEPT ![rid] = <<>>])
  <2> DEFINE cc == c
  <2>1. cc = ClearIndices(y, old)
    OBVIOUS
  <2> HIDE DEF cc, old
  <2>2. /\ cc \in Sounds(p) /\ Erases(y, cc)
        /\ cc.out = "ok" => \A exact \in BOOLEAN, W \in Views, rid \in Rids :
             W[rid] = old /\ AllTied(exact, y, W)
             => AllTied(exact, cc, [W EXCEPT ![rid] = <<>>])
    BY <1>1, <1>2, <2>1, ClearIndicesIs
  <2> QED
    BY <2>2 DEF cc
<1>4. z = IF c.out = "ok" THEN [c EXCEPT !.buf.slots[i] = Gone] ELSE c
  BY DEF DeleteRow, Then
<1> HIDE DEF c, old
<1>5. /\ c.buf = y.buf /\ c.events = y.events /\ Headers(y, c)
      /\ View(c.pages) = View(y.pages) /\ c \in Execs /\ c.dirty \in BOOLEAN
  BY <1>3 DEF Erases, OnIndexes, Frame, Headers, Sounds, Execs
<1>6. BufView(c, p) = V
  BY <1>1, <1>3, <1>5, BufViewSame
<1>7. c.events = {} => x.events = {}
  BY <1>1, <1>5 DEF Follows
<1>8. Safe(x) => Safe(c) /\ LeadsAfter(x, c)
  BY <1>1, <1>3, <1>5 DEF Follows, Safe, HeaderWritten, LeadsAfter, Headers, Erases
<1>9. CASE c.out # "ok"
  <2>1. Follows(TRUE, x, c, BufView(c, p))
    BY <1>7, <1>8, <1>9 DEF Follows
  <2> QED
    BY <1>3, <1>4, <1>9, <2>1 DEF Buffering
<1>10. CASE c.out = "ok"
  <2>1. page \in Heaps /\ page.slots = [y.buf.slots EXCEPT ![i] = Gone]
    BY <1>1, <1>2, GoneIs
  <2>2. z = WithBuf(c, page, c.dirty)
    BY <1>4, <1>5, <1>10 DEF WithBuf, Execs
  <2>3. SameBut(page, y.buf, i) /\ RowAt(page, i) = <<>>
    <3> DEFINE slot == Gone
    <3>1. slot.len = 0
      BY DEF Gone
    <3>2. page \in Heaps /\ page.slots = [y.buf.slots EXCEPT ![i] = slot]
      BY <2>1
    <3> HIDE DEF slot, page
    <3>3. SameBut(page, y.buf, i)
          /\ RowAt(page, i) = IF slot.len > 0 THEN slot.row ELSE <<>>
      BY <1>1, <1>2, <3>2, SlotSet
    <3> QED
      BY <3>1, <3>3
  <2> HIDE DEF page
  <2>4. /\ z \in Sounds(p) /\ z.pages = c.pages /\ Headers(c, z) /\ z.buf = page
        /\ z.out = c.out /\ z.events = c.events
    BY <1>3, <1>5, <2>1, <2>2, BufSetTo
  <2>5. BufView(z, p) = U
    <3>1. View(z.pages) = View(y.pages) /\ SameBut(z.buf, y.buf, i) /\ RowAt(z.buf, i) = <<>>
      BY <1>5, <2>3, <2>4
    <3>2. BufView(z, p) = [BufView(y, p) EXCEPT ![<<p, i>>] = RowAt(z.buf, i)]
      BY <1>1, <1>2, <2>4, <3>1, BufViewChanged
    <3> QED
      BY <3>1, <3>2
  <2>6. V \in Views /\ V[<<p, i>>] = old
    <3>1. BufView(y, p)[<<p, i>>] = RowAt(y.buf, i)
      BY <1>1, BufViewIs
    <3> QED
      BY <1>1, <3>1, BufViewSet DEF old
  <2> HIDE DEF V, U
  <2>7. ASSUME c.events = {}, HeaderWritten(x)
        PROVE  /\ HeaderWritten(c)
               /\ \A exact \in BOOLEAN :
                    AllTied(exact, x, View(x.pages)) => AllTied(exact, c, U)
    <3>1. /\ HeaderWritten(y)
          /\ \A exact \in BOOLEAN :
               AllTied(exact, x, View(x.pages)) => AllTied(exact, y, V)
      BY <1>1, <1>5, <2>7 DEF Follows
    <3>2. ASSUME NEW exact \in BOOLEAN, AllTied(exact, y, V) PROVE AllTied(exact, c, U)
      BY <1>3, <1>10, <2>6, <3>2 DEF U
    <3> QED
      BY <1>5, <3>1, <3>2 DEF HeaderWritten, Headers
  <2>8. Follows(TRUE, x, c, U)
    BY <1>7, <1>8, <2>7 DEF Follows
  <2>9. Follows(TRUE, x, z, U)
    BY <2>4, <2>8, FollowsHeaders
  <2> QED
    BY <2>4, <2>5, <2>9 DEF Buffering
<1> QED
  BY <1>9, <1>10

-----------------------------------------------------------------------------
(* UPDATE: one row.                                                         *)

Record(row) == [row |-> row, len |-> Size(row)]
Replaced(page, i, record) == [page EXCEPT !.slots[i] = record]
Lengthened(page, i, record) ==
  [page EXCEPT !.slots[i] = record, !.used = @ + record.len,
               !.free = @ - record.len - SlotSize]

(* A record no longer than before, in its place.                            *)
LEMMA InPlace ==
  ASSUME NEW page \in Heaps, NEW i \in DOMAIN page.slots, NEW row \in RowSet,
         Size(row) <= page.slots[i].len, NEW record,
         record = Record(row), NEW new, new = Replaced(page, i, record)
  PROVE  new \in Heaps /\ new.slots = [page.slots EXCEPT ![i] = record]
<1>1. HeapRecord(page) /\ Packed(page) /\ page.slots \in Seq(Slots)
      /\ page.used + SlotSize * Len(page.slots) + page.free <= Room
      /\ Taken(page.slots) <= page.used /\ page.used \in Nat
  BY HeapsPacked DEF Heaps
<1>2. record \in Slots /\ record.len = Size(row) /\ page.slots[i].len \in Nat
      /\ Size(row) \in Nat
  BY <1>1, NewSlot, SizeNat DEF Slots, Record
<1>3. Taken([page.slots EXCEPT ![i] = record])
        = Taken(page.slots) - page.slots[i].len + record.len
  BY <1>1, <1>2, TakenSet
<1>4. /\ [page.slots EXCEPT ![i] = record] \in Seq(Slots)
      /\ Len([page.slots EXCEPT ![i] = record]) = Len(page.slots)
  BY <1>1, <1>2
<1>5. /\ new.slots = [page.slots EXCEPT ![i] = record]
      /\ new.used = page.used /\ new.free = page.free
      /\ new \in [type : {"heap"}, slots : Seq(Slots), used : Nat, free : Nat]
  BY <1>1, <1>4 DEF HeapRecord, Replaced
<1>6. Taken(page.slots) \in Nat
  BY <1>1, TakenNat
<1>7. Taken(new.slots) <= new.used
  BY <1>1, <1>2, <1>3, <1>5, <1>6
<1>8. Len(new.slots) = Len(page.slots)
  BY <1>4, <1>5
<1>9. new.used + SlotSize * Len(new.slots) + new.free <= Room
  BY <1>1, <1>5, <1>8
<1> QED
  BY <1>5, <1>7, <1>9 DEF Heaps

(* A record at the free end of the compacted page.                          *)
LEMMA AtFreeEnd ==
  ASSUME NEW page \in Heaps, NEW i \in DOMAIN page.slots, NEW row \in RowSet,
         page.used = Taken(page.slots), Fits(page, Size(row)), NEW record,
         record = Record(row), NEW new, new = Lengthened(page, i, record)
  PROVE  new \in Heaps /\ new.slots = [page.slots EXCEPT ![i] = record]
<1> DEFINE n == Size(row)
           e == SlotSize * Len(page.slots)
<1>1. HeapRecord(page) /\ page.slots \in Seq(Slots)
      /\ page.used + e + page.free <= Room
      /\ page.used \in Nat /\ page.free \in Nat
  BY HeapsPacked DEF Heaps
<1>2. record \in Slots /\ record.len = n /\ page.slots[i].len \in Nat /\ n \in Nat
  BY <1>1, NewSlot, SizeNat DEF Slots, Record
<1>3. Taken([page.slots EXCEPT ![i] = record])
        = Taken(page.slots) - page.slots[i].len + record.len
  BY <1>1, <1>2, TakenSet
<1>4. /\ [page.slots EXCEPT ![i] = record] \in Seq(Slots)
      /\ Len([page.slots EXCEPT ![i] = record]) = Len(page.slots)
  BY <1>1, <1>2
<1>5. page.free >= n + SlotSize /\ SlotSize \in Nat /\ Room \in Nat /\ e \in Nat
  <2>1. Len(page.slots) \in Nat
    BY <1>1
  <2> QED
    BY <2>1, ArrayNat DEF Fits
<1> HIDE DEF n, e
<1>6. /\ new.slots = [page.slots EXCEPT ![i] = record]
      /\ new.used = page.used + n /\ new.free = page.free - n - SlotSize
      /\ new \in [type : {"heap"}, slots : Seq(Slots), used : Nat, free : Nat]
  <2>1. page.used + n \in Nat
    BY <1>1, <1>2
  <2>2. page.free - n - SlotSize \in Nat
    <3>1. \A a, b, d \in Nat : a >= b + d => a - b - d \in Nat
      OBVIOUS
    <3> QED
      BY <1>1, <1>2, <1>5, <3>1
  <2> QED
    BY <1>1, <1>2, <1>4, <2>1, <2>2 DEF HeapRecord, Lengthened, n
<1>7. Taken(page.slots) \in Nat
  BY <1>1, TakenNat
<1>8. Taken(new.slots) <= new.used
  BY <1>1, <1>2, <1>3, <1>6, <1>7
<1>9. SlotSize * Len(new.slots) = e
  BY <1>4, <1>6 DEF e
<1>10. new.used + SlotSize * Len(new.slots) + new.free <= Room
  <2>1. new.used + e + new.free <= Room
    <3>1. /\ new.used = page.used + n /\ new.free = page.free - n - SlotSize
          /\ page.used + e + page.free <= Room /\ SlotSize \in Nat /\ n \in Nat
          /\ page.used \in Nat /\ page.free \in Nat /\ e \in Nat /\ Room \in Nat
      BY <1>1, <1>2, <1>5, <1>6
    <3>2. \A a, b, k, s, f, r \in Nat :
            a + k + b <= r => (a + f) + k + (b - f - s) <= r
      OBVIOUS
    <3>3. (page.used + n) + e + (page.free - n - SlotSize) <= Room
      BY <3>1, <3>2
    <3> QED
      BY <3>1, <3>3
  <2> QED
    BY <1>9, <2>1
<1> QED
  BY <1>6, <1>8, <1>10 DEF Heaps

(* The record of rid is the row now, or the row is on another page.         *)
RowWritten(x, z, rid, old) ==
  z.out = "ok" /\ z.events = {} =>
    /\ x.events = {} /\ (HeaderWritten(x) => HeaderWritten(z))
    /\ Vacated(x, old) => \A exact \in BOOLEAN :
         RowTied(exact, x, BufView(x, rid[1]), rid)
         => AllTied(exact, z, BufView(z, rid[1]))

(* The buffer and the history are set.                                      *)
WithMark(x, page, marks) == [x EXCEPT !.buf = page, !.events = marks]

LEMMA MarkSetTo ==
  ASSUME NEW p, NEW x \in Sounds(p), NEW page \in Heaps, NEW marks \in Marks,
         NEW y, y = WithMark(x, page, marks)
  PROVE  /\ y \in Sounds(p) /\ y.row = x.row /\ y.events = marks /\ y.out = x.out
         /\ y.pages = x.pages /\ Headers(x, y) /\ y.buf = page
<1>1. x \in Execs /\ x.count = Len(x.pages) + 1 /\ PagesOk(x.pages)
  BY DEF Sounds
<1>2. /\ y \in Execs /\ y.pages = x.pages /\ y.count = x.count /\ y.out = x.out
      /\ y.disk = x.disk /\ y.roots = x.roots /\ y.row = x.row /\ y.events = marks
      /\ y.buf = page
  BY <1>1 DEF Execs, WithMark, Marks
<1>3. Headers(x, y)
  BY <1>2 DEF Headers
<1>4. y \in Sounds(p)
  BY <1>1, <1>2, <1>3, AlikeSame, SoundStep
<1> QED
  BY <1>2, <1>3, <1>4

(* A slot of the buffer is set.                                             *)
LEMMA SlotRid ==
  ASSUME NEW p, p # 0, NEW x \in Sounds(p), NEW i \in DOMAIN x.buf.slots
  PROVE  <<p, i>> \in Rids /\ i \in Nat /\ x.buf \in Heaps
<1>1. x.buf \in Heaps /\ IsHeap(x.pages, p) /\ x.pages \in Seq(Heaps \cup Leaves)
  BY DEF Sounds, Execs
<1>2. p \in Nat
  BY <1>1 DEF IsHeap
<1>3. i \in Nat
  BY <1>1 DEF Heaps
<1> QED
  BY <1>1, <1>2, <1>3 DEF Rids

LEMMA SlotPut ==
  ASSUME NEW p, p # 0, NEW x \in Sounds(p), NEW i \in DOMAIN x.buf.slots,
         NEW page \in Heaps, NEW slot, page.slots = [x.buf.slots EXCEPT ![i] = slot],
         NEW row, row = (IF slot.len > 0 THEN slot.row ELSE <<>>),
         NEW z, z = WithBuf(x, page, x.dirty)
  PROVE  /\ z \in Sounds(p) /\ z.pages = x.pages /\ Headers(x, z) /\ z.out = x.out
         /\ z.events = x.events /\ z.row = x.row
         /\ BufView(z, p) = [BufView(x, p) EXCEPT ![<<p, i>>] = row]
<1>1. x.dirty \in BOOLEAN /\ x.buf \in Heaps
  BY DEF Sounds, Execs
<1>2. /\ z \in Sounds(p) /\ z.pages = x.pages /\ Headers(x, z) /\ z.buf = page
      /\ z.out = x.out /\ z.events = x.events /\ z.row = x.row
  BY <1>1, BufSetTo
<1>3. SameBut(page, x.buf, i) /\ RowAt(page, i) = row
  BY <1>1, SlotSet
<1>4. <<p, i>> \in Rids /\ i \in Nat
  BY SlotRid
<1>5. SameBut(z.buf, x.buf, i) /\ RowAt(z.buf, i) = row /\ View(z.pages) = View(x.pages)
  BY <1>2, <1>3
<1>6. BufView(z, p) = [BufView(x, p) EXCEPT ![<<p, i>>] = RowAt(z.buf, i)]
  BY <1>2, <1>4, <1>5, BufViewChanged
<1> QED
  BY <1>2, <1>5, <1>6

(* The parts of Relocate.                                                   *)
OutOfBuffer(x, i) == [x EXCEPT !.buf = Recalc([@ EXCEPT !.slots[i] = Gone])]
Noted(x, p) == [x EXCEPT !.events = IF x.at = p THEN @ \cup {"lost"} ELSE @]

(* The keys go, and the row goes out of the buffer.                         *)
LEMMA MovedOut ==
  ASSUME NEW p, p # 0, NEW x \in Sounds(p), x.row \in RowSet, NEW old \in RowSet,
         NEW i \in DOMAIN x.buf.slots, NEW rid, rid = <<p, i>>,
         NEW c, c = ClearIndices(x, old), c.out = "ok",
         NEW w, w = OutOfBuffer(c, i)
  PROVE  /\ w \in Sounds(p) /\ w.out = "ok" /\ w.events = x.events /\ w.row = x.row
         /\ HeaderWritten(x) => HeaderWritten(w)
         /\ Vacated(x, old) => \A exact \in BOOLEAN :
              RowTied(exact, x, BufView(x, p), rid)
              => AllTied(exact, w, BufView(w, p))
<1> DEFINE base == c.buf
           page == Recalc([base EXCEPT !.slots[i] = Gone])
<1>1. c \in Sounds(p) /\ Erases(x, c)
  BY ClearIndicesIs
<1>2. /\ c.buf = x.buf /\ c.row = x.row /\ c.events = x.events /\ c.disk = x.disk
      /\ c.roots = x.roots /\ View(c.pages) = View(x.pages)
  BY <1>1 DEF Erases, OnIndexes, Frame
<1>3. c \in Execs /\ base \in Heaps /\ i \in DOMAIN base.slots /\ c.dirty \in BOOLEAN
  BY <1>1, <1>2 DEF Sounds, Execs
<1>4. w = WithBuf(c, page, c.dirty)
  BY <1>3 DEF WithBuf, Execs, OutOfBuffer
<1>5. page \in Heaps /\ page.slots = [base.slots EXCEPT ![i] = Gone]
  <2> DEFINE gone == [base EXCEPT !.slots[i] = Gone]
  <2>1. gone \in Heaps /\ gone.slots = [base.slots EXCEPT ![i] = Gone]
    BY <1>3, GoneIs
  <2> HIDE DEF base, gone
  <2>2. Recalc(gone) \in Heaps /\ Recalc(gone).slots = gone.slots
    BY <2>1, HeapsPacked, RecalcIs
  <2> QED
    BY <2>1, <2>2 DEF gone
<1> HIDE DEF page
<1>6. /\ w \in Sounds(p) /\ w.pages = c.pages /\ Headers(c, w)
      /\ w.out = c.out /\ w.events = c.events /\ w.row = c.row
      /\ BufView(w, p) = [BufView(c, p) EXCEPT ![rid] = <<>>]
  <2> DEFINE slot == Gone
             none == <<>>
  <2>1. none = IF slot.len > 0 THEN slot.row ELSE <<>>
    BY DEF Gone
  <2>2. page.slots = [c.buf.slots EXCEPT ![i] = slot]
    BY <1>5
  <2> HIDE DEF slot, none
  <2>3. /\ w \in Sounds(p) /\ w.pages = c.pages /\ Headers(c, w)
        /\ w.out = c.out /\ w.events = c.events /\ w.row = c.row
        /\ BufView(w, p) = [BufView(c, p) EXCEPT ![<<p, i>>] = none]
    BY <1>1, <1>3, <1>4, <1>5, <2>1, <2>2, SlotPut
  <2> QED
    BY <2>3 DEF none
<1>7. BufView(w, p) = [BufView(x, p) EXCEPT ![rid] = <<>>]
  <2>1. BufView(c, p) = BufView(x, p)
    BY <1>1, <1>2, BufViewSame
  <2> QED
    BY <1>6, <2>1
<1>8. ASSUME Vacated(x, old), NEW exact \in BOOLEAN,
             RowTied(exact, x, BufView(x, p), rid)
      PROVE  AllTied(exact, w, BufView(w, p))
  <2> DEFINE row == x.row
             T == [BufView(x, p) EXCEPT ![rid] = row]
             U == BufView(w, p)
  <2>1. BufView(x, p) \in Views /\ rid \in Rids
    BY BufViewSet, SlotRid
  <2>2. T \in Views /\ T[rid] = row /\ U = RowGone(T, rid)
    BY <1>7, <2>1 DEF Views, RowGone
  <2>3. AllTied(exact, x, T) /\ x.row = row /\ row \in RowSet
    BY <1>8 DEF RowTied
  <2>4. Vacated(x, old) /\ rid \in Rids
    BY <1>8, <2>1
  <2> HIDE DEF T, U, row
  <2>5. AllTied(exact, c, U)
    BY <2>2, <2>3, <2>4, ClearVacated
  <2> QED
    BY <1>6, <2>5 DEF AllTied, Headers, U
<1> QED
  BY <1>2, <1>6, <1>8 DEF Headers, HeaderWritten

(* The row comes in elsewhere.                                              *)
LEMMA MovedIn ==
  ASSUME RowsFit, NEW p, p # 0, NEW w \in Sounds(p), w.out = "ok", w.row \in RowSet,
         NEW s, s = Store(w, w.row), s.out = "ok",
         NEW t, t = Noted(s, p),
         NEW u, u = UpdateIndices(t, s.row, Rid(s))
  PROVE  /\ u \in Sounds(p)
         /\ u.out = "ok" /\ u.events = {} =>
              /\ w.events = {} /\ (HeaderWritten(w) => HeaderWritten(u))
              /\ \A exact \in BOOLEAN :
                   AllTied(exact, w, BufView(w, p)) => AllTied(exact, u, BufView(u, p))
<1> DEFINE row == w.row
           rid == Rid(s)
           marks == IF s.at = p THEN s.events \cup {"lost"} ELSE s.events
<1>1. /\ s \in Sounds(p) /\ Frame(w, s) /\ Headers(w, s) /\ Added(w, s, row)
  BY StoreIs
<1>2. /\ s.row = row /\ s.buf = w.buf /\ s.events = w.events
      /\ s \in Execs /\ s.buf \in Heaps /\ row \in RowSet
  BY <1>1 DEF Frame, Sounds, Execs
<1>3. t = WithMark(s, s.buf, marks) /\ marks \in Marks
  BY <1>2 DEF WithMark, Marks, Execs, Noted
<1>4. rid[1] # p => marks = s.events
  BY DEF Rid
<1>5. marks = {} => rid[1] # p /\ s.events = {}
  BY DEF Rid
<1> HIDE DEF marks, rid, row
<1>15. s.buf \in Heaps /\ s.out = "ok"
  BY <1>2
<1>6. /\ t \in Sounds(p) /\ t.row = s.row /\ t.events = marks /\ t.out = "ok"
      /\ t.pages = s.pages /\ Headers(s, t) /\ t.buf = s.buf
  BY <1>1, <1>3, <1>15, MarkSetTo
<1>7. rid \in Rids /\ IsHeap(s.pages, rid[1]) /\ SameLeaves(w.pages, s.pages)
  BY <1>1 DEF Added, rid
<1>8. t \in SoundsAt(p, rid[1])
  BY <1>6, <1>7 DEF SoundsAt
<1>9. u = UpdateIndices(t, row, rid)
  BY <1>2 DEF rid
<1>10. /\ u \in Sounds(p) /\ Frame(t, u) /\ View(u.pages) = View(t.pages)
       /\ u.out = "ok" => (t.disk = t.roots => u.disk = u.roots)
       /\ \A exact \in BOOLEAN, V \in Views : \A U :
            V[rid] = <<>> /\ U = [V EXCEPT ![rid] = row] /\ AllTied(exact, t, V)
            => (u.out = "ok" => AllTied(exact, u, U))
  BY <1>2, <1>6, <1>7, <1>8, <1>9, UpdateIndicesIs
<1>11. SUFFICES ASSUME u.out = "ok", u.events = {}
                PROVE  /\ w.events = {} /\ (HeaderWritten(w) => HeaderWritten(u))
                       /\ \A exact \in BOOLEAN :
                            AllTied(exact, w, BufView(w, p))
                            => AllTied(exact, u, BufView(u, p))
  BY <1>10
<1>12. rid[1] # p /\ w.events = {}
  BY <1>2, <1>5, <1>6, <1>10, <1>11 DEF Frame
<1>13. HeaderWritten(w) => HeaderWritten(u)
  BY <1>1, <1>6, <1>10, <1>11 DEF HeaderWritten, Headers
<1>14. ASSUME NEW exact \in BOOLEAN, AllTied(exact, w, BufView(w, p))
       PROVE  AllTied(exact, u, BufView(u, p))
  <2> DEFINE V == BufView(w, p)
             U == BufView(s, p)
  <2>1. V \in Views
    BY BufViewSet
  <2>2. V[rid] = <<>> /\ U = [V EXCEPT ![rid] = row]
    BY <1>1, <1>2, <1>12, BufViewAdded DEF rid
  <2>3. AllTied(exact, s, V)
    BY <1>1, <1>7, <1>14, LeavesTied
  <2>4. AllTied(exact, t, V)
    BY <1>6, <2>3 DEF AllTied, Headers
  <2>5. BufView(u, p) = U
    <3>1. u.buf = s.buf /\ View(u.pages) = View(s.pages)
      BY <1>6, <1>10 DEF Frame
    <3> QED
      BY <1>1, <1>10, <3>1, BufViewSame
  <2> HIDE DEF U, V
  <2> QED
    BY <1>10, <1>11, <2>1, <2>2, <2>4, <2>5
<1> QED
  BY <1>12, <1>13, <1>14

LEMMA RelocateIs ==
  ASSUME RowsFit, NEW p, p # 0, NEW x \in Sounds(p), x.out = "ok", x.row \in RowSet,
         NEW old \in RowSet, NEW i \in DOMAIN x.buf.slots, NEW rid, rid = <<p, i>>,
         NEW z, z = Relocate(x, rid, old)
  PROVE  z \in Sounds(p) /\ RowWritten(x, z, rid, old)
<1> DEFINE c == ClearIndices(x, old)
           w == OutOfBuffer(c, i)
           s == Store(w, w.row)
           t == Noted(s, p)
           u == UpdateIndices(t, s.row, Rid(s))
<1>1. rid[1] = p /\ rid[2] = i
  OBVIOUS
<1>2. c \in Sounds(p)
  <2> DEFINE cc == c
  <2>1. cc = ClearIndices(x, old)
    OBVIOUS
  <2> HIDE DEF cc
  <2>2. cc \in Sounds(p)
    BY <2>1, ClearIndicesIs
  <2> QED
    BY <2>2 DEF cc
<1>3. CASE c.out # "ok"
  <2>1. z = c
    BY <1>3 DEF Relocate, Then
  <2> QED
    BY <1>2, <1>3, <2>1 DEF RowWritten
<1>4. CASE c.out = "ok"
  <2>1. z = IF s.out = "ok" THEN u ELSE s
    BY <1>1, <1>4 DEF Relocate, Then, OutOfBuffer, Noted
  <2> DEFINE w2 == w
             s2 == s
             t2 == t
             u2 == u
  <2>2. /\ w2 = OutOfBuffer(c, i) /\ s2 = Store(w2, w2.row) /\ t2 = Noted(s2, p)
        /\ u2 = UpdateIndices(t2, s2.row, Rid(s2))
        /\ z = IF s2.out = "ok" THEN u2 ELSE s2
    BY <2>1
  <2>3. c = ClearIndices(x, old)
    OBVIOUS
  <2> HIDE DEF c, w, s, t, u, w2, s2, t2, u2
  <2>4. /\ w2 \in Sounds(p) /\ w2.out = "ok" /\ w2.events = x.events /\ w2.row = x.row
        /\ HeaderWritten(x) => HeaderWritten(w2)
        /\ Vacated(x, old) => \A exact \in BOOLEAN :
             RowTied(exact, x, BufView(x, p), rid)
             => AllTied(exact, w2, BufView(w2, p))
    BY <1>4, <2>2, <2>3, MovedOut
  <2>5. CASE s2.out # "ok"
    <3>1. s2 \in Sounds(p)
      BY <2>2, <2>4, StoreIs
    <3> QED
      BY <2>2, <2>5, <3>1 DEF RowWritten
  <2>6. CASE s2.out = "ok"
    <3>1. /\ u2 \in Sounds(p)
          /\ u2.out = "ok" /\ u2.events = {} =>
               /\ w2.events = {} /\ (HeaderWritten(w2) => HeaderWritten(u2))
               /\ \A exact \in BOOLEAN : AllTied(exact, w2, BufView(w2, p))
                                         => AllTied(exact, u2, BufView(u2, p))
      BY <2>2, <2>4, <2>6, MovedIn
    <3>2. z = u2
      BY <2>2, <2>6
    <3> QED
      BY <1>1, <2>4, <3>1, <3>2 DEF RowWritten
  <2> QED
    BY <2>5, <2>6
<1> QED
  BY <1>3, <1>4

LEMMA HandleRecordUpdateIs ==
  ASSUME RowsFit, NEW p, p # 0, NEW a \in Sounds(p), a.out = "ok", a.row \in RowSet,
         NEW i \in DOMAIN a.buf.slots, NEW rid, rid = <<p, i>>, NEW old \in RowSet,
         NEW z, z = HandleRecordUpdate(a, rid, old)
  PROVE  z \in Sounds(p) /\ RowWritten(a, z, rid, old)
<1> DEFINE size == Size(a.row)
           record == [row |-> a.row, len |-> size]
           packed == Compact(a.buf)
           inPlace == [a.buf EXCEPT !.slots[i] = record]
           atEnd == [packed EXCEPT !.slots[i] = record, !.used = @ + size,
                                   !.free = @ - size - SlotSize]
<1>1. a \in Execs /\ a.buf \in Heaps /\ a.dirty \in BOOLEAN
  BY DEF Sounds, Execs
<1>2. size \in Nat /\ record.len > 0 /\ record.row = a.row
  BY SizeNat
<1>3. /\ packed \in Heaps /\ packed.slots = a.buf.slots
      /\ packed.used = Taken(packed.slots)
  BY <1>1, CompactIs
<1>4. ASSUME NEW page \in Heaps, page.slots = [a.buf.slots EXCEPT ![i] = record],
             z = [a EXCEPT !.buf = page]
      PROVE  z \in Sounds(p) /\ RowWritten(a, z, rid, old)
  <2>1. z = WithBuf(a, page, a.dirty)
    BY <1>1, <1>4 DEF WithBuf, Execs
  <2>2. /\ z \in Sounds(p) /\ z.pages = a.pages /\ Headers(a, z) /\ z.out = a.out
        /\ z.events = a.events /\ BufView(z, p) = [BufView(a, p) EXCEPT ![rid] = a.row]
    <3> DEFINE slot == record
               row == a.row
    <3>1. page.slots = [a.buf.slots EXCEPT ![i] = slot]
          /\ row = IF slot.len > 0 THEN slot.row ELSE <<>>
      BY <1>2, <1>4
    <3> HIDE DEF slot, row
    <3>2. /\ z \in Sounds(p) /\ z.pages = a.pages /\ Headers(a, z) /\ z.out = a.out
          /\ z.events = a.events /\ BufView(z, p) = [BufView(a, p) EXCEPT ![rid] = row]
      BY <2>1, <3>1, SlotPut
    <3> QED
      BY <3>2 DEF row
  <2>6. ASSUME NEW exact \in BOOLEAN, RowTied(exact, a, BufView(a, p), rid)
        PROVE  AllTied(exact, z, BufView(z, p))
    <3>1. AllTied(exact, a, BufView(z, p))
      BY <2>2, <2>6 DEF RowTied
    <3> QED
      BY <2>2, <3>1 DEF AllTied, Headers
  <2>7. rid[1] = p
    OBVIOUS
  <2>8. z.events = a.events /\ (HeaderWritten(a) => HeaderWritten(z))
    BY <2>2 DEF Headers, HeaderWritten
  <2> QED
    BY <2>2, <2>6, <2>7, <2>8 DEF RowWritten
<1>5. CASE size <= a.buf.slots[i].len
  <2>1. z = [a EXCEPT !.buf = inPlace]
    BY <1>1, <1>5 DEF HandleRecordUpdate, Execs
  <2> DEFINE page == inPlace
             r == record
             row == a.row
             base == a.buf
  <2>2. /\ r = Record(row) /\ page = Replaced(base, i, r)
        /\ row \in RowSet /\ base \in Heaps /\ i \in DOMAIN base.slots
        /\ Size(row) <= base.slots[i].len
    BY <1>1, <1>5 DEF Record, Replaced
  <2> HIDE DEF page, r, row, base
  <2>3. page \in Heaps /\ page.slots = [base.slots EXCEPT ![i] = r]
    BY <2>2, InPlace
  <2> QED
    BY <1>4, <2>1, <2>3 DEF page, r, base
<1>6. CASE ~(size <= a.buf.slots[i].len) /\ Fits(packed, size)
  <2>1. z = [a EXCEPT !.buf = atEnd]
    BY <1>6 DEF HandleRecordUpdate
  <2> DEFINE page == atEnd
             r == record
             base == packed
             row == a.row
  <2>2. /\ r = Record(row) /\ page = Lengthened(base, i, r)
        /\ base \in Heaps /\ i \in DOMAIN base.slots /\ base.used = Taken(base.slots)
        /\ Fits(base, Size(row)) /\ row \in RowSet
    BY <1>3, <1>6 DEF Record, Lengthened
  <2> HIDE DEF page, r, base, row
  <2>3. page \in Heaps /\ page.slots = [base.slots EXCEPT ![i] = r]
    BY <2>2, AtFreeEnd
  <2>4. page.slots = [a.buf.slots EXCEPT ![i] = r]
    BY <1>3, <2>3 DEF base
  <2> QED
    BY <1>4, <2>1, <2>3, <2>4 DEF page, r
<1>7. CASE ~(size <= a.buf.slots[i].len) /\ ~Fits(packed, size)
  <2> DEFINE w == [a EXCEPT !.buf = packed]
  <2>1. z = Relocate(w, rid, old)
    BY <1>7 DEF HandleRecordUpdate
  <2>2. w = WithBuf(a, packed, a.dirty)
    BY <1>1 DEF WithBuf, Execs
  <2> HIDE DEF w, packed
  <2>3. /\ w \in Sounds(p) /\ w.buf = packed /\ w.out = "ok" /\ w.row = a.row
        /\ w.pages = a.pages /\ Headers(a, w) /\ w.events = a.events
    BY <1>1, <1>3, <2>2, BufSetTo
  <2>4. i \in DOMAIN w.buf.slots /\ w.buf.slots = a.buf.slots
    BY <1>3, <2>3
  <2>5. z \in Sounds(p) /\ RowWritten(w, z, rid, old)
    BY <2>1, <2>3, <2>4, RelocateIs
  <2>6. BufView(w, p) = BufView(a, p)
    BY <2>3, <2>4, BufViewSame
  <2>7. rid[1] = p
    OBVIOUS
  <2>8. Vacated(a, old) => Vacated(w, old)
    BY <2>3 DEF Vacated, Headers
  <2>9. HeaderWritten(a) => HeaderWritten(w)
    BY <2>3 DEF Headers, HeaderWritten
  <2>10. ASSUME NEW exact, RowTied(exact, a, BufView(a, p), rid)
         PROVE  RowTied(exact, w, BufView(w, p), rid)
    <3>1. [BufView(w, p) EXCEPT ![rid] = w.row] = [BufView(a, p) EXCEPT ![rid] = a.row]
      BY <2>3, <2>6
    <3> QED
      BY <2>3, <2>10, <3>1 DEF RowTied, AllTied, Headers
  <2>11. RowWritten(a, z, rid, old)
    BY <2>3, <2>5, <2>7, <2>8, <2>9, <2>10 DEF RowWritten
  <2> QED
    BY <2>5, <2>11
<1> QED
  BY <1>5, <1>6, <1>7

LEMMA UpdateRowIs ==
  ASSUME RowsFit,
         NEW x, NEW p, p # 0, NEW y \in Buffering(FALSE, x, p), y.out = "ok",
         NEW i, <<p, i>> \in Rids, RowAt(y.buf, i) # <<>>, NEW set, Setting(set),
         NEW z, z = UpdateRow(y, set, <<p, i>>)
  PROVE  z \in Buffering(FALSE, x, p)
<1> DEFINE old == RowAt(y.buf, i)
           rid == <<p, i>>
           w == WithRow(y, old, y.events)
           a == ApplyAssignments(w, set, rid)
           V == BufView(y, p)
<1>1. /\ y \in Sounds(p) /\ Follows(FALSE, x, y, V) /\ y.buf \in Heaps
      /\ IsHeap(y.pages, p) /\ PagesOk(y.pages) /\ y \in Execs /\ y.events \in Marks
  BY DEF Buffering, Sounds, Execs, Marks
<1>2. i \in DOMAIN y.buf.slots /\ i \in Nat /\ old \in RowSet
  BY <1>1, RowAtIs
<1>3. rid[1] = p /\ rid[2] = i
  OBVIOUS
<1>4. z = IF a.out = "ok" THEN HandleRecordUpdate(a, rid, old) ELSE a
  <2>1. w = [y EXCEPT !.row = old]
    BY <1>1 DEF WithRow, Execs
  <2> HIDE DEF w
  <2> QED
    BY <2>1 DEF UpdateRow, Then
<1> HIDE DEF old, rid, w, a
<1>5. /\ w \in Sounds(p) /\ w.row = old /\ w.events = y.events /\ w.out = y.out
      /\ w.pages = y.pages /\ Headers(y, w) /\ w.buf = y.buf
  BY <1>1, <1>2, RowSetTo DEF w
<1>6. w \in Changing(p, rid[1]) /\ rid \in Rids
  BY <1>1, <1>2, <1>3, <1>5 DEF Changing, SoundsAt, rid
<1>7. a \in Assigning(w, p, rid)
  BY <1>6, ApplyAssignmentsIs DEF a
<1>8. a \in Changing(p, rid[1]) /\ Assigned(w, a) /\ StillTied(w, a, rid)
  BY <1>7 DEF Assigning
<1>9. /\ a \in Sounds(p) /\ a.row \in RowSet /\ a.buf = y.buf
      /\ View(a.pages) = View(y.pages) /\ (a.events = {} => y.events = {})
      /\ a.disk = y.disk /\ (a.out = "ok" => a.roots = y.roots)
  BY <1>5, <1>8 DEF Changing, SoundsAt, Assigned, Headers
<1>10. CASE a.out # "ok"
  <2>1. Follows(FALSE, x, a, BufView(a, p))
    BY <1>1, <1>9, <1>10 DEF Follows
  <2> QED
    BY <1>4, <1>9, <1>10, <2>1 DEF Buffering
<1>11. CASE a.out = "ok"
  <2>1. z = HandleRecordUpdate(a, rid, old)
    BY <1>4, <1>11
  <2>2. i \in DOMAIN a.buf.slots
    BY <1>2, <1>9
  <2>3. z \in Sounds(p) /\ RowWritten(a, z, rid, old)
    BY <1>2, <1>9, <1>11, <2>1, <2>2, HandleRecordUpdateIs DEF rid
  <2>4. z.out = "ok" /\ z.events = {} => a.events = {} /\ y.events = {} /\ x.events = {}
    BY <1>1, <1>9, <2>3 DEF Follows, RowWritten
  <2>5. ASSUME z.out = "ok", z.events = {}, HeaderWritten(x)
        PROVE  /\ HeaderWritten(z)
               /\ \A exact \in BOOLEAN : AllTied(exact, x, View(x.pages))
                                         => AllTied(exact, z, BufView(z, p))
    <3>1. /\ HeaderWritten(y)
          /\ \A exact \in BOOLEAN :
               AllTied(exact, x, View(x.pages)) => AllTied(exact, y, V)
      BY <1>1, <2>4, <2>5 DEF Follows
    <3>2. HeaderWritten(z)
      BY <1>9, <1>11, <2>3, <2>5, <3>1 DEF HeaderWritten, RowWritten
    <3>3. V \in Views /\ V[rid] = old
      <4>1. BufView(y, p)[rid] = RowAt(y.buf, i)
        BY <1>1, <1>3, <1>6, BufViewIs
      <4> QED
        BY <1>1, <4>1, BufViewSet DEF old
    <3>4. BufView(a, p) = V
      BY <1>1, <1>9, BufViewSame
    <3> HIDE DEF V
    <3>5. [V EXCEPT ![rid] = old] = V
      BY <3>3 DEF Views
    <3>6. Vacated(a, old)
      <4>1. Rekeyed(w, a) /\ w.row = old
        BY <1>5, <1>8, <1>11, <2>4, <2>5 DEF StillTied
      <4> QED
        BY <4>1 DEF Rekeyed, Vacated
    <3>7. ASSUME NEW exact \in BOOLEAN, AllTied(exact, y, V)
          PROVE  AllTied(exact, z, BufView(z, p))
      <4>1. AllTied(exact, w, V)
        BY <1>5, <3>7 DEF AllTied, Headers
      <4>2. RowTied(exact, w, V, rid)
        BY <1>5, <3>5, <4>1 DEF RowTied
      <4>3. RowTied(exact, a, V, rid)
        BY <1>8, <1>11, <2>4, <2>5, <3>3, <4>2 DEF StillTied
      <4> QED
        BY <1>3, <2>3, <2>5, <3>4, <3>6, <4>3 DEF RowWritten
    <3> QED
      BY <3>1, <3>2, <3>7
  <2> QED
    BY <2>3, <2>4, <2>5 DEF Buffering, Follows
<1> QED
  BY <1>10, <1>11

-----------------------------------------------------------------------------
(* Scans.                                                                   *)

(* The executions on page p: not dirty, the buffer is the page.             *)
Scanning(leads, x, p) ==
  { y \in Buffering(leads, x, p) : ~y.dirty => BufView(y, p) = View(y.pages) }

(* At the end of a page.                                                    *)
Flush(y, p) == Then(y, LAMBDA z : IF z.dirty THEN WritePage(z, p, Recalc(z.buf)) ELSE z)

LEMMA FlushIs ==
  ASSUME NEW leads, NEW x, NEW p, p # 0, NEW y \in Scanning(leads, x, p)
  PROVE  Flush(y, p) \in Finishing(leads, x)
<1>1. /\ y \in Buffering(leads, x, p) /\ y \in Sounds(p) /\ y.buf \in Heaps
      /\ Follows(leads, x, y, BufView(y, p))
  BY DEF Scanning, Buffering, Sounds, Execs
<1>2. CASE y.out # "ok"
  BY <1>1, <1>2, BufferFailed DEF Flush, Then
<1>3. CASE y.out = "ok" /\ ~y.dirty
  <2>1. Flush(y, p) = y
    BY <1>3 DEF Flush, Then
  <2>2. BufView(y, p) = View(y.pages)
    BY <1>3 DEF Scanning
  <2> QED
    BY <1>1, <2>1, <2>2, SoundsZero DEF Finishing
<1>4. CASE y.out = "ok" /\ y.dirty
  <2> DEFINE page == Recalc(y.buf)
             z == WritePage(y, p, page)
  <2>1. Flush(y, p) = z
    BY <1>4 DEF Flush, Then
  <2>2. page \in Heaps /\ page.slots = y.buf.slots
    BY <1>1, HeapsPacked, RecalcIs
  <2> HIDE DEF page
  <2>3. z \in Finishing(leads, x)
    BY <1>1, <1>4, <2>2, PageBack
  <2> QED
    BY <2>1, <2>3
<1> QED
  BY <1>2, <1>3, <1>4

(* The page as the scan finds it.                                           *)
LEMMA ScanBegins ==
  ASSUME NEW leads, NEW x \in Sounds(0), NEW p, p # 0, IsHeap(x.pages, p),
         NEW y, y = WithBuf(x, x.pages[p], FALSE)
  PROVE  y \in Scanning(leads, x, p)
<1>1. y \in Buffering(leads, x, p) /\ y.buf = x.pages[p] /\ y.pages = x.pages
  <2>1. y = ReadPage(x, p, FALSE)
    BY DEF ReadPage
  <2> DEFINE z == ReadPage(x, p, FALSE)
  <2>2. z \in Buffering(leads, x, p)
    BY PageRead
  <2>3. z.buf = x.pages[p]
    BY PageRead
  <2>4. z.pages = x.pages
    BY PageRead
  <2> QED
    BY <2>1, <2>2, <2>3, <2>4
<1>2. [x.pages EXCEPT ![p] = x.pages[p]] = x.pages
  BY DEF Sounds, PagesOk
<1>3. BufView(y, p) = View(y.pages)
  BY <1>1, <1>2 DEF BufView
<1> QED
  BY <1>1, <1>3 DEF Scanning

(* A scan by DELETE, and the steps of its folds.                            *)
DeleteSlot(y, rid, cond) ==
  Then(y, LAMBDA z :
    IF RowAt(z.buf, rid[2]) # <<>> /\ Matches(RowAt(z.buf, rid[2]), cond)
    THEN [DeleteRow(z, rid) EXCEPT !.dirty = TRUE] ELSE z)
DeleteSlots(x, p, cond) ==
  FoldLeftDomain(LAMBDA y, i : DeleteSlot(y, <<p, i>>, cond),
                 [x EXCEPT !.buf = x.pages[p], !.dirty = FALSE], x.pages[p].slots)
DeletePage(y, p, cond) ==
  Then(y, LAMBDA x :
    IF p >= x.count \/ x.pages[p].type = "index" THEN x
    ELSE Flush(DeleteSlots(x, p, cond), p))

LEMMA DeleteSlotIs ==
  ASSUME NEW x, NEW p, p # 0, NEW y \in Scanning(TRUE, x, p), NEW i, <<p, i>> \in Rids,
         NEW cond
  PROVE  DeleteSlot(y, <<p, i>>, cond) \in Scanning(TRUE, x, p)
<1> DEFINE rid == <<p, i>>
           z == DeleteRow(y, rid)
           w == [z EXCEPT !.dirty = TRUE]
<1>1. y \in Buffering(TRUE, x, p) /\ rid[2] = i
  BY DEF Scanning
<1>2. CASE y.out # "ok" \/ RowAt(y.buf, i) = <<>> \/ ~Matches(RowAt(y.buf, i), cond)
  BY <1>1, <1>2 DEF DeleteSlot, Then
<1>3. CASE y.out = "ok" /\ RowAt(y.buf, i) # <<>> /\ Matches(RowAt(y.buf, i), cond)
  <2>1. DeleteSlot(y, rid, cond) = w
    BY <1>1, <1>3 DEF DeleteSlot, Then
  <2> HIDE DEF rid
  <2>2. z \in Buffering(TRUE, x, p)
    BY <1>1, <1>3, DeleteRowIs DEF rid
  <2> HIDE DEF z
  <2>3. w \in Buffering(TRUE, x, p) /\ w.dirty = TRUE
    BY <2>2, MarkSet
  <2> QED
    BY <2>1, <2>3 DEF Scanning, rid
<1> QED
  BY <1>2, <1>3

LEMMA DeleteSlotsIs ==
  ASSUME NEW x \in Sounds(0), NEW p, p # 0, IsHeap(x.pages, p), NEW cond
  PROVE  DeleteSlots(x, p, cond) \in Scanning(TRUE, x, p)
<1> DEFINE slots == x.pages[p].slots
           n == Len(slots)
           X == Scanning(TRUE, x, p)
           s == [i \in DOMAIN slots |-> i]
           b == [x EXCEPT !.buf = x.pages[p], !.dirty = FALSE]
           G == [i \in 1 .. n |-> [y \in X |-> DeleteSlot(y, <<p, i>>, cond)]]
           C == CHOOSE it : it = [t \in SUBSET (DOMAIN s) |->
                  IF t = {} THEN b ELSE DeleteSlot(it[t \ {Max(t)}], <<p, s[Max(t)]>>, cond)]
<1>1. n \in Nat /\ DOMAIN slots = 1 .. n
  BY DEF IsHeap, Heaps
<1>2. ASSUME NEW y \in X, NEW i \in 1 .. n PROVE DeleteSlot(y, <<p, i>>, cond) \in X
  <2>1. <<p, i>> \in Rids
    BY <1>1 DEF Rids, IsHeap, Sounds, PagesOk
  <2> QED
    BY <2>1, DeleteSlotIs
<1>3. G \in [1 .. n -> [X -> X]]
  BY <1>2
<1>4. b \in X
  <2>1. b = WithBuf(x, x.pages[p], FALSE)
    BY DEF WithBuf
  <2> HIDE DEF b
  <2> QED
    BY <2>1, ScanBegins
<1>5. DeleteSlots(x, p, cond) = C[DOMAIN s]
  BY DEF DeleteSlots, DeleteSlot, Then, FoldLeftDomain, FoldLeft, MapThenFoldSet
<1>6. DOMAIN s = 1 .. n /\ \A i \in 1 .. n : s[i] = i
  BY <1>1
<1> HIDE DEF n, X, b, s
<1>7. PICK it \in [SUBSET (1 .. n) -> X] : Folding(it, n, b, G)
  <2> HIDE DEF G
  <2> QED
    BY <1>1, <1>3, <1>4, FoldExists
<1>8. ASSUME NEW t \in SUBSET (1 .. n), t # {}
      PROVE  /\ Max(t) \in 1 .. n /\ t \ {Max(t)} \in SUBSET (1 .. n)
             /\ \A v \in X : G[Max(t)][v] = DeleteSlot(v, <<p, s[Max(t)]>>, cond)
             /\ s[Max(t)] = Max(t)
  BY <1>1, <1>6, <1>8, MaxIs
<1> HIDE DEF G
<1>9. it = [t \in SUBSET (DOMAIN s) |->
              IF t = {} THEN b ELSE DeleteSlot(it[t \ {Max(t)}], <<p, s[Max(t)]>>, cond)]
  BY <1>6, <1>7, <1>8 DEF Folding
<1>10. C = [t \in SUBSET (DOMAIN s) |->
              IF t = {} THEN b ELSE DeleteSlot(C[t \ {Max(t)}], <<p, s[Max(t)]>>, cond)]
  BY <1>9
<1> HIDE DEF C
<1>11. Closed(C, X, n, b)
  <2>1. C[{}] = b
    BY <1>10
  <2>2. ASSUME NEW t \in SUBSET (1 .. n), t # {}, C[t \ {Max(t)}] \in X
        PROVE  C[t] \in X
    <3>1. C[t] = DeleteSlot(C[t \ {Max(t)}], <<p, s[Max(t)]>>, cond)
      <4>1. t \in SUBSET (DOMAIN s)
        BY <1>6
      <4> QED
        BY <1>10, <2>2, <4>1, ZenonT(30)
    <3>2. s[Max(t)] \in 1 .. n
      <4>1. Max(t) \in 1 .. n /\ s[Max(t)] = Max(t)
        BY <1>8, <2>2
      <4> QED
        BY <4>1
    <3> QED
      BY <1>2, <2>2, <3>1, <3>2
  <2> QED
    BY <2>1, <2>2 DEF Closed
<1>12. C[1 .. n] \in X
  BY <1>1, <1>4, <1>11, FoldStays
<1> QED
  BY <1>5, <1>6, <1>12 DEF X

LEMMA DeletePageIs ==
  ASSUME NEW x, NEW y \in Finishing(TRUE, x), NEW p \in Nat, p # 0, NEW cond
  PROVE  DeletePage(y, p, cond) \in Finishing(TRUE, x)
<1> DEFINE z == Flush(DeleteSlots(y, p, cond), p)
<1>1. y \in Sounds(0) /\ Follows(TRUE, x, y, View(y.pages))
  BY DEF Finishing
<1>2. CASE y.out # "ok" \/ p >= y.count \/ y.pages[p].type = "index"
  BY <1>2 DEF DeletePage, Then
<1>3. CASE y.out = "ok" /\ ~(p >= y.count) /\ ~(y.pages[p].type = "index")
  <2>1. DeletePage(y, p, cond) = z
    BY <1>3 DEF DeletePage, Then
  <2>2. IsHeap(y.pages, p)
    <3>1. y.pages \in Seq(Heaps \cup Leaves) /\ y.count = Len(y.pages) + 1
      BY <1>1 DEF Sounds, PagesOk
    <3>2. p \in 1 .. Len(y.pages)
      BY <1>3, <3>1
    <3>3. y.pages[p] \in Heaps \cup Leaves /\ p \in DOMAIN y.pages
      BY <3>1, <3>2
    <3> QED
      BY <1>3, <3>3, Kinds DEF IsHeap
  <2>3. DeleteSlots(y, p, cond) \in Scanning(TRUE, y, p)
    BY <1>1, <2>2, DeleteSlotsIs
  <2> HIDE DEF z
  <2>4. z \in Finishing(TRUE, y)
    BY <2>3, FlushIs DEF z
  <2>5. z \in Sounds(0) /\ Follows(TRUE, y, z, View(z.pages))
    BY <2>4 DEF Finishing
  <2>6. Follows(TRUE, x, z, View(z.pages))
    BY <1>1, <1>3, <2>5, FollowsTrans
  <2> QED
    BY <2>1, <2>5, <2>6 DEF Finishing
<1> QED
  BY <1>2, <1>3

LEMMA DeleteScanned ==
  ASSUME NEW x \in Sounds(0), NEW cond
  PROVE  ScanPages(x, cond, DeleteRow) \in Finishing(TRUE, x)
<1> DEFINE n == MaxPages + 1
           X == Finishing(TRUE, x)
           s == [p \in 1 .. MaxPages + 1 |-> p]
           G == [i \in 1 .. n |-> [y \in X |-> DeletePage(y, i, cond)]]
           C == CHOOSE it : it = [t \in SUBSET (DOMAIN s) |->
                  IF t = {} THEN x ELSE DeletePage(it[t \ {Max(t)}], s[Max(t)], cond)]
<1>1. n \in Nat
  BY TableAssumption
<1>2. ASSUME NEW y \in X, NEW i \in 1 .. n PROVE DeletePage(y, i, cond) \in X
  <2>1. i \in Nat /\ i # 0
    BY <1>1
  <2> QED
    BY <2>1, DeletePageIs
<1>3. G \in [1 .. n -> [X -> X]]
  BY <1>2
<1>4. x \in X
  BY FollowsSame DEF Finishing
<1>5. ScanPages(x, cond, DeleteRow) = C[DOMAIN s]
  BY DEF ScanPages, DeletePage, DeleteSlots, DeleteSlot, Flush, Then, FoldLeftDomain,
         FoldLeft, MapThenFoldSet
<1>6. DOMAIN s = 1 .. n /\ \A i \in 1 .. n : s[i] = i
  OBVIOUS
<1> HIDE DEF n, X, s
<1>7. PICK it \in [SUBSET (1 .. n) -> X] : Folding(it, n, x, G)
  <2> HIDE DEF G
  <2> QED
    BY <1>1, <1>3, <1>4, FoldExists
<1>8. ASSUME NEW t \in SUBSET (1 .. n), t # {}
      PROVE  /\ Max(t) \in 1 .. n /\ t \ {Max(t)} \in SUBSET (1 .. n)
             /\ \A v \in X : G[Max(t)][v] = DeletePage(v, s[Max(t)], cond)
             /\ s[Max(t)] = Max(t)
  BY <1>1, <1>6, <1>8, MaxIs
<1> HIDE DEF G
<1>9. it = [t \in SUBSET (DOMAIN s) |->
              IF t = {} THEN x ELSE DeletePage(it[t \ {Max(t)}], s[Max(t)], cond)]
  BY <1>6, <1>7, <1>8 DEF Folding
<1>10. C = [t \in SUBSET (DOMAIN s) |->
              IF t = {} THEN x ELSE DeletePage(C[t \ {Max(t)}], s[Max(t)], cond)]
  BY <1>9
<1> HIDE DEF C
<1>11. Closed(C, X, n, x)
  <2>1. C[{}] = x
    BY <1>10
  <2>2. ASSUME NEW t \in SUBSET (1 .. n), t # {}, C[t \ {Max(t)}] \in X
        PROVE  C[t] \in X
    <3>1. C[t] = DeletePage(C[t \ {Max(t)}], s[Max(t)], cond)
      <4>1. t \in SUBSET (DOMAIN s)
        BY <1>6
      <4> QED
        BY <1>10, <2>2, <4>1, ZenonT(30)
    <3>2. s[Max(t)] \in 1 .. n
      <4>1. Max(t) \in 1 .. n /\ s[Max(t)] = Max(t)
        BY <1>8, <2>2
      <4> QED
        BY <4>1
    <3> QED
      BY <1>2, <2>2, <3>1, <3>2
  <2> QED
    BY <2>1, <2>2 DEF Closed
<1>12. C[1 .. n] \in X
  BY <1>1, <1>4, <1>11, FoldStays
<1> QED
  BY <1>5, <1>6, <1>12 DEF X

(* A scan by UPDATE, and the steps of its folds.                            *)
UpdateSlot(y, rid, cond, set) ==
  Then(y, LAMBDA z :
    IF RowAt(z.buf, rid[2]) # <<>> /\ Matches(RowAt(z.buf, rid[2]), cond)
    THEN [UpdateRow(z, set, rid) EXCEPT !.dirty = TRUE] ELSE z)
UpdateSlots(x, p, cond, set) ==
  FoldLeftDomain(LAMBDA y, i : UpdateSlot(y, <<p, i>>, cond, set),
                 [x EXCEPT !.buf = x.pages[p], !.dirty = FALSE], x.pages[p].slots)
UpdatePage(y, p, cond, set) ==
  Then(y, LAMBDA x :
    IF p >= x.count \/ x.pages[p].type = "index" THEN x
    ELSE Flush(UpdateSlots(x, p, cond, set), p))

LEMMA UpdateSlotIs ==
  ASSUME RowsFit,
         NEW x, NEW p, p # 0, NEW y \in Scanning(FALSE, x, p), NEW i, <<p, i>> \in Rids,
         NEW cond, NEW set, Setting(set)
  PROVE  UpdateSlot(y, <<p, i>>, cond, set) \in Scanning(FALSE, x, p)
<1> DEFINE rid == <<p, i>>
           z == UpdateRow(y, set, rid)
           w == [z EXCEPT !.dirty = TRUE]
<1>1. y \in Buffering(FALSE, x, p) /\ rid[2] = i
  BY DEF Scanning
<1>2. CASE y.out # "ok" \/ RowAt(y.buf, i) = <<>> \/ ~Matches(RowAt(y.buf, i), cond)
  BY <1>1, <1>2 DEF UpdateSlot, Then
<1>3. CASE y.out = "ok" /\ RowAt(y.buf, i) # <<>> /\ Matches(RowAt(y.buf, i), cond)
  <2>1. UpdateSlot(y, rid, cond, set) = w
    BY <1>1, <1>3 DEF UpdateSlot, Then
  <2> HIDE DEF rid
  <2>2. z \in Buffering(FALSE, x, p)
    BY <1>1, <1>3, UpdateRowIs DEF rid
  <2> HIDE DEF z
  <2>3. w \in Buffering(FALSE, x, p) /\ w.dirty = TRUE
    BY <2>2, MarkSet
  <2> QED
    BY <2>1, <2>3 DEF Scanning, rid
<1> QED
  BY <1>2, <1>3

LEMMA UpdateSlotsIs ==
  ASSUME RowsFit,
         NEW x \in Sounds(0), NEW p, p # 0, IsHeap(x.pages, p), NEW cond, NEW set, Setting(set)
  PROVE  UpdateSlots(x, p, cond, set) \in Scanning(FALSE, x, p)
<1> DEFINE slots == x.pages[p].slots
           n == Len(slots)
           X == Scanning(FALSE, x, p)
           s == [i \in DOMAIN slots |-> i]
           b == [x EXCEPT !.buf = x.pages[p], !.dirty = FALSE]
           G == [i \in 1 .. n |-> [y \in X |-> UpdateSlot(y, <<p, i>>, cond, set)]]
           C == CHOOSE it : it = [t \in SUBSET (DOMAIN s) |->
                  IF t = {} THEN b ELSE UpdateSlot(it[t \ {Max(t)}], <<p, s[Max(t)]>>, cond, set)]
<1>1. n \in Nat /\ DOMAIN slots = 1 .. n
  BY DEF IsHeap, Heaps
<1>2. ASSUME NEW y \in X, NEW i \in 1 .. n PROVE UpdateSlot(y, <<p, i>>, cond, set) \in X
  <2>1. <<p, i>> \in Rids
    BY <1>1 DEF Rids, IsHeap, Sounds, PagesOk
  <2> QED
    BY <2>1, UpdateSlotIs
<1>3. G \in [1 .. n -> [X -> X]]
  BY <1>2
<1>4. b \in X
  <2>1. b = WithBuf(x, x.pages[p], FALSE)
    BY DEF WithBuf
  <2> HIDE DEF b
  <2> QED
    BY <2>1, ScanBegins
<1>5. UpdateSlots(x, p, cond, set) = C[DOMAIN s]
  BY DEF UpdateSlots, UpdateSlot, Then, FoldLeftDomain, FoldLeft, MapThenFoldSet
<1>6. DOMAIN s = 1 .. n /\ \A i \in 1 .. n : s[i] = i
  BY <1>1
<1> HIDE DEF n, X, b, s
<1>7. PICK it \in [SUBSET (1 .. n) -> X] : Folding(it, n, b, G)
  <2> HIDE DEF G
  <2> QED
    BY <1>1, <1>3, <1>4, FoldExists
<1>8. ASSUME NEW t \in SUBSET (1 .. n), t # {}
      PROVE  /\ Max(t) \in 1 .. n /\ t \ {Max(t)} \in SUBSET (1 .. n)
             /\ \A v \in X : G[Max(t)][v] = UpdateSlot(v, <<p, s[Max(t)]>>, cond, set)
             /\ s[Max(t)] = Max(t)
  BY <1>1, <1>6, <1>8, MaxIs
<1> HIDE DEF G
<1>9. it = [t \in SUBSET (DOMAIN s) |->
              IF t = {} THEN b ELSE UpdateSlot(it[t \ {Max(t)}], <<p, s[Max(t)]>>, cond, set)]
  BY <1>6, <1>7, <1>8 DEF Folding
<1>10. C = [t \in SUBSET (DOMAIN s) |->
              IF t = {} THEN b ELSE UpdateSlot(C[t \ {Max(t)}], <<p, s[Max(t)]>>, cond, set)]
  BY <1>9
<1> HIDE DEF C
<1>11. Closed(C, X, n, b)
  <2>1. C[{}] = b
    BY <1>10
  <2>2. ASSUME NEW t \in SUBSET (1 .. n), t # {}, C[t \ {Max(t)}] \in X
        PROVE  C[t] \in X
    <3>1. C[t] = UpdateSlot(C[t \ {Max(t)}], <<p, s[Max(t)]>>, cond, set)
      <4>1. t \in SUBSET (DOMAIN s)
        BY <1>6
      <4> QED
        BY <1>10, <2>2, <4>1, ZenonT(30)
    <3>2. s[Max(t)] \in 1 .. n
      <4>1. Max(t) \in 1 .. n /\ s[Max(t)] = Max(t)
        BY <1>8, <2>2
      <4> QED
        BY <4>1
    <3> QED
      BY <1>2, <2>2, <3>1, <3>2
  <2> QED
    BY <2>1, <2>2 DEF Closed
<1>12. C[1 .. n] \in X
  BY <1>1, <1>4, <1>11, FoldStays
<1> QED
  BY <1>5, <1>6, <1>12 DEF X

LEMMA UpdatePageIs ==
  ASSUME RowsFit,
         NEW x, NEW y \in Finishing(FALSE, x), NEW p \in Nat, p # 0, NEW cond, NEW set, Setting(set)
  PROVE  UpdatePage(y, p, cond, set) \in Finishing(FALSE, x)
<1> DEFINE z == Flush(UpdateSlots(y, p, cond, set), p)
<1>1. y \in Sounds(0) /\ Follows(FALSE, x, y, View(y.pages))
  BY DEF Finishing
<1>2. CASE y.out # "ok" \/ p >= y.count \/ y.pages[p].type = "index"
  BY <1>2 DEF UpdatePage, Then
<1>3. CASE y.out = "ok" /\ ~(p >= y.count) /\ ~(y.pages[p].type = "index")
  <2>1. UpdatePage(y, p, cond, set) = z
    BY <1>3 DEF UpdatePage, Then
  <2>2. IsHeap(y.pages, p)
    <3>1. y.pages \in Seq(Heaps \cup Leaves) /\ y.count = Len(y.pages) + 1
      BY <1>1 DEF Sounds, PagesOk
    <3>2. p \in 1 .. Len(y.pages)
      BY <1>3, <3>1
    <3>3. y.pages[p] \in Heaps \cup Leaves /\ p \in DOMAIN y.pages
      BY <3>1, <3>2
    <3> QED
      BY <1>3, <3>3, Kinds DEF IsHeap
  <2>3. UpdateSlots(y, p, cond, set) \in Scanning(FALSE, y, p)
    BY <1>1, <2>2, UpdateSlotsIs
  <2> HIDE DEF z
  <2>4. z \in Finishing(FALSE, y)
    BY <2>3, FlushIs DEF z
  <2>5. z \in Sounds(0) /\ Follows(FALSE, y, z, View(z.pages))
    BY <2>4 DEF Finishing
  <2>6. Follows(FALSE, x, z, View(z.pages))
    BY <1>1, <1>3, <2>5, FollowsTrans
  <2> QED
    BY <2>1, <2>5, <2>6 DEF Finishing
<1> QED
  BY <1>2, <1>3

LEMMA UpdateScanned ==
  ASSUME RowsFit, NEW x \in Sounds(0), NEW cond, NEW set, Setting(set)
  PROVE  FullScanUpdate(x, cond, set) \in Finishing(FALSE, x)
<1> DEFINE n == MaxPages + 1
           X == Finishing(FALSE, x)
           s == [p \in 1 .. MaxPages + 1 |-> p]
           G == [i \in 1 .. n |-> [y \in X |-> UpdatePage(y, i, cond, set)]]
           C == CHOOSE it : it = [t \in SUBSET (DOMAIN s) |->
                  IF t = {} THEN x ELSE UpdatePage(it[t \ {Max(t)}], s[Max(t)], cond, set)]
<1>1. n \in Nat
  BY TableAssumption
<1>2. ASSUME NEW y \in X, NEW i \in 1 .. n PROVE UpdatePage(y, i, cond, set) \in X
  <2>1. i \in Nat /\ i # 0
    BY <1>1
  <2> QED
    BY <2>1, UpdatePageIs
<1>3. G \in [1 .. n -> [X -> X]]
  BY <1>2
<1>4. x \in X
  BY FollowsSame DEF Finishing
<1>5. FullScanUpdate(x, cond, set) = Then(C[DOMAIN s], WriteHeader)
  BY DEF FullScanUpdate, ScanPages, UpdatePage, UpdateSlots, UpdateSlot, Flush, Then,
         WriteHeader, FoldLeftDomain, FoldLeft, MapThenFoldSet
<1>6. DOMAIN s = 1 .. n /\ \A i \in 1 .. n : s[i] = i
  OBVIOUS
<1> HIDE DEF n, X, s
<1>7. PICK it \in [SUBSET (1 .. n) -> X] : Folding(it, n, x, G)
  <2> HIDE DEF G
  <2> QED
    BY <1>1, <1>3, <1>4, FoldExists
<1>8. ASSUME NEW t \in SUBSET (1 .. n), t # {}
      PROVE  /\ Max(t) \in 1 .. n /\ t \ {Max(t)} \in SUBSET (1 .. n)
             /\ \A v \in X : G[Max(t)][v] = UpdatePage(v, s[Max(t)], cond, set)
             /\ s[Max(t)] = Max(t)
  BY <1>1, <1>6, <1>8, MaxIs
<1> HIDE DEF G
<1>9. it = [t \in SUBSET (DOMAIN s) |->
              IF t = {} THEN x ELSE UpdatePage(it[t \ {Max(t)}], s[Max(t)], cond, set)]
  BY <1>6, <1>7, <1>8 DEF Folding
<1>10. C = [t \in SUBSET (DOMAIN s) |->
              IF t = {} THEN x ELSE UpdatePage(C[t \ {Max(t)}], s[Max(t)], cond, set)]
  BY <1>9
<1> HIDE DEF C
<1>11. Closed(C, X, n, x)
  <2>1. C[{}] = x
    BY <1>10
  <2>2. ASSUME NEW t \in SUBSET (1 .. n), t # {}, C[t \ {Max(t)}] \in X
        PROVE  C[t] \in X
    <3>1. C[t] = UpdatePage(C[t \ {Max(t)}], s[Max(t)], cond, set)
      <4>1. t \in SUBSET (DOMAIN s)
        BY <1>6
      <4> QED
        BY <1>10, <2>2, <4>1, ZenonT(30)
    <3>2. s[Max(t)] \in 1 .. n
      <4>1. Max(t) \in 1 .. n /\ s[Max(t)] = Max(t)
        BY <1>8, <2>2
      <4> QED
        BY <4>1
    <3> QED
      BY <1>2, <2>2, <3>1, <3>2
  <2> QED
    BY <2>1, <2>2 DEF Closed
<1>12. C[1 .. n] \in X
  BY <1>1, <1>4, <1>11, FoldStays
<1> DEFINE z == C[DOMAIN s]
<1>13. z \in Finishing(FALSE, x)
  BY <1>6, <1>12 DEF X
<1> HIDE DEF z
<1>14. Then(z, WriteHeader) \in Finishing(FALSE, x)
  BY <1>13, HeaderBack
<1> QED
  BY <1>5, <1>14 DEF z

-----------------------------------------------------------------------------
(* Statements that find their row through an index.                         *)

LEMMA TargetIs ==
  ASSUME NEW p, NEW x \in Sounds(p), x.out = "ok", NEW cond, Lookup(x, cond) = "found"
  PROVE  Target(x, cond) \in Rids /\ IsHeap(x.pages, Target(x, cond)[1])
<1> DEFINE c == cond.column
           k == Key(cond.value)
           e == Ent(x.pages, x.roots[c])
<1>1. c \in Indexed /\ k \in DOMAIN Entries(x, c)
  BY DEF Lookup
<1>2. Entries(x, c) = e
  BY <1>1, AllReadable
<1>3. PagesOk(x.pages) /\ Rooted(x.pages, x.roots)
  BY DEF Sounds, Header
<1>4. e \in Maps /\ Into(x.pages, e)
  BY <1>1, <1>3, EntMap
<1>5. Target(x, cond) = e[k]
  BY <1>2 DEF Target
<1> HIDE DEF c, k, e
<1> QED
  BY <1>1, <1>2, <1>4, <1>5, MapIs DEF Into

LEMMA PageRead2 ==
  ASSUME NEW leads, NEW x \in Sounds(0), NEW p, p # 0, IsHeap(x.pages, p),
         NEW y, y = [x EXCEPT !.buf = x.pages[p]]
  PROVE  y \in Buffering(leads, x, p) /\ y.buf = x.pages[p] /\ y.out = x.out
<1>1. x \in Execs /\ x.dirty \in BOOLEAN
  BY DEF Sounds, Execs
<1>2. y = ReadPage(x, p, x.dirty)
  BY <1>1 DEF ReadPage, WithBuf, Execs
<1> DEFINE z == ReadPage(x, p, x.dirty)
<1>3. z \in Buffering(leads, x, p)
  BY <1>1, PageRead
<1>4. z.buf = x.pages[p]
  BY <1>1, PageRead
<1>5. z.out = x.out
  BY <1>1, PageRead
<1> QED
  BY <1>2, <1>3, <1>4, <1>5

LEMMA DeleteFoundIs ==
  ASSUME NEW x \in Sounds(0), x.out = "ok", NEW rid \in Rids, IsHeap(x.pages, rid[1])
  PROVE  DeleteFound(x, rid) \in Finishing(TRUE, x)
<1> DEFINE p == rid[1]
           i == rid[2]
           y == [x EXCEPT !.buf = x.pages[p]]
           z == DeleteRow(y, rid)
           page == Recalc(z.buf)
           w == IF z.out = "ok" THEN WritePage(z, p, page) ELSE z
<1>1. p # 0 /\ rid = <<p, i>> /\ <<p, i>> \in Rids /\ p \in Nat
      /\ ~(rid[1] >= x.count)
  <2>1. p \in 1 .. Len(x.pages) /\ x.count = Len(x.pages) + 1 /\ Len(x.pages) \in Nat
    BY DEF IsHeap, Sounds, PagesOk
  <2>2. rid = <<p, i>>
    BY DEF Rids
  <2> QED
    BY <2>1, <2>2
<1>2. CASE RowAt(y.buf, i) = <<>>
  <2>1. DeleteFound(x, rid) = x
    BY <1>1, <1>2 DEF DeleteFound
  <2> QED
    BY <2>1, FollowsSame DEF Finishing
<1>3. CASE RowAt(y.buf, i) # <<>>
  <2>1. DeleteFound(x, rid) = Then(w, WriteHeader)
    BY <1>1, <1>3 DEF DeleteFound, Then
  <2>2. y \in Buffering(TRUE, x, p) /\ y.out = "ok"
    <3> DEFINE yy == y
    <3>1. yy = [x EXCEPT !.buf = x.pages[p]]
      OBVIOUS
    <3> HIDE DEF yy
    <3>2. yy \in Buffering(TRUE, x, p) /\ yy.out = x.out
      BY <1>1, <3>1, PageRead2
    <3> QED
      BY <3>2 DEF yy
  <2> HIDE DEF y
  <2>3. z \in Buffering(TRUE, x, p)
    <3>1. z = DeleteRow(y, <<p, i>>)
      BY <1>1
    <3> HIDE DEF z, p, i
    <3> QED
      BY <1>1, <1>3, <2>2, <3>1, DeleteRowIs
  <2> HIDE DEF z
  <2>4. z.buf \in Heaps
    BY <2>3 DEF Buffering, Sounds, Execs
  <2>5. page \in Heaps /\ page.slots = z.buf.slots
    BY <2>4, HeapsPacked, RecalcIs
  <2> HIDE DEF page
  <2>6. w \in Finishing(TRUE, x)
    <3>1. CASE z.out # "ok"
      BY <2>3, <3>1, BufferFailed
    <3>2. CASE z.out = "ok"
      BY <1>1, <2>3, <2>5, <3>2, PageBack
    <3> QED
      BY <3>1, <3>2
  <2> HIDE DEF w
  <2> QED
    BY <2>1, <2>6, HeaderBack
<1> QED
  BY <1>2, <1>3

LEMMA UpdateFoundIs ==
  ASSUME RowsFit,
         NEW x \in Sounds(0), x.out = "ok", NEW rid \in Rids, IsHeap(x.pages, rid[1]),
         NEW set, Setting(set)
  PROVE  UpdateFound(x, rid, set) \in Finishing(FALSE, x)
<1> DEFINE p == rid[1]
           i == rid[2]
           y == [x EXCEPT !.buf = x.pages[p]]
           z == UpdateRow(y, set, rid)
           w == IF z.out = "ok" THEN WritePage(z, p, z.buf) ELSE z
<1>1. p # 0 /\ rid = <<p, i>> /\ <<p, i>> \in Rids /\ p \in Nat
      /\ ~(rid[1] >= x.count)
  <2>1. p \in 1 .. Len(x.pages) /\ x.count = Len(x.pages) + 1 /\ Len(x.pages) \in Nat
    BY DEF IsHeap, Sounds, PagesOk
  <2>2. rid = <<p, i>>
    BY DEF Rids
  <2> QED
    BY <2>1, <2>2
<1>2. CASE RowAt(y.buf, i) = <<>>
  <2>1. UpdateFound(x, rid, set) = x
    BY <1>1, <1>2 DEF UpdateFound
  <2> QED
    BY <2>1, FollowsSame DEF Finishing
<1>3. CASE RowAt(y.buf, i) # <<>>
  <2>1. UpdateFound(x, rid, set) \in {w, Then(w, WriteHeader)}
    BY <1>1, <1>3 DEF UpdateFound, Then
  <2>2. y \in Buffering(FALSE, x, p) /\ y.out = "ok"
    <3> DEFINE yy == y
    <3>1. yy = [x EXCEPT !.buf = x.pages[p]]
      OBVIOUS
    <3> HIDE DEF yy
    <3>2. yy \in Buffering(FALSE, x, p) /\ yy.out = x.out
      BY <1>1, <3>1, PageRead2
    <3> QED
      BY <3>2 DEF yy
  <2> HIDE DEF y
  <2>3. z \in Buffering(FALSE, x, p)
    <3>1. z = UpdateRow(y, set, <<p, i>>)
      BY <1>1
    <3> HIDE DEF z, p, i
    <3> QED
      BY <1>1, <1>3, <2>2, <3>1, UpdateRowIs
  <2> HIDE DEF z
  <2>4. z.buf \in Heaps
    BY <2>3 DEF Buffering, Sounds, Execs
  <2>5. w \in Finishing(FALSE, x)
    <3>1. CASE z.out # "ok"
      BY <2>3, <3>1, BufferFailed
    <3>2. CASE z.out = "ok"
      <4> DEFINE page == z.buf
      <4>1. page \in Heaps /\ page.slots = z.buf.slots /\ w = WritePage(z, p, page)
        BY <2>4, <3>2
      <4> HIDE DEF page, w
      <4> QED
        BY <1>1, <2>3, <3>2, <4>1, PageBack
    <3> QED
      BY <3>1, <3>2
  <2> HIDE DEF w
  <2>6. Then(w, WriteHeader) \in Finishing(FALSE, x)
    BY <2>5, HeaderBack
  <2> QED
    BY <2>1, <2>5, <2>6
<1> QED
  BY <1>2, <1>3

-----------------------------------------------------------------------------
(* The statements.                                                          *)

LEMMA Refused ==
  ASSUME NEW leads, NEW x \in Sounds(0), NEW y, y \in {x, Throw(x), OutOfBounds(x)}
  PROVE  y \in Finishing(leads, x)
<1>1. CASE y = x
  BY <1>1, FollowsSame DEF Finishing
<1>2. ASSUME NEW o \in {"error", "io error", "stopped"}, y = [x EXCEPT !.out = o]
      PROVE  y \in Finishing(leads, x)
  <2> DEFINE z == [x EXCEPT !.out = o]
  <2>1. z \in Sounds(0) /\ z.out = o /\ z.pages = x.pages /\ Headers(x, z) /\ Frame(x, z)
    <3>1. z \in Sounds(0)
      BY Ending, ZenonT(30)
    <3>2. z.out = o /\ z.pages = x.pages
      BY Ending, ZenonT(30)
    <3>3. Headers(x, z) /\ Frame(x, z)
      BY Ending, ZenonT(30)
    <3> QED
      BY <3>1, <3>2, <3>3
  <2>2. z.out # "ok"
    BY <2>1
  <2> HIDE DEF z
  <2>3. y = z
    BY <1>2 DEF z
  <2>4. Follows(leads, x, z, View(z.pages))
    BY <2>1, <2>2 DEF Follows, Safe, HeaderWritten, LeadsAfter, FileTied, Headers, Frame
  <2> QED
    BY <2>1, <2>3, <2>4 DEF Finishing
<1>3. CASE y \in {Throw(x), OutOfBounds(x)}
  BY <1>2, <1>3 DEF Throw, OutOfBounds
<1> QED
  BY <1>1, <1>3

LEMMA ExecuteDeleteIs ==
  ASSUME NEW x \in Sounds(0), x.out = "ok", NEW cond,
         NEW y, y = ExecuteDelete(x, cond)
  PROVE  y \in Finishing(TRUE, x)
<1>1. CASE Lookup(x, cond) = "found"
  <2> DEFINE rid == Target(x, cond)
  <2>1. rid \in Rids /\ IsHeap(x.pages, rid[1])
    BY <1>1, TargetIs
  <2>2. y = DeleteFound(x, rid)
    BY <1>1 DEF ExecuteDelete
  <2> HIDE DEF rid
  <2> QED
    BY <2>1, <2>2, DeleteFoundIs
<1>2. CASE Lookup(x, cond) = "not found"
  <2> DEFINE s == ScanPages(x, cond, DeleteRow)
  <2>1. s \in Finishing(TRUE, x)
    BY DeleteScanned
  <2>2. y \in {s, Then(s, WriteHeader)}
    BY <1>2 DEF ExecuteDelete, FullScanDelete
  <2> HIDE DEF s
  <2>3. Then(s, WriteHeader) \in Finishing(TRUE, x)
    BY <2>1, HeaderBack
  <2> QED
    BY <2>1, <2>2, <2>3
<1>3. CASE Lookup(x, cond) \notin {"found", "not found"}
  <2>1. y \in {x, Throw(x), OutOfBounds(x)}
    BY <1>3 DEF ExecuteDelete, Lookup
  <2> QED
    BY <2>1, Refused
<1> QED
  BY <1>1, <1>2, <1>3

LEMMA ExecuteUpdateIs ==
  ASSUME RowsFit,
         NEW x \in Sounds(0), x.out = "ok", NEW cond, NEW set, Setting(set),
         NEW y, y = ExecuteUpdate(x, cond, set)
  PROVE  y \in Finishing(FALSE, x)
<1>1. CASE Lookup(x, cond) = "found"
  <2> DEFINE rid == Target(x, cond)
  <2>1. rid \in Rids /\ IsHeap(x.pages, rid[1])
    BY <1>1, TargetIs
  <2>2. y = UpdateFound(x, rid, set)
    BY <1>1 DEF ExecuteUpdate
  <2> HIDE DEF rid
  <2> QED
    BY <2>1, <2>2, UpdateFoundIs
<1>2. CASE Lookup(x, cond) = "not found"
  <2>1. y = x
    BY <1>2 DEF ExecuteUpdate
  <2> QED
    BY <2>1, Refused
<1>3. CASE Lookup(x, cond) \notin {"found", "not found"}
  <2>1. y = FullScanUpdate(x, cond, set)
    BY <1>3 DEF ExecuteUpdate
  <2> QED
    BY <2>1, UpdateScanned
<1> QED
  BY <1>1, <1>2, <1>3

-----------------------------------------------------------------------------
(* The file between the statements.                                         *)

(* No process that has the file open read its page count before another     *)
(* process extended it.                                                     *)
Fresh == \A p \in Processes : opened[p] \in {0, Len(pages) + 1}

FileHas(exact) ==
  \A c \in Indexed : Tied(exact, Ent(pages, roots[c]), c, View(pages))

FileInv ==
  /\ PagesOk(pages)
  /\ roots \in [Indexed -> Nat] /\ Rooted(pages, roots)
  /\ events = {} => FileHas(TRUE)
  /\ events \subseteq {"insert", "delete"} => FileHas(FALSE)

(* What a statement makes of the file.                                      *)
Result(x, y, kind) ==
  /\ y \in Sounds(0)
  /\ y.events = {} /\ kind # "update" => LeadsAfter(x, y)
  /\ y.out = "ok" /\ y.events = {} => \A exact \in BOOLEAN :
       AllTied(exact, x, View(x.pages))
       => HeaderWritten(y) /\ AllTied(exact, y, View(y.pages))

LEMMA StartIs ==
  ASSUME FileInv, NEW p \in Processes, opened[p] = Len(pages) + 1, NEW n \in Stops
  PROVE  /\ Start(p, n) \in Sounds(0) /\ Start(p, n).out = "ok" /\ Safe(Start(p, n))
         /\ Start(p, n).pages = pages /\ Start(p, n).disk = roots
         /\ Start(p, n).roots = roots
<1>1. n \in Nat
  BY TableAssumption
<1>2. pages \in Seq(Heaps \cup Leaves) /\ roots \in [Indexed -> Nat]
      /\ PagesOk(pages) /\ Rooted(pages, roots) /\ Len(pages) + 1 \in Nat
  BY DEF FileInv, PagesOk
<1> DEFINE x == Start(p, n)
<1>3. /\ x.pages = pages /\ x.disk = roots /\ x.roots = roots /\ x.out = "ok"
      /\ x.events = {} /\ x.count = Len(pages) + 1
  BY DEF Start
<1>4. x \in Execs
  BY <1>1, <1>2, EmptyHeaps DEF Start, Execs
<1> HIDE DEF x
<1>5. x \in Sounds(0)
  BY <1>2, <1>3, <1>4 DEF Sounds, Header
<1> QED
  BY <1>3, <1>5 DEF Safe, HeaderWritten, x

LEMMA FinishingResult ==
  ASSUME NEW leads \in BOOLEAN, NEW x, Safe(x), NEW y \in Finishing(leads, x), NEW kind,
         kind # "update" => leads
  PROVE  Result(x, y, kind)
BY DEF Finishing, Follows, Result, Safe

LEMMA InsertResult ==
  ASSUME RowsFit, NEW x \in Sounds(0), x.out = "ok", Safe(x), NEW row \in RowSet
  PROVE  Result(x, InsertRow(x, row), "insert")
<1> DEFINE y == InsertRow(x, row)
<1>1. y \in Sounds(0) /\ LeadsAfter(x, y) /\ AgreesAfter(x, y)
  <2> DEFINE z == y
  <2>1. z = InsertRow(x, row) /\ HeaderWritten(x)
    BY DEF Safe
  <2> HIDE DEF z
  <2>2. z \in Sounds(0) /\ LeadsAfter(x, z) /\ AgreesAfter(x, z)
    BY <2>1, InsertRowIs
  <2> QED
    BY <2>2 DEF z
<1> HIDE DEF y
<1> SUFFICES Result(x, y, "insert")
  BY DEF y
<1> QED
  BY <1>1 DEF Result, AgreesAfter

LEMMA EndKeeps ==
  ASSUME FileInv, NEW p, NEW statement, NEW x, x.pages = pages, x.disk = roots, Safe(x),
         NEW y, Result(x, y, statement[1]), End(p, statement, y),
         statement[1] \in {"insert", "update", "delete"}
  PROVE  FileInv'
<1>1. /\ pages' = y.pages /\ roots' = y.disk
      /\ events' = events \cup y.events \cup
           (IF y.out # "ok" /\ <<y.pages, y.disk>> # <<pages, roots>>
            THEN {statement[1]} ELSE {})
  BY DEF End
<1>2. /\ y \in Sounds(0) /\ y \in Execs /\ PagesOk(y.pages) /\ Rooted(y.pages, y.disk)
      /\ y.disk \in [Indexed -> Nat] /\ y.events \in SUBSET {"stale", "lost", "nulled"}
  BY DEF Result, Sounds, Header, Execs
<1>3. PagesOk(pages)' /\ (roots \in [Indexed -> Nat])' /\ Rooted(pages, roots)'
  BY <1>1, <1>2
<1>4. x.disk = x.roots
  BY DEF Safe, HeaderWritten
<1>5. ASSUME y.out = "ok", y.events = {}, NEW exact \in BOOLEAN, FileHas(exact)
      PROVE  FileHas(exact)'
  <2>1. AllTied(exact, x, View(x.pages))
    BY <1>4, <1>5 DEF FileHas, AllTied
  <2>2. AllTied(exact, y, View(y.pages)) /\ y.disk = y.roots
    BY <1>5, <2>1 DEF Result, HeaderWritten
  <2> QED
    BY <1>1, <2>2 DEF FileHas, AllTied
<1>6. ASSUME y.events = {}, statement[1] # "update", FileHas(FALSE)
      PROVE  FileHas(FALSE)'
  <2>1. FileTied(x, View(x.pages))
    BY <1>6 DEF FileHas, FileTied
  <2>2. FileTied(y, View(y.pages))
    BY <1>6, <2>1 DEF Result, LeadsAfter
  <2> QED
    BY <1>1, <2>2 DEF FileHas, FileTied
<1>7. ASSUME <<y.pages, y.disk>> = <<pages, roots>>, NEW exact, FileHas(exact)
      PROVE  FileHas(exact)'
  BY <1>1, <1>7 DEF FileHas
<1>8. ASSUME events' = {} PROVE FileHas(TRUE)'
  <2>1. events = {} /\ y.events = {}
        /\ (y.out = "ok" \/ <<y.pages, y.disk>> = <<pages, roots>>)
    BY <1>1, <1>8
  <2>2. FileHas(TRUE)
    BY <2>1 DEF FileInv
  <2> QED
    BY <1>5, <1>7, <2>1, <2>2
<1>9. ASSUME events' \subseteq {"insert", "delete"} PROVE FileHas(FALSE)'
  <2>1. events \subseteq {"insert", "delete"} /\ y.events \subseteq {"insert", "delete"}
        /\ (y.out = "ok" \/ <<y.pages, y.disk>> = <<pages, roots>>
            \/ statement[1] # "update")
    BY <1>1, <1>9
  <2>2. y.events = {}
    BY <1>2, <2>1
  <2>3. FileHas(FALSE)
    BY <2>1 DEF FileInv
  <2> QED
    BY <1>5, <1>6, <1>7, <2>1, <2>2, <2>3
<1> QED
  BY <1>3, <1>8, <1>9 DEF FileInv

LEMMA EmptyFile ==
  ASSUME NEW pg, pg = <<>>, NEW rt, rt = [c \in Indexed |-> 0]
  PROVE  /\ PagesOk(pg) /\ rt \in [Indexed -> Nat] /\ Rooted(pg, rt)
         /\ \A exact, c : c \in Indexed => Tied(exact, Ent(pg, rt[c]), c, View(pg))
<1>1. PagesOk(pg) /\ rt \in [Indexed -> Nat] /\ Rooted(pg, rt)
  BY DEF PagesOk, Pointing, Rooted
<1>2. View(pg) = [rid \in Rids |-> <<>>]
  <2>1. \A p : ~IsHeap(pg, p)
    BY DEF IsHeap
  <2> QED
    BY <2>1 DEF View
<1>3. ASSUME NEW exact, NEW c \in Indexed PROVE Tied(exact, Ent(pg, rt[c]), c, View(pg))
  <2>1. Ent(pg, rt[c]) = <<>>
    BY DEF Ent
  <2> QED
    BY <1>2, <2>1, EmptyMap DEF Tied, Leading, Covering
<1> QED
  BY <1>1, <1>3

LEMMA FileInit ==
  Init => FileInv
BY EmptyFile DEF Init, FileInv, FileHas

LEMMA FileStep ==
  RowsFit /\ FileInv /\ Fresh /\ [Next]_vars => FileInv'
<1> SUFFICES ASSUME RowsFit, FileInv, Fresh, [Next]_vars PROVE FileInv'
  OBVIOUS
<1>1. ASSUME UNCHANGED <<pages, roots, events>> PROVE FileInv'
  BY <1>1 DEF FileInv, FileHas
<1>2. ASSUME NEW p \in Processes, opened[p] # 0, NEW n \in Stops
      PROVE  /\ Start(p, n) \in Sounds(0) /\ Start(p, n).out = "ok" /\ Safe(Start(p, n))
             /\ Start(p, n).pages = pages /\ Start(p, n).disk = roots
  BY <1>2, StartIs DEF Fresh
<1>3. ASSUME NEW p \in Processes, Insert(p) PROVE FileInv'
  <2>1. PICK row \in Inserts, n \in Stops :
          End(p, <<"insert", row>>, InsertRow(Start(p, n), row))
    BY <1>3 DEF Insert
  <2> DEFINE x == Start(p, n)
             y == InsertRow(x, row)
             statement == <<"insert", row>>
  <2>2. /\ x \in Sounds(0) /\ x.out = "ok" /\ Safe(x)
        /\ x.pages = pages /\ x.disk = roots
    BY <1>2, <1>3 DEF Insert
  <2>3. row \in RowSet
    BY StatementsAssumption
  <2> HIDE DEF x
  <2>4. Result(x, y, statement[1]) /\ statement[1] = "insert"
    BY <2>2, <2>3, InsertResult
  <2>5. End(p, statement, y)
    BY <2>1 DEF x
  <2> HIDE DEF y, statement
  <2> QED
    BY <2>2, <2>4, <2>5, EndKeeps
<1>4. ASSUME NEW p \in Processes, Update(p) PROVE FileInv'
  <2>1. PICK u \in Updates, n \in Stops :
          End(p, <<"update", u[1], u[2]>>, ExecuteUpdate(Start(p, n), u[1], u[2]))
    BY <1>4 DEF Update
  <2> DEFINE x == Start(p, n)
             y == ExecuteUpdate(x, u[1], u[2])
             statement == <<"update", u[1], u[2]>>
             set == u[2]
             cond == u[1]
  <2>2. /\ x \in Sounds(0) /\ x.out = "ok" /\ Safe(x)
        /\ x.pages = pages /\ x.disk = roots
    BY <1>2, <1>4 DEF Update
  <2>3. Setting(set)
    BY StatementsAssumption DEF Setting
  <2>4. End(p, statement, y) /\ statement[1] = "update" /\ y = ExecuteUpdate(x, cond, set)
    BY <2>1
  <2> HIDE DEF x, y, set, cond, statement
  <2>5. y \in Finishing(FALSE, x)
    BY <2>2, <2>3, <2>4, ExecuteUpdateIs
  <2>6. Result(x, y, statement[1])
    BY <2>2, <2>4, <2>5, FinishingResult
  <2> QED
    BY <2>2, <2>4, <2>6, EndKeeps
<1>5. ASSUME NEW p \in Processes, Delete(p) PROVE FileInv'
  <2>1. PICK cond \in Deletes, n \in Stops :
          End(p, <<"delete", cond>>, ExecuteDelete(Start(p, n), cond))
    BY <1>5 DEF Delete
  <2> DEFINE x == Start(p, n)
             y == ExecuteDelete(x, cond)
             statement == <<"delete", cond>>
  <2>2. /\ x \in Sounds(0) /\ x.out = "ok" /\ Safe(x)
        /\ x.pages = pages /\ x.disk = roots
    BY <1>2, <1>5 DEF Delete
  <2>4. End(p, statement, y) /\ statement[1] = "delete" /\ y = ExecuteDelete(x, cond)
    BY <2>1
  <2> HIDE DEF x, y, statement
  <2>5. y \in Finishing(TRUE, x)
    BY <2>2, <2>4, ExecuteDeleteIs
  <2>6. Result(x, y, statement[1])
    BY <2>2, <2>4, <2>5, FinishingResult
  <2> QED
    BY <2>2, <2>4, <2>6, EndKeeps
<1>6. ASSUME CreateTable PROVE FileInv'
  <2>1. pages' = <<>> /\ roots' = [c \in Indexed |-> 0]
    BY <1>6 DEF CreateTable
  <2> QED
    BY <2>1, EmptyFile DEF FileInv, FileHas
<1> QED
  BY <1>1, <1>3, <1>4, <1>5, <1>6 DEF Next, vars, Open, DropTable

-----------------------------------------------------------------------------
(* What the file's invariant says in the terms of the table.                *)

LEMMA ArrayFits ==
  ASSUME NEW page \in Heaps, NEW i \in DOMAIN page.slots
  PROVE  i \in 1 .. Room
<1> DEFINE n == Len(page.slots)
           S == { k \in 0 .. n : k <= SlotSize * k }
<1>1. n \in Nat /\ i \in 1 .. n /\ page.used \in Nat /\ page.free \in Nat
      /\ page.used + SlotSize * n + page.free <= Room
  BY DEF Heaps
<1>2. SlotSize \in Nat /\ Room \in Nat /\ SlotSize > 0
  BY TableAssumption
<1> HIDE DEF n
<1>3. 0 \in S
  BY <1>1, <1>2
<1>4. ASSUME NEW k \in 1 .. n, k - 1 \in S PROVE k \in S
  <2>1. k - 1 \in Nat /\ k \in Nat /\ k \in 0 .. n /\ k = (k - 1) + 1
    BY <1>1
  <2> DEFINE a == SlotSize * (k - 1)
             b == SlotSize * k
  <2>2. b = a + SlotSize /\ a \in Nat
    <3> DEFINE j == k - 1
    <3>1. j \in Nat /\ k = j + 1
      BY <2>1
    <3> HIDE DEF j
    <3>2. SlotSize * (j + 1) = SlotSize * j + SlotSize /\ SlotSize * j \in Nat
      BY <3>1, ArrayNat
    <3> QED
      BY <3>1, <3>2 DEF j
  <2>3. k - 1 <= a
    BY <1>4
  <2> HIDE DEF a, b
  <2>4. k <= b
    BY <1>2, <2>1, <2>2, <2>3
  <2> QED
    BY <2>1, <2>4 DEF b
<1>5. \A k \in 0 .. n : k \in S
  <2> HIDE DEF S
  <2> QED
    BY <1>1, <1>3, <1>4, Upward
<1>6. n \in 0 .. n
  BY <1>1
<1>7. n <= SlotSize * n
  BY <1>5, <1>6
<1> DEFINE e == SlotSize * n
<1>8. e \in Nat
  BY <1>1, ArrayNat
<1> HIDE DEF e
<1>9. i <= e /\ e <= Room
  <2>1. page.used + e + page.free <= Room
    BY <1>1 DEF e
  <2>2. n <= e
    BY <1>7 DEF e
  <2> QED
    BY <1>1, <1>2, <1>8, <2>1, <2>2
<1> QED
  BY <1>1, <1>2, <1>8, <1>9

LEMMA LiveIs ==
  ASSUME PagesOk(pages), NEW rid
  PROVE  /\ rid \in Live <=> rid \in Rids /\ View(pages)[rid] # <<>>
         /\ rid \in Live => RowOf(rid) = View(pages)[rid]
<1>1. \A q \in DOMAIN pages : q \in Nat /\ (IsHeap(pages, q) <=> pages[q].type = "heap")
  BY Kinds DEF PagesOk, IsHeap
<1>2. \A i \in 1 .. Room : i \in Nat
  BY TableAssumption
<1>3. ASSUME rid \in Live
      PROVE  rid \in Rids /\ View(pages)[rid] # <<>> /\ RowOf(rid) = View(pages)[rid]
  <2>1. PICK p \in DOMAIN pages, i \in 1 .. Room : pages[p].type = "heap" /\ rid = <<p, i>>
    BY <1>3 DEF Live, HeapRids
  <2>2. rid \in Rids /\ IsHeap(pages, rid[1])
    BY <1>1, <1>2, <2>1 DEF Rids
  <2>3. RowOf(rid) # <<>>
    BY <1>3 DEF Live
  <2> QED
    BY <2>2, <2>3 DEF View, RowOf
<1>4. ASSUME rid \in Rids, View(pages)[rid] # <<>> PROVE rid \in Live
  <2> DEFINE p == rid[1]
             i == rid[2]
  <2>1. IsHeap(pages, p) /\ RowAt(pages[p], i) # <<>>
    BY <1>4 DEF View
  <2>2. i \in DOMAIN pages[p].slots /\ pages[p] \in Heaps /\ p \in DOMAIN pages
    BY <2>1 DEF RowAt, IsHeap
  <2>3. i \in 1 .. Room
    BY <2>2, ArrayFits
  <2>4. pages[p].type = "heap" /\ rid = <<p, i>>
    BY <1>1, <1>4, <2>1, <2>2 DEF Rids
  <2>5. rid \in HeapRids
    BY <2>2, <2>3, <2>4 DEF HeapRids
  <2> QED
    BY <2>1, <2>5 DEF Live, RowOf
<1> QED
  BY <1>3, <1>4

LEMMA SpaceFromInv ==
  FileInv => SpaceAccounted
<1> SUFFICES ASSUME FileInv, NEW p \in DOMAIN pages, pages[p].type = "heap"
             PROVE  /\ pages[p].used + SlotSize * Len(pages[p].slots) + pages[p].free <= Room
                    /\ Taken(pages[p].slots) <= pages[p].used
  BY DEF SpaceAccounted
<1>1. pages[p] \in Heaps \cup Leaves
  BY DEF FileInv, PagesOk
<1>2. pages[p] \in Heaps
  BY <1>1, Kinds
<1> QED
  BY <1>2 DEF Heaps

(* The entries as SELECT sees them.                                         *)
LEMMA EntriesNow ==
  ASSUME FileInv, NEW c \in Indexed
  PROVE  Entries(Now, c) = Ent(pages, roots[c]) /\ Ent(pages, roots[c]) \in Maps
<1>1. Entries(Now, c) = Ent(pages, roots[c])
  BY DEF Entries, Now, Ent
<1> QED
  BY <1>1, EntMap DEF FileInv

LEMMA LeadFromInv ==
  FileInv => EntriesLead
<1> SUFFICES ASSUME FileInv, events \subseteq {"insert", "delete"}, NEW c \in Indexed,
                    NEW k \in DOMAIN Entries(Now, c)
             PROVE  /\ Entries(Now, c)[k] \in Live
                    /\ RowOf(Entries(Now, c)[k])[c] = k
  BY DEF EntriesLead
<1> DEFINE e == Ent(pages, roots[c])
           rid == e[k]
           V == View(pages)
<1>1. Entries(Now, c) = e /\ e \in Maps /\ k \in DOMAIN e
  BY EntriesNow
<1>2. Tied(FALSE, e, c, V) /\ PagesOk(pages)
  BY DEF FileInv, FileHas
<1> HIDE DEF e
<1>3. rid \in Rids
  BY <1>1, MapIs
<1>4. V[rid] # <<>> /\ V[rid][c] = k
  BY <1>1, <1>2 DEF Tied, Leading
<1> HIDE DEF rid
<1>5. rid \in Live /\ RowOf(rid) = View(pages)[rid]
  BY <1>2, <1>3, <1>4, LiveIs
<1> QED
  BY <1>1, <1>4, <1>5 DEF rid

(* What is true of the index of c while the indexes agree with the rows.    *)
Indexes(c) ==
  LET e == Entries(Now, c)
  IN  /\ \A k \in DOMAIN e : k \in Int /\ e[k] \in Live /\ RowOf(e[k])[c] = k
      /\ \A rid \in Live : RowOf(rid)[c] # Null =>
           RowOf(rid)[c] \in DOMAIN e /\ e[RowOf(rid)[c]] = rid

LEMMA IndexNow ==
  ASSUME FileInv, events = {}, NEW c \in Indexed
  PROVE  Indexes(c)
<1> DEFINE e == Entries(Now, c)
<1>1. e = Ent(pages, roots[c]) /\ e \in Maps
  BY EntriesNow
<1>2. Tied(TRUE, e, c, View(pages)) /\ PagesOk(pages)
  BY <1>1 DEF FileInv, FileHas
<1> HIDE DEF e
<1>3. ASSUME NEW k \in DOMAIN e
      PROVE  k \in Int /\ e[k] \in Live /\ RowOf(e[k])[c] = k
  <2> DEFINE rid == e[k]
  <2>1. rid \in Rids /\ k \in Int
    BY <1>1, MapIs
  <2>2. View(pages)[rid] # <<>> /\ View(pages)[rid][c] = k
    BY <1>2 DEF Tied, Leading
  <2> HIDE DEF rid
  <2>3. rid \in Live /\ RowOf(rid) = View(pages)[rid]
    BY <1>2, <2>1, <2>2, LiveIs
  <2> QED
    BY <2>1, <2>2, <2>3 DEF rid
<1>4. ASSUME NEW rid \in Live, RowOf(rid)[c] # Null
      PROVE  RowOf(rid)[c] \in DOMAIN e /\ e[RowOf(rid)[c]] = rid
  <2>1. rid \in Rids /\ View(pages)[rid] # <<>> /\ RowOf(rid) = View(pages)[rid]
    BY <1>2, LiveIs
  <2> QED
    BY <1>2, <1>4, <2>1 DEF Tied, Covering
<1> QED
  BY <1>3, <1>4 DEF Indexes, e

LEMMA AgreeFromInv ==
  FileInv => IndexesAgree
<1> SUFFICES ASSUME FileInv, events = {}, NEW c \in Indexed
             PROVE  {<<k, Entries(Now, c)[k]>> : k \in DOMAIN Entries(Now, c)}
                      = {<<RowOf(rid)[c], rid>> :
                           rid \in {r \in Live : RowOf(r)[c] # Null}}
  BY DEF IndexesAgree
<1>1. Indexes(c)
  BY IndexNow
<1> QED
  BY <1>1, NullAssumption DEF Indexes

-----------------------------------------------------------------------------
(* SELECT.                                                                  *)

LEMMA LiveRow ==
  ASSUME FileInv, NEW rid \in Live, NEW c \in Columns
  PROVE  RowOf(rid)[c] \in Int \cup {Null}
<1>1. rid \in Rids /\ RowOf(rid) = View(pages)[rid] /\ View(pages)[rid] # <<>>
  BY LiveIs DEF FileInv
<1>2. View(pages) \in Views
  BY ViewIs DEF FileInv
<1>3. RowOf(rid) \in RowSet
  BY <1>1, <1>2 DEF Views
<1> QED
  BY <1>3, WidthAssumption DEF RowSet

LEMMA LiveFinite ==
  ASSUME FileInv
  PROVE  IsFiniteSet(Live)
<1>1. Len(pages) \in Nat /\ DOMAIN pages = 1 .. Len(pages) /\ Room \in Nat
  BY TableAssumption DEF FileInv, PagesOk
<1> DEFINE D == (1 .. Len(pages)) \X (1 .. Room)
<1>2. IsFiniteSet(1 .. Len(pages)) /\ IsFiniteSet(1 .. Room)
  BY <1>1, FS_Interval
<1>3. IsFiniteSet(D)
  BY <1>2, FS_Product
<1>4. Live \subseteq D
  BY <1>1 DEF Live, HeapRids
<1> QED
  BY <1>3, <1>4, FS_Subset

Seconds(S) == { f[2] : f \in S }
Apiece(S) == \A f, g \in S : f[2] = g[2] => f = g

LEMMA CountSeconds ==
  ASSUME NEW S, Apiece(S), IsFiniteSet(Seconds(S))
  PROVE  Cardinality(Seconds(S)) = Cardinality(S)
<1> DEFINE R == Seconds(S)
           b == [r \in R |-> CHOOSE f \in S : f[2] = r]
<1>1. \A r \in R : b[r] \in S /\ b[r][2] = r
  BY DEF Seconds
<1>2. \A f \in S : f[2] \in R
  BY DEF Seconds
<1>3. \A f \in S : b[f[2]] = f
  BY <1>1, <1>2 DEF Apiece
<1>4. b \in [R -> S]
  BY <1>1
<1>5. b \in Bijection(R, S)
  <2> HIDE DEF b, R
  <2>1. b \in Injection(R, S)
    BY <1>1, <1>4 DEF Injection, IsInjective
  <2>2. b \in Surjection(R, S)
    BY <1>2, <1>3, <1>4 DEF Surjection
  <2> QED
    BY <2>1, <2>2 DEF Bijection
<1>6. ExistsBijection(R, S)
  BY <1>5 DEF ExistsBijection
<1> HIDE DEF b, R
<1>7. IsFiniteSet(R)
  BY DEF R
<1>8. Cardinality(S) = Cardinality(R)
  BY <1>6, <1>7, FS_Bijection
<1> QED
  BY <1>8 DEF R

(* What SelectAgrees says of one condition.                                 *)
Wanted(cond) == { rid \in Live : Matches(RowOf(rid), cond) }
Answers(cond) ==
  /\ Seconds(Select(cond)) = Wanted(cond)
  /\ Cardinality(Seconds(Select(cond))) = Cardinality(Select(cond))

LEMMA AnswersIf ==
  ASSUME FileInv, NEW cond, Apiece(Candidates(cond)),
         \A rid \in Wanted(cond) : \E f \in Candidates(cond) : f[2] = rid
  PROVE  Answers(cond)
<1>1. Seconds(Select(cond)) = Wanted(cond)
  BY DEF Seconds, Select, Wanted
<1>2. Apiece(Select(cond))
  BY DEF Apiece, Select
<1>3. IsFiniteSet(Seconds(Select(cond)))
  <2>1. Wanted(cond) \subseteq Live
    BY DEF Wanted
  <2> QED
    BY <1>1, <2>1, LiveFinite, FS_Subset
<1> QED
  BY <1>1, <1>2, <1>3, CountSeconds DEF Answers

(* The entries of the keys K.                                               *)
Led(c, K) == { <<k, Entries(Now, c)[k]>> : k \in K }

(* An access path by the index of c needs to look at the keys of all rows   *)
(* that match.                                                              *)
LEMMA ByIndex ==
  ASSUME FileInv, events = {}, NEW c \in Indexed, NEW cond,
         NEW K \in SUBSET DOMAIN Entries(Now, c), Candidates(cond) = Led(c, K),
         \A rid \in Wanted(cond) : RowOf(rid)[c] # Null /\
           (RowOf(rid)[c] \in DOMAIN Entries(Now, c) => RowOf(rid)[c] \in K)
  PROVE  Answers(cond)
<1>1. Indexes(c)
  BY IndexNow
<1>2. Apiece(Candidates(cond))
  BY <1>1 DEF Apiece, Led, Indexes
<1>3. ASSUME NEW rid \in Wanted(cond)
      PROVE  \E f \in Candidates(cond) : f[2] = rid
  <2> DEFINE k == RowOf(rid)[c]
  <2>1. rid \in Live
    BY DEF Wanted
  <2>2. k \in K /\ Entries(Now, c)[k] = rid
    BY <1>1, <2>1 DEF Indexes
  <2> HIDE DEF k
  <2>3. <<k, rid>> \in Candidates(cond)
    BY <2>2 DEF Led
  <2> QED
    BY <2>3
<1> QED
  BY <1>2, <1>3, AnswersIf

LEMMA QuestionIs ==
  ASSUME NEW cond \in Questions
  PROVE  Literals(cond) \subseteq Int \cup {Null}
<1> DEFINE operands == UNION {{row[c] : row \in Inserts} : c \in Columns}
<1>1. operands \subseteq Int \cup {Null}
  BY StatementsAssumption, WidthAssumption DEF RowSet
<1> HIDE DEF operands
<1>2. CASE \E c \in Columns, v \in operands, op \in {"=", "!=", "<", ">", "<=", ">="} :
              cond = Comparison(c, op, v)
  BY <1>1, <1>2 DEF Comparison, Literals
<1>3. CASE \E c \in Columns, lo, hi \in operands : cond = Between(c, lo, hi)
  BY <1>1, <1>3 DEF Between, Literals
<1>4. CASE cond \in Deletes
  BY <1>4, StatementsAssumption
<1> QED
  BY <1>2, <1>3, <1>4 DEF Questions, operands

(* What a predicate on an indexed column says of a row that satisfies it.   *)
LEMMA ComparisonHolds ==
  ASSUME NEW cond, cond.kind = "comparison", NEW rid \in Wanted(cond)
  PROVE  /\ RowOf(rid)[cond.column] # Null /\ cond.value # Null
         /\ Compare(RowOf(rid)[cond.column], cond.op, cond.value)
BY DEF Wanted, Matches, Satisfies, Predicates, Compare

LEMMA BetweenHolds ==
  ASSUME NEW cond, cond.kind = "between", NEW rid \in Wanted(cond)
  PROVE  /\ RowOf(rid)[cond.column] # Null /\ cond.low # Null /\ cond.high # Null
         /\ RowOf(rid)[cond.column] >= cond.low /\ RowOf(rid)[cond.column] < cond.high
BY DEF Wanted, Matches, Satisfies, Predicates, Compare

LEMMA PointAnswers ==
  ASSUME FileInv, events = {}, NEW cond \in Questions, IsPointQuery(cond)
  PROVE  Answers(cond)
<1> DEFINE c == cond.column
           v == Key(cond.value)
           K == { k \in DOMAIN Entries(Now, c) : k >= v /\ k < v + 1 }
<1>1. c \in Indexed /\ c \in Columns /\ cond.kind = "comparison" /\ cond.op = "="
  BY TableAssumption DEF IsPointQuery, OnIndexed, Equality
<1>2. Candidates(cond) = Led(c, K)
  BY DEF Candidates, PointQuery, Through, Led
<1>3. cond.value \in Int \cup {Null}
  BY <1>1, QuestionIs DEF Literals
<1>4. ASSUME NEW rid \in Wanted(cond), RowOf(rid)[c] \in DOMAIN Entries(Now, c)
      PROVE  RowOf(rid)[c] \in K
  <2>1. RowOf(rid)[c] = cond.value /\ cond.value # Null
    BY <1>1, ComparisonHolds DEF Compare
  <2>2. v = RowOf(rid)[c] /\ v \in Int
    BY <1>3, <2>1 DEF Key
  <2> QED
    BY <1>4, <2>2
<1>5. \A rid \in Wanted(cond) : RowOf(rid)[c] # Null
  BY <1>1, ComparisonHolds
<1>6. K \in SUBSET DOMAIN Entries(Now, c)
  OBVIOUS
<1> HIDE DEF K, c
<1> QED
  BY <1>1, <1>2, <1>4, <1>5, <1>6, ByIndex

LEMMA RangeAnswers ==
  ASSUME FileInv, events = {}, NEW cond \in Questions, IsRange(cond), ~IsPointQuery(cond)
  PROVE  Answers(cond)
<1> DEFINE c == cond.column
<1>1. c \in Indexed /\ c \in Columns /\ Candidates(cond) = RangeScan(cond)
  BY TableAssumption DEF IsRange, HasTree, OnIndexed, Candidates
<1>2. CASE cond.kind = "between"
  <2> DEFINE K == { k \in DOMAIN Entries(Now, c) :
                      k >= Key(cond.low) /\ k < Key(cond.high) }
  <2>1. Candidates(cond) = Led(c, K)
    BY <1>1, <1>2 DEF RangeScan, Through, Led
  <2>2. ASSUME NEW rid \in Wanted(cond), RowOf(rid)[c] \in DOMAIN Entries(Now, c)
        PROVE  RowOf(rid)[c] \in K
    BY <1>2, <2>2, BetweenHolds DEF Key
  <2>3. \A rid \in Wanted(cond) : RowOf(rid)[c] # Null
    BY <1>2, BetweenHolds
  <2>4. K \in SUBSET DOMAIN Entries(Now, c)
    OBVIOUS
  <2> HIDE DEF K, c
  <2> QED
    BY <1>1, <2>1, <2>2, <2>3, <2>4, ByIndex
<1>3. CASE cond.kind # "between"
  <2> DEFINE lo == Key(cond.value) + (IF cond.op = ">" THEN 1 ELSE 0)
             K == { k \in DOMAIN Entries(Now, c) : k >= lo }
  <2>1. Candidates(cond) = Led(c, K)
    BY <1>1, <1>3 DEF RangeScan, From, Led
  <2>2. cond.kind = "comparison" /\ cond.op \in {">", ">="}
    BY <1>3 DEF IsRange, HasTree, OnIndexed
  <2>3. cond.value \in Int \cup {Null}
    BY <2>2, QuestionIs DEF Literals
  <2>4. ASSUME NEW rid \in Wanted(cond), RowOf(rid)[c] \in DOMAIN Entries(Now, c)
        PROVE  RowOf(rid)[c] \in K
    <3> DEFINE k == RowOf(rid)[c]
    <3>1. k # Null /\ cond.value # Null /\ Compare(k, cond.op, cond.value)
      BY <2>2, ComparisonHolds
    <3>2. k \in Int \cup {Null}
      <4>1. rid \in Live
        BY DEF Wanted
      <4> QED
        BY <1>1, <4>1, LiveRow
    <3>3. k \in Int /\ cond.value \in Int /\ Key(cond.value) = cond.value
      BY <2>3, <3>1, <3>2 DEF Key
    <3> HIDE DEF k
    <3>4. cond.op = ">" => k > cond.value
      BY <3>1 DEF Compare
    <3>5. cond.op = ">=" => k >= cond.value
      BY <3>1 DEF Compare
    <3>6. k >= lo
      BY <2>2, <3>3, <3>4, <3>5
    <3> QED
      BY <2>4, <3>6 DEF k
  <2>5. \A rid \in Wanted(cond) : RowOf(rid)[c] # Null
    BY <2>2, ComparisonHolds
  <2>6. K \in SUBSET DOMAIN Entries(Now, c)
    OBVIOUS
  <2> HIDE DEF K, c
  <2> QED
    BY <1>1, <2>1, <2>4, <2>5, <2>6, ByIndex
<1> QED
  BY <1>2, <1>3

LEMMA TreeScanAnswers ==
  ASSUME FileInv, events = {}, NEW cond \in Questions, ~IsRange(cond), ~IsPointQuery(cond)
  PROVE  Answers(cond)
<1>1. Candidates(cond) = TreeScan(cond)
  BY DEF Candidates
<1>2. CASE HasTree(cond)
  <2> DEFINE c == cond.column
             K == DOMAIN Entries(Now, c)
  <2>1. c \in Indexed /\ cond.kind \in {"comparison", "between"}
    BY <1>2 DEF HasTree, OnIndexed
  <2>2. Candidates(cond) = Led(c, K)
    BY <1>1, <1>2 DEF TreeScan, Whole, Led
  <2>3. \A rid \in Wanted(cond) : RowOf(rid)[c] # Null
    BY <2>1, ComparisonHolds, BetweenHolds
  <2>4. K \in SUBSET DOMAIN Entries(Now, c)
    OBVIOUS
  <2> HIDE DEF c
  <2> QED
    BY <2>1, <2>2, <2>3, <2>4, ByIndex
<1>3. CASE ~HasTree(cond)
  <2>1. Candidates(cond) = {<<0, rid>> : rid \in Live}
    BY <1>1, <1>3 DEF TreeScan, FullScanSelect
  <2>2. Apiece(Candidates(cond))
    BY <2>1 DEF Apiece
  <2>3. ASSUME NEW rid \in Wanted(cond) PROVE \E f \in Candidates(cond) : f[2] = rid
    <3>1. <<0, rid>> \in Candidates(cond)
      BY <2>1 DEF Wanted
    <3> QED
      BY <3>1
  <2> QED
    BY <2>2, <2>3, AnswersIf
<1> QED
  BY <1>2, <1>3

LEMMA SelectFromInv ==
  FileInv => SelectAgrees
<1> SUFFICES ASSUME FileInv, events = {}, NEW cond \in Questions
             PROVE  Answers(cond)
  BY DEF SelectAgrees, Answers, Seconds, Wanted
<1> QED
  BY PointAnswers, RangeAnswers, TreeScanAnswers

-----------------------------------------------------------------------------
(* The theorems.                                                            *)

LEMMA FileInvariant ==
  RowsFit => (Spec /\ []Fresh => []FileInv)
<1> SUFFICES ASSUME RowsFit PROVE Spec /\ []Fresh => []FileInv
  OBVIOUS
<1>1. FileInv /\ Fresh /\ [Next]_vars => FileInv'
  BY FileStep
<1> QED
  BY <1>1, FileInit, PTL DEF Spec

(* The records and the slot array of a page keep to their own bytes, and    *)
(* its recorded free space is there, whatever statements failed or were cut *)
(* short, as long as every row fits into an empty page, which the code does *)
(* not see to, and nobody works with an old page count                      *)
(* (write_record_to_page, compact_page, recalc_free_space).                 *)
THEOREM SpaceCorrect == RowsFit => (Spec /\ []Fresh => []SpaceAccounted)
<1> SUFFICES ASSUME RowsFit PROVE Spec /\ []Fresh => []SpaceAccounted
  OBVIOUS
<1>1. Spec /\ []Fresh => []FileInv
  BY FileInvariant
<1> QED
  BY <1>1, SpaceFromInv, PTL

(* Under the same conditions every entry of an index leads to a live row    *)
(* with its key, wherever an INSERT or a DELETE was cut short (insertRow,   *)
(* executeDelete).                                                          *)
THEOREM LeadCorrect == RowsFit => (Spec /\ []Fresh => []EntriesLead)
<1> SUFFICES ASSUME RowsFit PROVE Spec /\ []Fresh => []EntriesLead
  OBVIOUS
<1>1. Spec /\ []Fresh => []FileInv
  BY FileInvariant
<1> QED
  BY <1>1, LeadFromInv, PTL

(* And the indexes hold exactly the keys of the live rows, with their       *)
(* places, through moves and changes of keys, while all statements end well *)
(* or change nothing, no UPDATE sets a key to or from null and none writes  *)
(* the old copy of a page over a row it has moved there (updateIndices,     *)
(* clearIndicesForRow, applyAssignments, relocate_record).                  *)
THEOREM AgreeCorrect == RowsFit => (Spec /\ []Fresh => []IndexesAgree)
<1> SUFFICES ASSUME RowsFit PROVE Spec /\ []Fresh => []IndexesAgree
  OBVIOUS
<1>1. Spec /\ []Fresh => []FileInv
  BY FileInvariant
<1> QED
  BY <1>1, AgreeFromInv, PTL

(* Then SELECT finds the rows of its condition on each of its access paths: *)
(* a key, a range, the whole index or the heap (executePointQuery,          *)
(* executeRangeScan, executeTreeScan, fullScanSelect).                      *)
THEOREM SelectCorrect == RowsFit => (Spec /\ []Fresh => []SelectAgrees)
<1> SUFFICES ASSUME RowsFit PROVE Spec /\ []Fresh => []SelectAgrees
  OBVIOUS
<1>1. Spec /\ []Fresh => []FileInv
  BY FileInvariant
<1> QED
  BY <1>1, SelectFromInv, PTL

(* A process that is alone with the file never has an old page count: it    *)
(* opens the file anew for each statement (the Pager's constructor).        *)
Alone == \A p, q \in Processes : p = q

AloneInv ==
  /\ DOMAIN opened = Processes /\ Fresh
  /\ ~exists => \A p \in Processes : opened[p] = 0

LEMMA AloneStep ==
  ASSUME Alone
  PROVE  AloneInv /\ [Next]_vars => AloneInv'
<1> SUFFICES ASSUME AloneInv, [Next]_vars PROVE AloneInv'
  OBVIOUS
<1>1. ASSUME NEW p \in Processes, opened' = [opened EXCEPT ![p] = 0], UNCHANGED exists
      PROVE  AloneInv'
  <2>1. \A q \in Processes : opened'[q] = 0
    BY <1>1 DEF Alone, AloneInv
  <2> QED
    BY <1>1, <2>1 DEF AloneInv, Fresh
<1>2. ASSUME NEW p \in Processes, Open(p) PROVE AloneInv'
  <2>1. \A q \in Processes : opened'[q] = Len(pages) + 1 /\ pages' = pages
    BY <1>2 DEF Alone, AloneInv, Open
  <2> QED
    BY <1>2, <2>1 DEF AloneInv, Fresh, Open
<1>3. ASSUME NEW p \in Processes, Insert(p) \/ Update(p) \/ Delete(p) PROVE AloneInv'
  <2>1. opened' = [opened EXCEPT ![p] = 0] /\ exists' = exists
    BY <1>3 DEF Insert, Update, Delete, End
  <2> QED
    BY <1>1, <2>1
<1>4. CASE DropTable
  BY <1>4 DEF AloneInv, Fresh, DropTable
<1>5. CASE CreateTable
  BY <1>5 DEF AloneInv, Fresh, CreateTable
<1>6. CASE UNCHANGED vars
  BY <1>6 DEF AloneInv, Fresh, vars
<1> QED
  BY <1>2, <1>3, <1>4, <1>5, <1>6 DEF Next

THEOREM AloneFresh == Alone => (Spec => []Fresh)
<1> SUFFICES ASSUME Alone PROVE Spec => []Fresh
  OBVIOUS
<1>1. Init => AloneInv
  BY DEF Init, AloneInv, Fresh
<1>2. AloneInv /\ [Next]_vars => AloneInv'
  BY AloneStep
<1>3. AloneInv => Fresh
  BY DEF AloneInv
<1> QED
  BY <1>1, <1>2, <1>3, PTL DEF Spec

(* So for one process alone, whose rows fit into pages, all this holds with *)
(* no condition on page counts: what an old count can damage takes two.     *)
THEOREM AloneCorrect ==
  Alone /\ RowsFit =>
    (Spec => [](SpaceAccounted /\ EntriesLead /\ IndexesAgree /\ SelectAgrees))
<1> SUFFICES ASSUME Alone, RowsFit
             PROVE  Spec => [](SpaceAccounted /\ EntriesLead /\ IndexesAgree /\ SelectAgrees)
  OBVIOUS
<1>1. Spec => []Fresh
  BY AloneFresh
<1>2. /\ Spec /\ []Fresh => []SpaceAccounted
      /\ Spec /\ []Fresh => []EntriesLead
      /\ Spec /\ []Fresh => []IndexesAgree
      /\ Spec /\ []Fresh => []SelectAgrees
  BY SpaceCorrect, LeadCorrect, AgreeCorrect, SelectCorrect
<1> QED
  BY <1>1, <1>2, PTL
=============================================================================
