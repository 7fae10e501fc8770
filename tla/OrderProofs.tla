----------------------------- MODULE OrderProofs -----------------------------
(***************************************************************************)
(* The order of the B+ tree: the keys of every middle node separate what   *)
(* is below its children, the leaves are chained from left to right, every *)
(* scan returns what the tree holds, and the tree is the ordered index it  *)
(* promises.                                                               *)
(***************************************************************************)
EXTENDS TreeProofs

-----------------------------------------------------------------------------
(* Keys and the ranges they cut.                                            *)

Rising(s) == \A i, j \in 1 .. Len(s) : i < j => s[i] < s[j]

(* What of the range X belongs to child i of a node with the keys s.        *)
Piece(X, s, i) ==
  { k \in X : /\ \A j \in 1 .. i - 1 : s[j] <= k
              /\ \A j \in i .. Len(s) : k < s[j] }

Before(X, u) == { k \in X : k < u }
From(X, u)   == { k \in X : u <= k }

(* The key u cuts a range in two, and something is left of it.              *)
Inside(u, X) == u \in X /\ \E k \in X : k < u

(* The keys s cut the range X into the ranges S of the children c.          *)
Parted(X, s, c, S) ==
  /\ Rising(s)
  /\ \A i \in 1 .. Len(s) : s[i] \in X /\ \E k \in X : k < s[i]
  /\ \A i \in 1 .. Len(c) : S[c[i]] = Piece(X, s, i)

LEMMA PartedElsewhere ==
  ASSUME NEW X, NEW s, NEW c, NEW S, NEW R, Parted(X, s, c, S),
         \A i \in 1 .. Len(c) : R[c[i]] = S[c[i]]
  PROVE  Parted(X, s, c, R)
BY DEF Parted

(* A node cut in two at key u.                                              *)
CutAt(s, c, u, s1, c1, s2, c2) ==
  /\ s = (s1 \o <<u>>) \o s2
  /\ c = c1 \o c2
  /\ Len(c1) = Len(s1) + 1 /\ Len(c2) = Len(s2) + 1

LEMMA CutAtIs ==
  ASSUME NEW s1 \in Seq(Keys), NEW s2 \in Seq(Keys), NEW u \in Keys,
         NEW c1 \in Seq(PageIds), NEW c2 \in Seq(PageIds), NEW s, NEW c,
         CutAt(s, c, u, s1, c1, s2, c2)
  PROVE  /\ Len(s1) \in Nat /\ Len(s2) \in Nat /\ u \in Int
         /\ s \in Seq(Keys) /\ Len(s) = Len(s1) + 1 + Len(s2)
         /\ c \in Seq(PageIds) /\ Len(c) = Len(s1) + Len(s2) + 2
         /\ \A i \in 1 .. Len(s1) : s[i] = s1[i] /\ s1[i] \in Int
         /\ s[Len(s1) + 1] = u
         /\ \A i \in 1 .. Len(s2) : s[Len(s1) + 1 + i] = s2[i] /\ s2[i] \in Int
         /\ \A i \in 1 .. Len(s1) + 1 : c[i] = c1[i]
         /\ \A i \in 1 .. Len(s2) + 1 : c[Len(s1) + 1 + i] = c2[i]
<1> DEFINE a == s1 \o <<u>>
<1>1. /\ Len(s1) \in Nat /\ Len(s2) \in Nat /\ Len(c1) \in Nat /\ Len(c2) \in Nat
      /\ u \in Int
      /\ Len(c1) = Len(s1) + 1 /\ Len(c2) = Len(s2) + 1
  BY LenProperties, TreeAssumption DEF CutAt
<1>2. /\ a \in Seq(Keys) /\ Len(a) = Len(s1) + 1
      /\ \A i \in 1 .. Len(s1) : a[i] = s1[i]
      /\ a[Len(s1) + 1] = u
  OBVIOUS
<1> HIDE DEF a
<1>3. /\ a \o s2 \in Seq(Keys) /\ Len(a \o s2) = Len(a) + Len(s2)
      /\ \A i \in 1 .. Len(a) : (a \o s2)[i] = a[i]
      /\ \A i \in 1 .. Len(s2) : (a \o s2)[Len(a) + i] = s2[i]
  <2>1. a \in Seq(Keys) /\ s2 \in Seq(Keys)
    BY <1>2
  <2> QED
    BY <2>1, ConcatIs
<1>4. /\ c1 \o c2 \in Seq(PageIds) /\ Len(c1 \o c2) = Len(c1) + Len(c2)
      /\ \A i \in 1 .. Len(c1) : (c1 \o c2)[i] = c1[i]
      /\ \A i \in 1 .. Len(c2) : (c1 \o c2)[Len(c1) + i] = c2[i]
  BY ConcatIs
<1>5. s = a \o s2 /\ c = c1 \o c2
  BY DEF CutAt, a
<1>6. /\ \A i \in 1 .. Len(s1) : s1[i] \in Int
      /\ \A i \in 1 .. Len(s2) : s2[i] \in Int
  BY ElementOfSeq, TreeAssumption
<1>7. /\ s \in Seq(Keys) /\ Len(s) = Len(s1) + 1 + Len(s2)
      /\ \A i \in 1 .. Len(s1) : s[i] = s1[i]
      /\ s[Len(s1) + 1] = u
      /\ \A i \in 1 .. Len(s2) : s[Len(s1) + 1 + i] = s2[i]
  <2>1. \A i \in 1 .. Len(s1) + 1 : s[i] = a[i]
    BY <1>2, <1>3, <1>5
  <2>2. \A i \in 1 .. Len(s1) : i \in 1 .. Len(s1) + 1
    BY <1>1
  <2>3. Len(s1) + 1 \in 1 .. Len(s1) + 1
    BY <1>1
  <2> QED
    BY <1>2, <1>3, <1>5, <2>1, <2>2, <2>3
<1>8. /\ c \in Seq(PageIds) /\ Len(c) = Len(s1) + Len(s2) + 2
      /\ \A i \in 1 .. Len(s1) + 1 : c[i] = c1[i]
      /\ \A i \in 1 .. Len(s2) + 1 : c[Len(s1) + 1 + i] = c2[i]
  BY <1>1, <1>4, <1>5, SMTT(30)
<1> QED
  BY <1>1, <1>6, <1>7, <1>8

(* The pieces of the whole are the pieces of the halves.                    *)
LEMMA PiecesOfHalves ==
  ASSUME NEW s1 \in Seq(Keys), NEW s2 \in Seq(Keys), NEW u \in Keys,
         NEW c1 \in Seq(PageIds), NEW c2 \in Seq(PageIds), NEW s, NEW c,
         CutAt(s, c, u, s1, c1, s2, c2), NEW X \in SUBSET Int, Rising(s)
  PROVE  /\ \A i \in 1 .. Len(s1) + 1 : Piece(X, s, i) = Piece(Before(X, u), s1, i)
         /\ \A i \in 1 .. Len(s2) + 1 :
              Piece(X, s, Len(s1) + 1 + i) = Piece(From(X, u), s2, i)
<1> DEFINE m == Len(s1) + 1
           n == Len(s2)
<1>1. /\ m \in Nat \ {0} /\ n \in Nat /\ Len(s1) = m - 1 /\ Len(s) = m + n
      /\ \A i \in 1 .. m - 1 : s[i] = s1[i] /\ s1[i] \in Int
      /\ s[m] = u /\ u \in Int
      /\ \A i \in 1 .. n : s[m + i] = s2[i] /\ s2[i] \in Int
  <2>1. /\ Len(s1) \in Nat /\ Len(s2) \in Nat /\ Len(s) = Len(s1) + 1 + Len(s2)
        /\ \A i \in 1 .. Len(s1) : s[i] = s1[i] /\ s1[i] \in Int
        /\ s[Len(s1) + 1] = u /\ u \in Int
        /\ \A i \in 1 .. Len(s2) : s[Len(s1) + 1 + i] = s2[i] /\ s2[i] \in Int
    BY CutAtIs
  <2>2. Len(s1) = m - 1 /\ m \in Nat \ {0}
    BY <2>1
  <2> QED
    BY <2>1, <2>2
<1> HIDE DEF m
<1>2. /\ \A i \in 1 .. m - 1 : s1[i] < u
      /\ \A i \in 1 .. n : u < s2[i]
  <2>1. ASSUME NEW i \in 1 .. m - 1 PROVE s1[i] < u
    <3>1. i \in 1 .. Len(s) /\ m \in 1 .. Len(s) /\ i < m
      BY <1>1
    <3> QED
      BY <1>1, <3>1 DEF Rising
  <2>2. ASSUME NEW i \in 1 .. n PROVE u < s2[i]
    <3>1. m \in 1 .. Len(s) /\ m + i \in 1 .. Len(s) /\ m < m + i
      BY <1>1
    <3> QED
      BY <1>1, <3>1 DEF Rising
  <2> QED
    BY <2>1, <2>2
<1>3. ASSUME NEW i \in 1 .. m PROVE Piece(X, s, i) = Piece(Before(X, u), s1, i)
  <2> SUFFICES ASSUME NEW k \in X
               PROVE  k \in Piece(X, s, i) <=> k < u /\ k \in Piece(X, s1, i)
    BY DEF Piece, Before
  <2>0. k \in Int
    OBVIOUS
  <2>1. \A j \in 1 .. i - 1 : j \in 1 .. m - 1 /\ s[j] = s1[j]
    BY <1>1
  <2>2. ASSUME k < u, \A j \in i .. m - 1 : k < s1[j], NEW j \in i .. m + n
        PROVE  k < s[j]
    <3>1. CASE j < m
      <4>1. j \in i .. m - 1 /\ j \in 1 .. m - 1
        BY <1>1, <3>1
      <4> QED
        BY <1>1, <2>2, <4>1
    <3>2. CASE j = m
      BY <1>1, <2>2, <3>2
    <3>3. CASE j > m
      <4>1. j - m \in 1 .. n /\ m + (j - m) = j
        BY <1>1, <3>3
      <4>2. s[j] = s2[j - m] /\ u < s2[j - m] /\ s2[j - m] \in Int
        BY <1>1, <1>2, <4>1
      <4> QED
        BY <1>1, <2>0, <2>2, <4>2
    <3> QED
      BY <1>1, <3>1, <3>2, <3>3
  <2>3. ASSUME \A j \in i .. m + n : k < s[j]
        PROVE  k < u /\ \A j \in i .. m - 1 : k < s1[j]
    <3>1. m \in i .. m + n /\ \A j \in i .. m - 1 : j \in i .. m + n /\ j \in 1 .. m - 1
      BY <1>1
    <3> QED
      BY <1>1, <2>3, <3>1
  <2> QED
    BY <1>1, <2>1, <2>2, <2>3 DEF Piece
<1>4. ASSUME NEW i \in 1 .. n + 1
      PROVE  Piece(X, s, m + i) = Piece(From(X, u), s2, i)
  <2> SUFFICES ASSUME NEW k \in X
               PROVE  k \in Piece(X, s, m + i) <=> u <= k /\ k \in Piece(X, s2, i)
    BY DEF Piece, From
  <2>0. k \in Int /\ m + i - 1 = m + (i - 1)
    BY <1>1
  <2>1. ASSUME u <= k, \A j \in 1 .. i - 1 : s2[j] <= k, NEW j \in 1 .. m + i - 1
        PROVE  s[j] <= k
    <3>1. CASE j < m
      <4>1. j \in 1 .. m - 1
        BY <1>1, <3>1
      <4>2. s[j] = s1[j] /\ s1[j] < u /\ s1[j] \in Int
        BY <1>1, <1>2, <4>1
      <4> QED
        BY <1>1, <2>0, <2>1, <4>2
    <3>2. CASE j = m
      BY <1>1, <2>1, <3>2
    <3>3. CASE j > m
      <4>1. j - m \in 1 .. n /\ m + (j - m) = j /\ j - m \in 1 .. i - 1
        BY <1>1, <3>3
      <4> QED
        BY <1>1, <2>1, <4>1
    <3> QED
      BY <1>1, <3>1, <3>2, <3>3
  <2>2. ASSUME \A j \in 1 .. m + i - 1 : s[j] <= k
        PROVE  u <= k /\ \A j \in 1 .. i - 1 : s2[j] <= k
    <3>1. /\ m \in 1 .. m + i - 1
          /\ \A j \in 1 .. i - 1 : m + j \in 1 .. m + i - 1 /\ j \in 1 .. n
      BY <1>1
    <3>2. \A j \in 1 .. i - 1 : s[m + j] = s2[j]
      BY <1>1, <3>1
    <3> QED
      BY <1>1, <2>2, <3>1, <3>2
  <2>3. (\A j \in m + i .. m + n : k < s[j]) <=> (\A j \in i .. n : k < s2[j])
    <3>1. ASSUME \A j \in m + i .. m + n : k < s[j], NEW j \in i .. n PROVE k < s2[j]
      <4>1. m + j \in m + i .. m + n /\ j \in 1 .. n
        BY <1>1
      <4> QED
        BY <1>1, <3>1, <4>1
    <3>2. ASSUME \A j \in i .. n : k < s2[j], NEW j \in m + i .. m + n PROVE k < s[j]
      <4>1. j - m \in i .. n /\ j - m \in 1 .. n /\ m + (j - m) = j
        BY <1>1
      <4> QED
        BY <1>1, <3>2, <4>1
    <3> QED
      BY <3>1, <3>2
  <2> QED
    BY <1>1, <2>0, <2>1, <2>2, <2>3 DEF Piece
<1> QED
  BY <1>3, <1>4 DEF m, n

(* A node is cut in two, or two are joined: the same ranges result.         *)
LEMMA HalvesParted ==
  ASSUME NEW s1 \in Seq(Keys), NEW s2 \in Seq(Keys), NEW u \in Keys,
         NEW c1 \in Seq(PageIds), NEW c2 \in Seq(PageIds), NEW s, NEW c,
         CutAt(s, c, u, s1, c1, s2, c2), NEW X \in SUBSET Int, NEW S
  PROVE  Parted(X, s, c, S) <=> /\ u \in X /\ \E k \in X : k < u
                                /\ Parted(Before(X, u), s1, c1, S)
                                /\ Parted(From(X, u), s2, c2, S)
<1> DEFINE m == Len(s1) + 1
           n == Len(s2)
<1>1. /\ m \in Nat \ {0} /\ n \in Nat /\ Len(s1) = m - 1 /\ Len(s) = m + n
      /\ \A i \in 1 .. m - 1 : s[i] = s1[i] /\ s1[i] \in Int
      /\ s[m] = u /\ u \in Int
      /\ \A i \in 1 .. n : s[m + i] = s2[i] /\ s2[i] \in Int
      /\ Len(c) = m + n + 1 /\ Len(c1) = m /\ Len(c2) = n + 1
      /\ \A i \in 1 .. m : c[i] = c1[i]
      /\ \A i \in 1 .. n + 1 : c[m + i] = c2[i]
  <2>1. /\ Len(s1) \in Nat /\ Len(s2) \in Nat /\ Len(s) = Len(s1) + 1 + Len(s2)
        /\ Len(c) = Len(s1) + Len(s2) + 2
        /\ \A i \in 1 .. Len(s1) : s[i] = s1[i] /\ s1[i] \in Int
        /\ s[Len(s1) + 1] = u /\ u \in Int
        /\ \A i \in 1 .. Len(s2) : s[Len(s1) + 1 + i] = s2[i] /\ s2[i] \in Int
        /\ \A i \in 1 .. Len(s1) + 1 : c[i] = c1[i]
        /\ \A i \in 1 .. Len(s2) + 1 : c[Len(s1) + 1 + i] = c2[i]
    BY CutAtIs
  <2>2. Len(s1) = m - 1 /\ m \in Nat \ {0} /\ Len(c) = m + n + 1
    BY <2>1
  <2>3. Len(c1) = m /\ Len(c2) = n + 1
    BY DEF CutAt
  <2> QED
    BY <2>1, <2>2, <2>3
<1> HIDE DEF m, n
<1>2. \A i \in 1 .. m + n : i \in 1 .. m - 1 \/ i = m \/ \E j \in 1 .. n : i = m + j
  <2> SUFFICES ASSUME NEW i \in 1 .. m + n, i > m PROVE \E j \in 1 .. n : i = m + j
    BY <1>1
  <2>1. i - m \in 1 .. n /\ i = m + (i - m)
    BY <1>1
  <2> QED
    BY <2>1
<1>3. ASSUME Rising(s)
      PROVE  /\ \A i \in 1 .. m : Piece(X, s, i) = Piece(Before(X, u), s1, i)
             /\ \A i \in 1 .. n + 1 : Piece(X, s, m + i) = Piece(From(X, u), s2, i)
  <2>1. /\ \A i \in 1 .. Len(s1) + 1 : Piece(X, s, i) = Piece(Before(X, u), s1, i)
        /\ \A i \in 1 .. Len(s2) + 1 :
             Piece(X, s, Len(s1) + 1 + i) = Piece(From(X, u), s2, i)
    BY <1>3, PiecesOfHalves
  <2> QED
    BY <2>1 DEF m, n
<1>4. ASSUME Parted(X, s, c, S)
      PROVE  /\ u \in X /\ \E k \in X : k < u
             /\ Parted(Before(X, u), s1, c1, S)
             /\ Parted(From(X, u), s2, c2, S)
  <2>1. /\ Rising(s) /\ \A i \in 1 .. m + n : s[i] \in X /\ \E k \in X : k < s[i]
        /\ \A i \in 1 .. m + n + 1 : S[c[i]] = Piece(X, s, i)
    BY <1>1, <1>4 DEF Parted
  <2>2. m \in 1 .. m + n /\ \A i \in 1 .. m - 1 : i \in 1 .. m + n /\ i < m
    BY <1>1, SMTT(30)
  <2>3. \A i \in 1 .. n : m + i \in 1 .. m + n /\ m < m + i
    BY <1>1
  <2>4. u \in X /\ \E k \in X : k < u
    BY <1>1, <2>1, <2>2
  <2>5. \A i, j \in 1 .. m + n : i < j => s[i] < s[j]
    BY <1>1, <2>1 DEF Rising
  <2>6. Parted(Before(X, u), s1, c1, S)
    <3>1. Rising(s1)
      <4> SUFFICES ASSUME NEW i \in 1 .. m - 1, NEW j \in 1 .. m - 1, i < j
                   PROVE  s1[i] < s1[j]
        BY <1>1 DEF Rising
      <4> QED
        BY <1>1, <2>2, <2>5
    <3>2. ASSUME NEW i \in 1 .. m - 1
          PROVE  s1[i] \in Before(X, u) /\ \E k \in Before(X, u) : k < s1[i]
      <4>1. s1[i] \in X /\ s1[i] < u /\ s1[i] \in Int
        BY <1>1, <2>1, <2>2, <2>5
      <4>2. PICK k \in X : k < s1[i]
        BY <1>1, <2>1, <2>2
      <4>3. k \in Int /\ k < u
        BY <1>1, <4>1, <4>2
      <4> QED
        BY <4>1, <4>2, <4>3 DEF Before
    <3>3. ASSUME NEW i \in 1 .. m PROVE S[c1[i]] = Piece(Before(X, u), s1, i)
      <4>1. i \in 1 .. m + n + 1
        BY <1>1
      <4> QED
        BY <1>1, <1>3, <2>1, <4>1
    <3> QED
      BY <1>1, <3>1, <3>2, <3>3 DEF Parted
  <2>7. Parted(From(X, u), s2, c2, S)
    <3>1. Rising(s2)
      <4> SUFFICES ASSUME NEW i \in 1 .. n, NEW j \in 1 .. n, i < j
                   PROVE  s2[i] < s2[j]
        BY DEF Rising, n
      <4>1. m + i \in 1 .. m + n /\ m + j \in 1 .. m + n /\ m + i < m + j
        BY <1>1
      <4>2. s[m + i] < s[m + j]
        BY <2>5, <4>1
      <4> QED
        BY <1>1, <4>2
    <3>2. ASSUME NEW i \in 1 .. n
          PROVE  s2[i] \in From(X, u) /\ \E k \in From(X, u) : k < s2[i]
      <4>1. s2[i] \in X /\ u < s2[i]
        BY <1>1, <2>1, <2>2, <2>3, <2>5
      <4>2. u <= s2[i] /\ u <= u
        BY <1>1, <4>1, SMTT(30)
      <4> QED
        BY <2>4, <4>1, <4>2 DEF From
    <3>3. ASSUME NEW i \in 1 .. n + 1 PROVE S[c2[i]] = Piece(From(X, u), s2, i)
      <4>1. m + i \in 1 .. m + n + 1
        BY <1>1
      <4> QED
        BY <1>1, <1>3, <2>1, <4>1
    <3> QED
      BY <1>1, <3>1, <3>2, <3>3 DEF Parted, n
  <2> QED
    BY <2>4, <2>6, <2>7
<1>5. ASSUME u \in X, \E k \in X : k < u,
             Parted(Before(X, u), s1, c1, S), Parted(From(X, u), s2, c2, S)
      PROVE  Parted(X, s, c, S)
  <2>1. /\ Rising(s1) /\ \A i \in 1 .. m - 1 : s1[i] \in X /\ s1[i] < u
                                              /\ \E k \in X : k < s1[i]
        /\ \A i \in 1 .. m : S[c1[i]] = Piece(Before(X, u), s1, i)
    BY <1>1, <1>5 DEF Parted, Before
  <2>2. /\ Rising(s2) /\ \A i \in 1 .. n : s2[i] \in X /\ \E k \in X : u <= k /\ k < s2[i]
        /\ \A i \in 1 .. n + 1 : S[c2[i]] = Piece(From(X, u), s2, i)
    BY <1>1, <1>5 DEF Parted, From, n
  <2>3. \A i \in 1 .. n : u < s2[i]
    <3> SUFFICES ASSUME NEW i \in 1 .. n PROVE u < s2[i]
      OBVIOUS
    <3>1. PICK k \in X : u <= k /\ k < s2[i]
      BY <2>2
    <3>2. k \in Int /\ s2[i] \in Int
      BY <1>1
    <3> QED
      BY <1>1, <3>1, <3>2, SMTT(30)
  <2>4. Rising(s)
    <3> SUFFICES ASSUME NEW i \in 1 .. m + n, NEW j \in 1 .. m + n, i < j
                 PROVE  s[i] < s[j]
      BY <1>1 DEF Rising
    <3>1. CASE i \in 1 .. m - 1 /\ j \in 1 .. m - 1
      BY <1>1, <2>1, <3>1 DEF Rising
    <3>2. CASE i \in 1 .. m - 1 /\ j = m
      BY <1>1, <2>1, <3>2
    <3>3. CASE i \in 1 .. m - 1 /\ j > m
      <4>1. PICK y \in 1 .. n : j = m + y
        BY <1>1, <1>2, <3>3
      <4>2. s[i] = s1[i] /\ s[j] = s2[y] /\ s1[i] < u /\ u < s2[y]
        BY <1>1, <2>1, <2>3, <3>3, <4>1
      <4>3. s1[i] \in Int /\ s2[y] \in Int
        BY <1>1, <3>3
      <4> QED
        BY <1>1, <4>2, <4>3, SMTT(30)
    <3>4. CASE i = m /\ j > m
      <4>1. PICK y \in 1 .. n : j = m + y
        BY <1>1, <1>2, <3>4
      <4> QED
        BY <1>1, <2>3, <3>4, <4>1
    <3>5. CASE i > m /\ j > m
      <4>1. PICK x \in 1 .. n : i = m + x
        BY <1>1, <1>2, <3>5
      <4>2. PICK y \in 1 .. n : j = m + y
        BY <1>1, <1>2, <3>5
      <4>3. x < y
        BY <1>1, <4>1, <4>2, SMTT(30)
      <4>4. s2[x] < s2[y]
        BY <2>2, <4>3 DEF Rising, n
      <4> QED
        BY <1>1, <4>1, <4>2, <4>4
    <3> QED
      <4>1. i \in Int /\ j \in Int /\ 1 <= i /\ i < j /\ j <= m + n /\ m \in Int
        BY <1>1
      <4> QED
        BY <3>1, <3>2, <3>3, <3>4, <3>5, <4>1
  <2>5. ASSUME NEW i \in 1 .. m + n PROVE s[i] \in X /\ \E k \in X : k < s[i]
    <3>1. CASE i \in 1 .. m - 1
      BY <1>1, <2>1, <3>1
    <3>2. CASE i = m
      BY <1>1, <1>5, <3>2
    <3>3. ASSUME NEW j \in 1 .. n, i = m + j PROVE s[i] \in X /\ \E k \in X : k < s[i]
      <4>1. s[i] = s2[j]
        BY <1>1, <3>3
      <4> QED
        BY <2>2, <4>1
    <3> QED
      BY <1>2, <3>1, <3>2, <3>3
  <2>6. ASSUME NEW i \in 1 .. m + n + 1 PROVE S[c[i]] = Piece(X, s, i)
    <3>1. CASE i <= m
      <4>1. i \in 1 .. m
        BY <1>1, <3>1
      <4> QED
        BY <1>1, <1>3, <2>1, <2>4, <4>1
    <3>2. CASE i > m
      <4>1. i - m \in 1 .. n + 1 /\ m + (i - m) = i
        BY <1>1, <3>2, SMTT(30)
      <4>2. Piece(X, s, m + (i - m)) = Piece(From(X, u), s2, i - m)
        BY <1>3, <2>4, <4>1
      <4>3. c[m + (i - m)] = c2[i - m]
        BY <1>1, <4>1
      <4> QED
        BY <2>2, <4>1, <4>2, <4>3
    <3> QED
      BY <1>1, <3>1, <3>2
  <2> QED
    BY <1>1, <2>4, <2>5, <2>6 DEF Parted
<1> QED
  BY <1>4, <1>5

(* A node gets another key, and another child after it.                     *)
Widened(s, c, t, d, j, u, new) ==
  /\ Inserted(s, t, j, u) /\ Inserted(c, d, j + 1, new)
  /\ Len(c) = Len(s) + 1

LEMMA WidenedIs ==
  ASSUME NEW s \in Seq(Keys), NEW t \in Seq(Keys), NEW c, NEW d,
         NEW j, NEW u, NEW new, Widened(s, c, t, d, j, u, new)
  PROVE  /\ Len(s) \in Nat /\ j \in 1 .. Len(s) + 1 /\ u \in Int
         /\ Len(t) = Len(s) + 1 /\ Len(c) = Len(s) + 1 /\ Len(d) = Len(s) + 2
         /\ \A i \in 1 .. Len(s) : s[i] \in Int
         /\ \A i \in 1 .. j - 1 : t[i] = s[i]
         /\ t[j] = u
         /\ \A i \in j .. Len(s) : t[i + 1] = s[i]
         /\ \A i \in 1 .. j : d[i] = c[i]
         /\ d[j + 1] = new
         /\ \A i \in j + 1 .. Len(s) + 1 : d[i + 1] = c[i]
<1>1. /\ Len(s) \in Nat /\ Len(t) \in Nat
      /\ \A i \in 1 .. Len(s) : s[i] \in Int
      /\ \A i \in 1 .. Len(t) : t[i] \in Int
  BY ElementOfSeq, LenProperties, TreeAssumption
<1>2. /\ j \in 1 .. Len(s) + 1
      /\ Len(t) = Len(s) + 1 /\ t[j] = u
      /\ \A i \in 1 .. j - 1 : t[i] = s[i]
      /\ \A i \in j .. Len(s) : t[i + 1] = s[i]
      /\ Len(d) = Len(c) + 1 /\ d[j + 1] = new
      /\ \A i \in 1 .. (j + 1) - 1 : d[i] = c[i]
      /\ \A i \in j + 1 .. Len(c) : d[i + 1] = c[i]
      /\ Len(c) = Len(s) + 1
  BY DEF Widened, Inserted
<1>3. (j + 1) - 1 = j /\ u \in Int
  BY <1>1, <1>2
<1> QED
  BY <1>1, <1>2, <1>3

(* Only the piece of the child before the new key is cut.                   *)
CutPieces(X, s, t, j, u) ==
  /\ \A i \in 1 .. j - 1 : Piece(X, t, i) = Piece(X, s, i)
  /\ Piece(X, t, j) = Before(Piece(X, s, j), u)
  /\ Piece(X, t, j + 1) = From(Piece(X, s, j), u)
  /\ \A i \in j + 1 .. Len(s) + 1 : Piece(X, t, i + 1) = Piece(X, s, i)

LEMMA WidenedPieces ==
  ASSUME NEW s \in Seq(Keys), NEW t \in Seq(Keys), NEW c, NEW d,
         NEW j, NEW u, NEW new, Widened(s, c, t, d, j, u, new),
         NEW X \in SUBSET Int, Rising(t)
  PROVE  CutPieces(X, s, t, j, u)
<1> DEFINE n == Len(s)
<1>1. /\ n \in Nat /\ j \in 1 .. n + 1 /\ u \in Int /\ Len(t) = n + 1
      /\ \A i \in 1 .. n : s[i] \in Int
      /\ \A i \in 1 .. j - 1 : t[i] = s[i]
      /\ t[j] = u
      /\ \A i \in j .. n : t[i + 1] = s[i]
  <2>1. /\ Len(s) \in Nat /\ j \in 1 .. Len(s) + 1 /\ u \in Int /\ Len(t) = Len(s) + 1
        /\ \A i \in 1 .. Len(s) : s[i] \in Int
        /\ \A i \in 1 .. j - 1 : t[i] = s[i]
        /\ t[j] = u
        /\ \A i \in j .. Len(s) : t[i + 1] = s[i]
    BY WidenedIs
  <2> QED
    BY <2>1
<1> HIDE DEF n
<1>2. \A i \in 1 .. j - 1 : s[i] < u
  <2> SUFFICES ASSUME NEW i \in 1 .. j - 1 PROVE t[i] < t[j]
    BY <1>1
  <2>1. i \in 1 .. Len(t) /\ j \in 1 .. Len(t) /\ i < j
    BY <1>1
  <2> QED
    BY <2>1 DEF Rising
<1>3. \A i \in j .. n : u < s[i]
  <2> SUFFICES ASSUME NEW i \in j .. n PROVE t[j] < t[i + 1]
    BY <1>1
  <2>1. j \in 1 .. Len(t) /\ i + 1 \in 1 .. Len(t) /\ j < i + 1
    BY <1>1
  <2> QED
    BY <2>1 DEF Rising
<1>4. \A i \in 1 .. n + 1 : i \in 1 .. j - 1 \/ i = j \/ (i \in j + 1 .. n + 1 /\ i - 1 \in j .. n)
  BY <1>1
(* The conditions on the keys of t, in terms of s and u.                    *)
<1>5. ASSUME NEW k \in Int, NEW i \in 1 .. n + 2
      PROVE  (\A x \in 1 .. i - 1 : t[x] <= k) <=>
               /\ \A x \in 1 .. n : x < j /\ x < i => s[x] <= k
               /\ j < i => u <= k
               /\ \A x \in 1 .. n : j <= x /\ x + 1 < i => s[x] <= k
  <2>1. ASSUME \A x \in 1 .. i - 1 : t[x] <= k
        PROVE  /\ \A x \in 1 .. n : x < j /\ x < i => s[x] <= k
               /\ j < i => u <= k
               /\ \A x \in 1 .. n : j <= x /\ x + 1 < i => s[x] <= k
    <3>1. ASSUME NEW x \in 1 .. n, x < j, x < i PROVE s[x] <= k
      <4>1. x \in 1 .. i - 1 /\ x \in 1 .. j - 1
        BY <1>1, <3>1
      <4> QED
        BY <1>1, <2>1, <4>1
    <3>2. ASSUME j < i PROVE u <= k
      <4>1. j \in 1 .. i - 1
        BY <1>1, <3>2
      <4> QED
        BY <1>1, <2>1, <4>1
    <3>3. ASSUME NEW x \in 1 .. n, j <= x, x + 1 < i PROVE s[x] <= k
      <4>1. x + 1 \in 1 .. i - 1 /\ x \in j .. n
        BY <1>1, <3>3
      <4> QED
        BY <1>1, <2>1, <4>1
    <3> QED
      BY <3>1, <3>2, <3>3
  <2>2. ASSUME \A x \in 1 .. n : x < j /\ x < i => s[x] <= k,
               j < i => u <= k,
               \A x \in 1 .. n : j <= x /\ x + 1 < i => s[x] <= k,
               NEW x \in 1 .. i - 1
        PROVE  t[x] <= k
    <3>1. CASE x < j
      <4>1. x \in 1 .. n /\ x < i /\ x \in 1 .. j - 1
        BY <1>1, <3>1
      <4> QED
        BY <1>1, <2>2, <3>1, <4>1
    <3>2. CASE x = j
      <4>1. j < i
        BY <1>1, <3>2
      <4> QED
        BY <1>1, <2>2, <3>2, <4>1
    <3>3. CASE x > j
      <4>1. x - 1 \in 1 .. n /\ x - 1 \in j .. n /\ (x - 1) + 1 < i /\ (x - 1) + 1 = x
        BY <1>1, <3>3
      <4>2. s[x - 1] <= k /\ t[(x - 1) + 1] = s[x - 1]
        BY <1>1, <2>2, <4>1
      <4> QED
        BY <4>1, <4>2
    <3>4. x \in Int /\ j \in Int
      BY <1>1
    <3> QED
      BY <3>1, <3>2, <3>3, <3>4
  <2> QED
    BY <2>1, <2>2
<1>6. ASSUME NEW k \in Int, NEW i \in 1 .. n + 2
      PROVE  (\A x \in i .. n + 1 : k < t[x]) <=>
               /\ \A x \in 1 .. n : x < j /\ i <= x => k < s[x]
               /\ i <= j => k < u
               /\ \A x \in 1 .. n : j <= x /\ i <= x + 1 => k < s[x]
  <2>1. ASSUME \A x \in i .. n + 1 : k < t[x]
        PROVE  /\ \A x \in 1 .. n : x < j /\ i <= x => k < s[x]
               /\ i <= j => k < u
               /\ \A x \in 1 .. n : j <= x /\ i <= x + 1 => k < s[x]
    <3>1. ASSUME NEW x \in 1 .. n, x < j, i <= x PROVE k < s[x]
      <4>1. x \in i .. n + 1 /\ x \in 1 .. j - 1
        BY <1>1, <3>1
      <4> QED
        BY <1>1, <2>1, <4>1
    <3>2. ASSUME i <= j PROVE k < u
      <4>1. j \in i .. n + 1
        BY <1>1, <3>2
      <4> QED
        BY <1>1, <2>1, <4>1
    <3>3. ASSUME NEW x \in 1 .. n, j <= x, i <= x + 1 PROVE k < s[x]
      <4>1. x + 1 \in i .. n + 1 /\ x \in j .. n
        BY <1>1, <3>3
      <4> QED
        BY <1>1, <2>1, <4>1
    <3> QED
      BY <3>1, <3>2, <3>3
  <2>2. ASSUME \A x \in 1 .. n : x < j /\ i <= x => k < s[x],
               i <= j => k < u,
               \A x \in 1 .. n : j <= x /\ i <= x + 1 => k < s[x],
               NEW x \in i .. n + 1
        PROVE  k < t[x]
    <3>1. CASE x < j
      <4>1. x \in 1 .. n /\ i <= x /\ x \in 1 .. j - 1
        BY <1>1, <3>1
      <4> QED
        BY <1>1, <2>2, <3>1, <4>1
    <3>2. CASE x = j
      <4>1. i <= j
        BY <1>1, <3>2
      <4> QED
        BY <1>1, <2>2, <3>2, <4>1
    <3>3. CASE x > j
      <4>1. /\ x - 1 \in 1 .. n /\ x - 1 \in j .. n /\ i <= (x - 1) + 1
            /\ j <= x - 1 /\ (x - 1) + 1 = x
        BY <1>1, <3>3
      <4>2. k < s[x - 1] /\ t[(x - 1) + 1] = s[x - 1]
        BY <1>1, <2>2, <4>1
      <4> QED
        BY <4>1, <4>2
    <3>4. x \in Int /\ j \in Int
      BY <1>1
    <3> QED
      BY <3>1, <3>2, <3>3, <3>4
  <2> QED
    BY <2>1, <2>2
<1>7. ASSUME NEW i \in 1 .. j - 1 PROVE Piece(X, t, i) = Piece(X, s, i)
  <2> SUFFICES ASSUME NEW k \in X PROVE k \in Piece(X, t, i) <=> k \in Piece(X, s, i)
    BY DEF Piece
  <2>1. k \in Int /\ i \in 1 .. n + 2 /\ i < j /\ i \in 1 .. n /\ i \in Int /\ j \in Int
    BY <1>1
  <2>2. (\A x \in 1 .. i - 1 : t[x] <= k) <=> (\A x \in 1 .. i - 1 : s[x] <= k)
    <3>1. \A x \in 1 .. i - 1 : x \in 1 .. j - 1
      BY <1>1
    <3> QED
      BY <1>1, <3>1
  <2>3. (\A x \in i .. n + 1 : k < t[x]) <=> (\A x \in i .. n : k < s[x])
    <3>1. ASSUME \A x \in i .. n : k < s[x] PROVE \A x \in i .. n + 1 : k < t[x]
      <4>1. k < s[i] /\ s[i] < u /\ s[i] \in Int
        BY <1>1, <1>2, <2>1, <3>1
      <4>2. k < u
        BY <1>1, <2>1, <4>1
      <4>3. \A x \in 1 .. n : x < j /\ i <= x => k < s[x]
        BY <2>1, <3>1
      <4>4. \A x \in 1 .. n : j <= x /\ i <= x + 1 => k < s[x]
        BY <2>1, <3>1
      <4> QED
        BY <1>6, <2>1, <4>2, <4>3, <4>4
    <3>2. ASSUME \A x \in i .. n + 1 : k < t[x], NEW x \in i .. n PROVE k < s[x]
      <4>1. /\ \A y \in 1 .. n : y < j /\ i <= y => k < s[y]
            /\ \A y \in 1 .. n : j <= y /\ i <= y + 1 => k < s[y]
        BY <1>6, <2>1, <3>2
      <4>2. x \in 1 .. n /\ i <= x /\ i <= x + 1 /\ (x < j \/ j <= x)
        BY <1>1, <2>1
      <4> QED
        BY <4>1, <4>2
    <3> QED
      BY <3>1, <3>2
  <2> QED
    BY <1>1, <2>2, <2>3 DEF Piece, n
<1>8. Piece(X, t, j) = Before(Piece(X, s, j), u)
  <2> SUFFICES ASSUME NEW k \in X
               PROVE  k \in Piece(X, t, j) <=> k \in Piece(X, s, j) /\ k < u
    BY DEF Piece, Before
  <2>1. k \in Int /\ j \in 1 .. n + 2 /\ j \in Int
    BY <1>1
  <2>2. (\A x \in 1 .. j - 1 : t[x] <= k) <=> (\A x \in 1 .. j - 1 : s[x] <= k)
    BY <1>1
  <2>3. (\A x \in j .. n + 1 : k < t[x]) <=> k < u /\ \A x \in j .. n : k < s[x]
    <3>1. \A x \in j .. n : x \in 1 .. n /\ j <= x /\ j <= x + 1
      BY <1>1
    <3>2. \A x \in 1 .. n : j <= x /\ j <= x + 1 => x \in j .. n
      BY <1>1
    <3>3. \A x \in 1 .. n : ~(x < j /\ j <= x)
      BY <1>1
    <3> QED
      BY <1>6, <2>1, <3>1, <3>2, <3>3
  <2> QED
    BY <1>1, <2>2, <2>3 DEF Piece, n
<1>9. Piece(X, t, j + 1) = From(Piece(X, s, j), u)
  <2> SUFFICES ASSUME NEW k \in X
               PROVE  k \in Piece(X, t, j + 1) <=> k \in Piece(X, s, j) /\ u <= k
    BY DEF Piece, From
  <2>1. k \in Int /\ j + 1 \in 1 .. n + 2 /\ j \in Int /\ (j + 1) - 1 = j
    BY <1>1
  <2>2. (\A x \in 1 .. j : t[x] <= k) <=> u <= k /\ \A x \in 1 .. j - 1 : s[x] <= k
    <3>1. \A x \in 1 .. j : x = j \/ x \in 1 .. j - 1
      BY <1>1
    <3>2. j \in 1 .. j /\ \A x \in 1 .. j - 1 : x \in 1 .. j
      BY <1>1
    <3> QED
      BY <1>1, <3>1, <3>2
  <2>3. (\A x \in j + 1 .. n + 1 : k < t[x]) <=> \A x \in j .. n : k < s[x]
    <3>1. \A x \in j .. n : x \in 1 .. n /\ j <= x /\ j + 1 <= x + 1
      BY <1>1
    <3>2. \A x \in 1 .. n : j <= x /\ j + 1 <= x + 1 => x \in j .. n
      BY <1>1
    <3>3. (\A x \in 1 .. n : ~(x < j /\ j + 1 <= x)) /\ ~(j + 1 <= j)
      BY <1>1
    <3> QED
      BY <1>6, <2>1, <3>1, <3>2, <3>3
  <2> QED
    BY <1>1, <2>1, <2>2, <2>3 DEF Piece, n
<1>10. ASSUME NEW i \in j + 1 .. n + 1 PROVE Piece(X, t, i + 1) = Piece(X, s, i)
  <2> SUFFICES ASSUME NEW k \in X
               PROVE  k \in Piece(X, t, i + 1) <=> k \in Piece(X, s, i)
    BY DEF Piece
  <2>1. /\ k \in Int /\ i + 1 \in 1 .. n + 2 /\ i \in Int /\ (i + 1) - 1 = i
        /\ j < i + 1 /\ j < i /\ j \in Int /\ i - 1 \in 1 .. n /\ i - 1 \in j .. n
    BY <1>1
  <2>2. (\A x \in 1 .. i : t[x] <= k) <=> \A x \in 1 .. i - 1 : s[x] <= k
    <3>1. ASSUME \A x \in 1 .. i - 1 : s[x] <= k PROVE \A x \in 1 .. i : t[x] <= k
      <4>1. s[i - 1] <= k /\ u < s[i - 1] /\ s[i - 1] \in Int
        <5>1. i - 1 \in 1 .. i - 1
          BY <2>1
        <5> QED
          BY <1>1, <1>3, <2>1, <3>1, <5>1
      <4>2. u <= k
        BY <1>1, <2>1, <4>1
      <4>3. \A x \in 1 .. n : x < j /\ x < i + 1 => s[x] <= k
        BY <2>1, <3>1
      <4>4. \A x \in 1 .. n : j <= x /\ x + 1 < i + 1 => s[x] <= k
        BY <2>1, <3>1
      <4>5. \A x \in 1 .. (i + 1) - 1 : t[x] <= k
        BY <1>5, <2>1, <4>2, <4>3, <4>4
      <4> QED
        BY <2>1, <4>5
    <3>2. ASSUME \A x \in 1 .. i : t[x] <= k, NEW x \in 1 .. i - 1 PROVE s[x] <= k
      <4>1. \A y \in 1 .. (i + 1) - 1 : t[y] <= k
        BY <2>1, <3>2
      <4>2. /\ \A y \in 1 .. n : y < j /\ y < i + 1 => s[y] <= k
            /\ \A y \in 1 .. n : j <= y /\ y + 1 < i + 1 => s[y] <= k
        BY <1>5, <2>1, <4>1
      <4>3. x \in 1 .. n /\ x < i + 1 /\ x + 1 < i + 1 /\ (x < j \/ j <= x)
        BY <1>1, <2>1
      <4> QED
        BY <4>2, <4>3
    <3> QED
      BY <3>1, <3>2
  <2>3. (\A x \in i + 1 .. n + 1 : k < t[x]) <=> \A x \in i .. n : k < s[x]
    <3>1. \A x \in i .. n : x \in 1 .. n /\ j <= x /\ i + 1 <= x + 1
      BY <1>1
    <3>2. \A x \in 1 .. n : j <= x /\ i + 1 <= x + 1 => x \in i .. n
      BY <1>1
    <3>3. (\A x \in 1 .. n : ~(x < j /\ i + 1 <= x)) /\ ~(i + 1 <= j)
      BY <1>1
    <3> QED
      BY <1>6, <2>1, <3>1, <3>2, <3>3
  <2> QED
    BY <1>1, <2>1, <2>2, <2>3 DEF Piece, n
<1> QED
  BY <1>7, <1>8, <1>9, <1>10 DEF n, CutPieces

(* The ranges R of the children after it, from the ranges S before.         *)
Recut(S, R, c, j, u, new) ==
  /\ \A i \in 1 .. Len(c) : i # j => R[c[i]] = S[c[i]]
  /\ R[c[j]] = Before(S[c[j]], u) /\ R[new] = From(S[c[j]], u)

LEMMA WidenedParted ==
  ASSUME NEW s \in Seq(Keys), NEW t \in Seq(Keys), NEW c, NEW d,
         NEW j, NEW u, NEW new, Widened(s, c, t, d, j, u, new),
         NEW X \in SUBSET Int, NEW S, NEW R,
         S[c[j]] \in SUBSET Int, Recut(S, R, c, j, u, new)
  PROVE  Parted(X, t, d, R) <=> /\ Parted(X, s, c, S)
                                /\ Inside(u, S[c[j]])
<1> DEFINE n == Len(s)
<1>1. /\ n \in Nat /\ j \in 1 .. n + 1 /\ u \in Int
      /\ Len(t) = n + 1 /\ Len(c) = n + 1 /\ Len(d) = n + 2
      /\ \A i \in 1 .. n : s[i] \in Int
      /\ \A i \in 1 .. j - 1 : t[i] = s[i]
      /\ t[j] = u
      /\ \A i \in j .. n : t[i + 1] = s[i]
      /\ \A i \in 1 .. j : d[i] = c[i]
      /\ d[j + 1] = new
      /\ \A i \in j + 1 .. n + 1 : d[i + 1] = c[i]
  <2>1. /\ Len(s) \in Nat /\ j \in 1 .. Len(s) + 1 /\ u \in Int
        /\ Len(t) = Len(s) + 1 /\ Len(c) = Len(s) + 1 /\ Len(d) = Len(s) + 2
        /\ \A i \in 1 .. Len(s) : s[i] \in Int
        /\ \A i \in 1 .. j - 1 : t[i] = s[i]
        /\ t[j] = u
        /\ \A i \in j .. Len(s) : t[i + 1] = s[i]
        /\ \A i \in 1 .. j : d[i] = c[i]
        /\ d[j + 1] = new
        /\ \A i \in j + 1 .. Len(s) + 1 : d[i + 1] = c[i]
    BY WidenedIs
  <2> QED
    BY <2>1
<1>0. /\ \A i \in 1 .. Len(c) : i # j => R[c[i]] = S[c[i]]
      /\ R[c[j]] = Before(S[c[j]], u) /\ R[new] = From(S[c[j]], u)
  BY DEF Recut
<1>2. Rising(t) => /\ \A i \in 1 .. j - 1 : Piece(X, t, i) = Piece(X, s, i)
                   /\ Piece(X, t, j) = Before(Piece(X, s, j), u)
                   /\ Piece(X, t, j + 1) = From(Piece(X, s, j), u)
                   /\ \A i \in j + 1 .. n + 1 : Piece(X, t, i + 1) = Piece(X, s, i)
  <2> SUFFICES ASSUME Rising(t) PROVE CutPieces(X, s, t, j, u)
    BY DEF CutPieces
  <2> QED
    BY WidenedPieces
<1> HIDE DEF n
<1>3. \A i \in 1 .. n + 1 : i \in 1 .. j - 1 \/ i = j \/ i \in j + 1 .. n + 1
  BY <1>0, <1>1
<1>4. \A i \in 1 .. n + 2 : \/ i \in 1 .. j - 1 \/ i = j \/ i = j + 1
                            \/ i - 1 \in j + 1 .. n + 1 /\ i = (i - 1) + 1
  BY <1>0, <1>1
<1>5. ASSUME Parted(X, t, d, R)
      PROVE  Parted(X, s, c, S) /\ u \in S[c[j]] /\ \E k \in S[c[j]] : k < u
  <2>1. /\ Rising(t) /\ \A i \in 1 .. n + 1 : t[i] \in X /\ \E k \in X : k < t[i]
        /\ \A i \in 1 .. n + 2 : R[d[i]] = Piece(X, t, i)
    BY <1>0, <1>1, <1>5 DEF Parted
  <2>2. \A i, x \in 1 .. n + 1 : i < x => t[i] < t[x]
    BY <1>0, <1>1, <2>1 DEF Rising
  <2>3. Rising(s)
    <3> SUFFICES ASSUME NEW i \in 1 .. n, NEW x \in 1 .. n, i < x PROVE s[i] < s[x]
      BY DEF Rising, n
    <3>1. CASE x < j
      <4>1. i \in 1 .. j - 1 /\ x \in 1 .. j - 1 /\ i \in 1 .. n + 1 /\ x \in 1 .. n + 1
        BY <1>0, <1>1, <3>1
      <4> QED
        BY <1>0, <1>1, <2>2, <4>1
    <3>2. CASE i < j /\ j <= x
      <4>1. i \in 1 .. j - 1 /\ x \in j .. n /\ i \in 1 .. n + 1 /\ x + 1 \in 1 .. n + 1
            /\ i < x + 1
        BY <1>0, <1>1, <3>2
      <4>2. t[i] < t[x + 1] /\ t[i] = s[i] /\ t[x + 1] = s[x]
        BY <1>0, <1>1, <2>2, <4>1
      <4> QED
        BY <4>2
    <3>3. CASE j <= i
      <4>1. i \in j .. n /\ x \in j .. n /\ i + 1 \in 1 .. n + 1 /\ x + 1 \in 1 .. n + 1
            /\ i + 1 < x + 1
        BY <1>0, <1>1, <3>3
      <4>2. t[i + 1] < t[x + 1] /\ t[i + 1] = s[i] /\ t[x + 1] = s[x]
        BY <1>0, <1>1, <2>2, <4>1
      <4> QED
        BY <4>2
    <3> QED
      BY <1>0, <1>1, <3>1, <3>2, <3>3
  <2>4. ASSUME NEW i \in 1 .. n PROVE s[i] \in X /\ \E k \in X : k < s[i]
    <3>1. CASE i < j
      <4>1. i \in 1 .. j - 1 /\ i \in 1 .. n + 1
        BY <1>0, <1>1, <3>1
      <4> QED
        BY <1>0, <1>1, <2>1, <4>1
    <3>2. CASE j <= i
      <4>1. i \in j .. n /\ i + 1 \in 1 .. n + 1
        BY <1>0, <1>1, <3>2
      <4>2. t[i + 1] = s[i]
        BY <1>0, <1>1, <4>1
      <4> QED
        BY <2>1, <4>1, <4>2
    <3> QED
      BY <1>0, <1>1, <3>1, <3>2
  <2>5. j \in 1 .. n + 1 /\ j \in 1 .. n + 2 /\ j + 1 \in 1 .. n + 2 /\ j \in 1 .. j
    BY <1>0, <1>1
  <2>6. /\ Before(S[c[j]], u) = Before(Piece(X, s, j), u)
        /\ From(S[c[j]], u) = From(Piece(X, s, j), u)
    BY <1>0, <1>1, <1>2, <2>1, <2>5
  <2>7. S[c[j]] = Piece(X, s, j)
    <3>1. ASSUME NEW k PROVE k \in S[c[j]] <=> k \in Piece(X, s, j)
      <4>1. /\ k \in S[c[j]] => k \in Int
            /\ k \in Piece(X, s, j) => k \in Int
            /\ k \in Int => k < u \/ u <= k
        <5>1. Piece(X, s, j) \in SUBSET Int /\ S[c[j]] \in SUBSET Int
          BY DEF Piece
        <5> QED
          BY <1>0, <1>1, <5>1
      <4> QED
        BY <2>6, <4>1 DEF Before, From
    <3> QED
      BY <3>1
  <2>8. ASSUME NEW i \in 1 .. n + 1 PROVE S[c[i]] = Piece(X, s, i)
    <3>1. CASE i \in 1 .. j - 1
      <4>1. i \in 1 .. n + 2 /\ i \in 1 .. j /\ i # j /\ i \in 1 .. Len(c)
        BY <1>0, <1>1, <3>1
      <4>2. R[c[i]] = S[c[i]] /\ d[i] = c[i]
        BY <1>0, <1>1, <4>1
      <4>3. R[d[i]] = Piece(X, t, i) /\ Piece(X, t, i) = Piece(X, s, i)
        BY <1>2, <2>1, <3>1, <4>1
      <4> QED
        BY <4>2, <4>3
    <3>2. CASE i \in j + 1 .. n + 1
      <4>1. i + 1 \in 1 .. n + 2 /\ i # j /\ i \in 1 .. Len(c)
        BY <1>0, <1>1, <3>2
      <4>2. R[c[i]] = S[c[i]] /\ d[i + 1] = c[i]
        BY <1>0, <1>1, <3>2, <4>1
      <4>3. R[d[i + 1]] = Piece(X, t, i + 1) /\ Piece(X, t, i + 1) = Piece(X, s, i)
        BY <1>2, <2>1, <3>2, <4>1
      <4> QED
        BY <4>2, <4>3
    <3> QED
      BY <1>3, <2>7, <3>1, <3>2
  <2>9. \A x \in 1 .. n + 1 : t[x] \in Int
    BY <2>1
  <2>10. u \in S[c[j]]
    <3>1. \A x \in 1 .. (j + 1) - 1 : t[x] <= u
      <4> SUFFICES ASSUME NEW x \in 1 .. j PROVE t[x] <= t[j]
        BY <1>0, <1>1
      <4>1. x \in 1 .. n + 1 /\ (x = j \/ x < j)
        BY <1>0, <1>1
      <4> QED
        BY <1>0, <1>1, <2>2, <2>5, <2>9, <4>1
    <3>2. \A x \in j + 1 .. Len(t) : u < t[x]
      <4> SUFFICES ASSUME NEW x \in j + 1 .. n + 1 PROVE t[j] < t[x]
        BY <1>0, <1>1
      <4>1. x \in 1 .. n + 1 /\ j < x
        BY <1>0, <1>1
      <4> QED
        BY <2>2, <2>5, <4>1
    <3>3. u \in Piece(X, t, j + 1)
      BY <1>0, <1>1, <2>1, <2>5, <3>1, <3>2 DEF Piece
    <3> QED
      BY <1>0, <1>1, <2>1, <2>5, <3>3 DEF From
  <2>11. \E k \in S[c[j]] : k < u
    <3>1. ASSUME NEW k \in X, k < t[j], \A x \in 1 .. j - 1 : t[x] <= k
          PROVE  \E y \in S[c[j]] : y < u
      <4>1. ASSUME NEW x \in j .. n + 1 PROVE k < t[x]
        <5>1. x \in 1 .. n + 1 /\ (x = j \/ j < x)
          BY <1>0, <1>1
        <5>2. k \in Int /\ t[x] \in Int /\ t[j] \in Int
          BY <2>5, <2>9, <5>1
        <5> QED
          BY <2>2, <2>5, <3>1, <5>1, <5>2
      <4>2. k \in Piece(X, t, j)
        BY <1>0, <1>1, <3>1, <4>1 DEF Piece
      <4>3. R[d[j]] = Piece(X, t, j) /\ d[j] = c[j] /\ k \in Int
        BY <1>0, <1>1, <2>1, <2>5
      <4>4. k \in Before(S[c[j]], u)
        BY <1>0, <4>2, <4>3
      <4> QED
        BY <4>4 DEF Before
    <3>2. CASE j = 1
      <4>1. PICK k \in X : k < t[j]
        BY <2>1, <2>5
      <4>2. \A x \in 1 .. j - 1 : t[x] <= k
        BY <3>2
      <4> QED
        BY <3>1, <4>1, <4>2
    <3>3. CASE j > 1
      <4>1. j - 1 \in 1 .. n + 1 /\ j - 1 < j
        BY <1>0, <1>1, <3>3
      <4>2. t[j - 1] \in X /\ t[j - 1] < t[j]
        BY <2>1, <2>2, <2>5, <4>1
      <4>3. ASSUME NEW x \in 1 .. j - 1 PROVE t[x] <= t[j - 1]
        <5>1. x \in 1 .. n + 1 /\ (x = j - 1 \/ x < j - 1)
          BY <1>0, <1>1
        <5> QED
          BY <2>2, <2>9, <4>1, <5>1
      <4> QED
        BY <3>1, <4>2, <4>3
    <3> QED
      BY <1>0, <1>1, <3>2, <3>3
  <2> QED
    BY <1>0, <1>1, <2>3, <2>4, <2>8, <2>10, <2>11 DEF Parted, n
<1>6. ASSUME Parted(X, s, c, S), u \in S[c[j]], NEW y \in S[c[j]], y < u
      PROVE  Parted(X, t, d, R)
  <2>1. /\ Rising(s) /\ \A i \in 1 .. n : s[i] \in X /\ \E k \in X : k < s[i]
        /\ \A i \in 1 .. n + 1 : S[c[i]] = Piece(X, s, i)
    BY <1>0, <1>1, <1>6 DEF Parted, n
  <2>2. \A i, x \in 1 .. n : i < x => s[i] < s[x]
    BY <2>1 DEF Rising, n
  <2>3. u \in Piece(X, s, j) /\ y \in Piece(X, s, j) /\ y \in Int
    BY <1>0, <1>1, <1>6, <2>1
  <2>4. u \in X /\ y \in X /\ y < u
    BY <1>6, <2>3 DEF Piece
  <2>5. \A i \in 1 .. j - 1 : s[i] < u
    <3> SUFFICES ASSUME NEW i \in 1 .. j - 1 PROVE s[i] < u
      OBVIOUS
    <3>1. s[i] <= y /\ s[i] \in Int
      BY <1>0, <1>1, <2>3 DEF Piece
    <3> QED
      BY <1>0, <1>1, <2>3, <2>4, <3>1
  <2>6. \A i \in j .. n : u < s[i]
    BY <2>3 DEF Piece, n
  <2>7. \A i \in 1 .. n + 1 : \/ i \in 1 .. j - 1 /\ t[i] = s[i] /\ i \in 1 .. n
                              \/ i = j /\ t[i] = u
                              \/ i - 1 \in j .. n /\ t[i] = s[i - 1] /\ i - 1 \in 1 .. n
    <3> SUFFICES ASSUME NEW i \in 1 .. n + 1
                 PROVE  \/ i \in 1 .. j - 1 /\ t[i] = s[i] /\ i \in 1 .. n
                        \/ i = j /\ t[i] = u
                        \/ i - 1 \in j .. n /\ t[i] = s[i - 1] /\ i - 1 \in 1 .. n
      OBVIOUS
    <3>1. CASE i < j
      BY <1>0, <1>1, <3>1
    <3>2. CASE i = j
      BY <1>0, <1>1, <3>2
    <3>3. CASE i > j
      <4>1. i - 1 \in j .. n /\ i - 1 \in 1 .. n /\ (i - 1) + 1 = i
        BY <1>0, <1>1, <3>3
      <4>2. t[(i - 1) + 1] = s[i - 1]
        BY <1>0, <1>1, <4>1
      <4> QED
        BY <4>1, <4>2
    <3> QED
      BY <1>0, <1>1, <3>1, <3>2, <3>3
  <2>8. Rising(t)
    <3> SUFFICES ASSUME NEW i \in 1 .. n + 1, NEW x \in 1 .. n + 1, i < x PROVE t[i] < t[x]
      BY <1>0, <1>1 DEF Rising
    <3>1. CASE x < j
      <4>1. t[i] = s[i] /\ t[x] = s[x] /\ i \in 1 .. n /\ x \in 1 .. n
        BY <1>0, <1>1, <2>7, <3>1
      <4> QED
        BY <2>2, <4>1
    <3>2. CASE i < j /\ x = j
      <4>1. t[i] = s[i] /\ t[x] = u /\ i \in 1 .. j - 1
        BY <1>0, <1>1, <2>7, <3>2
      <4> QED
        BY <2>5, <4>1
    <3>3. CASE i < j /\ j < x
      <4>1. t[i] = s[i] /\ t[x] = s[x - 1] /\ i \in 1 .. n /\ x - 1 \in 1 .. n /\ i < x - 1
        <5>1. i \in 1 .. j - 1 /\ ~(x \in 1 .. j - 1) /\ x # j /\ i < x - 1
          BY <1>0, <1>1, <3>3
        <5>2. i # j /\ ~(i - 1 \in j .. n)
          BY <1>0, <1>1, <3>3
        <5> QED
          BY <2>7, <5>1, <5>2
      <4> QED
        BY <2>2, <4>1
    <3>4. CASE i = j
      <4>1. t[i] = u /\ t[x] = s[x - 1] /\ x - 1 \in j .. n
        BY <1>0, <1>1, <2>7, <3>4
      <4> QED
        BY <2>6, <4>1
    <3>5. CASE j < i
      <4>1. ~(i \in 1 .. j - 1) /\ i # j /\ ~(x \in 1 .. j - 1) /\ x # j /\ i - 1 < x - 1
        BY <1>0, <1>1, <3>5
      <4>2. t[i] = s[i - 1] /\ t[x] = s[x - 1] /\ i - 1 \in 1 .. n /\ x - 1 \in 1 .. n
        BY <2>7, <4>1
      <4> QED
        BY <2>2, <4>1, <4>2
    <3> QED
      BY <1>0, <1>1, <3>1, <3>2, <3>3, <3>4, <3>5
  <2>9. ASSUME NEW i \in 1 .. n + 1 PROVE t[i] \in X /\ \E k \in X : k < t[i]
    BY <2>1, <2>4, <2>7
  <2>10. j \in 1 .. n + 1 /\ j \in 1 .. j
    BY <1>0, <1>1
  <2>11. ASSUME NEW i \in 1 .. n + 2 PROVE R[d[i]] = Piece(X, t, i)
    <3>1. CASE i \in 1 .. j - 1
      <4>1. i \in 1 .. n + 1 /\ i \in 1 .. j /\ i # j /\ i \in 1 .. Len(c)
        BY <1>0, <1>1, <3>1
      <4>2. R[c[i]] = S[c[i]] /\ d[i] = c[i] /\ S[c[i]] = Piece(X, s, i)
        BY <1>0, <1>1, <2>1, <4>1
      <4> QED
        BY <1>2, <2>8, <3>1, <4>2
    <3>2. CASE i = j
      <4>1. d[j] = c[j] /\ S[c[j]] = Piece(X, s, j)
        BY <1>0, <1>1, <2>1, <2>10
      <4> QED
        BY <1>0, <1>2, <2>8, <3>2, <4>1
    <3>3. CASE i = j + 1
      <4>1. d[j + 1] = new /\ S[c[j]] = Piece(X, s, j)
        BY <1>0, <1>1, <2>1, <2>10
      <4> QED
        BY <1>0, <1>2, <2>8, <3>3, <4>1
    <3>4. CASE i - 1 \in j + 1 .. n + 1 /\ i = (i - 1) + 1
      <4> DEFINE e == i - 1
      <4>1. e \in j + 1 .. n + 1 /\ e # j /\ e \in 1 .. Len(c) /\ e \in 1 .. n + 1
        BY <1>0, <1>1, <3>4
      <4>2. R[c[e]] = S[c[e]] /\ d[e + 1] = c[e] /\ S[c[e]] = Piece(X, s, e)
        BY <1>0, <1>1, <2>1, <4>1
      <4>3. Piece(X, t, e + 1) = Piece(X, s, e)
        BY <1>2, <2>8, <4>1
      <4> QED
        BY <3>4, <4>2, <4>3
    <3> QED
      BY <1>4, <3>1, <3>2, <3>3, <3>4
  <2> QED
    BY <1>0, <1>1, <2>8, <2>9, <2>11 DEF Parted
<1> QED
  BY <1>5, <1>6 DEF Inside

-----------------------------------------------------------------------------
(* Nodes.                                                                   *)

(* The keys of a leaf lie in its range; a middle node parts it.             *)
InRange(n, X, S) ==
  IF n.leaf THEN Rising(KeysOf(n)) /\ \A i \in 1 .. Len(KeysOf(n)) : KeysOf(n)[i] \in X
  ELSE Parted(X, n.keys, n.pointers, S)

(* l and r are the halves of n around the key u.                            *)
Halved(n, l, r, u) ==
  IF n.leaf THEN l.leaf /\ r.leaf /\ n.data = l.data \o r.data
  ELSE ~l.leaf /\ ~r.leaf /\ CutAt(n.keys, n.pointers, u, l.keys, l.pointers, r.keys, r.pointers)

(* In a leaf, u must be the key its right half starts with.                 *)
StartsRight(n, l, r, u) ==
  n.leaf => Len(KeysOf(l)) >= 1 /\ Len(KeysOf(r)) >= 1 /\ KeysOf(r)[1] = u

LEMMA LeafKeysJoin ==
  ASSUME NEW n \in LeafNodes, NEW l \in LeafNodes, NEW r \in LeafNodes,
         n.data = l.data \o r.data
  PROVE  LET a == Len(KeysOf(l))
             b == Len(KeysOf(r))
         IN  /\ a \in Nat /\ b \in Nat /\ Len(KeysOf(n)) = a + b
             /\ \A i \in 1 .. a : KeysOf(n)[i] = KeysOf(l)[i] /\ KeysOf(l)[i] \in Int
             /\ \A i \in 1 .. b : KeysOf(n)[a + i] = KeysOf(r)[i] /\ KeysOf(r)[i] \in Int
<1> DEFINE x == l.data
           y == r.data
           z == n.data
           kx == KeysOf(l)
           ky == KeysOf(r)
           kz == KeysOf(n)
<1>1. /\ x \in Seq(Keys \X Rids) /\ y \in Seq(Keys \X Rids) /\ z = x \o y
      /\ Len(kz) = Len(z) /\ Len(kx) = Len(x) /\ Len(ky) = Len(y)
      /\ Len(x) \in Nat /\ Len(y) \in Nat
      /\ \A i \in 1 .. Len(z) : kz[i] = z[i][1]
      /\ \A i \in 1 .. Len(x) : kx[i] = x[i][1]
      /\ \A i \in 1 .. Len(y) : ky[i] = y[i][1]
      /\ kx \in Seq(Keys) /\ ky \in Seq(Keys)
  BY LeafIs
<1> HIDE DEF x, y, z, kx, ky, kz
<1>2. /\ Len(z) = Len(x) + Len(y)
      /\ \A i \in 1 .. Len(x) : z[i] = x[i]
      /\ \A i \in 1 .. Len(y) : z[Len(x) + i] = y[i]
  <2>1. /\ Len(x \o y) = Len(x) + Len(y)
        /\ \A i \in 1 .. Len(x) : (x \o y)[i] = x[i]
        /\ \A i \in 1 .. Len(y) : (x \o y)[Len(x) + i] = y[i]
    BY <1>1, ConcatIs
  <2> QED
    BY <1>1, <2>1
<1>3. /\ \A i \in 1 .. Len(x) : i \in 1 .. Len(z)
      /\ \A i \in 1 .. Len(y) : Len(x) + i \in 1 .. Len(z)
  BY <1>1, <1>2
<1>4. /\ \A i \in 1 .. Len(kx) : kx[i] \in Int
      /\ \A i \in 1 .. Len(ky) : ky[i] \in Int
  BY <1>1, ElementOfSeq, TreeAssumption
<1>5. /\ Len(kx) \in Nat /\ Len(ky) \in Nat /\ Len(kz) = Len(kx) + Len(ky)
      /\ \A i \in 1 .. Len(kx) : kz[i] = kx[i] /\ kx[i] \in Int
      /\ \A i \in 1 .. Len(ky) : kz[Len(kx) + i] = ky[i] /\ ky[i] \in Int
  <2>1. ASSUME NEW i \in 1 .. Len(x) PROVE kz[i] = kx[i]
    BY <1>1, <1>2, <1>3
  <2>2. ASSUME NEW i \in 1 .. Len(y) PROVE kz[Len(x) + i] = ky[i]
    <3>1. z[Len(x) + i] = y[i] /\ Len(x) + i \in 1 .. Len(z)
      BY <1>2, <1>3
    <3>2. kz[Len(x) + i] = z[Len(x) + i][1]
      BY <1>1, <3>1
    <3> QED
      BY <1>1, <3>1, <3>2
  <2> QED
    BY <1>1, <1>2, <1>4, <2>1, <2>2
<1> QED
  BY <1>5 DEF kx, ky, kz

(* The halves take the range X between them.                                *)
Shared(l, r, u, X, S) ==
  /\ u \in X /\ \E k \in X : k < u
  /\ InRange(l, Before(X, u), S) /\ InRange(r, From(X, u), S)

(* A leaf is cut, or two are joined.                                        *)
LEMMA LeafHalves ==
  ASSUME NEW n \in LeafNodes, NEW l \in LeafNodes, NEW r \in LeafNodes, NEW u \in Int,
         n.data = l.data \o r.data, NEW X \in SUBSET Int, NEW S
  PROVE  /\ InRange(l, Before(X, u), S) /\ InRange(r, From(X, u), S) => InRange(n, X, S)
         /\ InRange(n, X, S) /\ Len(KeysOf(l)) >= 1 /\ Len(KeysOf(r)) >= 1 /\ KeysOf(r)[1] = u
              => Shared(l, r, u, X, S)
<1> DEFINE a == Len(KeysOf(l))
           b == Len(KeysOf(r))
           ks == KeysOf(n)
           kl == KeysOf(l)
           kr == KeysOf(r)
<1>1. /\ a \in Nat /\ b \in Nat /\ Len(ks) = a + b
      /\ \A i \in 1 .. a : ks[i] = kl[i] /\ kl[i] \in Int
      /\ \A i \in 1 .. b : ks[a + i] = kr[i] /\ kr[i] \in Int
  BY LeafKeysJoin, ZenonT(60)
<1>2. n.leaf /\ l.leaf /\ r.leaf
  BY LeafIs
<1>3. /\ InRange(n, X, S) <=> Rising(ks) /\ \A i \in 1 .. Len(ks) : ks[i] \in X
      /\ InRange(l, Before(X, u), S) <=> /\ Rising(kl)
                                         /\ \A i \in 1 .. a : kl[i] \in Before(X, u)
      /\ InRange(r, From(X, u), S) <=> /\ Rising(kr)
                                       /\ \A i \in 1 .. b : kr[i] \in From(X, u)
  BY <1>2 DEF InRange
<1>a. Len(kl) = a /\ Len(kr) = b
  OBVIOUS
<1> HIDE DEF a, b, ks, kl, kr
<1>4. ASSUME Rising(kl), \A i \in 1 .. a : kl[i] \in X /\ kl[i] < u,
             Rising(kr), \A i \in 1 .. b : kr[i] \in X /\ u <= kr[i]
      PROVE  Rising(ks) /\ \A i \in 1 .. Len(ks) : ks[i] \in X
  <2>1. \A i \in 1 .. a + b : \/ i \in 1 .. a /\ ks[i] = kl[i]
                              \/ i - a \in 1 .. b /\ ks[i] = kr[i - a]
    <3> SUFFICES ASSUME NEW i \in 1 .. a + b, i > a
                 PROVE  i - a \in 1 .. b /\ ks[i] = kr[i - a]
      BY <1>1
    <3>1. i - a \in 1 .. b /\ a + (i - a) = i
      BY <1>1
    <3>2. ks[a + (i - a)] = kr[i - a]
      BY <1>1, <3>1
    <3> QED
      BY <3>1, <3>2
  <2>2. Rising(ks)
    <3> SUFFICES ASSUME NEW i \in 1 .. a + b, NEW j \in 1 .. a + b, i < j PROVE ks[i] < ks[j]
      BY <1>1 DEF Rising
    <3>1. CASE j <= a
      <4>1. i \in 1 .. a /\ j \in 1 .. a
        BY <1>1, <3>1
      <4> QED
        BY <1>1, <1>4, <1>a, <4>1 DEF Rising
    <3>2. CASE i <= a /\ a < j
      <4>1. i \in 1 .. a /\ j - a \in 1 .. b /\ ks[j] = kr[j - a]
        BY <1>1, <2>1, <3>2
      <4>2. ks[i] = kl[i] /\ kl[i] \in Int /\ kl[i] < u /\ u <= kr[j - a] /\ kr[j - a] \in Int
        BY <1>1, <1>4, <4>1
      <4> QED
        BY <4>1, <4>2
    <3>3. CASE a < i
      <4>1. /\ i - a \in 1 .. b /\ ks[i] = kr[i - a] /\ i - a < j - a
            /\ j - a \in 1 .. b /\ ks[j] = kr[j - a]
        BY <1>1, <2>1, <3>3
      <4>2. kr[i - a] < kr[j - a]
        BY <1>4, <1>a, <4>1 DEF Rising
      <4> QED
        BY <4>1, <4>2
    <3> QED
      BY <1>1, <3>1, <3>2, <3>3
  <2> QED
    BY <1>1, <1>4, <2>1, <2>2
<1>5. ASSUME Rising(ks), \A i \in 1 .. Len(ks) : ks[i] \in X, a >= 1, b >= 1, kr[1] = u
      PROVE  /\ u \in X /\ \E k \in X : k < u
             /\ Rising(kl) /\ \A i \in 1 .. a : kl[i] \in X /\ kl[i] < u
             /\ Rising(kr) /\ \A i \in 1 .. b : kr[i] \in X /\ u <= kr[i]
  <2>1. \A i \in 1 .. a : i \in 1 .. a + b /\ i < a + 1
    BY <1>1
  <2>2. \A i \in 1 .. b : a + i \in 1 .. a + b
    BY <1>1
  <2>3. 1 \in 1 .. b /\ 1 \in 1 .. a
    BY <1>1, <1>5
  <2>4. \A i, j \in 1 .. a + b : i < j => ks[i] < ks[j]
    BY <1>1, <1>5 DEF Rising
  <2>5. ks[a + 1] = u /\ a + 1 \in 1 .. a + b /\ u \in X
    BY <1>1, <1>5, <2>2, <2>3
  <2>6. \A i \in 1 .. a : kl[i] \in X /\ kl[i] < u
    BY <1>1, <1>5, <2>1, <2>4, <2>5
  <2>7. ASSUME NEW i \in 1 .. b PROVE kr[i] \in X /\ u <= kr[i]
    <3>1. a + i = a + 1 \/ a + 1 < a + i
      BY <1>1
    <3>2. ks[a + i] = kr[i] /\ ks[a + i] \in X /\ a + i \in 1 .. a + b /\ kr[i] \in Int
      BY <1>1, <1>5, <2>2
    <3> QED
      BY <2>4, <2>5, <3>1, <3>2
  <2>8. Rising(kl)
    <3> SUFFICES ASSUME NEW i \in 1 .. a, NEW j \in 1 .. a, i < j PROVE kl[i] < kl[j]
      BY <1>a DEF Rising
    <3> QED
      BY <1>1, <2>1, <2>4
  <2>9. Rising(kr)
    <3> SUFFICES ASSUME NEW i \in 1 .. b, NEW j \in 1 .. b, i < j PROVE kr[i] < kr[j]
      BY <1>a DEF Rising
    <3>1. a + i \in 1 .. a + b /\ a + j \in 1 .. a + b /\ a + i < a + j
      BY <1>1
    <3>2. ks[a + i] < ks[a + j]
      BY <2>4, <3>1
    <3> QED
      BY <1>1, <3>2
  <2> QED
    BY <2>3, <2>5, <2>6, <2>7, <2>8, <2>9
<1> QED
  BY <1>3, <1>4, <1>5 DEF Before, From, Shared, a, b, kr

LEMMA MiddleHalves ==
  ASSUME NEW n \in MiddleNodes, NEW l \in MiddleNodes, NEW r \in MiddleNodes, NEW u \in Keys,
         Halved(n, l, r, u), NEW X \in SUBSET Int, NEW S
  PROVE  InRange(n, X, S) <=> Shared(l, r, u, X, S)
<1>1. /\ n.leaf = FALSE /\ l.leaf = FALSE /\ r.leaf = FALSE
      /\ l.keys \in Seq(Keys) /\ r.keys \in Seq(Keys)
      /\ l.pointers \in Seq(PageIds) /\ r.pointers \in Seq(PageIds)
  BY MiddleIs
<1>2. CutAt(n.keys, n.pointers, u, l.keys, l.pointers, r.keys, r.pointers)
  BY <1>1 DEF Halved
<1>3. Parted(X, n.keys, n.pointers, S) <=>
        /\ u \in X /\ \E k \in X : k < u
        /\ Parted(Before(X, u), l.keys, l.pointers, S)
        /\ Parted(From(X, u), r.keys, r.pointers, S)
  BY <1>1, <1>2, HalvesParted
<1> QED
  BY <1>1, <1>3 DEF InRange, Shared

LEMMA HalvesSame ==
  ASSUME NEW n \in Nodes, NEW l \in Nodes, NEW r \in Nodes, NEW u, Halved(n, l, r, u)
  PROVE  \/ /\ n.leaf /\ n \in LeafNodes /\ l \in LeafNodes /\ r \in LeafNodes
            /\ n.data = l.data \o r.data
         \/ ~n.leaf /\ n \in MiddleNodes /\ l \in MiddleNodes /\ r \in MiddleNodes
BY NodeIs DEF Halved

LEMMA RangeJoin ==
  ASSUME NEW n \in Nodes, NEW l \in Nodes, NEW r \in Nodes, NEW u \in Keys,
         Halved(n, l, r, u), NEW X \in SUBSET Int, NEW S,
         Shared(l, r, u, X, S)
  PROVE  InRange(n, X, S)
<1>1. u \in Int
  BY TreeAssumption
<1>2. CASE n \in LeafNodes /\ l \in LeafNodes /\ r \in LeafNodes /\ n.data = l.data \o r.data
  BY <1>1, <1>2, LeafHalves DEF Shared
<1>3. CASE n \in MiddleNodes /\ l \in MiddleNodes /\ r \in MiddleNodes
  BY <1>3, MiddleHalves
<1> QED
  BY <1>2, <1>3, HalvesSame

LEMMA RangeSplit ==
  ASSUME NEW n \in Nodes, NEW l \in Nodes, NEW r \in Nodes, NEW u \in Keys,
         Halved(n, l, r, u), StartsRight(n, l, r, u), NEW X \in SUBSET Int, NEW S,
         InRange(n, X, S)
  PROVE  Shared(l, r, u, X, S)
<1>1. u \in Int
  BY TreeAssumption
<1>2. CASE n.leaf /\ n \in LeafNodes /\ l \in LeafNodes /\ r \in LeafNodes
           /\ n.data = l.data \o r.data
  <2>1. Len(KeysOf(l)) >= 1 /\ Len(KeysOf(r)) >= 1 /\ KeysOf(r)[1] = u
    BY <1>2 DEF StartsRight
  <2> QED
    BY <1>1, <1>2, <2>1, LeafHalves
<1>3. CASE n \in MiddleNodes /\ l \in MiddleNodes /\ r \in MiddleNodes
  BY <1>3, MiddleHalves
<1> QED
  BY <1>2, <1>3, HalvesSame

LEMMA RangeElsewhere ==
  ASSUME NEW n \in Nodes, NEW X, NEW S, NEW R, InRange(n, X, S),
         ~n.leaf => \A i \in 1 .. Len(n.pointers) : R[n.pointers[i]] = S[n.pointers[i]]
  PROVE  InRange(n, X, R)
BY PartedElsewhere DEF InRange

LEMMA BlankInRange == ASSUME NEW X, NEW S PROVE InRange(Blank, X, S)
BY BlankIs DEF InRange, Rising

(* The entries of a node, and of all pages.                                 *)
HasEntry(n, e) == n.leaf /\ \E i \in 1 .. Len(n.data) : n.data[i] = e
Stored(pg) == { e \in Keys \X Rids : \E q \in PageIds : HasEntry(pg[q], e) }

LEMMA HalvesEntries ==
  ASSUME NEW n \in Nodes, NEW l \in Nodes, NEW r \in Nodes, NEW u, Halved(n, l, r, u), NEW e
  PROVE  HasEntry(n, e) <=> HasEntry(l, e) \/ HasEntry(r, e)
<1>1. CASE n \in LeafNodes /\ l \in LeafNodes /\ r \in LeafNodes /\ n.data = l.data \o r.data
  <2> DEFINE x == l.data
             y == r.data
             z == n.data
  <2>1. /\ x \in Seq(Keys \X Rids) /\ y \in Seq(Keys \X Rids) /\ z = x \o y
        /\ n.leaf /\ l.leaf /\ r.leaf /\ Len(x) \in Nat /\ Len(y) \in Nat
    BY <1>1, LeafIs
  <2> SUFFICES (\E i \in 1 .. Len(z) : z[i] = e) <=>
                 \/ \E i \in 1 .. Len(x) : x[i] = e
                 \/ \E i \in 1 .. Len(y) : y[i] = e
    BY <2>1 DEF HasEntry
  <2> HIDE DEF x, y, z
  <2>2. /\ Len(x \o y) = Len(x) + Len(y)
        /\ \A i \in 1 .. Len(x) : (x \o y)[i] = x[i]
        /\ \A i \in 1 .. Len(y) : (x \o y)[Len(x) + i] = y[i]
    BY <2>1, ConcatIs
  <2>3. ASSUME NEW i \in 1 .. Len(z), z[i] = e
        PROVE  \/ \E j \in 1 .. Len(x) : x[j] = e
               \/ \E j \in 1 .. Len(y) : y[j] = e
    <3>1. CASE i <= Len(x)
      BY <2>1, <2>2, <2>3, <3>1
    <3>2. CASE i > Len(x)
      <4>1. i - Len(x) \in 1 .. Len(y) /\ Len(x) + (i - Len(x)) = i
        BY <2>1, <2>2, <3>2
      <4>2. (x \o y)[Len(x) + (i - Len(x))] = y[i - Len(x)]
        BY <2>2, <4>1
      <4> QED
        BY <2>1, <2>3, <4>1, <4>2
    <3> QED
      BY <2>1, <3>1, <3>2
  <2>4. ASSUME NEW i \in 1 .. Len(x), x[i] = e PROVE \E j \in 1 .. Len(z) : z[j] = e
    <3>1. i \in 1 .. Len(z) /\ z[i] = x[i]
      BY <2>1, <2>2
    <3> QED
      BY <2>4, <3>1
  <2>5. ASSUME NEW i \in 1 .. Len(y), y[i] = e PROVE \E j \in 1 .. Len(z) : z[j] = e
    <3>1. Len(x) + i \in 1 .. Len(z) /\ z[Len(x) + i] = y[i]
      BY <2>1, <2>2
    <3> QED
      BY <2>5, <3>1
  <2> QED
    BY <2>3, <2>4, <2>5
<1>2. CASE ~n.leaf /\ n \in MiddleNodes /\ l \in MiddleNodes /\ r \in MiddleNodes
  BY <1>2, MiddleIs DEF HasEntry
<1> QED
  BY <1>1, <1>2, HalvesSame

-----------------------------------------------------------------------------
(* Pages.                                                                   *)

Ordered(pg, rt, S) ==
  /\ S \in [PageIds -> SUBSET Int] /\ S[rt] = Int
  /\ \A p \in PageIds : InRange(pg[p], S[p], S)

(* From pg to pg2, page p was cut in two around u: the right half went to   *)
(* page new, and the node in page up has u and new as well.                 *)
Sundered(pg, pg2, p, new, up, j, u) ==
  /\ Halved(pg[p], pg2[p], pg2[new], u)
  /\ ~pg[up].leaf /\ ~pg2[up].leaf
  /\ Widened(pg[up].keys, pg[up].pointers, pg2[up].keys, pg2[up].pointers, j, u, new)
  /\ pg[up].pointers[j] = p
  /\ p # new /\ p # up /\ new # up
  /\ pg[new] = Blank
  /\ \A q \in PageIds \ {p, new, up} : pg2[q] = pg[q]

LEMMA SunderedStored ==
  ASSUME NEW pg \in [PageIds -> Nodes], NEW pg2 \in [PageIds -> Nodes],
         NEW p \in PageIds, NEW new \in PageIds, NEW up \in PageIds, NEW j, NEW u,
         Sundered(pg, pg2, p, new, up, j, u)
  PROVE  Stored(pg2) = Stored(pg)
<1> SUFFICES ASSUME NEW e
             PROVE  (\E q \in PageIds : HasEntry(pg2[q], e)) <=>
                    (\E q \in PageIds : HasEntry(pg[q], e))
  BY DEF Stored
<1>1. /\ Halved(pg[p], pg2[p], pg2[new], u) /\ ~pg[up].leaf /\ ~pg2[up].leaf
      /\ pg[new] = Blank /\ \A q \in PageIds \ {p, new, up} : pg2[q] = pg[q]
  BY DEF Sundered
<1>2. /\ pg[p] \in Nodes /\ pg2[p] \in Nodes /\ pg2[new] \in Nodes
  OBVIOUS
<1>3. HasEntry(pg[p], e) <=> HasEntry(pg2[p], e) \/ HasEntry(pg2[new], e)
  BY <1>1, <1>2, HalvesEntries
<1>4. ~HasEntry(pg[new], e)
  BY <1>1 DEF HasEntry, Blank, Leaf
<1>5. ~HasEntry(pg[up], e) /\ ~HasEntry(pg2[up], e)
  BY <1>1 DEF HasEntry
<1> QED
  BY <1>1, <1>3, <1>4, <1>5

(* The children of the middle nodes.                                        *)
LEMMA KidsOnce ==
  ASSUME NEW pg \in [PageIds -> Nodes], NEW q \in PageIds, ~pg[q].leaf
  PROVE  /\ pg[q] \in MiddleNodes /\ Kids(pg)[q] = pg[q].pointers
         /\ pg[q].keys \in Seq(Keys) /\ pg[q].pointers \in Seq(PageIds)
         /\ Len(pg[q].pointers) = Len(pg[q].keys) + 1 /\ Len(pg[q].keys) \in Nat
         /\ \A i \in 1 .. Len(pg[q].pointers) :
              pg[q].pointers[i] \in PageIds /\ pg[q].pointers[i] \in KidsIn(Kids(pg))
<1>1. pg[q] \in MiddleNodes /\ Kids(pg)[q] = pg[q].pointers
  BY NodeIs DEF Kids
<1>2. Kids(pg) \in Families
  BY KidsAre
<1> QED
  BY <1>1, <1>2, MiddleIs, KidIs

LEMMA OnlyThere ==
  ASSUME NEW pg \in [PageIds -> Nodes], Once(Kids(pg)),
         NEW up \in PageIds, ~pg[up].leaf, NEW j \in 1 .. Len(pg[up].pointers),
         NEW q \in PageIds, ~pg[q].leaf, NEW i \in 1 .. Len(pg[q].pointers),
         pg[q].pointers[i] = pg[up].pointers[j]
  PROVE  q = up /\ i = j
<1>1. Kids(pg)[q] = pg[q].pointers /\ Kids(pg)[up] = pg[up].pointers
  BY KidsOnce
<1> QED
  BY <1>1 DEF Once

(* The ranges R after that, from the ranges S before.                       *)
Moved(S, R, p, new, u) ==
  /\ \A q \in PageIds \ {p, new} : R[q] = S[q]
  /\ R[p] = Before(S[p], u) /\ R[new] = From(S[p], u)

(* The other children of up are neither of the two.                         *)
Alone(c, j, p, new) == \A i \in 1 .. Len(c) : i # j => c[i] \notin {p, new}

(* What WidenedParted says of the pages, for the ranges S before and R after.*)
LEMMA SunderedParted ==
  ASSUME NEW pg \in [PageIds -> Nodes], NEW pg2 \in [PageIds -> Nodes],
         NEW p \in PageIds, NEW new \in PageIds, NEW up \in PageIds, NEW j, NEW u \in Keys,
         Sundered(pg, pg2, p, new, up, j, u),
         NEW S \in [PageIds -> SUBSET Int], NEW R \in [PageIds -> SUBSET Int],
         Moved(S, R, p, new, u), Alone(pg[up].pointers, j, p, new)
  PROVE  InRange(pg2[up], R[up], R) <=> InRange(pg[up], S[up], S) /\ Inside(u, S[p])
<1> DEFINE s == pg[up].keys
           c == pg[up].pointers
           t == pg2[up].keys
           d == pg2[up].pointers
<1>1. /\ ~pg[up].leaf /\ ~pg2[up].leaf /\ Widened(s, c, t, d, j, u, new)
      /\ c[j] = p /\ p # up /\ new # up
  BY DEF Sundered
<1>2. /\ s \in Seq(Keys) /\ t \in Seq(Keys)
      /\ \A i \in 1 .. Len(c) : c[i] \in PageIds
  BY <1>1, KidsOnce
<1>3. S[up] \in SUBSET Int /\ R[up] = S[up] /\ S[c[j]] \in SUBSET Int
  BY <1>1 DEF Moved
<1>4. Recut(S, R, c, j, u, new)
  BY <1>1, <1>2 DEF Recut, Moved, Alone
<1> HIDE DEF s, c, t, d
<1>5. Parted(S[up], t, d, R) <=> Parted(S[up], s, c, S) /\ Inside(u, S[c[j]])
  BY <1>1, <1>2, <1>3, <1>4, WidenedParted, ZenonT(60)
<1> QED
  BY <1>1, <1>3, <1>5 DEF InRange, s, c, t, d

LEMMA SunderedPlace ==
  ASSUME NEW pg \in [PageIds -> Nodes], NEW pg2 \in [PageIds -> Nodes],
         NEW p \in PageIds, NEW new \in PageIds, NEW up \in PageIds, NEW j, NEW u \in Keys,
         Sundered(pg, pg2, p, new, up, j, u)
  PROVE  /\ j \in 1 .. Len(pg[up].pointers) /\ pg[up].pointers[j] = p
         /\ Len(pg2[up].pointers) = Len(pg[up].pointers) + 1
         /\ j \in 1 .. Len(pg2[up].pointers) /\ pg2[up].pointers[j] = p
         /\ j + 1 \in 1 .. Len(pg2[up].pointers) /\ pg2[up].pointers[j + 1] = new
         /\ \A i \in 1 .. Len(pg[up].pointers) : i # j =>
              \E x \in 1 .. Len(pg2[up].pointers) :
                x \notin {j, j + 1} /\ pg[up].pointers[i] = pg2[up].pointers[x]
<1> DEFINE s == pg[up].keys
           c == pg[up].pointers
           t == pg2[up].keys
           d == pg2[up].pointers
<1>1. /\ ~pg[up].leaf /\ ~pg2[up].leaf /\ Widened(s, c, t, d, j, u, new) /\ c[j] = p
  BY DEF Sundered
<1>2. s \in Seq(Keys) /\ t \in Seq(Keys)
  BY <1>1, KidsOnce
<1> HIDE DEF s, c, t, d
<1>3. /\ Len(s) \in Nat /\ j \in 1 .. Len(s) + 1
      /\ Len(c) = Len(s) + 1 /\ Len(d) = Len(s) + 2
      /\ \A i \in 1 .. j : d[i] = c[i]
      /\ d[j + 1] = new
      /\ \A i \in j + 1 .. Len(s) + 1 : d[i + 1] = c[i]
  BY <1>1, <1>2, WidenedIs
<1>4. ASSUME NEW i \in 1 .. Len(c), i # j
      PROVE  \E x \in 1 .. Len(d) : x \notin {j, j + 1} /\ c[i] = d[x]
  <2>1. CASE i < j
    <3>1. i \in 1 .. j /\ i \in 1 .. Len(d) /\ i # j + 1
      BY <1>3, <2>1
    <3> QED
      BY <1>3, <1>4, <3>1
  <2>2. CASE i > j
    <3>1. i \in j + 1 .. Len(s) + 1 /\ i + 1 \in 1 .. Len(d) /\ i + 1 \notin {j, j + 1}
      BY <1>3, <2>2
    <3> QED
      BY <1>3, <3>1
  <2> QED
    BY <1>3, <1>4, <2>1, <2>2
<1>5. /\ j \in 1 .. Len(c) /\ c[j] = p /\ Len(d) = Len(c) + 1
      /\ j \in 1 .. Len(d) /\ d[j] = p /\ j + 1 \in 1 .. Len(d) /\ d[j + 1] = new
  <2>1. j \in 1 .. j
    BY <1>3
  <2> QED
    BY <1>1, <1>3, <2>1
<1> QED
  BY <1>4, <1>5 DEF c, d

-----------------------------------------------------------------------------
(* The chain of the leaves, by the ranges it runs through.                  *)

Convex(X) == \A a, b \in X : \A k \in Int : a < k /\ k < b => k \in X
Rounded(S) == \A p \in PageIds : Convex(S[p])

(* Range Y begins where X ends; X has no end.                               *)
Abut(X, Y) ==
  \E u \in Int : /\ u - 1 \in X /\ u \in Y
                 /\ \A k \in X : k < u
                 /\ \A k \in Y : u <= k
Endless(X) == \A a \in X : \A k \in Int : a < k => k \in X

(* The leaves of the tree.                                                  *)
LeavesOf(pg, rt) == { p \in {rt} \cup KidsIn(Kids(pg)) : pg[p].leaf }

(* Where leaf p leads to.                                                   *)
Leads(pg, L, S, p) ==
  IF pg[p].next = 0 THEN Endless(S[p])
  ELSE pg[p].next \in L /\ Abut(S[p], S[pg[p].next])

Threaded(pg, L, S) ==
  /\ \A p \in L : Leads(pg, L, S, p)
  /\ \A p, q \in L : \A k \in S[p] : k \in S[q] => p = q

(* The chain is in order, for the ranges S of an ordered tree.              *)
Strung(pg, rt, S) == Rounded(S) /\ Threaded(pg, LeavesOf(pg, rt), S)

LEMMA CutConvex ==
  ASSUME NEW X \in SUBSET Int, Convex(X), NEW u \in Int
  PROVE  Convex(Before(X, u)) /\ Convex(From(X, u))
BY DEF Convex, Before, From

LEMMA PieceConvex ==
  ASSUME NEW X \in SUBSET Int, Convex(X), NEW s \in Seq(Keys), NEW i \in 1 .. Len(s) + 1
  PROVE  Convex(Piece(X, s, i))
<1>1. \A j \in 1 .. Len(s) : s[j] \in Int
  BY ElementOfSeq, TreeAssumption
<1>2. (\A j \in 1 .. i - 1 : j \in 1 .. Len(s)) /\ (\A j \in i .. Len(s) : j \in 1 .. Len(s))
  BY LenProperties
<1> SUFFICES ASSUME NEW a \in Piece(X, s, i), NEW b \in Piece(X, s, i), NEW k \in Int,
                    a < k, k < b
             PROVE  k \in Piece(X, s, i)
  BY DEF Convex
<1>3. a \in X /\ b \in X /\ a \in Int /\ b \in Int
  BY DEF Piece
<1>4. k \in X
  BY <1>3 DEF Convex
<1>5. ASSUME NEW j \in 1 .. i - 1 PROVE s[j] <= k
  BY <1>1, <1>2, <1>3 DEF Piece
<1>6. ASSUME NEW j \in i .. Len(s) PROVE k < s[j]
  BY <1>1, <1>2, <1>3 DEF Piece
<1> QED
  BY <1>4, <1>5, <1>6 DEF Piece

(* Inside a convex range, nothing is between the two sides of a cut.        *)
LEMMA InsideMeets ==
  ASSUME NEW X \in SUBSET Int, Convex(X), NEW u \in Int, Inside(u, X)
  PROVE  u - 1 \in X
<1>1. PICK k \in X : k < u
  BY DEF Inside
<1>2. u \in X /\ k \in Int
  BY DEF Inside
<1>3. k = u - 1 \/ (k < u - 1 /\ u - 1 < u /\ u - 1 \in Int)
  BY <1>1, <1>2
<1> QED
  BY <1>1, <1>2, <1>3 DEF Convex

LEMMA CutAbuts ==
  ASSUME NEW X \in SUBSET Int, Convex(X), NEW u \in Int, Inside(u, X)
  PROVE  Abut(Before(X, u), From(X, u))
<1>1. u - 1 \in X /\ u \in X
  BY InsideMeets DEF Inside
<1>2. u - 1 \in Before(X, u) /\ u \in From(X, u)
  BY <1>1 DEF Before, From
<1> QED
  BY <1>2 DEF Before, From, Abut

(* A cut in a neighbour, and its reverse.                                   *)
LEMMA CutLater ==
  ASSUME NEW X \in SUBSET Int, NEW Y \in SUBSET Int, NEW u \in Int, Inside(u, Y)
  PROVE  Abut(X, Y) <=> Abut(X, Before(Y, u)) /\ \A k \in X : k < u
<1>1. PICK k \in Y : k < u
  BY DEF Inside
<1>2. u \in Y /\ k \in Int
  BY DEF Inside
<1>3. ASSUME NEW v \in Int, v - 1 \in X, v \in Y, \A x \in X : x < v, \A y \in Y : v <= y
      PROVE  Abut(X, Before(Y, u)) /\ \A x \in X : x < u
  <2>1. v <= k /\ v < u
    BY <1>1, <1>2, <1>3
  <2>2. v \in Before(Y, u) /\ \A y \in Before(Y, u) : v <= y
    BY <1>3, <2>1 DEF Before
  <2>3. Abut(X, Before(Y, u))
    BY <1>3, <2>2 DEF Abut
  <2> QED
    BY <1>3, <2>1, <2>3
<1>4. ASSUME NEW v \in Int, v - 1 \in X, v \in Before(Y, u), \A x \in X : x < v,
             \A y \in Before(Y, u) : v <= y
      PROVE  Abut(X, Y)
  <2>1. v \in Y /\ v < u
    BY <1>4 DEF Before
  <2>2. ASSUME NEW y \in Y PROVE v <= y
    BY <1>4, <2>1 DEF Before
  <2> QED
    BY <1>4, <2>1, <2>2 DEF Abut
<1> QED
  BY <1>3, <1>4 DEF Abut

LEMMA CutSooner ==
  ASSUME NEW X \in SUBSET Int, NEW Y \in SUBSET Int, NEW u \in Int, Inside(u, X)
  PROVE  Abut(X, Y) <=> Abut(From(X, u), Y)
<1>1. u \in X
  BY DEF Inside
<1>2. ASSUME NEW v \in Int, v - 1 \in X, v \in Y, \A x \in X : x < v, \A y \in Y : v <= y
      PROVE  Abut(From(X, u), Y)
  <2>1. v - 1 \in From(X, u) /\ \A x \in From(X, u) : x < v
    BY <1>1, <1>2 DEF From
  <2> QED
    BY <1>2, <2>1 DEF Abut
<1>3. ASSUME NEW v \in Int, v - 1 \in From(X, u), v \in Y, \A x \in From(X, u) : x < v,
             \A y \in Y : v <= y
      PROVE  Abut(X, Y)
  <2>1. v - 1 \in X /\ u <= v - 1
    BY <1>3 DEF From
  <2>2. ASSUME NEW x \in X PROVE x < v
    BY <1>3, <2>1 DEF From
  <2> QED
    BY <1>3, <2>1, <2>2 DEF Abut
<1> QED
  BY <1>2, <1>3 DEF Abut

LEMMA CutEndless ==
  ASSUME NEW X \in SUBSET Int, NEW u \in Int, Inside(u, X)
  PROVE  Endless(X) => Endless(From(X, u))
BY DEF Endless, From, Inside

LEMMA JoinEndless ==
  ASSUME NEW X \in SUBSET Int, NEW u \in Int, Inside(u, X), Convex(X), Endless(From(X, u))
  PROVE  Endless(X)
<1>1. u \in X /\ u \in From(X, u)
  BY DEF Inside, From
<1> SUFFICES ASSUME NEW a \in X, NEW k \in Int, a < k PROVE k \in X
  BY DEF Endless
<1>2. CASE u < k
  BY <1>1, <1>2 DEF Endless, From
<1>3. CASE k < u
  BY <1>1, <1>3 DEF Convex
<1> QED
  BY <1>1, <1>2, <1>3

(* From pg to pg2, the leaf in page new was put into the chain after p.     *)
Spliced(pg, pg2, L, p, new) ==
  /\ pg2[p].next = new /\ pg2[new].next = pg[p].next
  /\ \A q \in L \ {p} : pg2[q].next = pg[q].next

LEMMA AbutsNotItself ==
  ASSUME NEW X \in SUBSET Int PROVE ~Abut(X, X)
BY DEF Abut

LEMMA AbutsWhere ==
  ASSUME NEW X \in SUBSET Int, NEW Y \in SUBSET Int, NEW u \in Int,
         Abut(X, From(Y, u)), u \in Y
  PROVE  u - 1 \in X
<1>1. PICK v \in Int : /\ v - 1 \in X /\ v \in From(Y, u)
                       /\ \A k \in From(Y, u) : v <= k
  BY DEF Abut
<1>2. u \in From(Y, u) /\ u <= v
  BY <1>1 DEF From
<1>3. v = u
  BY <1>1, <1>2
<1> QED
  BY <1>1, <1>3

LEMMA SpliceThreads ==
  ASSUME NEW pg, NEW pg2, NEW L \in SUBSET PageIds, NEW p \in L,
         NEW new \in PageIds, new \notin L, NEW u \in Int,
         NEW S \in [PageIds -> SUBSET Int], NEW R \in [PageIds -> SUBSET Int],
         Rounded(S), Moved(S, R, p, new, u), Inside(u, S[p]),
         Spliced(pg, pg2, L, p, new)
  PROVE  Threaded(pg, L, S) <=> Threaded(pg2, L \cup {new}, R)
<1> DEFINE M == L \cup {new}
<1>1. /\ \A q \in L \ {p} : q \in PageIds /\ R[q] = S[q] /\ pg2[q].next = pg[q].next
      /\ R[p] = Before(S[p], u) /\ R[new] = From(S[p], u)
      /\ pg2[p].next = new /\ pg2[new].next = pg[p].next
      /\ S[p] \in SUBSET Int /\ Convex(S[p]) /\ p \in PageIds /\ p # new
  BY DEF Moved, Spliced, Rounded
<1>2. 0 \notin PageIds
  BY DEF PageIds
<1>3. u \in S[p] /\ u - 1 \in S[p] /\ u - 1 \in R[p] /\ u \in R[new]
  <2>1. u - 1 \in S[p] /\ u \in S[p]
    BY <1>1, InsideMeets DEF Inside
  <2> QED
    BY <1>1, <2>1 DEF Before, From
<1>4. \A k : k \in S[p] <=> k \in R[p] \/ k \in R[new]
  BY <1>1 DEF Before, From
<1>5. \A k : ~(k \in R[p] /\ k \in R[new])
  BY <1>1 DEF Before, From
<1>6. ASSUME Threaded(pg, L, S) PROVE Threaded(pg2, M, R)
  <2>1. /\ \A q \in L : Leads(pg, L, S, q)
        /\ \A q, r \in L : \A k \in S[q] : k \in S[r] => q = r
    BY <1>6 DEF Threaded
  <2>2. ASSUME NEW q \in L \ {p} PROVE Leads(pg2, M, R, q)
    <3> DEFINE r == pg[q].next
    <3>1. pg2[q].next = r /\ R[q] = S[q] /\ S[q] \in SUBSET Int
      BY <1>1
    <3>2. IF r = 0 THEN Endless(S[q]) ELSE r \in L /\ Abut(S[q], S[r])
      BY <2>1 DEF Leads
    <3> HIDE DEF r
    <3>3. CASE r = p
      <4>1. Abut(S[q], Before(S[p], u))
        BY <1>1, <1>2, <3>1, <3>2, <3>3, CutLater
      <4> QED
        BY <1>1, <1>2, <3>1, <3>3, <4>1 DEF Leads
    <3>4. CASE r # p
      BY <1>1, <3>1, <3>2, <3>4 DEF Leads
    <3> QED
      BY <3>3, <3>4
  <2>3. Leads(pg2, M, R, p)
    <3>1. Abut(R[p], R[new])
      BY <1>1, CutAbuts
    <3> QED
      BY <1>1, <1>2, <3>1 DEF Leads
  <2>4. Leads(pg2, M, R, new)
    <3> DEFINE r == pg[p].next
    <3>1. IF r = 0 THEN Endless(S[p]) ELSE r \in L /\ Abut(S[p], S[r])
      BY <2>1 DEF Leads
    <3>2. pg2[new].next = r
      BY <1>1
    <3> HIDE DEF r
    <3>3. CASE r = 0
      BY <1>1, <3>1, <3>2, <3>3, CutEndless DEF Leads
    <3>4. CASE r # 0
      <4>1. r # p /\ r \in PageIds
        BY <1>1, <3>1, <3>4, AbutsNotItself
      <4>2. Abut(From(S[p], u), S[r])
        BY <1>1, <3>1, <3>4, <4>1, CutSooner
      <4> QED
        BY <1>1, <3>1, <3>2, <3>4, <4>1, <4>2 DEF Leads
    <3> QED
      BY <3>3, <3>4
  <2>5. ASSUME NEW q \in M, NEW r \in M, NEW k \in R[q], k \in R[r] PROVE q = r
    <3>1. CASE q \in L \ {p} /\ r \in L \ {p}
      BY <1>1, <2>1, <2>5, <3>1
    <3>2. CASE q \in L \ {p} /\ r \in {p, new}
      <4>1. k \in S[q] /\ k \in S[p]
        BY <1>1, <1>4, <2>5, <3>2
      <4> QED
        BY <2>1, <3>2, <4>1
    <3>3. CASE q \in {p, new} /\ r \in L \ {p}
      <4>1. k \in S[r] /\ k \in S[p]
        BY <1>1, <1>4, <2>5, <3>3
      <4> QED
        BY <2>1, <3>3, <4>1
    <3>4. CASE q \in {p, new} /\ r \in {p, new}
      BY <1>5, <2>5, <3>4
    <3> QED
      BY <3>1, <3>2, <3>3, <3>4
  <2> QED
    BY <2>2, <2>3, <2>4, <2>5 DEF Threaded
<1>7. ASSUME Threaded(pg2, M, R) PROVE Threaded(pg, L, S)
  <2>1. /\ \A q \in M : Leads(pg2, M, R, q)
        /\ \A q, r \in M : \A k \in R[q] : k \in R[r] => q = r
    BY <1>7 DEF Threaded
  <2>2. ASSUME NEW q \in L \ {p} PROVE Leads(pg, L, S, q)
    <3> DEFINE r == pg[q].next
    <3>1. pg2[q].next = r /\ R[q] = S[q] /\ S[q] \in SUBSET Int
      BY <1>1
    <3>2. IF r = 0 THEN Endless(S[q]) ELSE r \in M /\ Abut(S[q], R[r])
      BY <2>1, <3>1 DEF Leads
    <3>3. pg[q].next = r
      OBVIOUS
    <3> HIDE DEF r
    <3>4. CASE r = p
      <4>1. \A k \in S[q] : k < u
        <5>1. PICK v \in Int : v \in R[p] /\ \A k \in S[q] : k < v
          BY <1>1, <1>2, <3>2, <3>4 DEF Abut
        <5>2. v < u
          BY <1>1, <5>1 DEF Before
        <5> QED
          BY <3>1, <5>1, <5>2
      <4>2. Abut(S[q], S[p])
        BY <1>1, <1>2, <3>1, <3>2, <3>4, <4>1, CutLater
      <4> QED
        BY <1>1, <1>2, <3>3, <3>4, <4>2 DEF Leads
    <3>5. CASE r = new
      <4>1. u - 1 \in S[q]
        BY <1>1, <1>2, <1>3, <3>1, <3>2, <3>5, AbutsWhere
      <4>2. q = p
        BY <1>3, <2>1, <3>1, <4>1
      <4> QED
        BY <4>2
    <3>6. CASE r \notin {p, new}
      BY <1>1, <3>2, <3>3, <3>6 DEF Leads
    <3> QED
      BY <3>4, <3>5, <3>6
  <2>3. Leads(pg, L, S, p)
    <3> DEFINE r == pg[p].next
    <3>1. pg2[new].next = r /\ pg[p].next = r
      BY <1>1
    <3>2. IF r = 0 THEN Endless(R[new]) ELSE r \in M /\ Abut(R[new], R[r])
      BY <2>1, <3>1 DEF Leads
    <3> HIDE DEF r
    <3>3. CASE r = 0
      BY <1>1, <3>1, <3>2, <3>3, JoinEndless DEF Leads
    <3>4. CASE r # 0
      <4>1. r # new
        BY <3>2, <3>4, AbutsNotItself
      <4>2. r # p
        <5>1. ~Abut(R[new], R[p])
          BY <1>1 DEF Abut, Before, From
        <5> QED
          BY <3>2, <3>4, <5>1
      <4>3. r \in L \ {p} /\ R[r] = S[r] /\ S[r] \in SUBSET Int
        BY <1>1, <3>2, <3>4, <4>1, <4>2
      <4>4. Abut(S[p], S[r])
        BY <1>1, <3>2, <3>4, <4>3, CutSooner
      <4> QED
        BY <3>1, <3>4, <4>3, <4>4 DEF Leads
    <3> QED
      BY <3>3, <3>4
  <2>4. ASSUME NEW q \in L, NEW r \in L, NEW k \in S[q], k \in S[r] PROVE q = r
    <3>1. CASE q # p /\ r # p
      BY <1>1, <2>1, <2>4, <3>1
    <3>2. CASE q # p /\ r = p
      <4>1. k \in R[q] /\ (k \in R[p] \/ k \in R[new])
        BY <1>1, <1>4, <2>4, <3>2
      <4> QED
        BY <2>1, <3>2, <4>1
    <3>3. CASE q = p /\ r # p
      <4>1. k \in R[r] /\ (k \in R[p] \/ k \in R[new])
        BY <1>1, <1>4, <2>4, <3>3
      <4> QED
        BY <2>1, <3>3, <4>1
    <3> QED
      BY <3>1, <3>2, <3>3
  <2> QED
    BY <2>2, <2>3, <2>4 DEF Threaded
<1> QED
  BY <1>6, <1>7

(* Only the leaves, their links and their ranges matter.                    *)
Alike(pg, pg2, L, S, R) == \A p \in L : pg2[p].next = pg[p].next /\ R[p] = S[p]

LEMMA AlikeThreads ==
  ASSUME NEW pg, NEW pg2, NEW L, NEW S, NEW R, Alike(pg, pg2, L, S, R)
  PROVE  Threaded(pg, L, S) <=> Threaded(pg2, L, R)
<1>1. \A p \in L : Leads(pg, L, S, p) <=> Leads(pg2, L, R, p)
  BY DEF Alike, Leads
<1>2. \A p \in L : R[p] = S[p]
  BY DEF Alike
<1> QED
  BY <1>1, <1>2 DEF Threaded

(* Page new joined the tree, and took its place in the chain after p.       *)
Joins(pg, pg2, p, new) ==
  /\ KidsIn(Kids(pg2)) = KidsIn(Kids(pg)) \cup {new}
  /\ pg[p].leaf => pg2[p].next = new /\ pg2[new].next = pg[p].next

LEMMA SunderedThreads ==
  ASSUME NEW pg \in [PageIds -> Nodes], NEW pg2 \in [PageIds -> Nodes],
         NEW p \in PageIds, NEW new \in PageIds, NEW up \in PageIds, NEW j, NEW u \in Keys,
         Sundered(pg, pg2, p, new, up, j, u), Joins(pg, pg2, p, new),
         p \in KidsIn(Kids(pg)), new \notin KidsIn(Kids(pg)),
         NEW rt \in PageIds, rt # new,
         NEW S \in [PageIds -> SUBSET Int], NEW R \in [PageIds -> SUBSET Int],
         Rounded(S), Moved(S, R, p, new, u), Inside(u, S[p])
  PROVE  Threaded(pg, LeavesOf(pg, rt), S) <=> Threaded(pg2, LeavesOf(pg2, rt), R)
<1> DEFINE L  == LeavesOf(pg, rt)
           L2 == LeavesOf(pg2, rt)
<1>1. /\ Halved(pg[p], pg2[p], pg2[new], u) /\ ~pg[up].leaf /\ ~pg2[up].leaf
      /\ p # new /\ p # up /\ new # up /\ \A q \in PageIds \ {p, new, up} : pg2[q] = pg[q]
  BY DEF Sundered
<1>2. KidsIn(Kids(pg)) \subseteq PageIds
  BY DEF KidsIn
<1>3. /\ KidsIn(Kids(pg2)) = KidsIn(Kids(pg)) \cup {new}
      /\ pg[p].leaf => pg2[p].next = new /\ pg2[new].next = pg[p].next
  BY DEF Joins
<1>4. L \in SUBSET PageIds /\ new \notin L
  BY <1>2 DEF LeavesOf
<1>5. u \in Int
  BY TreeAssumption
<1>6. CASE pg[p].leaf
  <2>1. pg2[p].leaf /\ pg2[new].leaf
    BY <1>1, <1>6 DEF Halved
  <2>2. p \in L
    BY <1>6 DEF LeavesOf
  <2>3. L2 = L \cup {new}
    BY <1>1, <1>2, <1>3, <1>6, <2>1 DEF LeavesOf
  <2>4. up \notin L
    BY <1>1 DEF LeavesOf
  <2>5. Spliced(pg, pg2, L, p, new)
    BY <1>1, <1>3, <1>4, <1>6, <2>4 DEF Spliced
  <2> HIDE DEF L, L2
  <2>6. Threaded(pg, L, S) <=> Threaded(pg2, L \cup {new}, R)
    BY <1>4, <1>5, <2>2, <2>5, SpliceThreads
  <2> QED
    BY <2>3, <2>6 DEF L, L2
<1>7. CASE ~pg[p].leaf
  <2>1. ~pg2[p].leaf /\ ~pg2[new].leaf
    BY <1>1, <1>7 DEF Halved
  <2>2. p \notin L /\ up \notin L
    BY <1>1, <1>7 DEF LeavesOf
  <2>3. L2 = L
    BY <1>1, <1>2, <1>3, <1>4, <1>7, <2>1 DEF LeavesOf
  <2>4. Alike(pg, pg2, L, S, R)
    BY <1>1, <1>4, <2>2 DEF Alike, Moved
  <2> HIDE DEF L, L2
  <2> QED
    BY <2>3, <2>4, AlikeThreads DEF L, L2
<1> QED
  BY <1>6, <1>7

LEMMA SplitStrung ==
  ASSUME NEW pg \in [PageIds -> Nodes], NEW pg2 \in [PageIds -> Nodes],
         NEW p \in PageIds, NEW new \in PageIds, NEW up \in PageIds, NEW j, NEW u \in Keys,
         Sundered(pg, pg2, p, new, up, j, u), Joins(pg, pg2, p, new),
         p \in KidsIn(Kids(pg)), new \notin KidsIn(Kids(pg)),
         NEW rt \in PageIds, rt # new, NEW S, NEW R,
         Ordered(pg, rt, S), Ordered(pg2, rt, R),
         Strung(pg, rt, S), Moved(S, R, p, new, u), Inside(u, S[p])
  PROVE  Strung(pg2, rt, R)
<1>1. S \in [PageIds -> SUBSET Int] /\ R \in [PageIds -> SUBSET Int] /\ u \in Int
  BY TreeAssumption DEF Ordered
<1>2. Rounded(S) /\ Threaded(pg, LeavesOf(pg, rt), S)
  BY DEF Strung
<1>3. Rounded(R)
  <2>1. /\ \A q \in PageIds \ {p, new} : R[q] = S[q]
        /\ R[p] = Before(S[p], u) /\ R[new] = From(S[p], u)
        /\ S[p] \in SUBSET Int
    BY <1>1 DEF Moved
  <2>2. Convex(R[p]) /\ Convex(R[new])
    BY <1>1, <1>2, <2>1, CutConvex DEF Rounded
  <2> QED
    BY <1>2, <2>1, <2>2 DEF Rounded
<1>4. Threaded(pg2, LeavesOf(pg2, rt), R)
  BY <1>1, <1>2, SunderedThreads
<1> QED
  BY <1>3, <1>4 DEF Strung

LEMMA MergeStrung ==
  ASSUME NEW pg \in [PageIds -> Nodes], NEW pg2 \in [PageIds -> Nodes],
         NEW p \in PageIds, NEW new \in PageIds, NEW up \in PageIds, NEW j, NEW u \in Keys,
         Sundered(pg, pg2, p, new, up, j, u), Joins(pg, pg2, p, new),
         p \in KidsIn(Kids(pg)), new \notin KidsIn(Kids(pg)),
         NEW rt \in PageIds, rt # new, NEW S, NEW R,
         Ordered(pg, rt, S), Ordered(pg2, rt, R), S[new] = R[new],
         Strung(pg2, rt, R), Moved(S, R, p, new, u), Inside(u, S[p])
  PROVE  Strung(pg, rt, S)
<1>1. S \in [PageIds -> SUBSET Int] /\ R \in [PageIds -> SUBSET Int]
  BY DEF Ordered
<1>2. Rounded(R) /\ Threaded(pg2, LeavesOf(pg2, rt), R)
  BY DEF Strung
<1>3. Rounded(S)
  <2>1. \A q \in PageIds \ {p} : S[q] = R[q]
    BY DEF Moved
  <2>2. Convex(S[p])
    <3> DEFINE s == pg[up].keys
    <3>1. /\ ~pg[up].leaf /\ pg[up].pointers[j] = p /\ p # up
      BY DEF Sundered
    <3>2. Parted(S[up], s, pg[up].pointers, S)
      BY <3>1 DEF Ordered, InRange
    <3>3. /\ s \in Seq(Keys) /\ Len(pg[up].pointers) = Len(s) + 1 /\ Len(s) \in Nat
      BY <3>1, KidsOnce
    <3>5. j \in 1 .. Len(pg[up].pointers)
      BY SunderedPlace
    <3>6. S[p] = Piece(S[up], s, j) /\ j \in 1 .. Len(s) + 1
      BY <3>1, <3>2, <3>3, <3>5 DEF Parted
    <3>7. S[up] \in SUBSET Int /\ Convex(S[up])
      BY <1>1, <1>2, <2>1, <3>1 DEF Rounded
    <3> HIDE DEF s
    <3> QED
      BY <3>3, <3>6, <3>7, PieceConvex
  <2> QED
    BY <1>2, <2>1, <2>2 DEF Rounded
<1>4. Threaded(pg, LeavesOf(pg, rt), S)
  BY <1>1, <1>2, <1>3, SunderedThreads
<1> QED
  BY <1>3, <1>4 DEF Strung

(* Where one child's range ends, the next one's begins.                     *)
Meets(X, Y, u) == /\ u - 1 \in X /\ u \in Y
                  /\ \A k \in X : k \in Int /\ k < u
                  /\ \A k \in Y : k \in Int /\ u <= k

LEMMA PiecesMeet ==
  ASSUME NEW pg \in [PageIds -> Nodes], NEW rt, NEW S, Ordered(pg, rt, S), Rounded(S),
         NEW up \in PageIds, ~pg[up].leaf, NEW i \in 1 .. Len(pg[up].pointers) - 1
  PROVE  Meets(S[pg[up].pointers[i]], S[pg[up].pointers[i + 1]], pg[up].keys[i])
<1> DEFINE s == pg[up].keys
           X == S[up]
<1>1. /\ S \in [PageIds -> SUBSET Int] /\ Parted(X, s, pg[up].pointers, S)
  BY DEF Ordered, InRange
<1>2. /\ s \in Seq(Keys) /\ Len(pg[up].pointers) = Len(s) + 1 /\ Len(s) \in Nat
  BY KidsOnce
<1>3. i \in 1 .. Len(s) /\ i \in 1 .. Len(pg[up].pointers)
      /\ i + 1 \in 1 .. Len(pg[up].pointers)
  BY <1>2
<1>4. X \in SUBSET Int /\ Convex(X)
  BY <1>1 DEF Rounded
<1>5. /\ Rising(s) /\ s[i] \in X /\ \E k \in X : k < s[i]
      /\ S[pg[up].pointers[i]] = Piece(X, s, i)
      /\ S[pg[up].pointers[i + 1]] = Piece(X, s, i + 1)
  BY <1>1, <1>3 DEF Parted
<1>6. \A x \in 1 .. Len(s) : s[x] \in Int
  BY <1>2, TreeAssumption, ElementOfSeq
<1> HIDE DEF s, X
<1>7. s[i] - 1 \in X
  BY <1>3, <1>4, <1>5, <1>6, InsideMeets DEF Inside
<1>8. s[i] - 1 \in Piece(X, s, i)
  <2>1. ASSUME NEW x \in 1 .. i - 1 PROVE s[x] <= s[i] - 1
    <3>1. x \in 1 .. Len(s) /\ x < i
      BY <1>2, <1>3
    <3> QED
      BY <1>3, <1>5, <1>6, <3>1 DEF Rising
  <2>2. ASSUME NEW x \in i .. Len(s) PROVE s[i] - 1 < s[x]
    <3>1. x \in 1 .. Len(s) /\ (x = i \/ i < x)
      BY <1>2, <1>3
    <3> QED
      BY <1>3, <1>5, <1>6, <3>1 DEF Rising
  <2> QED
    BY <1>7, <2>1, <2>2 DEF Piece
<1>9. s[i] \in Piece(X, s, i + 1)
  <2>1. ASSUME NEW x \in 1 .. (i + 1) - 1 PROVE s[x] <= s[i]
    <3>1. x \in 1 .. Len(s) /\ (x = i \/ x < i)
      BY <1>2, <1>3
    <3> QED
      BY <1>3, <1>5, <1>6, <3>1 DEF Rising
  <2>2. ASSUME NEW x \in i + 1 .. Len(s) PROVE s[i] < s[x]
    <3>1. x \in 1 .. Len(s) /\ i < x
      BY <1>2, <1>3
    <3> QED
      BY <1>3, <1>5, <1>6, <3>1 DEF Rising
  <2> QED
    BY <1>5, <2>1, <2>2 DEF Piece
<1>10. \A k \in Piece(X, s, i) : k \in Int /\ k < s[i]
  <2>1. i \in i .. Len(s)
    BY <1>2, <1>3
  <2> QED
    BY <1>4, <2>1 DEF Piece
<1>11. \A k \in Piece(X, s, i + 1) : k \in Int /\ s[i] <= k
  <2>1. i \in 1 .. (i + 1) - 1
    BY <1>2, <1>3
  <2> QED
    BY <1>4, <2>1 DEF Piece
<1>12. Meets(Piece(X, s, i), Piece(X, s, i + 1), s[i])
  BY <1>8, <1>9, <1>10, <1>11 DEF Meets
<1> QED
  BY <1>5, <1>12 DEF s

(* The leaf that ends where another begins leads to it.                     *)
LEMMA MeetsLeads ==
  ASSUME NEW pg, NEW L, NEW S, Threaded(pg, L, S),
         NEW p \in L, NEW q \in L, NEW u \in Int, Meets(S[p], S[q], u)
  PROVE  pg[p].next = q
<1> DEFINE r == pg[p].next
<1>1. /\ u - 1 \in S[p] /\ u \in S[q]
      /\ \A k \in S[p] : k \in Int /\ k < u
  BY DEF Meets
<1>2. Leads(pg, L, S, p) /\ \A x, y \in L : \A k \in S[x] : k \in S[y] => x = y
  BY DEF Threaded
<1>3. IF r = 0 THEN Endless(S[p]) ELSE r \in L /\ Abut(S[p], S[r])
  BY <1>2 DEF Leads
<1> HIDE DEF r
<1>4. r # 0
  <2>1. ~Endless(S[p])
    BY <1>1 DEF Endless
  <2> QED
    BY <1>3, <2>1
<1>5. PICK v \in Int : v - 1 \in S[p] /\ v \in S[r] /\ \A k \in S[p] : k < v
  BY <1>3, <1>4 DEF Abut
<1>6. v = u
  BY <1>1, <1>5
<1>7. r = q
  BY <1>1, <1>2, <1>3, <1>4, <1>5, <1>6
<1> QED
  BY <1>7 DEF r

LEMMA SiblingsLinked ==
  ASSUME NEW pg \in [PageIds -> Nodes], NEW rt, NEW S, Ordered(pg, rt, S), Strung(pg, rt, S),
         NEW up \in PageIds, ~pg[up].leaf, NEW i \in 1 .. Len(pg[up].pointers) - 1,
         NEW low, NEW high, low = pg[up].pointers[i], high = pg[up].pointers[i + 1],
         pg[low].leaf, pg[high].leaf
  PROVE  pg[low].next = high
<1>1. Rounded(S) /\ Threaded(pg, LeavesOf(pg, rt), S)
  BY DEF Strung
<1>2. Len(pg[up].pointers) \in Nat /\ pg[up].keys \in Seq(Keys)
      /\ Len(pg[up].pointers) = Len(pg[up].keys) + 1
  BY KidsOnce
<1>3. i \in 1 .. Len(pg[up].pointers) /\ i + 1 \in 1 .. Len(pg[up].pointers)
      /\ i \in 1 .. Len(pg[up].keys)
  BY <1>2
<1>4. low \in LeavesOf(pg, rt) /\ high \in LeavesOf(pg, rt)
  <2>1. low \in KidsIn(Kids(pg)) /\ high \in KidsIn(Kids(pg))
    BY <1>3, KidsOnce
  <2> QED
    BY <2>1 DEF LeavesOf
<1>5. Meets(S[low], S[high], pg[up].keys[i])
  BY <1>1, PiecesMeet
<1>6. pg[up].keys[i] \in Int
  BY <1>2, <1>3, TreeAssumption, ElementOfSeq
<1> QED
  BY <1>1, <1>4, <1>5, <1>6, MeetsLeads

-----------------------------------------------------------------------------
(* Splits and merges.                                                       *)

(* A split keeps the order.                                                 *)
LEMMA SplitOrdered ==
  ASSUME NEW pg \in [PageIds -> Nodes], NEW pg2 \in [PageIds -> Nodes],
         NEW p \in PageIds, NEW new \in PageIds, NEW up \in PageIds, NEW j, NEW u \in Keys,
         Sundered(pg, pg2, p, new, up, j, u), StartsRight(pg[p], pg2[p], pg2[new], u),
         Once(Kids(pg)), new \notin KidsIn(Kids(pg)),
         NEW rt \in PageIds, rt \notin {p, new}, NEW S, Ordered(pg, rt, S)
  PROVE  \E R : Ordered(pg2, rt, R) /\ Moved(S, R, p, new, u) /\ Inside(u, S[p])
<1> DEFINE R == [S EXCEPT ![p] = Before(S[p], u), ![new] = From(S[p], u)]
<1>1. /\ Halved(pg[p], pg2[p], pg2[new], u) /\ ~pg[up].leaf
      /\ p # new /\ p # up /\ new # up /\ \A q \in PageIds \ {p, new, up} : pg2[q] = pg[q]
  BY DEF Sundered
<1>2. /\ S \in [PageIds -> SUBSET Int] /\ S[rt] = Int
      /\ \A q \in PageIds : InRange(pg[q], S[q], S)
  BY DEF Ordered
<1>3. /\ R \in [PageIds -> SUBSET Int] /\ R[p] = Before(S[p], u) /\ R[new] = From(S[p], u)
      /\ \A q \in PageIds \ {p, new} : R[q] = S[q]
  BY <1>1, <1>2 DEF Before, From
<1> HIDE DEF R
<1>4. ASSUME NEW q \in PageIds, ~pg[q].leaf, NEW i \in 1 .. Len(pg[q].pointers),
             ~(q = up /\ i = j)
      PROVE  pg[q].pointers[i] \in PageIds \ {p, new}
  <2>1. pg[q].pointers[i] \in PageIds /\ pg[q].pointers[i] # new
    BY <1>4, KidsOnce
  <2>2. ASSUME pg[q].pointers[i] = p PROVE q = up /\ i = j
    <3>1. j \in 1 .. Len(pg[up].pointers) /\ pg[up].pointers[j] = p
      BY SunderedPlace
    <3> QED
      BY <1>1, <1>4, <2>2, <3>1, OnlyThere
  <2> QED
    BY <1>4, <2>1, <2>2
<1>5. ASSUME NEW q \in PageIds \ {up} PROVE InRange(pg[q], S[q], R)
  <2>1. ~pg[q].leaf => \A i \in 1 .. Len(pg[q].pointers) :
                         R[pg[q].pointers[i]] = S[pg[q].pointers[i]]
    BY <1>3, <1>4
  <2> QED
    BY <1>2, <2>1, RangeElsewhere
<1>6. Shared(pg2[p], pg2[new], u, S[p], R)
  <2>1. /\ pg[p] \in Nodes /\ pg2[p] \in Nodes /\ pg2[new] \in Nodes
        /\ S[p] \in SUBSET Int /\ InRange(pg[p], S[p], R)
    BY <1>1, <1>2, <1>5
  <2> QED
    BY <1>1, <2>1, RangeSplit
<1>7. InRange(pg2[up], R[up], R)
  <2>1. Alone(pg[up].pointers, j, p, new)
    BY <1>1, <1>4 DEF Alone
  <2>2. InRange(pg[up], S[up], S) /\ Inside(u, S[p])
    BY <1>2, <1>6 DEF Shared, Inside
  <2>3. Moved(S, R, p, new, u)
    BY <1>3 DEF Moved
  <2>4. S \in [PageIds -> SUBSET Int] /\ R \in [PageIds -> SUBSET Int]
    BY <1>2, <1>3
  <2>5. InRange(pg2[up], R[up], R) <=> InRange(pg[up], S[up], S) /\ Inside(u, S[p])
    BY <2>1, <2>3, <2>4, SunderedParted
  <2> QED
    BY <2>2, <2>5
<1>8. ASSUME NEW q \in PageIds PROVE InRange(pg2[q], R[q], R)
  <2>1. CASE q = p \/ q = new
    BY <1>3, <1>6, <2>1 DEF Shared
  <2>2. CASE q \in PageIds \ {p, new, up}
    BY <1>1, <1>3, <1>5, <2>2
  <2> QED
    BY <1>7, <2>1, <2>2
<1>9. R[rt] = Int
  BY <1>2, <1>3
<1>10. Moved(S, R, p, new, u) /\ Inside(u, S[p])
  BY <1>3, <1>6 DEF Moved, Shared, Inside
<1> QED
  BY <1>3, <1>8, <1>9, <1>10 DEF Ordered

(* So does its reverse, a merge.                                            *)
LEMMA MergeOrdered ==
  ASSUME NEW pg \in [PageIds -> Nodes], NEW pg2 \in [PageIds -> Nodes],
         NEW p \in PageIds, NEW new \in PageIds, NEW up \in PageIds, NEW j, NEW u \in Keys,
         Sundered(pg, pg2, p, new, up, j, u), Once(Kids(pg2)),
         NEW rt \in PageIds, rt \notin {p, new}, NEW R, Ordered(pg2, rt, R)
  PROVE  \E S : /\ Ordered(pg, rt, S) /\ Moved(S, R, p, new, u) /\ Inside(u, S[p])
                /\ S[new] = R[new]
<1> DEFINE S == [R EXCEPT ![p] = R[p] \cup R[new]]
<1>1. /\ Halved(pg[p], pg2[p], pg2[new], u) /\ ~pg[up].leaf /\ ~pg2[up].leaf
      /\ p # new /\ p # up /\ new # up /\ \A q \in PageIds \ {p, new, up} : pg2[q] = pg[q]
      /\ pg[new] = Blank
  BY DEF Sundered
<1>2. /\ R \in [PageIds -> SUBSET Int] /\ R[rt] = Int
      /\ \A q \in PageIds : InRange(pg2[q], R[q], R)
  BY DEF Ordered
<1>3. /\ S \in [PageIds -> SUBSET Int] /\ S[p] = R[p] \cup R[new]
      /\ \A q \in PageIds \ {p} : S[q] = R[q]
  BY <1>1, <1>2
<1> HIDE DEF S
<1>4. ASSUME NEW q \in PageIds, ~pg2[q].leaf, NEW i \in 1 .. Len(pg2[q].pointers),
             ~(q = up /\ i \in {j, j + 1})
      PROVE  pg2[q].pointers[i] \in PageIds \ {p, new}
  <2>1. pg2[q].pointers[i] \in PageIds
    BY <1>4, KidsOnce
  <2>2. /\ j \in 1 .. Len(pg2[up].pointers) /\ pg2[up].pointers[j] = p
        /\ j + 1 \in 1 .. Len(pg2[up].pointers) /\ pg2[up].pointers[j + 1] = new
    BY SunderedPlace
  <2>3. pg2[q].pointers[i] # p
    BY <1>1, <1>4, <2>2, OnlyThere
  <2>4. pg2[q].pointers[i] # new
    BY <1>1, <1>4, <2>2, OnlyThere
  <2> QED
    BY <2>1, <2>3, <2>4
<1>5. ASSUME NEW q \in PageIds \ {up} PROVE InRange(pg2[q], R[q], S)
  <2>1. ~pg2[q].leaf => \A i \in 1 .. Len(pg2[q].pointers) :
                          S[pg2[q].pointers[i]] = R[pg2[q].pointers[i]]
    BY <1>3, <1>4
  <2> QED
    BY <1>2, <2>1, RangeElsewhere
<1>6. R[p] = Before(S[p], u) /\ R[new] = From(S[p], u)
  <2> DEFINE t == pg2[up].keys
             d == pg2[up].pointers
  <2>1. /\ j \in 1 .. Len(d) /\ d[j] = p /\ j + 1 \in 1 .. Len(d) /\ d[j + 1] = new
    BY SunderedPlace
  <2>2. \A i \in 1 .. Len(d) : R[d[i]] = Piece(R[up], t, i)
    BY <1>1, <1>2 DEF InRange, Parted
  <2>3. t[j] = u /\ Len(d) = Len(t) + 1 /\ Len(t) \in Nat /\ u \in Int
    <3>1. Inserted(pg[up].keys, t, j, u)
      BY DEF Sundered, Widened
    <3> QED
      BY <1>1, <3>1, KidsOnce, TreeAssumption DEF Inserted
  <2> HIDE DEF t, d
  <2>4. j \in j .. Len(t) /\ j \in 1 .. (j + 1) - 1
    BY <2>1, <2>3
  <2>5. /\ R[p] = Piece(R[up], t, j) /\ R[new] = Piece(R[up], t, j + 1)
        /\ R[p] \in SUBSET Int /\ R[new] \in SUBSET Int
    BY <1>2, <2>1, <2>2
  <2>6. \A k \in R[p] : k \in Int /\ k < u
    BY <2>3, <2>4, <2>5 DEF Piece
  <2>7. \A k \in R[new] : k \in Int /\ u <= k
    BY <2>3, <2>4, <2>5 DEF Piece
  <2>8. \A k \in Int : ~(k < u /\ u <= k)
    BY <2>3
  <2> QED
    BY <1>3, <2>6, <2>7, <2>8 DEF Before, From
<1>7. InRange(pg[up], S[up], S) /\ Inside(u, S[p])
  <2>1. Alone(pg[up].pointers, j, p, new)
    <3> SUFFICES ASSUME NEW i \in 1 .. Len(pg[up].pointers), i # j
                 PROVE  pg[up].pointers[i] \notin {p, new}
      BY DEF Alone
    <3>1. PICK x \in 1 .. Len(pg2[up].pointers) :
                 x \notin {j, j + 1} /\ pg[up].pointers[i] = pg2[up].pointers[x]
      BY SunderedPlace
    <3> QED
      BY <1>1, <1>4, <3>1
  <2>2. InRange(pg2[up], R[up], R)
    BY <1>2
  <2>3. Moved(S, R, p, new, u)
    BY <1>3, <1>6 DEF Moved
  <2>4. S \in [PageIds -> SUBSET Int] /\ R \in [PageIds -> SUBSET Int]
    BY <1>2, <1>3
  <2> QED
    BY <2>1, <2>2, <2>3, <2>4, SunderedParted
<1>8. InRange(pg[p], S[p], S)
  <2>1. Shared(pg2[p], pg2[new], u, S[p], S)
    BY <1>1, <1>5, <1>6, <1>7 DEF Shared, Inside
  <2>2. pg[p] \in Nodes /\ pg2[p] \in Nodes /\ pg2[new] \in Nodes /\ S[p] \in SUBSET Int
    BY <1>3
  <2> QED
    BY <1>1, <2>1, <2>2, RangeJoin
<1>9. ASSUME NEW q \in PageIds PROVE InRange(pg[q], S[q], S)
  <2>1. CASE q = new
    BY <1>1, <2>1, BlankInRange
  <2>2. CASE q \in PageIds \ {p, new, up}
    BY <1>1, <1>3, <1>5, <2>2
  <2> QED
    BY <1>7, <1>8, <2>1, <2>2
<1>10. S[rt] = Int
  BY <1>2, <1>3
<1>11. Moved(S, R, p, new, u) /\ S[new] = R[new]
  BY <1>1, <1>3, <1>6 DEF Moved
<1> QED
  BY <1>3, <1>7, <1>9, <1>10, <1>11 DEF Ordered

-----------------------------------------------------------------------------
(* The ways nodes are cut.                                                  *)

LEMMA MiddleFields ==
  ASSUME NEW k, NEW c
  PROVE  Middle(k, c).leaf = FALSE /\ Middle(k, c).keys = k /\ Middle(k, c).pointers = c
BY DEF Middle

LEMMA MiddleCut ==
  ASSUME NEW s \in Seq(Keys), NEW c \in Seq(PageIds), Len(c) = Len(s) + 1,
         NEW n \in 1 .. Len(s)
  PROVE  CutAt(s, c, s[n], SubSeq(s, 1, n - 1), SubSeq(c, 1, n),
               SubSeq(s, n + 1, Len(s)), SubSeq(c, n + 1, Len(c)))
<1>1. /\ Len(s) \in Nat /\ n \in 0 .. Len(s) /\ n - 1 \in 0 .. Len(s) /\ n \in 0 .. Len(c)
  BY LenProperties
<1>2. /\ Len(SubSeq(s, n + 1, Len(s))) = Len(s) - n
      /\ SubSeq(s, 1, n) \o SubSeq(s, n + 1, Len(s)) = s
  BY <1>1, CutIs
<1>3. Len(SubSeq(s, 1, n - 1)) = n - 1
  BY <1>1, CutIs
<1>4. /\ Len(SubSeq(c, 1, n)) = n /\ Len(SubSeq(c, n + 1, Len(c))) = Len(c) - n
      /\ SubSeq(c, 1, n) \o SubSeq(c, n + 1, Len(c)) = c
  BY <1>1, CutIs
<1>5. SubSeq(s, 1, n) = SubSeq(s, 1, n - 1) \o <<s[n]>>
  <2>1. 1 \in 1 .. Len(s) /\ n \in 1 .. Len(s)
    BY <1>1
  <2> QED
    BY <2>1, SubSeqRecursiveSecond
<1> DEFINE a == SubSeq(s, 1, n - 1)
           b == SubSeq(s, n + 1, Len(s))
           x == SubSeq(c, 1, n)
           y == SubSeq(c, n + 1, Len(c))
<1>6. s = (a \o <<s[n]>>) \o b /\ c = x \o y
  BY <1>2, <1>4, <1>5
<1>7. Len(x) = Len(a) + 1 /\ Len(y) = Len(b) + 1
  BY <1>1, <1>2, <1>3, <1>4
<1> HIDE DEF a, b, x, y
<1>8. CutAt(s, c, s[n], a, x, b, y)
  BY <1>6, <1>7 DEF CutAt
<1> QED
  BY <1>8 DEF a, b, x, y

LEMMA LeafCut ==
  ASSUME NEW n \in LeafNodes, NEW m \in 1 .. Len(n.data) - 1, NEW x \in 0 .. MaxPages,
         NEW y \in 0 .. MaxPages
  PROVE  LET l == Leaf(SubSeq(n.data, 1, m), x)
             r == Leaf(SubSeq(n.data, m + 1, Len(n.data)), y)
             u == n.data[m + 1][1]
         IN  Halved(n, l, r, u) /\ StartsRight(n, l, r, u)
<1> DEFINE d == n.data
           dl == SubSeq(d, 1, m)
           dr == SubSeq(d, m + 1, Len(d))
           l == Leaf(dl, x)
           r == Leaf(dr, y)
<1>1. d \in Seq(Keys \X Rids) /\ Len(d) \in Nat /\ n.leaf
  BY LeafIs
<1> HIDE DEF d
<1>2. m \in 0 .. Len(d) /\ m \in 1 .. Len(d) - 1
  BY <1>1 DEF d
<1>3. /\ dl \in Seq(Keys \X Rids) /\ Len(dl) = m /\ dr \in Seq(Keys \X Rids)
      /\ Len(dr) = Len(d) - m /\ dl \o dr = d
  BY <1>1, <1>2, CutIs
<1>4. dr[1] = d[m + 1]
  <2>1. /\ m + 1 \in 1 .. Len(d) + 1 /\ Len(d) \in 0 .. Len(d) /\ m + 1 <= Len(d) + 1
        /\ 1 \in 1 .. Len(d) + 1 - (m + 1) /\ (m + 1) + 1 - 1 = m + 1
    BY <1>1, <1>2
  <2>2. \A i \in 1 .. Len(d) + 1 - (m + 1) : dr[i] = d[(m + 1) + i - 1]
    BY <1>1, <2>1, PartIs
  <2> QED
    BY <2>1, <2>2
<1> HIDE DEF dl, dr
<1>5. /\ l \in LeafNodes /\ l.leaf = TRUE /\ l.data = dl /\ Len(KeysOf(l)) = m
  BY <1>3, LeafMade
<1>6. r \in LeafNodes /\ r.leaf = TRUE /\ r.data = dr /\ Len(KeysOf(r)) = Len(d) - m
  BY <1>3, LeafMade
<1> HIDE DEF l, r
<1>7. KeysOf(r)[1] = dr[1][1]
  <2>1. /\ Len(KeysOf(r)) = Len(r.data)
        /\ \A i \in 1 .. Len(r.data) : KeysOf(r)[i] = r.data[i][1]
    BY <1>6, LeafIs
  <2>2. 1 \in 1 .. Len(r.data)
    BY <1>1, <1>2, <1>6, <2>1
  <2> QED
    BY <1>6, <2>1, <2>2
<1>8. Halved(n, l, r, d[m + 1][1])
  BY <1>1, <1>3, <1>5, <1>6 DEF Halved, d
<1>9. StartsRight(n, l, r, d[m + 1][1])
  BY <1>1, <1>2, <1>4, <1>5, <1>6, <1>7 DEF StartsRight
<1> QED
  BY <1>8, <1>9 DEF l, r, dl, dr, d

(* The halves of an overfull node.                                          *)
LEMMA HalvesCut ==
  ASSUME NEW n \in Nodes, Len(KeysOf(n)) = 2 * T, NEW x \in PageIds
  PROVE  /\ Halved(n, LeftHalf(n, x), RightHalf(n), UpKey(n))
         /\ StartsRight(n, LeftHalf(n, x), RightHalf(n), UpKey(n))
<1>0. T \in Nat /\ T >= 2 /\ x \in 0 .. MaxPages
  BY Constants DEF PageIds
<1>1. CASE n.leaf
  <2>1. /\ n \in LeafNodes /\ Len(n.data) = 2 * T /\ n.next \in 0 .. MaxPages
        /\ \A i \in 1 .. Len(n.data) : KeysOf(n)[i] = n.data[i][1]
    BY <1>1, NodeIs, LeafIs
  <2>2. T \in 1 .. Len(n.data) - 1 /\ T + 1 \in 1 .. Len(n.data)
    BY <1>0, <2>1
  <2>3. UpKey(n) = n.data[T + 1][1]
    BY <1>1, <2>1, <2>2 DEF UpKey
  <2>4. LET l == Leaf(SubSeq(n.data, 1, T), x)
            r == Leaf(SubSeq(n.data, T + 1, Len(n.data)), n.next)
            u == n.data[T + 1][1]
        IN  Halved(n, l, r, u) /\ StartsRight(n, l, r, u)
    BY <1>0, <2>1, <2>2, LeafCut
  <2> QED
    BY <1>1, <2>3, <2>4 DEF LeftHalf, RightHalf
<1>2. CASE ~n.leaf
  <2>1. /\ n.keys \in Seq(Keys) /\ n.pointers \in Seq(PageIds) /\ KeysOf(n) = n.keys
        /\ Len(n.pointers) = Len(n.keys) + 1 /\ n.leaf = FALSE
    BY <1>2, NodeIs, MiddleIs
  <2>2. T \in 1 .. Len(n.keys)
    BY <1>0, <2>1
  <2>3. CutAt(n.keys, n.pointers, n.keys[T], SubSeq(n.keys, 1, T - 1), SubSeq(n.pointers, 1, T),
              SubSeq(n.keys, T + 1, Len(n.keys)), SubSeq(n.pointers, T + 1, Len(n.pointers)))
    BY <2>1, <2>2, MiddleCut
  <2> QED
    BY <1>2, <2>1, <2>3 DEF Halved, StartsRight, LeftHalf, RightHalf, UpKey, Middle
<1> QED
  BY <1>1, <1>2

(* A borrow cuts what a merge would make.                                   *)
LEMMA RotationCut ==
  ASSUME NEW low \in Nodes, NEW high \in Nodes, low.leaf = high.leaf,
         NEW sep \in Keys, NEW fromHigh \in BOOLEAN,
         IF fromHigh THEN Len(KeysOf(high)) >= 2 ELSE Len(KeysOf(low)) >= 2
  PROVE  LET r == Rotation(low, high, sep, fromHigh)
             n == Merged(low, high, sep)
         IN  Halved(n, r.low, r.high, r.sep) /\ StartsRight(n, r.low, r.high, r.sep)
<1> DEFINE d   == IF fromHigh THEN 1 ELSE -1
           a   == Len(KeysOf(low))
           b   == Len(KeysOf(high))
           cut == a + d
           n   == Merged(low, high, sep)
           r   == Rotation(low, high, sep, fromHigh)
<1>1. /\ a \in Nat /\ b \in Nat /\ d \in Int /\ cut \in Nat
      /\ cut + 1 <= a + b
  BY NodeIs
<1>2. n \in Nodes /\ n.leaf = low.leaf
      /\ Len(KeysOf(n)) = a + b + (IF low.leaf THEN 0 ELSE 1)
  BY MergedIs
<1>3. CASE low.leaf
  <2>1. /\ n = Leaf(low.data \o high.data, high.next) /\ n.data = low.data \o high.data
        /\ n \in LeafNodes /\ low \in LeafNodes /\ high \in LeafNodes
    BY <1>2, <1>3, NodeIs DEF Merged, Leaf
  <2>2. low.next \in 0 .. MaxPages /\ high.next \in 0 .. MaxPages /\ Len(n.data) = a + b
    <3>1. low.next \in 0 .. MaxPages /\ high.next \in 0 .. MaxPages
      BY <2>1, LeafIs
    <3>2. Len(KeysOf(n)) = Len(n.data)
      BY <2>1, LeafIs
    <3> QED
      BY <1>1, <1>2, <1>3, <3>1, <3>2
  <2>3. r = [low |-> Leaf(SubSeq(n.data, 1, cut), low.next),
             high |-> Leaf(SubSeq(n.data, cut + 1, Len(n.data)), high.next),
             sep |-> n.data[cut + 1][1]]
    BY <1>3, <2>1 DEF Rotation
  <2>4. r.low = Leaf(SubSeq(n.data, 1, cut), low.next)
        /\ r.high = Leaf(SubSeq(n.data, cut + 1, Len(n.data)), high.next)
        /\ r.sep = n.data[cut + 1][1]
    BY <2>3
  <2>5. cut \in 1 .. Len(n.data) - 1
    BY <1>1, <2>2, NodeIs
  <2> HIDE DEF n, r, cut
  <2>6. LET x == Leaf(SubSeq(n.data, 1, cut), low.next)
            y == Leaf(SubSeq(n.data, cut + 1, Len(n.data)), high.next)
            u == n.data[cut + 1][1]
        IN  Halved(n, x, y, u) /\ StartsRight(n, x, y, u)
    BY <2>1, <2>2, <2>5, LeafCut
  <2> QED
    BY <2>4, <2>6 DEF n, r
<1>4. CASE ~low.leaf
  <2>1. /\ n = Middle(low.keys \o <<sep>> \o high.keys, low.pointers \o high.pointers)
        /\ n \in MiddleNodes /\ n.leaf = FALSE
    BY <1>2, <1>4, NodeIs DEF Merged
  <2>2. /\ n.keys = low.keys \o <<sep>> \o high.keys
        /\ n.pointers = low.pointers \o high.pointers
        /\ a = Len(low.keys)
    <3>1. KeysOf(low) = low.keys
      BY <1>4 DEF KeysOf
    <3> QED
      <4> DEFINE k == low.keys \o <<sep>> \o high.keys
                 c == low.pointers \o high.pointers
      <4> HIDE DEF k, c, n
      <4>1. n = Middle(k, c)
        BY <2>1 DEF k, c
      <4>2. n.keys = k /\ n.pointers = c
        BY <4>1, MiddleFields
      <4> QED
        BY <3>1, <4>2 DEF k, c
  <2>3. /\ n.keys \in Seq(Keys) /\ n.pointers \in Seq(PageIds)
        /\ Len(n.pointers) = Len(n.keys) + 1 /\ Len(n.keys) = a + b + 1
    BY <1>2, <1>4, <2>1, MiddleIs
  <2>4. r = [low |-> Middle(SubSeq(n.keys, 1, cut), SubSeq(n.pointers, 1, cut + 1)),
             high |-> Middle(SubSeq(n.keys, cut + 2, Len(n.keys)),
                             SubSeq(n.pointers, cut + 2, Len(n.pointers))),
             sep |-> n.keys[cut + 1]]
    BY <1>4, <2>2 DEF Rotation
  <2>5. /\ r.low = Middle(SubSeq(n.keys, 1, cut), SubSeq(n.pointers, 1, cut + 1))
        /\ r.high = Middle(SubSeq(n.keys, cut + 2, Len(n.keys)),
                           SubSeq(n.pointers, cut + 2, Len(n.pointers)))
        /\ r.sep = n.keys[cut + 1]
    BY <2>4
  <2>6. cut + 1 \in 1 .. Len(n.keys) /\ (cut + 1) - 1 = cut /\ (cut + 1) + 1 = cut + 2
    BY <1>1, <2>3
  <2> HIDE DEF n, r, cut
  <2>7. CutAt(n.keys, n.pointers, n.keys[cut + 1],
              SubSeq(n.keys, 1, cut), SubSeq(n.pointers, 1, cut + 1),
              SubSeq(n.keys, cut + 2, Len(n.keys)),
              SubSeq(n.pointers, cut + 2, Len(n.pointers)))
    <3> DEFINE m == cut + 1
    <3>1. CutAt(n.keys, n.pointers, n.keys[m], SubSeq(n.keys, 1, m - 1),
                SubSeq(n.pointers, 1, m), SubSeq(n.keys, m + 1, Len(n.keys)),
                SubSeq(n.pointers, m + 1, Len(n.pointers)))
      BY <2>3, <2>6, MiddleCut
    <3> QED
      BY <2>6, <3>1
  <2>8. Halved(n, r.low, r.high, r.sep) /\ StartsRight(n, r.low, r.high, r.sep)
    <3>1. /\ r.low.leaf = FALSE /\ r.low.keys = SubSeq(n.keys, 1, cut)
          /\ r.low.pointers = SubSeq(n.pointers, 1, cut + 1)
          /\ r.high.leaf = FALSE /\ r.high.keys = SubSeq(n.keys, cut + 2, Len(n.keys))
          /\ r.high.pointers = SubSeq(n.pointers, cut + 2, Len(n.pointers))
      <4> DEFINE kl == SubSeq(n.keys, 1, cut)
                 cl == SubSeq(n.pointers, 1, cut + 1)
                 kh == SubSeq(n.keys, cut + 2, Len(n.keys))
                 ch == SubSeq(n.pointers, cut + 2, Len(n.pointers))
      <4> HIDE DEF kl, cl, kh, ch
      <4>1. r.low = Middle(kl, cl) /\ r.high = Middle(kh, ch)
        BY <2>5 DEF kl, cl, kh, ch
      <4>2. /\ r.low.leaf = FALSE /\ r.low.keys = kl /\ r.low.pointers = cl
            /\ r.high.leaf = FALSE /\ r.high.keys = kh /\ r.high.pointers = ch
        <5>1. Middle(kl, cl).leaf = FALSE /\ Middle(kl, cl).keys = kl /\ Middle(kl, cl).pointers = cl
          BY DEF Middle
        <5>2. Middle(kh, ch).leaf = FALSE /\ Middle(kh, ch).keys = kh /\ Middle(kh, ch).pointers = ch
          BY DEF Middle
        <5> QED
          BY <4>1, <5>1, <5>2
      <4> QED
        BY <4>2 DEF kl, cl, kh, ch
    <3>2. CutAt(n.keys, n.pointers, r.sep, r.low.keys, r.low.pointers,
                r.high.keys, r.high.pointers)
      BY <2>5, <2>7, <3>1
    <3> QED
      BY <2>1, <3>1, <3>2 DEF Halved, StartsRight
  <2> QED
    BY <2>8 DEF n, r
<1> QED
  BY <1>3, <1>4

(* A merge joins the two.                                                   *)
LEMMA MergedHalves ==
  ASSUME NEW low \in Nodes, NEW high \in Nodes, low.leaf = high.leaf, NEW sep \in Keys
  PROVE  Halved(Merged(low, high, sep), low, high, sep)
<1>1. CASE low.leaf
  BY <1>1 DEF Halved, Merged, Leaf
<1>2. CASE ~low.leaf
  <2>1. /\ Len(low.pointers) = Len(low.keys) + 1 /\ Len(high.pointers) = Len(high.keys) + 1
    BY <1>2, NodeIs, MiddleIs
  <2> QED
    BY <1>2, <2>1 DEF Halved, Merged, Middle, CutAt
<1> QED
  BY <1>1, <1>2

(* Where a key goes.                                                        *)
LEMMA PositionAt ==
  ASSUME NEW n \in Nodes, NEW k \in Int, NEW m \in 0 .. Len(KeysOf(n)),
         \A i \in 1 .. m : KeysOf(n)[i] <= k,
         \A i \in m + 1 .. Len(KeysOf(n)) : k < KeysOf(n)[i]
  PROVE  Position(n, k) = m
<1>1. KeysOf(n) \in Seq(Keys) /\ Len(KeysOf(n)) \in Nat
  BY NodeIs
<1>2. \A i \in 1 .. Len(KeysOf(n)) : KeysOf(n)[i] \in Int
  BY <1>1, ElementOfSeq, TreeAssumption
<1>3. { i \in 1 .. Len(KeysOf(n)) : KeysOf(n)[i] <= k } = 1 .. m
  <2> SUFFICES ASSUME NEW i \in 1 .. Len(KeysOf(n)) PROVE KeysOf(n)[i] <= k <=> i \in 1 .. m
    BY <1>1
  <2>1. CASE i \in 1 .. m
    BY <2>1
  <2>2. CASE i \in m + 1 .. Len(KeysOf(n))
    <3>1. k < KeysOf(n)[i] /\ KeysOf(n)[i] \in Int /\ i \notin 1 .. m
      BY <1>2, <2>2
    <3> QED
      BY <3>1
  <2> QED
    BY <1>1, <2>1, <2>2
<1>4. Cardinality(1 .. m) = m
  BY <1>1, FS_Interval
<1>5. CASE n.leaf
  <2>1. /\ n.data \in Seq(Keys \X Rids) /\ Len(KeysOf(n)) = Len(n.data)
        /\ \A i \in 1 .. Len(n.data) : KeysOf(n)[i] = n.data[i][1]
    BY <1>5, NodeIs, LeafIs
  <2>2. DOMAIN n.data = 1 .. Len(KeysOf(n))
    BY <2>1, LenProperties
  <2>3. { i \in DOMAIN n.data : n.data[i][1] <= k } = 1 .. m
    BY <1>3, <2>1, <2>2
  <2> QED
    BY <1>4, <1>5, <2>3 DEF Position
<1>6. CASE ~n.leaf
  <2>1. KeysOf(n) = n.keys /\ n.keys \in Seq(Keys)
    BY <1>6, NodeIs, MiddleIs
  <2>2. DOMAIN n.keys = 1 .. Len(KeysOf(n))
    BY <2>1, LenProperties
  <2>3. { i \in DOMAIN n.keys : n.keys[i] <= k } = 1 .. m
    BY <1>3, <2>1, <2>2
  <2> QED
    BY <1>4, <1>6, <2>3 DEF Position
<1> QED
  BY <1>5, <1>6

LEMMA InsertedIs ==
  ASSUME NEW S, NEW s \in Seq(S), NEW j \in 1 .. Len(s) + 1, NEW e \in S
  PROVE  Inserted(s, InsertAt(s, j, e), j, e)
BY InsertAtIs DEF Inserted

LEMMA WithChildWidens ==
  ASSUME NEW n \in MiddleNodes, NEW k \in Keys, NEW c \in PageIds,
         NEW j \in 1 .. Len(n.pointers), NEW X, k \in Piece(X, n.keys, j)
  PROVE  LET m == WithChild(n, k, c)
         IN  m.leaf = FALSE /\ Widened(n.keys, n.pointers, m.keys, m.pointers, j, k, c)
<1> DEFINE nk == n.keys
           np == n.pointers
           ks == InsertAt(nk, j, k)
           ps == InsertAt(np, j + 1, c)
           m  == WithChild(n, k, c)
<1>1. /\ nk \in Seq(Keys) /\ np \in Seq(PageIds) /\ KeysOf(n) = nk
      /\ Len(np) = Len(nk) + 1 /\ Len(nk) \in Nat /\ j \in 1 .. Len(nk) + 1
  BY MiddleIs
<1>2. Position(n, k) = j - 1
  <2>1. k \in Int /\ n \in Nodes /\ j - 1 \in 0 .. Len(KeysOf(n)) /\ (j - 1) + 1 = j
    BY <1>1, TreeAssumption DEF Nodes
  <2>2. /\ \A i \in 1 .. j - 1 : KeysOf(n)[i] <= k
        /\ \A i \in (j - 1) + 1 .. Len(KeysOf(n)) : k < KeysOf(n)[i]
    BY <1>1, <2>1 DEF Piece
  <2> QED
    BY <2>1, <2>2, PositionAt
<1>3. m = Middle(ks, ps)
  <2>1. (j - 1) + 1 = j /\ (j - 1) + 2 = j + 1
    BY <1>1
  <2> QED
    BY <1>2, <2>1 DEF WithChild
<1> HIDE DEF nk, np, ks, ps, m
<1>4. m.leaf = FALSE /\ m.keys = ks /\ m.pointers = ps
  BY <1>3, Zenon DEF Middle
<1>5. Inserted(nk, ks, j, k)
  <2>1. /\ Len(ks) = Len(nk) + 1 /\ ks[j] = k
        /\ \A i \in 1 .. j - 1 : ks[i] = nk[i]
        /\ \A i \in j .. Len(nk) : ks[i + 1] = nk[i]
    BY <1>1, InsertAtIs DEF ks
  <2> QED
    BY <1>1, <2>1 DEF Inserted
<1>6. Inserted(np, ps, j + 1, c)
  <2> DEFINE i == j + 1
  <2>1. i \in 1 .. Len(np) + 1
    BY <1>1
  <2>2. ps = InsertAt(np, i, c)
    BY DEF ps
  <2> HIDE DEF i
  <2>3. Inserted(np, InsertAt(np, i, c), i, c)
    BY <1>1, <2>1, InsertedIs
  <2>4. Inserted(np, ps, i, c)
    BY <2>2, <2>3
  <2> QED
    BY <2>4 DEF i
<1> QED
  BY <1>1, <1>4, <1>5, <1>6 DEF Widened, nk, np, m

-----------------------------------------------------------------------------
(* Sorted trees, and the steps that keep them so.                           *)

(* Pages that are not in the tree hold nothing.                             *)
Clean(pg, rt) ==
  \A q \in PageIds : q \notin {rt} \cup KidsIn(Kids(pg)) => pg[q] = Blank

SortedTree(pg, rt) ==
  Clean(pg, rt) /\ \E S : Ordered(pg, rt, S) /\ Strung(pg, rt, S)

LEMMA MiddleInTree ==
  ASSUME NEW pg, NEW rt, Clean(pg, rt), NEW q \in PageIds, ~pg[q].leaf
  PROVE  q \in {rt} \cup KidsIn(Kids(pg))
BY BlankIs DEF Clean

LEMMA LeafHalvesLink ==
  ASSUME NEW n, NEW new, n.leaf
  PROVE  LeftHalf(n, new).next = new /\ RightHalf(n).next = n.next
BY DEF LeftHalf, RightHalf, Leaf

LEMMA SplitSorts ==
  ASSUME NEW pg, NEW rt, NEW sp, NEW h, Sound(pg, rt, sp, h), Avail(sp) >= 1,
         NEW p \in PageIds, NEW up \in PageIds, NEW j \in 1 .. Len(Kids(pg)[up]),
         Kids(pg)[up][j] = p, Size(pg, p) = 2 * T, SortedTree(pg, rt)
  PROVE  LET pg2 == Split(pg, p, up, Allocated(sp))
         IN  SortedTree(pg2, rt) /\ Stored(pg2) = Stored(pg)
<1> DEFINE new == Allocated(sp)
           pg2 == Split(pg, p, up, new)
           u == UpKey(pg[p])
<1>1. /\ Sound(pg2, rt, Allocate(sp), [h EXCEPT ![new] = h[p]])
      /\ KidsIn(Kids(pg2)) = KidsIn(Kids(pg)) \cup {new}
      /\ new \in PageIds /\ new \notin {p, up, rt} /\ p # up
      /\ new \notin KidsIn(Kids(pg))
      /\ ~pg2[up].leaf /\ ~pg[up].leaf
      /\ \A q \in PageIds \ {p, up, new} : pg2[q] = pg[q]
  BY SplitIs
<1>2. /\ pg \in [PageIds -> Nodes] /\ pg2 \in [PageIds -> Nodes]
      /\ Once(Kids(pg)) /\ rt \in PageIds /\ rt \notin KidsIn(Kids(pg))
  BY <1>1 DEF Sound
<1>3. /\ pg2[p] = LeftHalf(pg[p], new) /\ pg2[new] = RightHalf(pg[p])
      /\ pg2[up] = WithChild(pg[up], u, new)
  BY <1>1, <1>2 DEF Split
<1>4. /\ pg[up] \in MiddleNodes /\ pg[up].pointers = Kids(pg)[up]
      /\ j \in 1 .. Len(pg[up].pointers) /\ pg[up].pointers[j] = p
      /\ p \in KidsIn(Kids(pg)) /\ p # rt
  BY <1>1, <1>2, KidsOnce
<1>5. PICK S : Ordered(pg, rt, S) /\ Strung(pg, rt, S)
  BY DEF SortedTree
<1>6. u \in Keys
  <2>1. pg[p] \in Nodes /\ Len(KeysOf(pg[p])) = 2 * T
    BY <1>2 DEF Size
  <2> QED
    BY <1>1, <2>1, HalvesAre
<1> HIDE DEF new, pg2, u
<1>7. Halved(pg[p], pg2[p], pg2[new], u) /\ StartsRight(pg[p], pg2[p], pg2[new], u)
  <2>1. pg[p] \in Nodes /\ Len(KeysOf(pg[p])) = 2 * T
    BY <1>2 DEF Size
  <2> QED
    BY <1>1, <1>3, <2>1, HalvesCut DEF u
<1>8. u \in Piece(S[up], pg[up].keys, j)
  <2>1. /\ S[p] \in SUBSET Int /\ InRange(pg[p], S[p], S) /\ InRange(pg[up], S[up], S)
    BY <1>5 DEF Ordered
  <2>2. Shared(pg2[p], pg2[new], u, S[p], S)
    <3>1. pg[p] \in Nodes /\ pg2[p] \in Nodes /\ pg2[new] \in Nodes
      BY <1>1, <1>2
    <3> QED
      BY <1>6, <1>7, <2>1, <3>1, RangeSplit
  <2>3. S[p] = Piece(S[up], pg[up].keys, j)
    BY <1>1, <1>4, <2>1 DEF InRange, Parted
  <2> QED
    BY <2>2, <2>3 DEF Shared
<1>9. Sundered(pg, pg2, p, new, up, j, u)
  <2>1. Widened(pg[up].keys, pg[up].pointers, pg2[up].keys, pg2[up].pointers, j, u, new)
    BY <1>1, <1>3, <1>4, <1>6, <1>8, WithChildWidens
  <2>2. pg[new] = Blank
    BY <1>1 DEF SortedTree, Clean
  <2> QED
    BY <1>1, <1>4, <1>7, <2>1, <2>2 DEF Sundered
<1>10. \E R : Ordered(pg2, rt, R) /\ Strung(pg2, rt, R)
  <2>1. rt \notin {p, new}
    BY <1>1, <1>4
  <2>2. PICK R : Ordered(pg2, rt, R) /\ Moved(S, R, p, new, u) /\ Inside(u, S[p])
    BY <1>1, <1>2, <1>5, <1>6, <1>7, <1>9, <2>1, SplitOrdered
  <2>3. Joins(pg, pg2, p, new)
    BY <1>1, <1>3, LeafHalvesLink DEF Joins
  <2>4. Strung(pg2, rt, R)
    BY <1>1, <1>2, <1>4, <1>5, <1>6, <1>9, <2>1, <2>2, <2>3, SplitStrung
  <2> QED
    BY <2>2, <2>4
<1>11. Clean(pg2, rt)
  <2> SUFFICES ASSUME NEW q \in PageIds, q \notin {rt} \cup KidsIn(Kids(pg2))
               PROVE  pg2[q] = Blank
    BY DEF Clean
  <2>1. q \notin {rt} \cup KidsIn(Kids(pg)) /\ q # new /\ q # p
    BY <1>1, <1>4
  <2>2. q # up
    BY <1>1, <2>1, MiddleInTree DEF SortedTree
  <2> QED
    BY <1>1, <2>1, <2>2 DEF SortedTree, Clean
<1>12. Stored(pg2) = Stored(pg)
  BY <1>1, <1>2, <1>9, SunderedStored
<1> QED
  BY <1>10, <1>11, <1>12 DEF SortedTree, pg2, new

LEMMA EmptyParts ==
  ASSUME NEW S, NEW c, NEW s, Len(s) = 0, Len(c) = 1
  PROVE  Parted(Int, s, c, S) <=> S[c[1]] = Int
<1>1. Rising(s) /\ Piece(Int, s, 1) = Int
  BY DEF Rising, Piece
<1>2. 1 .. Len(c) = {1} /\ 1 .. Len(s) = {}
  OBVIOUS
<1> QED
  BY <1>1, <1>2 DEF Parted

LEMMA PlantSorts ==
  ASSUME NEW pg, NEW rt, NEW sp, NEW h, Sound(pg, rt, sp, h), Avail(sp) >= 1,
         SortedTree(pg, rt)
  PROVE  LET new == Allocated(sp)
             pg2 == [pg EXCEPT ![new] = Middle(<<>>, <<rt>>)]
         IN  SortedTree(pg2, new) /\ Stored(pg2) = Stored(pg)
<1> DEFINE new == Allocated(sp)
           pg2 == [pg EXCEPT ![new] = Middle(<<>>, <<rt>>)]
<1>1. /\ Sound(pg2, new, Allocate(sp), [h EXCEPT ![new] = h[rt] + 1])
      /\ KidsIn(Kids(pg2)) = KidsIn(Kids(pg)) \cup {rt}
      /\ new \in PageIds \ {rt}
      /\ \A q \in PageIds \ {new} : pg2[q] = pg[q]
  <2>1. Sound(pg2, new, Allocate(sp), [h EXCEPT ![new] = h[rt] + 1])
    BY PlantIs
  <2>2. KidsIn(Kids(pg2)) = KidsIn(Kids(pg)) \cup {rt}
    BY PlantIs
  <2>3. new \in PageIds \ {rt}
    BY PlantIs
  <2>4. \A q \in PageIds \ {new} : pg2[q] = pg[q]
    BY PlantIs
  <2> QED
    BY <2>1, <2>2, <2>3, <2>4
<1>2. /\ pg \in [PageIds -> Nodes] /\ pg2 \in [PageIds -> Nodes] /\ rt \in PageIds
      /\ new \notin KidsIn(Kids(pg2))
  BY <1>1 DEF Sound
<1>3. /\ pg2[new] = Middle(<<>>, <<rt>>) /\ pg2[new].leaf = FALSE
      /\ pg2[new].keys = <<>> /\ pg2[new].pointers = <<rt>>
  <2>1. pg2[new] = Middle(<<>>, <<rt>>)
    BY <1>1, <1>2
  <2> DEFINE k == <<>>
             c == <<rt>>
             n == pg2[new]
  <2>2. n = Middle(k, c)
    BY <2>1
  <2> HIDE DEF pg2, new, k, c, n
  <2>3. n.leaf = FALSE /\ n.keys = k /\ n.pointers = c
    BY <2>2, Zenon DEF Middle
  <2> QED
    BY <2>1, <2>3 DEF k, c, n
<1>4. pg[new] = Blank
  BY <1>1, <1>2 DEF SortedTree, Clean
<1> HIDE DEF new, pg2
<1>5. PICK S : Ordered(pg, rt, S) /\ Strung(pg, rt, S)
  BY DEF SortedTree
<1> DEFINE R == [S EXCEPT ![new] = Int]
<1>6. /\ S \in [PageIds -> SUBSET Int] /\ S[rt] = Int
      /\ \A q \in PageIds : InRange(pg[q], S[q], S)
  BY <1>5 DEF Ordered
<1>7. /\ R \in [PageIds -> SUBSET Int] /\ R[new] = Int
      /\ \A q \in PageIds \ {new} : R[q] = S[q]
  BY <1>1, <1>6
<1> HIDE DEF R
<1>8. InRange(pg2[new], R[new], R)
  <2>1. R[rt] = Int
    BY <1>1, <1>2, <1>6, <1>7
  <2>2. Parted(Int, <<>>, <<rt>>, R)
    BY <2>1, EmptyParts
  <2> QED
    BY <1>3, <1>7, <2>2 DEF InRange
<1>9. ASSUME NEW q \in PageIds \ {new} PROVE InRange(pg2[q], R[q], R)
  <2>1. ~pg2[q].leaf => \A i \in 1 .. Len(pg2[q].pointers) :
                          R[pg2[q].pointers[i]] = S[pg2[q].pointers[i]]
    <3> SUFFICES ASSUME ~pg2[q].leaf, NEW i \in 1 .. Len(pg2[q].pointers)
                 PROVE  R[pg2[q].pointers[i]] = S[pg2[q].pointers[i]]
      OBVIOUS
    <3>1. pg2[q].pointers[i] \in PageIds /\ pg2[q].pointers[i] # new
      BY <1>2, KidsOnce
    <3> QED
      BY <1>7, <3>1
  <2>2. pg2[q] \in Nodes /\ InRange(pg2[q], S[q], S) /\ R[q] = S[q]
    BY <1>1, <1>2, <1>6, <1>7
  <2>3. InRange(pg2[q], S[q], R)
    BY <2>1, <2>2, RangeElsewhere
  <2> QED
    BY <2>2, <2>3
<1>10. Ordered(pg2, new, R)
  BY <1>7, <1>8, <1>9 DEF Ordered
<1>13. Strung(pg2, new, R)
  <2> DEFINE L == LeavesOf(pg, rt)
  <2>1. KidsIn(Kids(pg)) \subseteq PageIds
    BY DEF KidsIn
  <2>2. new \notin L
    BY <1>1, <1>2 DEF LeavesOf
  <2>3. LeavesOf(pg2, new) = L
    BY <1>1, <1>2, <1>3, <2>1, <2>2 DEF LeavesOf
  <2>4. Alike(pg, pg2, L, S, R)
    BY <1>1, <1>2, <1>7, <2>1, <2>2 DEF Alike, LeavesOf
  <2>5. Threaded(pg2, LeavesOf(pg2, new), R)
    BY <1>5, <2>3, <2>4, AlikeThreads DEF Strung
  <2>6. Rounded(R)
    BY <1>5, <1>7 DEF Strung, Rounded, Convex
  <2> QED
    BY <2>5, <2>6 DEF Strung
<1>11. Clean(pg2, new)
  BY <1>1 DEF SortedTree, Clean
<1>12. Stored(pg2) = Stored(pg)
  <2> SUFFICES ASSUME NEW e, NEW q \in PageIds
               PROVE  HasEntry(pg2[q], e) <=> HasEntry(pg[q], e)
    BY DEF Stored
  <2>1. ~HasEntry(pg2[new], e) /\ ~HasEntry(pg[new], e)
    BY <1>3, <1>4 DEF HasEntry, Blank, Leaf
  <2> QED
    BY <1>1, <2>1
<1> QED
  BY <1>10, <1>11, <1>12, <1>13 DEF SortedTree, new, pg2

LEMMA ShrinkSorts ==
  ASSUME NEW pg, NEW rt, NEW sp, NEW h, Sound(pg, rt, sp, h),
         Len(Kids(pg)[rt]) = 1, NEW c, c = Kids(pg)[rt][1], SortedTree(pg, rt)
  PROVE  SortedTree(Topless(pg, rt), c) /\ Stored(Topless(pg, rt)) = Stored(pg)
<1> DEFINE pg2 == Topless(pg, rt)
<1>1. /\ KidsIn(Kids(pg2)) = KidsIn(Kids(pg)) \ {c}
      /\ c \in PageIds \ {rt} /\ c \in KidsIn(Kids(pg))
      /\ \A q \in PageIds \ {rt} : pg2[q] = pg[q]
  <2> DEFINE sp2 == Deallocate(sp, rt)
             g == [h EXCEPT ![rt] = 1]
  <2>1. Sound(pg, rt, sp, h) /\ Len(Kids(pg)[rt]) = 1 /\ c = Kids(pg)[rt][1]
    OBVIOUS
  <2>2. Sound(pg2, c, sp2, g)
    BY <2>1, ShrinkIs
  <2>3. KidsIn(Kids(pg2)) = KidsIn(Kids(pg)) \ {c}
    BY <2>1, <2>2, ShrinkIs, SMTT(30)
  <2>4. c \in PageIds \ {rt} /\ c \in KidsIn(Kids(pg))
    BY <2>1, <2>2, ShrinkIs
  <2>5. \A q \in PageIds \ {rt} : pg2[q] = pg[q]
    BY <2>1 DEF Topless, Sound
  <2> QED
    BY <2>3, <2>4, <2>5
<1>2. pg \in [PageIds -> Nodes] /\ rt \in PageIds /\ pg2[rt] = Blank
  BY DEF Sound, Topless
<1>3. ~pg[rt].leaf
  BY <1>2, KidsAre
<1>4. Len(pg[rt].keys) = 0 /\ Len(pg[rt].pointers) = 1 /\ pg[rt].pointers[1] = c
  BY <1>2, <1>3, KidsOnce
<1> HIDE DEF pg2
<1>5. PICK S : Ordered(pg, rt, S) /\ Strung(pg, rt, S)
  BY DEF SortedTree
<1>6. /\ S \in [PageIds -> SUBSET Int] /\ S[rt] = Int
      /\ \A q \in PageIds : InRange(pg[q], S[q], S)
  BY <1>5 DEF Ordered
<1>7. S[c] = Int
  <2>1. Parted(Int, pg[rt].keys, pg[rt].pointers, S)
    BY <1>2, <1>3, <1>6 DEF InRange
  <2> QED
    BY <1>4, <2>1, EmptyParts
<1>8. Ordered(pg2, c, S)
  <2>1. ASSUME NEW q \in PageIds PROVE InRange(pg2[q], S[q], S)
    BY <1>1, <1>2, <1>6, BlankInRange
  <2> QED
    BY <1>6, <1>7, <2>1 DEF Ordered
<1>9. Clean(pg2, c)
  BY <1>1, <1>2 DEF SortedTree, Clean
<1>11. Strung(pg2, c, S)
  <2> DEFINE L == LeavesOf(pg, rt)
  <2>1. KidsIn(Kids(pg)) \subseteq PageIds /\ rt \notin KidsIn(Kids(pg))
    BY DEF KidsIn, Sound
  <2>2. LeavesOf(pg2, c) = L
    BY <1>1, <1>2, <1>3, <2>1 DEF LeavesOf
  <2>3. Alike(pg, pg2, L, S, S)
    BY <1>1, <1>3, <2>1 DEF Alike, LeavesOf
  <2> QED
    BY <1>5, <2>2, <2>3, AlikeThreads DEF Strung
<1>10. Stored(pg2) = Stored(pg)
  <2> SUFFICES ASSUME NEW e, NEW q \in PageIds
               PROVE  HasEntry(pg2[q], e) <=> HasEntry(pg[q], e)
    BY DEF Stored
  <2>1. ~HasEntry(pg2[rt], e) /\ ~HasEntry(pg[rt], e)
    BY <1>2, <1>3 DEF HasEntry, Blank, Leaf
  <2> QED
    BY <1>1, <2>1
<1> QED
  BY <1>8, <1>9, <1>10, <1>11 DEF SortedTree, pg2

(* Two neighbours under a middle node.                                      *)
LEMMA SiblingsAre ==
  ASSUME NEW pg, NEW rt, NEW sp, NEW h, Sound(pg, rt, sp, h),
         NEW up \in PageIds, NEW i \in 1 .. Len(Kids(pg)[up]) - 1,
         NEW low, NEW high, low = Kids(pg)[up][i], high = Kids(pg)[up][i + 1]
  PROVE  /\ low \in PageIds /\ high \in PageIds
         /\ low # high /\ low # up /\ high # up /\ low # rt /\ high # rt
         /\ low \in KidsIn(Kids(pg)) /\ high \in KidsIn(Kids(pg))
         /\ pg[low] \in Nodes /\ pg[high] \in Nodes /\ pg[low].leaf = pg[high].leaf
         /\ ~pg[up].leaf /\ pg[up] \in MiddleNodes
         /\ i \in 1 .. Len(pg[up].keys) /\ pg[up].keys[i] \in Keys
         /\ pg[up].pointers[i] = low /\ pg[up].pointers[i + 1] = high
<1> DEFINE K == Kids(pg)
<1>1. /\ pg \in [PageIds -> Nodes] /\ K \in Families /\ Once(K)
      /\ h \in [PageIds -> Nat] /\ Levels(K, h)
  BY KidsAre DEF Sound
<1>2. K[up] \in Seq(PageIds) /\ Len(K[up]) \in Nat
  BY <1>1, LenIs
<1>3. /\ i \in 1 .. Len(K[up]) /\ i + 1 \in 1 .. Len(K[up])
      /\ low \in PageIds /\ high \in PageIds
      /\ low \in KidsIn(K) /\ high \in KidsIn(K)
  BY <1>1, <1>2, KidIs, SMTT(20)
<1>4. low # high /\ low # rt /\ high # rt
  <2>1. i # i + 1
    OBVIOUS
  <2> QED
    BY <1>1, <1>3, <2>1 DEF Once, Sound
<1>5. h[up] = h[low] + 1 /\ h[up] = h[high] + 1 /\ h[low] = h[high]
  <2>1. h[up] = h[low] + 1 /\ h[up] = h[high] + 1
    BY <1>1, <1>3 DEF Levels
  <2> QED
    BY <1>1, <1>3, <2>1
<1>6. low # up /\ high # up
  BY <1>1, <1>5
<1>7. ~pg[up].leaf
  <2>1. Len(K[up]) # 0
    BY <1>2, <1>3
  <2> QED
    BY <1>1, <2>1, KidsAre
<1>8. /\ pg[up] \in MiddleNodes /\ K[up] = pg[up].pointers
      /\ pg[up].keys \in Seq(Keys) /\ Len(K[up]) = Len(pg[up].keys) + 1
      /\ Len(pg[up].keys) \in Nat
  BY <1>1, <1>7, KidsOnce
<1>9. i \in 1 .. Len(pg[up].keys) /\ pg[up].keys[i] \in Keys
  BY <1>8, ElementOfSeq
<1>10. pg[low].leaf = pg[high].leaf /\ pg[low] \in Nodes /\ pg[high] \in Nodes
  <2>1. pg[low].leaf <=> h[low] = 1
    BY <1>3, LevelsOf
  <2>2. pg[high].leaf <=> h[high] = 1
    BY <1>3, LevelsOf
  <2>3. pg[low] \in Nodes /\ pg[high] \in Nodes
    BY <1>1, <1>3
  <2>4. pg[low].leaf \in BOOLEAN /\ pg[high].leaf \in BOOLEAN
    BY <2>3, NodeIs
  <2> QED
    BY <1>5, <2>1, <2>2, <2>3, <2>4
<1> QED
  BY <1>3, <1>4, <1>6, <1>7, <1>8, <1>9, <1>10

(* A node without a key, and with another in its place.                     *)
LEMMA RemovedWidens ==
  ASSUME NEW s \in Seq(Keys), NEW c \in Seq(PageIds), Len(c) = Len(s) + 1,
         NEW i \in 1 .. Len(s), NEW t, Len(t) = Len(s),
         \A x \in 1 .. Len(s) : x # i => t[x] = s[x]
  PROVE  /\ Widened(RemoveAt(s, i), RemoveAt(c, i + 1), t, c, i, t[i], c[i + 1])
         /\ RemoveAt(c, i + 1)[i] = c[i]
<1>1. Len(s) \in Nat /\ i + 1 \in 1 .. Len(c)
  BY LenProperties
<1>2. Inserted(RemoveAt(s, i), t, i, t[i])
  <2> DEFINE r == RemoveAt(s, i)
  <2>1. /\ Len(r) = Len(s) - 1
        /\ \A x \in 1 .. i - 1 : r[x] = s[x]
        /\ \A x \in i .. Len(s) - 1 : r[x] = s[x + 1]
    BY RemoveAtIs
  <2> HIDE DEF r
  <2>2. i \in 1 .. Len(r) + 1 /\ Len(t) = Len(r) + 1
    BY <1>1, <2>1
  <2>3. \A x \in 1 .. i - 1 : t[x] = r[x]
    BY <1>1, <2>1
  <2>4. \A x \in i .. Len(r) : t[x + 1] = r[x]
    BY <1>1, <2>1
  <2>5. Inserted(r, t, i, t[i])
    BY <2>2, <2>3, <2>4 DEF Inserted
  <2> QED
    BY <2>5 DEF r
<1>3. Inserted(RemoveAt(c, i + 1), c, i + 1, c[i + 1]) /\ RemoveAt(c, i + 1)[i] = c[i]
      /\ Len(RemoveAt(c, i + 1)) = Len(c) - 1
  <2> DEFINE j == i + 1
             r == RemoveAt(c, j)
  <2>1. j \in 1 .. Len(c)
    BY <1>1
  <2> HIDE DEF j
  <2>2. /\ Len(r) = Len(c) - 1
        /\ \A x \in 1 .. j - 1 : r[x] = c[x]
        /\ \A x \in j .. Len(c) - 1 : r[x] = c[x + 1]
    BY <2>1, RemoveAtIs
  <2> HIDE DEF r
  <2>3. Inserted(r, c, j, c[j])
    BY <1>1, <2>1, <2>2 DEF Inserted
  <2>4. r[i] = c[i]
    BY <2>2 DEF j
  <2> QED
    BY <2>2, <2>3, <2>4 DEF j, r
<1>4. Len(RemoveAt(c, i + 1)) = Len(RemoveAt(s, i)) + 1
  BY <1>1, <1>2, <1>3 DEF Inserted
<1> QED
  BY <1>2, <1>3, <1>4 DEF Widened

(* A merge undoes a cut.                                                    *)
LEMMA MergeSunders ==
  ASSUME NEW pg, NEW rt, NEW sp, NEW h, Sound(pg, rt, sp, h),
         NEW up \in PageIds, NEW i \in 1 .. Len(Kids(pg)[up]) - 1,
         NEW left, NEW right, left = Kids(pg)[up][i], right = Kids(pg)[up][i + 1]
  PROVE  Sundered(Fused(pg, left, right, up, i), pg, left, right, up, i, pg[up].keys[i])
<1> DEFINE pg2 == Fused(pg, left, right, up, i)
           u == pg[up].keys[i]
           s == pg[up].keys
           c == pg[up].pointers
<1>1. /\ left \in PageIds /\ right \in PageIds
      /\ left # right /\ left # up /\ right # up
      /\ pg[left] \in Nodes /\ pg[right] \in Nodes /\ pg[left].leaf = pg[right].leaf
      /\ ~pg[up].leaf /\ i \in 1 .. Len(s) /\ u \in Keys
      /\ c[i] = left /\ c[i + 1] = right
  BY SiblingsAre
<1>2. pg \in [PageIds -> Nodes]
  BY DEF Sound
<1>3. s \in Seq(Keys) /\ c \in Seq(PageIds) /\ Len(c) = Len(s) + 1
  BY <1>1, <1>2, KidsOnce
<1> DEFINE ks == RemoveAt(s, i)
           ps == RemoveAt(c, i + 1)
<1>4. /\ pg2[left] = Merged(pg[left], pg[right], u)
      /\ pg2[right] = Blank
      /\ pg2[up] = Middle(ks, ps)
      /\ \A q \in PageIds \ {left, right, up} : pg2[q] = pg[q]
  BY <1>1, <1>2 DEF Fused
<1> HIDE DEF pg2, u, s, c, ks, ps
<1>5. ~pg2[up].leaf /\ pg2[up].keys = ks /\ pg2[up].pointers = ps
  <2> DEFINE n == pg2[up]
  <2>1. n = Middle(ks, ps)
    BY <1>4
  <2> HIDE DEF n
  <2>2. n.leaf = FALSE /\ n.keys = ks /\ n.pointers = ps
    BY <2>1, Zenon DEF Middle
  <2> QED
    BY <2>2 DEF n
<1>6. Widened(ks, ps, s, c, i, s[i], c[i + 1]) /\ ps[i] = c[i]
  BY <1>1, <1>3, RemovedWidens DEF ks, ps
<1>7. Halved(pg2[left], pg[left], pg[right], u)
  BY <1>1, <1>4, MergedHalves
<1>8. Sundered(pg2, pg, left, right, up, i, u)
  <2>1. /\ Widened(pg2[up].keys, pg2[up].pointers, pg[up].keys, pg[up].pointers, i, u, right)
        /\ pg2[up].pointers[i] = left
    BY <1>1, <1>5, <1>6 DEF u, s, c
  <2> QED
    BY <1>1, <1>4, <1>5, <1>7, <2>1 DEF Sundered
<1> QED
  BY <1>8 DEF pg2, u

LEMMA FusedNext ==
  ASSUME NEW pg \in [PageIds -> Nodes], NEW left \in PageIds, NEW right, NEW up, NEW i,
         left # right, left # up, pg[left].leaf
  PROVE  Fused(pg, left, right, up, i)[left].next = pg[right].next
<1>1. Fused(pg, left, right, up, i)[left] = Merged(pg[left], pg[right], pg[up].keys[i])
  BY DEF Fused
<1> QED
  BY <1>1 DEF Merged, Leaf

LEMMA MergeSorts ==
  ASSUME NEW pg, NEW rt, NEW sp, NEW h, Sound(pg, rt, sp, h),
         NEW up \in PageIds, NEW i \in 1 .. Len(Kids(pg)[up]) - 1,
         NEW left, NEW right, left = Kids(pg)[up][i], right = Kids(pg)[up][i + 1],
         SortedTree(pg, rt)
  PROVE  LET pg2 == Fused(pg, left, right, up, i)
         IN  SortedTree(pg2, rt) /\ Stored(pg2) = Stored(pg)
<1> DEFINE pg2 == Fused(pg, left, right, up, i)
           u == pg[up].keys[i]
<1>1. /\ left \in PageIds /\ right \in PageIds /\ rt \notin {left, right}
      /\ ~pg[up].leaf /\ u \in Keys /\ left \in KidsIn(Kids(pg))
      /\ right \in KidsIn(Kids(pg)) /\ pg[left].leaf = pg[right].leaf
      /\ left # right /\ left # up
  BY SiblingsAre
<1>2. pg \in [PageIds -> Nodes] /\ Once(Kids(pg)) /\ rt \in PageIds
  BY DEF Sound
<1>3. Sundered(pg2, pg, left, right, up, i, u)
  BY MergeSunders
<1>4. Sound(pg2, rt, Deallocate(sp, right), [h EXCEPT ![right] = 1])
  BY MergeIs
<1>5. KidsIn(Kids(pg2)) = KidsIn(Kids(pg)) \ {right}
  BY <1>4, MergeIs
<1>12. pg[left].leaf => pg2[left].next = pg[right].next
  BY <1>1, <1>2, FusedNext
<1> HIDE DEF pg2, u
<1>6. pg2 \in [PageIds -> Nodes]
  BY <1>4 DEF Sound
<1>7. PICK R : Ordered(pg, rt, R) /\ Strung(pg, rt, R)
  BY DEF SortedTree
<1>8. \E S : Ordered(pg2, rt, S) /\ Strung(pg2, rt, S)
  <2>1. PICK S : /\ Ordered(pg2, rt, S) /\ Moved(S, R, left, right, u)
                 /\ Inside(u, S[left]) /\ S[right] = R[right]
    BY <1>1, <1>2, <1>3, <1>6, <1>7, MergeOrdered
  <2>2. /\ left \in KidsIn(Kids(pg2)) /\ right \notin KidsIn(Kids(pg2))
        /\ KidsIn(Kids(pg)) = KidsIn(Kids(pg2)) \cup {right}
    BY <1>1, <1>5
  <2>3. pg[left].leaf => pg[left].next = right
    <3>1. /\ i \in 1 .. Len(pg[up].pointers) - 1
          /\ left = pg[up].pointers[i] /\ right = pg[up].pointers[i + 1]
      BY <1>1, <1>2, KidsOnce
    <3> QED
      BY <1>1, <1>2, <1>7, <3>1, SiblingsLinked
  <2>4. pg2[left].leaf => pg[left].leaf
    BY <1>3 DEF Sundered, Halved
  <2>5. Joins(pg2, pg, left, right)
    BY <1>12, <2>2, <2>3, <2>4 DEF Joins
  <2>6. Strung(pg2, rt, S)
    BY <1>1, <1>2, <1>3, <1>6, <1>7, <2>1, <2>2, <2>5, MergeStrung
  <2> QED
    BY <2>1, <2>6
<1>9. /\ pg2[right] = Blank /\ ~pg2[up].leaf
      /\ \A q \in PageIds \ {left, right, up} : pg2[q] = pg[q]
  BY <1>3 DEF Sundered
<1>10. Clean(pg2, rt)
  <2> SUFFICES ASSUME NEW q \in PageIds, q \notin {rt} \cup KidsIn(Kids(pg2)), q # right
               PROVE  pg2[q] = Blank
    BY <1>9 DEF Clean
  <2>1. q \notin {rt} \cup KidsIn(Kids(pg)) /\ q # left
    BY <1>1, <1>5
  <2>2. q # up
    BY <1>1, <2>1, MiddleInTree DEF SortedTree
  <2> QED
    BY <1>9, <2>1, <2>2 DEF SortedTree, Clean
<1>11. Stored(pg2) = Stored(pg)
  BY <1>1, <1>2, <1>3, <1>6, SunderedStored
<1> QED
  BY <1>8, <1>10, <1>11 DEF SortedTree, pg2

(* The node with another separator.                                         *)
LEMMA ReseparatedIs ==
  ASSUME NEW n \in MiddleNodes, NEW i \in 1 .. Len(n.keys), NEW v
  PROVE  LET m == [n EXCEPT !.keys[i] = v]
         IN  /\ m.leaf = FALSE /\ m.pointers = n.pointers /\ Len(m.keys) = Len(n.keys)
             /\ m.keys[i] = v /\ \A x \in 1 .. Len(n.keys) : x # i => m.keys[x] = n.keys[x]
<1> DEFINE k == n.keys
           w == [k EXCEPT ![i] = v]
           m == [n EXCEPT !.keys[i] = v]
<1>1. /\ n = [leaf |-> n.leaf, keys |-> n.keys, pointers |-> n.pointers]
      /\ n.leaf = FALSE /\ k \in Seq(Keys) /\ Len(k) \in Nat
  BY MiddleIs DEF MiddleNodes
<1>2. /\ Len(w) = Len(k) /\ w[i] = v
      /\ \A x \in 1 .. Len(k) : x # i => w[x] = k[x]
  <2> HIDE DEF k
  <2>1. i \in 1 .. Len(k) /\ DOMAIN k = 1 .. Len(k)
    BY <1>1, LenProperties DEF k
  <2>2. DOMAIN w = 1 .. Len(k) /\ w[i] = v /\ \A x \in 1 .. Len(k) : x # i => w[x] = k[x]
    BY <2>1
  <2>3. Len(w) = Len(k)
    BY <1>1, <2>2
  <2> QED
    BY <2>2, <2>3
<1>3. m = [n EXCEPT !.keys = w]
  BY <1>1
<1> HIDE DEF w
<1>4. [n EXCEPT !.keys = w] = [leaf |-> n.leaf, keys |-> w, pointers |-> n.pointers]
  BY <1>1
<1>5. m.leaf = FALSE /\ m.pointers = n.pointers /\ m.keys = w
  BY <1>1, <1>3, <1>4
<1> QED
  BY <1>2, <1>5 DEF k

(* A borrow cuts what a merge would give.                                   *)
LEMMA BorrowSunders ==
  ASSUME NEW pg, NEW rt, NEW sp, NEW h, Sound(pg, rt, sp, h),
         NEW up \in PageIds, NEW i \in 1 .. Len(Kids(pg)[up]) - 1,
         NEW low, NEW high, low = Kids(pg)[up][i], high = Kids(pg)[up][i + 1],
         NEW fromHigh \in BOOLEAN,
         IF fromHigh THEN Size(pg, high) >= 2 ELSE Size(pg, low) >= 2
  PROVE  \E u \in Keys :
           LET f   == Fused(pg, low, high, up, i)
               pg2 == Lent(pg, low, high, up, i, fromHigh)
           IN  /\ Sundered(f, pg2, low, high, up, i, u)
               /\ StartsRight(f[low], pg2[low], pg2[high], u)
<1> DEFINE r   == Rotation(pg[low], pg[high], pg[up].keys[i], fromHigh)
           f   == Fused(pg, low, high, up, i)
           pg2 == Lent(pg, low, high, up, i, fromHigh)
           u   == pg[up].keys[i]
           s   == pg[up].keys
           c   == pg[up].pointers
           e   == [pg[up] EXCEPT !.keys[i] = r.sep]
<1>1. /\ low \in PageIds /\ high \in PageIds
      /\ low # high /\ low # up /\ high # up
      /\ pg[low] \in Nodes /\ pg[high] \in Nodes /\ pg[low].leaf = pg[high].leaf
      /\ ~pg[up].leaf /\ pg[up] \in MiddleNodes /\ i \in 1 .. Len(s) /\ u \in Keys
      /\ c[i] = low /\ c[i + 1] = high
  BY SiblingsAre
<1>2. pg \in [PageIds -> Nodes]
  BY DEF Sound
<1>3. s \in Seq(Keys) /\ c \in Seq(PageIds) /\ Len(c) = Len(s) + 1
  BY <1>1, <1>2, KidsOnce
<1> DEFINE n == Merged(pg[low], pg[high], u)
<1>4. r.sep \in Keys /\ Halved(n, r.low, r.high, r.sep) /\ StartsRight(n, r.low, r.high, r.sep)
  <2> DEFINE lo == pg[low]
             hi == pg[high]
  <2>1. /\ lo \in Nodes /\ hi \in Nodes /\ lo.leaf = hi.leaf /\ u \in Keys
        /\ IF fromHigh THEN Len(KeysOf(hi)) >= 2 ELSE Len(KeysOf(lo)) >= 2
    BY <1>1 DEF Size
  <2> HIDE DEF lo, hi, u
  <2> DEFINE x == Rotation(lo, hi, u, fromHigh)
             y == Merged(lo, hi, u)
  <2>2. x.sep \in Keys
    BY <2>1, RotationIs
  <2>3. Halved(y, x.low, x.high, x.sep)
    BY <2>1, RotationCut
  <2>4. StartsRight(y, x.low, x.high, x.sep)
    BY <2>1, RotationCut
  <2> QED
    BY <2>2, <2>3, <2>4 DEF lo, hi, u
<1> HIDE DEF r, n
<1>5. pg2[low] = r.low /\ pg2[high] = r.high /\ pg2[up] = e
      /\ \A q \in PageIds \ {low, high, up} : pg2[q] = pg[q]
  BY <1>1, <1>2 DEF Lent, r
<1>6. Sundered(f, pg, low, high, up, i, u)
  BY MergeSunders
<1>7. /\ f[low] = n /\ f[high] = Blank /\ f[up] = Middle(RemoveAt(s, i), RemoveAt(c, i + 1))
      /\ \A q \in PageIds \ {low, high, up} : f[q] = pg[q]
  BY <1>1, <1>2 DEF Fused, n
<1> DEFINE t  == e.keys
           ks == RemoveAt(s, i)
           ps == RemoveAt(c, i + 1)
           v  == r.sep
<1>8. /\ e.leaf = FALSE /\ e.pointers = c /\ Len(t) = Len(s) /\ t[i] = v
      /\ \A x \in 1 .. Len(s) : x # i => t[x] = s[x]
  BY <1>1, ReseparatedIs
<1> HIDE DEF pg2, f, e, s, c, t, ks, ps, u, v
<1>9. f[up].leaf = FALSE /\ f[up].keys = ks /\ f[up].pointers = ps
  <2> DEFINE m == f[up]
  <2>1. m = Middle(ks, ps)
    BY <1>7 DEF ks, ps
  <2> HIDE DEF m
  <2>2. m.leaf = FALSE /\ m.keys = ks /\ m.pointers = ps
    BY <2>1, Zenon DEF Middle
  <2> QED
    BY <2>2 DEF m
<1>10. Widened(ks, ps, t, c, i, t[i], c[i + 1]) /\ ps[i] = c[i]
  BY <1>1, <1>3, <1>8, RemovedWidens DEF ks, ps
<1>11. /\ Widened(f[up].keys, f[up].pointers, pg2[up].keys, pg2[up].pointers, i, v, high)
       /\ f[up].pointers[i] = low /\ ~f[up].leaf /\ ~pg2[up].leaf
  BY <1>1, <1>5, <1>8, <1>9, <1>10 DEF t
<1>12. Halved(f[low], pg2[low], pg2[high], v) /\ StartsRight(f[low], pg2[low], pg2[high], v)
  BY <1>4, <1>5, <1>7 DEF v
<1>13. Sundered(f, pg2, low, high, up, i, v)
  BY <1>1, <1>5, <1>7, <1>11, <1>12 DEF Sundered
<1>14. v \in Keys
  BY <1>4 DEF v
<1> QED
  BY <1>12, <1>13, <1>14 DEF f, pg2

LEMMA LentNext ==
  ASSUME NEW pg \in [PageIds -> Nodes], NEW low \in PageIds, NEW high \in PageIds,
         NEW up, NEW i, NEW fromHigh, low # high, low # up, high # up, pg[low].leaf
  PROVE  LET pg2 == Lent(pg, low, high, up, i, fromHigh)
         IN  pg2[low].next = pg[low].next /\ pg2[high].next = pg[high].next
<1> DEFINE r   == Rotation(pg[low], pg[high], pg[up].keys[i], fromHigh)
           pg2 == Lent(pg, low, high, up, i, fromHigh)
<1>1. pg2[low] = r.low /\ pg2[high] = r.high
  BY DEF Lent
<1>2. r.low.next = pg[low].next /\ r.high.next = pg[high].next
  BY DEF Rotation, Leaf
<1> QED
  BY <1>1, <1>2

LEMMA BorrowSorts ==
  ASSUME NEW pg, NEW rt, NEW sp, NEW h, Sound(pg, rt, sp, h),
         NEW up \in PageIds, NEW i \in 1 .. Len(Kids(pg)[up]) - 1,
         NEW low, NEW high, low = Kids(pg)[up][i], high = Kids(pg)[up][i + 1],
         NEW fromHigh \in BOOLEAN,
         IF fromHigh THEN Size(pg, high) >= 2 ELSE Size(pg, low) >= 2,
         SortedTree(pg, rt)
  PROVE  LET pg2 == Lent(pg, low, high, up, i, fromHigh)
         IN  SortedTree(pg2, rt) /\ Stored(pg2) = Stored(pg)
<1> DEFINE f   == Fused(pg, low, high, up, i)
           pg2 == Lent(pg, low, high, up, i, fromHigh)
<1>1. /\ low \in PageIds /\ high \in PageIds /\ rt \notin {low, high}
      /\ ~pg[up].leaf /\ low \in KidsIn(Kids(pg)) /\ high \in KidsIn(Kids(pg))
      /\ pg[low].leaf = pg[high].leaf /\ low # high /\ low # up /\ high # up
  BY SiblingsAre
<1>2. pg \in [PageIds -> Nodes] /\ rt \in PageIds
  BY DEF Sound
<1>15. Sundered(f, pg, low, high, up, i, pg[up].keys[i])
  BY MergeSunders
<1>16. pg[low].leaf => f[low].next = pg[high].next
  BY <1>1, <1>2, FusedNext
<1>17. pg[low].leaf => pg2[low].next = pg[low].next /\ pg2[high].next = pg[high].next
  BY <1>1, <1>2, LentNext
<1>3. SortedTree(f, rt)
  BY MergeSorts
<1>4. Stored(f) = Stored(pg)
  BY <1>3, MergeSorts
<1>5. Sound(f, rt, Deallocate(sp, high), [h EXCEPT ![high] = 1])
  BY MergeIs
<1>6. KidsIn(Kids(f)) = KidsIn(Kids(pg)) \ {high}
  BY <1>5, MergeIs
<1>7. Sound(pg2, rt, sp, h)
  BY BorrowIs
<1>8. KidsIn(Kids(pg2)) = KidsIn(Kids(pg))
  BY <1>7, BorrowIs
<1>9. PICK u \in Keys : /\ Sundered(f, pg2, low, high, up, i, u)
                        /\ StartsRight(f[low], pg2[low], pg2[high], u)
  BY BorrowSunders
<1> HIDE DEF f, pg2
<1>10. f \in [PageIds -> Nodes] /\ Once(Kids(f)) /\ pg2 \in [PageIds -> Nodes]
  BY <1>5, <1>7 DEF Sound
<1>11. PICK S : Ordered(f, rt, S) /\ Strung(f, rt, S)
  BY <1>3 DEF SortedTree
<1>12. \E R : Ordered(pg2, rt, R) /\ Strung(pg2, rt, R)
  <2>1. high \notin KidsIn(Kids(f)) /\ rt \notin {low, high} /\ Once(Kids(f))
    BY <1>1, <1>6, <1>10
  <2>2. f \in [PageIds -> Nodes] /\ pg2 \in [PageIds -> Nodes] /\ rt \in PageIds
    BY <1>2, <1>10
  <2>3. low \in PageIds /\ high \in PageIds /\ u \in Keys /\ Ordered(f, rt, S)
    BY <1>1, <1>9, <1>11
  <2>4. Sundered(f, pg2, low, high, up, i, u) /\ StartsRight(f[low], pg2[low], pg2[high], u)
    BY <1>9
  <2>5. PICK R : Ordered(pg2, rt, R) /\ Moved(S, R, low, high, u) /\ Inside(u, S[low])
    BY <2>1, <2>2, <2>3, <2>4, SplitOrdered, SMTT(60)
  <2>6. low \in KidsIn(Kids(f)) /\ KidsIn(Kids(pg2)) = KidsIn(Kids(f)) \cup {high}
    BY <1>1, <1>6, <1>8
  <2>7. f[low].leaf => pg[low].leaf
    BY <1>15 DEF Sundered, Halved
  <2>8. pg[low].leaf => pg[low].next = high
    <3>1. PICK Q : Ordered(pg, rt, Q) /\ Strung(pg, rt, Q)
      BY DEF SortedTree
    <3>2. /\ i \in 1 .. Len(pg[up].pointers) - 1
          /\ low = pg[up].pointers[i] /\ high = pg[up].pointers[i + 1]
      BY <1>1, <1>2, KidsOnce
    <3> QED
      BY <1>1, <1>2, <3>1, <3>2, SiblingsLinked
  <2>9. Joins(f, pg2, low, high)
    BY <1>1, <1>16, <1>17, <2>6, <2>7, <2>8 DEF Joins
  <2>10. Strung(pg2, rt, R)
    BY <1>11, <2>1, <2>2, <2>3, <2>4, <2>5, <2>6, <2>9, SplitStrung
  <2> QED
    BY <2>5, <2>10
<1>13. Clean(pg2, rt)
  <2> SUFFICES ASSUME NEW q \in PageIds, q \notin {rt} \cup KidsIn(Kids(pg2))
               PROVE  pg2[q] = Blank
    BY DEF Clean
  <2>1. q \notin {rt} \cup KidsIn(Kids(f)) /\ q \notin {low, high} 
    BY <1>1, <1>6, <1>8
  <2>2. f[q] = Blank
    BY <1>3, <2>1 DEF SortedTree, Clean
  <2>3. q # up
    BY <1>9, <2>2, BlankIs DEF Sundered
  <2> QED
    BY <1>9, <2>1, <2>2, <2>3 DEF Sundered
<1>14. Stored(pg2) = Stored(f)
  BY <1>1, <1>9, <1>10, SunderedStored
<1> QED
  BY <1>4, <1>12, <1>13, <1>14 DEF SortedTree, pg2

-----------------------------------------------------------------------------
(* Looking a key up.                                                        *)

LEMMA PositionSplits ==
  ASSUME NEW n \in Nodes, Rising(KeysOf(n)), NEW k \in Int
  PROVE  /\ Position(n, k) \in 0 .. Len(KeysOf(n))
         /\ \A i \in 1 .. Position(n, k) : KeysOf(n)[i] <= k
         /\ \A i \in Position(n, k) + 1 .. Len(KeysOf(n)) : k < KeysOf(n)[i]
<1> DEFINE s == KeysOf(n)
           D == { i \in 1 .. Len(s) + 1 : i = Len(s) + 1 \/ k < s[i] }
<1>1. s \in Seq(Keys) /\ Len(s) \in Nat /\ \A i \in 1 .. Len(s) : s[i] \in Int
  BY NodeIs, ElementOfSeq, TreeAssumption
<1> HIDE DEF s
<1>2. D \subseteq Nat /\ D # {}
  <2>1. Len(s) + 1 \in D
    BY <1>1
  <2> QED
    BY <2>1
<1>3. PICK j \in D : \A i \in D : j <= i
  <2> HIDE DEF D
  <2> QED
    BY <1>2, LeastIn
<1>4. j \in 1 .. Len(s) + 1 /\ j - 1 \in 0 .. Len(s) /\ (j - 1) + 1 = j
  BY <1>1, <1>3
<1>5. ASSUME NEW i \in 1 .. j - 1 PROVE s[i] <= k
  <2>1. i \notin D /\ i \in 1 .. Len(s) /\ i # Len(s) + 1
    BY <1>1, <1>3, <1>4
  <2> QED
    BY <1>1, <2>1
<1>6. ASSUME NEW i \in j .. Len(s) PROVE k < s[i]
  <2>1. j \in 1 .. Len(s) /\ i \in 1 .. Len(s) /\ j # Len(s) + 1
    BY <1>1, <1>4, <1>6
  <2>2. k < s[j]
    BY <1>3, <2>1
  <2>3. j < i => s[j] < s[i]
    BY <2>1 DEF Rising, s
  <2> QED
    BY <1>1, <2>1, <2>2, <2>3
<1> HIDE DEF D
<1>7. Position(n, k) = j - 1
  <2>1. \A i \in (j - 1) + 1 .. Len(s) : k < s[i]
    BY <1>4, <1>6
  <2> QED
    BY <1>4, <1>5, <2>1, PositionAt DEF s
<1> QED
  BY <1>4, <1>5, <1>6, <1>7 DEF s

LEMMA PartedNode ==
  ASSUME NEW pg \in [PageIds -> Nodes], NEW rt, NEW S, Ordered(pg, rt, S),
         NEW p \in PageIds, ~pg[p].leaf
  PROVE  /\ KeysOf(pg[p]) = pg[p].keys /\ Rising(KeysOf(pg[p])) /\ S[p] \in SUBSET Int
         /\ Len(pg[p].pointers) = Len(pg[p].keys) + 1 /\ Len(pg[p].keys) \in Nat
         /\ \A j \in 1 .. Len(pg[p].pointers) :
              S[pg[p].pointers[j]] = Piece(S[p], pg[p].keys, j)
<1>1. Parted(S[p], pg[p].keys, pg[p].pointers, S) /\ S[p] \in SUBSET Int
  BY DEF Ordered, InRange
<1>2. KeysOf(pg[p]) = pg[p].keys
  BY DEF KeysOf
<1> QED
  BY <1>1, <1>2, KidsOnce DEF Parted

(* The child that is taken holds the key, and no other does.                *)
LEMMA BelowInside ==
  ASSUME NEW h, Sound(pages, root, space, h), NEW S, Ordered(pages, root, S),
         NEW p \in PageIds, ~pages[p].leaf, NEW k \in S[p]
  PROVE  k \in S[Below(p, k)]
<1> DEFINE n == pages[p]
           m == Position(n, k)
<1>1. pages \in [PageIds -> Nodes]
  BY DEF Sound
<1>2. /\ KeysOf(n) = n.keys /\ Rising(KeysOf(n)) /\ S[p] \in SUBSET Int
      /\ Len(n.pointers) = Len(n.keys) + 1 /\ Len(n.keys) \in Nat
      /\ \A j \in 1 .. Len(n.pointers) : S[n.pointers[j]] = Piece(S[p], n.keys, j)
  BY <1>1, PartedNode
<1>3. k \in Int /\ n \in Nodes
  BY <1>1, <1>2
<1> HIDE DEF n
<1>4. /\ m \in 0 .. Len(n.keys)
      /\ \A i \in 1 .. m : n.keys[i] <= k
      /\ \A i \in m + 1 .. Len(n.keys) : k < n.keys[i]
  BY <1>2, <1>3, PositionSplits
<1> HIDE DEF m
<1>5. m + 1 \in 1 .. Len(n.pointers) /\ (m + 1) - 1 = m
  BY <1>2, <1>4
<1>6. k \in Piece(S[p], n.keys, m + 1)
  BY <1>4, <1>5 DEF Piece
<1>7. Below(p, k) = n.pointers[m + 1]
  BY DEF Below, n, m
<1> QED
  BY <1>2, <1>5, <1>6, <1>7

LEMMA BelowOnly ==
  ASSUME NEW h, Sound(pages, root, space, h), NEW S, Ordered(pages, root, S),
         NEW p \in PageIds, ~pages[p].leaf, NEW j \in 1 .. Len(pages[p].pointers),
         NEW k \in S[pages[p].pointers[j]]
  PROVE  k \in S[p] /\ Below(p, k) = pages[p].pointers[j]
<1> DEFINE n == pages[p]
<1>1. pages \in [PageIds -> Nodes]
  BY DEF Sound
<1>2. /\ KeysOf(n) = n.keys /\ Rising(KeysOf(n)) /\ S[p] \in SUBSET Int
      /\ Len(n.pointers) = Len(n.keys) + 1 /\ Len(n.keys) \in Nat
      /\ \A x \in 1 .. Len(n.pointers) : S[n.pointers[x]] = Piece(S[p], n.keys, x)
  BY <1>1, PartedNode
<1>3. n \in Nodes /\ j \in 1 .. Len(n.pointers) /\ k \in S[n.pointers[j]]
  BY <1>1
<1> HIDE DEF n
<1>4. k \in Piece(S[p], n.keys, j)
  BY <1>2, <1>3
<1>5. /\ k \in S[p] /\ k \in Int
      /\ \A i \in 1 .. j - 1 : n.keys[i] <= k
      /\ \A i \in j .. Len(n.keys) : k < n.keys[i]
  BY <1>2, <1>4 DEF Piece
<1>6. j - 1 \in 0 .. Len(n.keys) /\ (j - 1) + 1 = j
  BY <1>2, <1>3
<1>7. Position(n, k) = j - 1
  <2>1. \A i \in (j - 1) + 1 .. Len(KeysOf(n)) : k < KeysOf(n)[i]
    BY <1>2, <1>5, <1>6
  <2>2. \A i \in 1 .. j - 1 : KeysOf(n)[i] <= k
    BY <1>2, <1>5
  <2> QED
    BY <1>2, <1>3, <1>5, <1>6, <2>1, <2>2, PositionAt
<1>8. Below(p, k) = n.pointers[Position(n, k) + 1]
  BY DEF Below, n
<1> QED
  BY <1>5, <1>6, <1>7, <1>8 DEF n

LEMMA LineInside ==
  ASSUME NEW h, Sound(pages, root, space, h), NEW S, Ordered(pages, root, S),
         NEW k \in Int, NEW s, LineDown(h, k, root, s), NEW i \in 1 .. Len(s)
  PROVE  s[i] \in PageIds /\ k \in S[s[i]]
<1> DEFINE D == { x \in 1 .. Len(s) : k \notin S[s[x]] }
<1>1. /\ s \in Seq(PageIds) /\ Len(s) \in Nat \ {0} /\ s[1] = root
      /\ \A x \in 1 .. Len(s) - 1 : ~pages[s[x]].leaf /\ s[x + 1] = Below(s[x], k)
  BY DEF LineDown
<1>2. S[root] = Int
  BY DEF Ordered
<1>3. ASSUME D # {} PROVE FALSE
  <2>1. D \subseteq Nat
    BY <1>1
  <2>2. PICK j \in D : \A x \in D : j <= x
    <3> HIDE DEF D
    <3> QED
      BY <1>3, <2>1, LeastIn
  <2>3. j \in 1 .. Len(s) /\ j # 1
    BY <1>1, <1>2, <2>2
  <2>4. j - 1 \in 1 .. Len(s) - 1 /\ j - 1 \in 1 .. Len(s) /\ (j - 1) + 1 = j /\ ~(j <= j - 1)
    BY <1>1, <2>3
  <2>5. k \in S[s[j - 1]]
    BY <2>2, <2>4
  <2>6. s[j - 1] \in PageIds /\ ~pages[s[j - 1]].leaf /\ s[j] = Below(s[j - 1], k)
    BY <1>1, <2>4, ElementOfSeq
  <2>7. k \in S[s[j]]
    BY <2>5, <2>6, BelowInside
  <2> QED
    BY <2>2, <2>7
<1>4. k \in S[s[i]]
  BY <1>3
<1> QED
  BY <1>1, <1>4, ElementOfSeq

(* Every page of the tree whose range has the key is on the line.           *)
LEMMA LineHolds ==
  ASSUME NEW h, Sound(pages, root, space, h), Clean(pages, root),
         NEW S, Ordered(pages, root, S),
         NEW k \in Int, NEW s, LineDown(h, k, root, s),
         NEW q \in {root} \cup KidsIn(Kids(pages)), k \in S[q]
  PROVE  \E x \in 1 .. Len(s) : s[x] = q
<1> DEFINE K == Kids(pages)
           On(p) == \E x \in 1 .. Len(s) : s[x] = p
           D == { p \in PageIds : p \in {root} \cup KidsIn(K) /\ k \in S[p] => On(p) }
<1>1. /\ s \in Seq(PageIds) /\ Len(s) \in Nat \ {0} /\ s[1] = root
      /\ \A x \in 1 .. Len(s) - 1 : ~pages[s[x]].leaf /\ s[x + 1] = Below(s[x], k)
      /\ pages[s[Len(s)]].leaf
  BY DEF LineDown
<1>2. /\ pages \in [PageIds -> Nodes] /\ root \in PageIds
      /\ h \in [PageIds -> Nat] /\ Levels(K, h) /\ K \in Families
  BY KidsAre DEF Sound
<1>3. PICK top \in Nat : \A p \in PageIds : h[p] <= top
  BY <1>2, LevelsEnd
<1> DEFINE g == [p \in PageIds |-> top - h[p]]
<1>4. g \in [PageIds -> Nat] /\ \A p \in PageIds : g[p] = top - h[p] /\ h[p] \in Nat
  BY <1>2, <1>3
<1> HIDE DEF g
<1>5. ASSUME NEW p \in PageIds, \A r \in PageIds : g[r] < g[p] => r \in D
      PROVE  p \in D
  <2> SUFFICES ASSUME p \in {root} \cup KidsIn(K), k \in S[p] PROVE On(p)
    OBVIOUS
  <2>1. CASE p = root
    BY <1>1, <2>1
  <2>2. CASE p \in KidsIn(K)
    <3>0. PICK up \in PageIds : \E i \in 1 .. Len(K[up]) : K[up][i] = p
      BY <2>2 DEF KidsIn
    <3>1. PICK j \in 1 .. Len(K[up]) : K[up][j] = p
      BY <3>0
    <3>2. h[up] = h[p] + 1
      BY <1>2, <3>1 DEF Levels
    <3>3. g[up] < g[p]
      BY <1>4, <3>2
    <3>4. ~pages[up].leaf
      <4>1. Len(K[up]) # 0
        <5>1. Len(K[up]) \in Nat
          BY <1>2, LenIs
        <5> QED
          BY <3>1, <5>1
      <4> QED
        BY <1>2, <4>1, KidsAre
    <3>5. K[up] = pages[up].pointers
      BY <1>2, <3>4, KidsOnce
    <3>6. k \in S[up] /\ Below(up, k) = p
      BY <3>1, <3>4, <3>5, BelowOnly
    <3>7. up \in {root} \cup KidsIn(K)
      BY <3>4, MiddleInTree
    <3>8. PICK x \in 1 .. Len(s) : s[x] = up
      BY <1>5, <3>3, <3>6, <3>7
    <3>9. x # Len(s)
      BY <1>1, <3>4, <3>8
    <3>10. x \in 1 .. Len(s) - 1 /\ x + 1 \in 1 .. Len(s)
      BY <1>1, <3>8, <3>9
    <3>11. s[x + 1] = p
      BY <1>1, <3>6, <3>8, <3>10
    <3> QED
      BY <3>10, <3>11
  <2> QED
    BY <2>1, <2>2
<1> HIDE DEF D
<1>6. PageIds \subseteq D
  BY <1>4, <1>5, Climb
<1>7. q \in PageIds
  BY <1>2 DEF KidsIn
<1> QED
  BY <1>6, <1>7 DEF D, K

(* So only one leaf's range has it.                                         *)
LEMMA LeafOnly ==
  ASSUME NEW h, Sound(pages, root, space, h), Clean(pages, root),
         NEW S, Ordered(pages, root, S), NEW k \in Int
  PROVE  LET leaf == Last(FindPath(k))
         IN  /\ k \in S[leaf]
             /\ \A q \in {root} \cup KidsIn(Kids(pages)) :
                  pages[q].leaf /\ k \in S[q] => q = leaf
<1> DEFINE s == FindPath(k)
           leaf == Last(s)
<1>1. LineDown(h, k, root, s)
  BY PathIs
<1>2. /\ s \in Seq(PageIds) /\ Len(s) \in Nat \ {0}
      /\ \A x \in 1 .. Len(s) - 1 : ~pages[s[x]].leaf
  BY <1>1 DEF LineDown
<1> HIDE DEF s
<1>3. leaf = s[Len(s)]
  BY DEF Last
<1>4. Len(s) \in 1 .. Len(s)
  BY <1>2
<1>5. k \in S[leaf]
  BY <1>1, <1>3, <1>4, LineInside
<1>6. ASSUME NEW q \in {root} \cup KidsIn(Kids(pages)), pages[q].leaf, k \in S[q]
      PROVE  q = leaf
  <2>1. PICK x \in 1 .. Len(s) : s[x] = q
    BY <1>1, <1>6, LineHolds
  <2>2. x \notin 1 .. Len(s) - 1
    BY <1>2, <1>6, <2>1
  <2>3. x = Len(s)
    BY <1>2, <2>1, <2>2
  <2> QED
    BY <1>3, <2>1, <2>3
<1> QED
  BY <1>5, <1>6 DEF s

(* A leaf with an entry is in the tree, and the key is in its range.        *)
LEMMA EntryIs ==
  ASSUME NEW pg \in [PageIds -> Nodes], NEW rt, Clean(pg, rt), NEW S, Ordered(pg, rt, S),
         NEW q \in PageIds, pg[q].leaf, NEW i \in 1 .. Len(pg[q].data)
  PROVE  /\ q \in {rt} \cup KidsIn(Kids(pg))
         /\ pg[q].data[i] \in Keys \X Rids
         /\ Len(KeysOf(pg[q])) = Len(pg[q].data)
         /\ KeysOf(pg[q])[i] = pg[q].data[i][1]
         /\ KeysOf(pg[q])[i] \in S[q]
         /\ Rising(KeysOf(pg[q]))
<1>1. /\ pg[q].data \in Seq(Keys \X Rids) /\ Len(KeysOf(pg[q])) = Len(pg[q].data)
      /\ \A x \in 1 .. Len(pg[q].data) : KeysOf(pg[q])[x] = pg[q].data[x][1]
  BY NodeIs, LeafIs
<1>2. pg[q].data[i] \in Keys \X Rids
  BY <1>1, ElementOfSeq
<1>3. InRange(pg[q], S[q], S)
  BY DEF Ordered
<1>4. q \in {rt} \cup KidsIn(Kids(pg))
  <2>1. Blank.data = <<>> /\ Len(<<>>) = 0
    BY EmptyIs DEF Blank, Leaf
  <2> QED
    BY <2>1 DEF Clean
<1> QED
  BY <1>1, <1>2, <1>3, <1>4 DEF InRange

-----------------------------------------------------------------------------
(* Leaves that gain or lose an entry.                                       *)

Ascending(w) == \A i, j \in 1 .. Len(w) : i < j => w[i][1] < w[j][1]
Held(w) == { w[i] : i \in 1 .. Len(w) }

LEMMA RemovedIs ==
  ASSUME NEW S, NEW s \in Seq(S), NEW j \in 1 .. Len(s)
  PROVE  Inserted(RemoveAt(s, j), s, j, s[j])
<1> DEFINE r == RemoveAt(s, j)
<1>1. /\ Len(r) = Len(s) - 1 /\ Len(s) \in Nat
      /\ \A x \in 1 .. j - 1 : r[x] = s[x]
      /\ \A x \in j .. Len(s) - 1 : r[x] = s[x + 1]
  BY RemoveAtIs, LenProperties
<1> HIDE DEF r
<1>2. j \in 1 .. Len(r) + 1 /\ Len(s) = Len(r) + 1
  BY <1>1
<1>3. Inserted(r, s, j, s[j])
  BY <1>1, <1>2 DEF Inserted
<1> QED
  BY <1>3 DEF r

(* An entry with key u has its place at j of the entries s.                 *)
Admits(s, j, u) ==
  /\ Ascending(s)
  /\ \A x \in 1 .. j - 1 : s[x][1] < u
  /\ \A x \in j .. Len(s) : u < s[x][1]

LEMMA EntriesWider ==
  ASSUME NEW s \in Seq(Keys \X Rids), NEW t \in Seq(Keys \X Rids),
         NEW j, NEW e \in Keys \X Rids, Inserted(s, t, j, e)
  PROVE  /\ Ascending(t) =>
              Ascending(s) /\ \A x \in 1 .. Len(s) : s[x][1] # e[1]
         /\ Admits(s, j, e[1]) => Ascending(t)
         /\ Held(t) = Held(s) \cup {e}
<1> DEFINE n == Len(s)
           u == e[1]
           at(x) == IF x < j THEN x ELSE x + 1
<1>1. /\ n \in Nat /\ Len(t) = n + 1 /\ j \in 1 .. n + 1
      /\ t[j] = e
      /\ \A x \in 1 .. j - 1 : t[x] = s[x]
      /\ \A x \in j .. n : t[x + 1] = s[x]
  BY LenProperties DEF Inserted
<1>2. u \in Int /\ \A x \in 1 .. n : s[x] \in Keys \X Rids /\ s[x][1] \in Int
  <2>1. \A f \in Keys \X Rids : f[1] \in Int
    BY TreeAssumption
  <2>2. \A x \in 1 .. n : s[x] \in Keys \X Rids
    BY ElementOfSeq
  <2> QED
    BY <2>1, <2>2
<1> HIDE DEF n, u
<1>3. ASSUME NEW x \in 1 .. n
      PROVE  at(x) \in 1 .. n + 1 /\ at(x) # j /\ t[at(x)] = s[x] /\ x \in Nat
  <2>1. CASE x < j
    <3>1. x \in 1 .. j - 1 /\ x \in 1 .. n + 1
      BY <1>1, <2>1
    <3> QED
      BY <1>1, <2>1, <3>1
  <2>2. CASE ~(x < j)
    <3>1. x \in j .. n /\ x + 1 \in 1 .. n + 1 /\ x + 1 # j
      BY <1>1, <2>2
    <3> QED
      BY <1>1, <2>2, <3>1
  <2> QED
    BY <2>1, <2>2
<1>4. ASSUME NEW y \in 1 .. n + 1, y # j PROVE \E x \in 1 .. n : at(x) = y
  <2>1. CASE y < j
    <3>1. y \in 1 .. n /\ at(y) = y
      BY <1>1, <2>1
    <3> QED
      BY <3>1
  <2>2. CASE ~(y < j)
    <3>1. y - 1 \in 1 .. n /\ ~(y - 1 < j) /\ (y - 1) + 1 = y
      BY <1>1, <1>4, <2>2
    <3>2. at(y - 1) = y
      BY <3>1
    <3> QED
      BY <3>1, <3>2
  <2> QED
    BY <2>1, <2>2
<1>5. \A x, y \in 1 .. n : x < y <=> at(x) < at(y)
  BY <1>1
<1>6. \A x \in 1 .. n : /\ at(x) < j <=> x \in 1 .. j - 1
                        /\ j < at(x) <=> x \in j .. n
  BY <1>1
<1> HIDE DEF at
<1>7. ASSUME Ascending(t)
      PROVE  Ascending(s) /\ \A x \in 1 .. n : s[x][1] # u
  <2>1. ASSUME NEW x \in 1 .. n, NEW y \in 1 .. n, x < y PROVE s[x][1] < s[y][1]
    BY <1>1, <1>3, <1>5, <1>7, <2>1 DEF Ascending
  <2>2. ASSUME NEW x \in 1 .. n PROVE s[x][1] # u
    <3>1. at(x) \in 1 .. n + 1 /\ at(x) # j /\ t[at(x)] = s[x]
      BY <1>3
    <3>2. at(x) < j \/ j < at(x)
      BY <1>1, <3>1
    <3>3. t[at(x)][1] < t[j][1] \/ t[j][1] < t[at(x)][1]
      BY <1>1, <1>7, <3>1, <3>2 DEF Ascending
    <3>4. s[x][1] < u \/ u < s[x][1]
      BY <1>1, <3>1, <3>3 DEF u
    <3> QED
      BY <1>2, <3>4
  <2> QED
    BY <2>1, <2>2 DEF Ascending, n
<1>8. ASSUME Ascending(s), \A x \in 1 .. j - 1 : s[x][1] < u, \A x \in j .. n : u < s[x][1]
      PROVE  Ascending(t)
  <2> SUFFICES ASSUME NEW y \in 1 .. n + 1, NEW z \in 1 .. n + 1, y < z
               PROVE  t[y][1] < t[z][1]
    BY <1>1 DEF Ascending
  <2>1. CASE y = j
    <3>1. z # j
      BY <2>1
    <3>2. PICK x \in 1 .. n : at(x) = z
      BY <1>4, <3>1
    <3>3. x \in j .. n /\ t[z] = s[x]
      BY <1>3, <1>6, <2>1, <3>2
    <3> QED
      BY <1>1, <1>8, <2>1, <3>3 DEF u
  <2>2. CASE z = j
    <3>1. y # j
      BY <2>2
    <3>2. PICK x \in 1 .. n : at(x) = y
      BY <1>4, <3>1
    <3>3. x \in 1 .. j - 1 /\ t[y] = s[x]
      BY <1>3, <1>6, <2>2, <3>2
    <3> QED
      BY <1>1, <1>8, <2>2, <3>3 DEF u
  <2>3. CASE y # j /\ z # j
    <3>1. PICK x \in 1 .. n : at(x) = y
      BY <1>4, <2>3
    <3>2. PICK v \in 1 .. n : at(v) = z
      BY <1>4, <2>3
    <3>3. x < v /\ t[y] = s[x] /\ t[z] = s[v]
      BY <1>3, <1>5, <3>1, <3>2
    <3> QED
      BY <1>8, <3>3 DEF Ascending, n
  <2> QED
    BY <2>1, <2>2, <2>3
<1>9. ASSUME NEW f
      PROVE  (\E i \in 1 .. n + 1 : t[i] = f) <=> f = e \/ \E i \in 1 .. n : s[i] = f
  <2>1. ASSUME NEW i \in 1 .. n + 1, t[i] = f PROVE f = e \/ \E x \in 1 .. n : s[x] = f
    <3>1. CASE i = j
      BY <1>1, <2>1, <3>1
    <3>2. CASE i # j
      <4>1. PICK x \in 1 .. n : at(x) = i
        BY <1>4, <3>2
      <4> QED
        BY <1>3, <2>1, <4>1
    <3> QED
      BY <3>1, <3>2
  <2>2. ASSUME f = e PROVE \E i \in 1 .. n + 1 : t[i] = f
    BY <1>1, <2>2
  <2>3. ASSUME NEW x \in 1 .. n, s[x] = f PROVE \E i \in 1 .. n + 1 : t[i] = f
    BY <1>3, <2>3
  <2> QED
    BY <2>1, <2>2, <2>3
<1>10. Held(t) = Held(s) \cup {e}
  <2> SUFFICES ASSUME NEW f
               PROVE  f \in Held(t) <=> f \in Held(s) \cup {e}
    OBVIOUS
  <2>1. f \in Held(t) <=> \E i \in 1 .. n + 1 : t[i] = f
    BY <1>1 DEF Held
  <2>2. f \in Held(s) <=> \E i \in 1 .. n : s[i] = f
    BY DEF Held, n
  <2> QED
    BY <1>9, <2>1, <2>2
<1> QED
  BY <1>1, <1>7, <1>8, <1>10 DEF n, u, Admits

LEMMA EntriesFewer ==
  ASSUME NEW s \in Seq(Keys \X Rids), NEW t \in Seq(Keys \X Rids),
         NEW j, NEW e \in Keys \X Rids, Inserted(s, t, j, e), Ascending(t)
  PROVE  Ascending(s) /\ \A x \in 1 .. Len(s) : s[x][1] # e[1]
BY EntriesWider

(* What is stored outside page p.                                           *)
Others(pg, p) == { e \in Keys \X Rids : \E q \in PageIds \ {p} : HasEntry(pg[q], e) }

LEMMA EntriesSort ==
  ASSUME NEW pg, NEW rt, NEW sp, NEW h, Sound(pg, rt, sp, h),
         NEW p \in PageIds, p \in {rt} \cup KidsIn(Kids(pg)), pg[p].leaf,
         NEW w \in Seq(Keys \X Rids), Clean(pg, rt), NEW S, Ordered(pg, rt, S),
         Strung(pg, rt, S), Ascending(w), \A f \in Held(w) : f[1] \in S[p]
  PROVE  SortedTree(WithEntries(pg, p, w), rt)
<1> DEFINE new == WithEntries(pg, p, w)
<1>1. /\ Kids(new) = Kids(pg) /\ Sound(new, rt, sp, h) /\ new[p].leaf
      /\ \A q \in PageIds \ {p} : new[q] = pg[q]
  BY WithData
<1>2. pg \in [PageIds -> Nodes] /\ new \in [PageIds -> Nodes]
  BY <1>1 DEF Sound
<1>3. new[p].data = w /\ new[p].next = pg[p].next
  BY <1>2 DEF WithEntries
<1> HIDE DEF new
<1>4. /\ new[p] \in Nodes /\ Len(KeysOf(new[p])) = Len(w) /\ Len(w) \in Nat
      /\ \A i \in 1 .. Len(w) : KeysOf(new[p])[i] = w[i][1]
  <2>1. new[p] \in Nodes
    BY <1>2
  <2> QED
    BY <1>1, <1>3, <2>1, NodeIs, LeafIs, LenProperties, ZenonT(60)
<1>5. InRange(new[p], S[p], S)
  <2>1. \A i \in 1 .. Len(w) : w[i][1] \in S[p]
    BY DEF Held
  <2> QED
    BY <1>1, <1>4, <2>1 DEF InRange, Rising, Ascending
<1>6. Ordered(new, rt, S)
  BY <1>1, <1>5 DEF Ordered
<1>7. Clean(new, rt)
  BY <1>1 DEF Clean
<1>8. Strung(new, rt, S)
  <2> DEFINE L == LeavesOf(pg, rt)
  <2>1. L \subseteq PageIds
    BY DEF LeavesOf, KidsIn, Sound
  <2>2. LeavesOf(new, rt) = L
    <3>1. \A q \in {rt} \cup KidsIn(Kids(pg)) : q \in PageIds
      BY DEF KidsIn, Sound
    <3>2. \A q \in PageIds : new[q].leaf <=> pg[q].leaf
      BY <1>1
    <3> QED
      BY <1>1, <3>1, <3>2 DEF LeavesOf
  <2>3. Alike(pg, new, L, S, S)
    BY <1>1, <1>3, <2>1 DEF Alike
  <2> QED
    BY <2>2, <2>3, AlikeThreads DEF Strung
<1> QED
  BY <1>6, <1>7, <1>8 DEF SortedTree, new

LEMMA StoredIs ==
  ASSUME NEW pg \in [PageIds -> Nodes], NEW p \in PageIds, pg[p].leaf
  PROVE  Stored(pg) = Others(pg, p) \cup Held(pg[p].data)
<1> DEFINE w == pg[p].data
<1>1. w \in Seq(Keys \X Rids)
  BY NodeIs, LeafIs
<1>2. \A i \in 1 .. Len(w) : w[i] \in Keys \X Rids
  BY <1>1, ElementOfSeq
<1>3. \A e : HasEntry(pg[p], e) <=> \E i \in 1 .. Len(w) : w[i] = e
  BY DEF HasEntry
<1> HIDE DEF w
<1>4. ASSUME NEW e \in Keys \X Rids
      PROVE  e \in Stored(pg) <=> e \in Others(pg, p) \/ \E i \in 1 .. Len(w) : w[i] = e
  BY <1>3 DEF Stored, Others
<1>5. Stored(pg) \subseteq Keys \X Rids /\ Others(pg, p) \subseteq Keys \X Rids
  BY DEF Stored, Others
<1>6. Stored(pg) = Others(pg, p) \cup Held(w)
  BY <1>2, <1>4, <1>5 DEF Held
<1> QED
  BY <1>6 DEF w

LEMMA StoredWith ==
  ASSUME NEW pg \in [PageIds -> Nodes], NEW p \in PageIds, pg[p].leaf,
         NEW w \in Seq(Keys \X Rids)
  PROVE  Stored(WithEntries(pg, p, w)) = Others(pg, p) \cup Held(w)
<1> DEFINE new == WithEntries(pg, p, w)
<1>1. /\ new \in [PageIds -> Nodes] /\ new[p].leaf /\ new[p].data = w
      /\ \A q \in PageIds \ {p} : new[q] = pg[q]
  <2>1. pg[p] \in LeafNodes
    BY NodeIs
  <2>2. [pg[p] EXCEPT !.data = w] \in LeafNodes
    BY <2>1 DEF LeafNodes
  <2>3. new = [pg EXCEPT ![p] = [pg[p] EXCEPT !.data = w]]
    BY DEF WithEntries
  <2>4. [pg[p] EXCEPT !.data = w].leaf /\ [pg[p] EXCEPT !.data = w].data = w
    BY <2>1 DEF LeafNodes
  <2> HIDE DEF new
  <2> QED
    BY <2>2, <2>3, <2>4 DEF Nodes
<1>2. Stored(new) = Others(new, p) \cup Held(new[p].data)
  BY <1>1, StoredIs
<1> HIDE DEF new
<1>3. Others(new, p) = Others(pg, p)
  BY <1>1 DEF Others
<1> QED
  BY <1>1, <1>2, <1>3 DEF new

(* The leaf a lookup of k ends in.                                          *)
LEMMA LeafSorted ==
  ASSUME NEW h, Sound(pages, root, space, h), Clean(pages, root),
         NEW S, Ordered(pages, root, S), NEW k \in Keys
  PROVE  LET leaf == Last(FindPath(k))
             d    == pages[leaf].data
             i    == Position(pages[leaf], k)
         IN  /\ leaf \in PageIds /\ leaf \in {root} \cup KidsIn(Kids(pages))
             /\ pages[leaf].leaf /\ LeafOf(k) = pages[leaf]
             /\ d \in Seq(Keys \X Rids) /\ Len(d) \in Nat /\ i \in 0 .. Len(d)
             /\ Ascending(d) /\ k \in Int /\ k \in S[leaf]
             /\ \A x \in 1 .. Len(d) :
                  d[x] \in Keys \X Rids /\ d[x][1] \in Int /\ d[x][1] \in S[leaf]
             /\ \A x \in 1 .. i : d[x][1] <= k
             /\ \A x \in i + 1 .. Len(d) : k < d[x][1]
             /\ \A e \in Others(pages, leaf) : e[1] # k
             /\ Stored(pages) = Others(pages, leaf) \cup Held(d)
<1> DEFINE leaf == Last(FindPath(k))
           n    == pages[leaf]
           d    == n.data
           i    == Position(n, k)
<1>1. /\ leaf \in PageIds /\ n.leaf /\ LeafOf(k) = n
      /\ d \in Seq(Keys \X Rids) /\ Len(d) = Size(pages, leaf)
      /\ i \in 0 .. Size(pages, leaf)
      /\ leaf = root \/ leaf \in KidsIn(Kids(pages))
  BY LeafFor
<1>2. k \in Int /\ pages \in [PageIds -> Nodes]
  BY TreeAssumption DEF Sound
<1>3. /\ k \in S[leaf]
      /\ \A q \in {root} \cup KidsIn(Kids(pages)) : pages[q].leaf /\ k \in S[q] => q = leaf
  BY <1>2, LeafOnly
<1> HIDE DEF leaf
<1>4. n \in Nodes /\ InRange(n, S[leaf], S)
  BY <1>1, <1>2 DEF Ordered
<1>5. Stored(pages) = Others(pages, leaf) \cup Held(d)
  BY <1>1, <1>2, StoredIs
<1>6. ASSUME NEW e \in Others(pages, leaf) PROVE e[1] # k
  <2>1. PICK q \in PageIds \ {leaf} : HasEntry(pages[q], e)
    BY DEF Others
  <2>2. PICK x \in 1 .. Len(pages[q].data) : pages[q].data[x] = e
    BY <2>1 DEF HasEntry
  <2>3. pages[q].leaf
    BY <2>1 DEF HasEntry
  <2>4. q \in {root} \cup KidsIn(Kids(pages)) /\ e[1] \in S[q]
    BY <1>2, <2>2, <2>3, EntryIs
  <2> QED
    BY <1>3, <2>3, <2>4
<1> HIDE DEF n
<1>7. /\ Len(KeysOf(n)) = Len(d) /\ Len(d) \in Nat
      /\ \A x \in 1 .. Len(d) : KeysOf(n)[x] = d[x][1]
  BY <1>1, <1>4, NodeIs, LeafIs, LenProperties
<1>8. \A x \in 1 .. Len(d) : d[x] \in Keys \X Rids /\ d[x][1] \in Int
  <2>1. \A f \in Keys \X Rids : f[1] \in Int
    BY TreeAssumption
  <2>2. \A x \in 1 .. Len(d) : d[x] \in Keys \X Rids
    BY <1>1, ElementOfSeq
  <2> QED
    BY <2>1, <2>2
<1>9. Rising(KeysOf(n)) /\ \A x \in 1 .. Len(d) : d[x][1] \in S[leaf]
  BY <1>1, <1>4, <1>7 DEF InRange
<1>10. /\ i \in 0 .. Len(KeysOf(n))
       /\ \A x \in 1 .. i : KeysOf(n)[x] <= k
       /\ \A x \in i + 1 .. Len(KeysOf(n)) : k < KeysOf(n)[x]
  BY <1>2, <1>4, <1>9, PositionSplits
<1> HIDE DEF i
<1>11. Ascending(d)
  BY <1>7, <1>9 DEF Rising, Ascending
<1>12. /\ \A x \in 1 .. i : d[x][1] <= k
       /\ \A x \in i + 1 .. Len(d) : k < d[x][1]
  <2>1. \A x \in 1 .. i : x \in 1 .. Len(d)
    BY <1>7, <1>10
  <2>2. \A x \in i + 1 .. Len(d) : x \in 1 .. Len(d)
    BY <1>7, <1>10
  <2> QED
    BY <1>7, <1>10, <2>1, <2>2
<1>13. i \in 0 .. Len(d)
  BY <1>7, <1>10
<1> HIDE DEF d
<1>14. leaf \in {root} \cup KidsIn(Kids(pages))
  BY <1>1
<1> QED
  BY <1>1, <1>2, <1>3, <1>5, <1>6, <1>7, <1>8, <1>9, <1>11, <1>12, <1>13, <1>14 DEF leaf, d, i, n

(* The entry of k in its leaf, if there is one.                             *)
LEMMA EntryAt ==
  ASSUME NEW d \in Seq(Keys \X Rids), NEW i \in 0 .. Len(d), NEW k \in Int, Ascending(d),
         \A x \in 1 .. Len(d) : d[x][1] \in Int,
         \A x \in 1 .. i : d[x][1] <= k, \A x \in i + 1 .. Len(d) : k < d[x][1]
  PROVE  /\ \A x \in 1 .. Len(d) : d[x][1] = k => x = i
         /\ i = 0 \/ d[i][1] # k => \A x \in 1 .. i : d[x][1] < k
<1>1. Len(d) \in Nat
  BY LenProperties
<1>2. ASSUME NEW x \in 1 .. i, x # i PROVE d[x][1] < k
  <2>1. x \in 1 .. Len(d) /\ i \in 1 .. Len(d) /\ x < i /\ i \in 1 .. i
    BY <1>1, <1>2
  <2>2. d[x][1] < d[i][1] /\ d[i][1] <= k
    BY <2>1 DEF Ascending
  <2> QED
    BY <2>1, <2>2
<1>3. ASSUME NEW x \in 1 .. Len(d), d[x][1] = k PROVE x = i
  <2>1. x \notin i + 1 .. Len(d)
    BY <1>3
  <2>2. x \in 1 .. i
    BY <1>1, <1>3, <2>1
  <2> QED
    BY <1>2, <1>3, <2>2
<1>4. ASSUME i = 0 \/ d[i][1] # k, NEW x \in 1 .. i PROVE d[x][1] < k
  <2>1. CASE x = i
    <3>1. d[i][1] <= k /\ d[i][1] # k /\ d[i][1] \in Int
      BY <1>1, <1>4, <2>1
    <3> QED
      BY <2>1, <3>1
  <2> QED
    BY <1>2, <2>1
<1> QED
  BY <1>3, <1>4

-----------------------------------------------------------------------------
(* The inductive invariant, on top of Structure.                            *)

Sorted == root # 0 => SortedTree(pages, root)

LEMMA NothingStored ==
  ASSUME pages = [p \in PageIds |-> Blank]
  PROVE  Stored(pages) = {}
<1>1. \A p \in PageIds : \A e : ~HasEntry(pages[p], e)
  BY EmptyIs DEF HasEntry, Blank, Leaf
<1> QED
  BY <1>1 DEF Stored

(* A lookup finds what is stored, and nothing else.                         *)
LEMMA LookUp ==
  ASSUME Structure, Sorted, NEW k \in Keys
  PROVE  /\ \A r : <<k, r>> \in Stored(pages) => Find(k) = r
         /\ Find(k) # NoRid => <<k, Find(k)>> \in Stored(pages)
<1>1. CASE root = 0
  BY <1>1, NothingStored DEF Structure, Find
<1>2. CASE root # 0
  <2>1. PICK h : Stands(h)
    BY <1>2 DEF Structure
  <2>2. PICK S : Ordered(pages, root, S)
    BY <1>2 DEF Sorted, SortedTree
  <2>3. Sound(pages, root, space, h) /\ Clean(pages, root)
    BY <1>2, <2>1 DEF Stands, Sorted, SortedTree
  <2> DEFINE leaf == Last(FindPath(k))
             d    == pages[leaf].data
             i    == Position(pages[leaf], k)
  <2>4. /\ LeafOf(k) = pages[leaf]
        /\ d \in Seq(Keys \X Rids) /\ Len(d) \in Nat /\ i \in 0 .. Len(d)
        /\ Ascending(d) /\ k \in Int
        /\ \A x \in 1 .. Len(d) : d[x] \in Keys \X Rids /\ d[x][1] \in Int
        /\ \A x \in 1 .. i : d[x][1] <= k
        /\ \A x \in i + 1 .. Len(d) : k < d[x][1]
        /\ \A e \in Others(pages, leaf) : e[1] # k
        /\ Stored(pages) = Others(pages, leaf) \cup Held(d)
    BY <2>2, <2>3, LeafSorted
  <2>5. Find(k) = IF i > 0 /\ d[i][1] = k THEN d[i][2] ELSE NoRid
    BY <1>2, <2>4 DEF Find
  <2> HIDE DEF d, i, leaf
  <2>6. ASSUME NEW x \in 1 .. Len(d), d[x][1] = k PROVE x = i
    <3>1. ~(x \in i + 1 .. Len(d))
      BY <2>4, <2>6
    <3>2. x \in 1 .. i /\ i \in 1 .. Len(d)
      BY <2>4, <3>1
    <3>3. x < i => d[x][1] < d[i][1]
      BY <2>4, <3>2 DEF Ascending
    <3>4. d[i][1] <= k /\ d[i][1] \in Int
      BY <2>4, <3>2
    <3> QED
      BY <2>4, <2>6, <3>2, <3>3, <3>4
  <2>7. ASSUME NEW r, <<k, r>> \in Stored(pages) PROVE Find(k) = r
    <3>1. PICK x \in 1 .. Len(d) : d[x] = <<k, r>>
      BY <2>4, <2>7 DEF Held
    <3>2. x = i /\ i > 0 /\ d[i] = <<k, r>>
      BY <2>4, <2>6, <3>1
    <3> QED
      BY <2>5, <3>2
  <2>8. ASSUME Find(k) # NoRid PROVE <<k, Find(k)>> \in Stored(pages)
    <3>1. i > 0 /\ d[i][1] = k /\ Find(k) = d[i][2]
      BY <2>5, <2>8
    <3>2. i \in 1 .. Len(d) /\ d[i] \in Keys \X Rids
      BY <2>4, <3>1
    <3>3. d[i] = <<k, Find(k)>>
      BY <3>1, <3>2
    <3> QED
      BY <2>4, <3>2, <3>3 DEF Held
  <2> QED
    BY <2>7, <2>8
<1> QED
  BY <1>1, <1>2

-----------------------------------------------------------------------------
(* Every step keeps the tree sorted.                                        *)

LEMMA InsertFirstSorts ==
  ASSUME Structure, Sorted, NEW k \in Keys, NEW r \in Rids, InsertFirst(k, r)
  PROVE  /\ Sorted' /\ Find(k) = NoRid
         /\ Stored(pages') = Stored(pages) \cup {<<k, r>>}
<1> DEFINE d == << <<k, r>> >>
           n == Leaf(d, 0)
           S == [p \in PageIds |-> Int]
<1>1. /\ root = 0 /\ root' = Allocated(space) /\ pages' = [pages EXCEPT ![root'] = n]
      /\ pages = [p \in PageIds |-> Blank]
      /\ space = [free_list |-> <<>>, page_count |-> 1]
  BY DEF InsertFirst, Structure, Idle
<1>2. root' \in PageIds
  <2>1. root' = 1
    BY <1>1 DEF Allocated
  <2> QED
    BY <2>1, Constants DEF PageIds
<1>3. /\ n.leaf = TRUE /\ n.data = d /\ Len(d) = 1 /\ d[1] = <<k, r>>
      /\ Len(KeysOf(n)) = 1 /\ KeysOf(n)[1] = k
  <2>1. n.leaf = TRUE /\ n.data = d
    BY DEF Leaf
  <2>2. Len(d) = 1 /\ d[1] = <<k, r>> /\ DOMAIN d = {1}
    OBVIOUS
  <2> HIDE DEF n, d
  <2>3. KeysOf(n) = [i \in {1} |-> d[i][1]]
    BY <2>1, <2>2 DEF KeysOf
  <2>4. KeysOf(n) = <<k>>
    BY <2>2, <2>3
  <2> QED
    BY <2>1, <2>2, <2>4
<1>13. n.next = 0
  BY DEF Leaf
<1> HIDE DEF n, d
<1>4. pages'[root'] = n /\ \A q \in PageIds \ {root'} : pages'[q] = Blank
  BY <1>1, <1>2
<1>5. k \in Int
  BY TreeAssumption
<1>6. Ordered(pages', root', S)
  <2>1. InRange(n, Int, S)
    BY <1>3, <1>5 DEF InRange, Rising
  <2>2. \A q \in PageIds : InRange(pages'[q], S[q], S)
    BY <1>4, <2>1, BlankInRange
  <2>3. S \in [PageIds -> SUBSET Int] /\ S[root'] = Int
    BY <1>2
  <2> HIDE DEF S
  <2> QED
    BY <2>2, <2>3 DEF Ordered
<1>7. Clean(pages', root')
  BY <1>4 DEF Clean
<1>12. Strung(pages', root', S)
  <2>1. LeavesOf(pages', root') = {root'}
    <3>1. KidsIn(Kids(pages')) = {}
      BY <1>2, <1>3, <1>4, BlankIs DEF KidsIn, Kids
    <3> QED
      BY <1>3, <1>4, <3>1 DEF LeavesOf
  <2>2. n.next = 0 /\ Endless(Int) /\ Convex(Int)
    BY <1>13 DEF Endless, Convex
  <2>3. Leads(pages', {root'}, S, root')
    BY <1>2, <1>4, <2>2 DEF Leads
  <2> QED
    BY <2>1, <2>2, <2>3 DEF Strung, Rounded, Threaded
<1>8. Sorted'
  BY <1>6, <1>7, <1>12 DEF Sorted, SortedTree
<1>9. Stored(pages) = {}
  BY <1>1, NothingStored
<1>10. Stored(pages') = {<<k, r>>}
  <2>1. \A e : ~HasEntry(Blank, e)
    BY EmptyIs DEF HasEntry, Blank, Leaf
  <2>2. \A e : HasEntry(n, e) <=> e = <<k, r>>
    BY <1>3 DEF HasEntry
  <2> QED
    BY <1>2, <1>4, <2>1, <2>2 DEF Stored
<1>11. Find(k) = NoRid
  BY <1>1 DEF Find
<1> QED
  BY <1>8, <1>9, <1>10, <1>11

LEMMA InsertIntoLeafSorts ==
  ASSUME Structure, Sorted, NEW k \in Keys, NEW r \in Rids, InsertIntoLeaf(k, r)
  PROVE  /\ Sorted' /\ Find(k) = NoRid
         /\ Stored(pages') = Stored(pages) \cup {<<k, r>>}
<1> DEFINE leaf == Last(FindPath(k))
           d    == pages[leaf].data
           i    == Position(pages[leaf], k)
           e    == <<k, r>>
           w    == InsertAt(d, i + 1, e)
<1>1. /\ root # 0 /\ root' = root /\ Find(k) = NoRid
      /\ pages' = [pages EXCEPT ![leaf].data = InsertAt(@, Position(LeafOf(k), k) + 1, e)]
  BY DEF InsertIntoLeaf, HasKey
<1>2. PICK h : Stands(h)
  BY <1>1 DEF Structure
<1>3. PICK S : Ordered(pages, root, S) /\ Strung(pages, root, S)
  BY <1>1 DEF Sorted, SortedTree
<1>4. Sound(pages, root, space, h) /\ Clean(pages, root)
  BY <1>1, <1>2 DEF Stands, Sorted, SortedTree
<1>5. /\ leaf \in PageIds /\ leaf \in {root} \cup KidsIn(Kids(pages))
      /\ pages[leaf].leaf /\ LeafOf(k) = pages[leaf]
      /\ d \in Seq(Keys \X Rids) /\ Len(d) \in Nat /\ i \in 0 .. Len(d)
      /\ Ascending(d) /\ k \in Int /\ k \in S[leaf]
      /\ \A x \in 1 .. Len(d) :
           d[x] \in Keys \X Rids /\ d[x][1] \in Int /\ d[x][1] \in S[leaf]
      /\ \A x \in 1 .. i : d[x][1] <= k
      /\ \A x \in i + 1 .. Len(d) : k < d[x][1]
      /\ Stored(pages) = Others(pages, leaf) \cup Held(d)
  BY <1>3, <1>4, LeafSorted
<1>6. i > 0 => d[i][1] # k
  <2>1. i > 0 /\ d[i][1] = k => Find(k) = d[i][2]
    BY <1>1, <1>5 DEF Find
  <2>2. i > 0 => i \in 1 .. Len(d) /\ d[i] \in Keys \X Rids
    BY <1>5
  <2> QED
    BY <1>1, <2>1, <2>2, TreeAssumption
<1>7. pages' = WithEntries(pages, leaf, w)
  BY <1>1, <1>5 DEF WithEntries
<1> HIDE DEF leaf, d, i
<1>8. e \in Keys \X Rids /\ e[1] = k
  OBVIOUS
<1>9. i + 1 \in 1 .. Len(d) + 1 /\ (i + 1) - 1 = i
  BY <1>5
<1> HIDE DEF e
<1>10. w \in Seq(Keys \X Rids) /\ Inserted(d, w, i + 1, e)
  <2> DEFINE j == i + 1
  <2>1. j \in 1 .. Len(d) + 1
    BY <1>9
  <2> HIDE DEF j
  <2>2. InsertAt(d, j, e) \in Seq(Keys \X Rids)
    BY <1>5, <1>8, <2>1, InsertAtIs
  <2>3. Inserted(d, InsertAt(d, j, e), j, e)
    BY <1>5, <1>8, <2>1, InsertedIs
  <2> QED
    BY <2>2, <2>3 DEF j
<1> HIDE DEF w
<1>11. \A x \in 1 .. i : d[x][1] < k
  <2>1. i = 0 \/ d[i][1] # k
    BY <1>5, <1>6
  <2> QED
    BY <1>5, <2>1, EntryAt
<1>12. Ascending(w)
  <2>1. \A x \in 1 .. (i + 1) - 1 : d[x][1] < e[1]
    BY <1>8, <1>9, <1>11
  <2>2. \A x \in i + 1 .. Len(d) : e[1] < d[x][1]
    BY <1>5, <1>8
  <2> DEFINE j == i + 1
  <2>3. j \in 1 .. Len(d) + 1 /\ Inserted(d, w, j, e) /\ Admits(d, j, e[1])
    BY <1>5, <1>9, <1>10, <2>1, <2>2 DEF Admits
  <2> HIDE DEF j
  <2> QED
    BY <1>5, <1>8, <1>10, <2>3, EntriesWider
<1>13. Held(w) = Held(d) \cup {e}
  <2> DEFINE j == i + 1
  <2>1. j \in 1 .. Len(d) + 1 /\ Inserted(d, w, j, e)
    BY <1>9, <1>10
  <2> HIDE DEF j
  <2> QED
    BY <1>5, <1>8, <1>10, <2>1, EntriesWider
<1>14. \A f \in Held(w) : f[1] \in S[leaf]
  BY <1>5, <1>8, <1>13 DEF Held
<1> DEFINE new == WithEntries(pages, leaf, w)
<1>15. SortedTree(new, root)
  BY <1>3, <1>4, <1>5, <1>10, <1>12, <1>14, EntriesSort
<1>16. Stored(new) = Others(pages, leaf) \cup Held(w)
  <2>1. pages \in [PageIds -> Nodes]
    BY <1>4 DEF Sound
  <2> QED
    BY <1>5, <1>10, <2>1, StoredWith DEF new
<1> HIDE DEF new
<1>17. Stored(new) = Stored(pages) \cup {e}
  BY <1>5, <1>13, <1>16
<1> QED
  BY <1>1, <1>7, <1>15, <1>17 DEF Sorted, new, e

LEMMA EraseSorts ==
  ASSUME Structure, Sorted, NEW k \in Keys, Erase(k)
  PROVE  /\ Sorted' /\ Find(k) # NoRid
         /\ Stored(pages') = { e \in Stored(pages) : e[1] # k }
<1> DEFINE leaf == Last(FindPath(k))
           d    == pages[leaf].data
           i    == Position(pages[leaf], k)
           w    == RemoveAt(d, i)
<1>1. /\ Find(k) # NoRid /\ root' = root
      /\ pages' = [pages EXCEPT ![leaf].data = RemoveAt(@, i)]
  BY DEF Erase, HasKey
<1>2. /\ root # 0 /\ Position(LeafOf(k), k) > 0
      /\ LeafOf(k).data[Position(LeafOf(k), k)][1] = k
  BY <1>1 DEF Find
<1>3. PICK h : Stands(h)
  BY <1>2 DEF Structure
<1>4. PICK S : Ordered(pages, root, S) /\ Strung(pages, root, S)
  BY <1>2 DEF Sorted, SortedTree
<1>5. Sound(pages, root, space, h) /\ Clean(pages, root)
  BY <1>2, <1>3 DEF Stands, Sorted, SortedTree
<1>6. /\ leaf \in PageIds /\ leaf \in {root} \cup KidsIn(Kids(pages))
      /\ pages[leaf].leaf /\ LeafOf(k) = pages[leaf]
      /\ d \in Seq(Keys \X Rids) /\ Len(d) \in Nat /\ i \in 0 .. Len(d)
      /\ Ascending(d)
      /\ \A x \in 1 .. Len(d) :
           d[x] \in Keys \X Rids /\ d[x][1] \in Int /\ d[x][1] \in S[leaf]
      /\ \A e \in Others(pages, leaf) : e[1] # k
      /\ Stored(pages) = Others(pages, leaf) \cup Held(d)
  BY <1>4, <1>5, LeafSorted
<1>7. i \in 1 .. Len(d) /\ d[i][1] = k
  BY <1>2, <1>6
<1>8. pages' = WithEntries(pages, leaf, w)
  BY <1>1 DEF WithEntries
<1> HIDE DEF leaf, d, i
<1>9. w \in Seq(Keys \X Rids) /\ Inserted(w, d, i, d[i]) /\ d[i] \in Keys \X Rids
  BY <1>6, <1>7, RemoveAtIs, RemovedIs
<1> HIDE DEF w
<1> DEFINE c == d[i]
<1> HIDE DEF c
<1>20. c \in Keys \X Rids /\ Inserted(w, d, i, c) /\ c[1] = k
  BY <1>7, <1>9 DEF c
<1>21. w \in Seq(Keys \X Rids) /\ d \in Seq(Keys \X Rids) /\ Ascending(d)
  BY <1>6, <1>9
<1>10. Ascending(w) /\ \A x \in 1 .. Len(w) : w[x][1] # c[1]
  BY <1>20, <1>21, EntriesFewer
<1>11. Held(d) = Held(w) \cup {c}
  BY <1>20, <1>21, EntriesWider, SMTT(30)
<1>12. \A f \in Held(w) : f[1] \in S[leaf]
  <2>1. \A f \in Held(d) : f[1] \in S[leaf]
    BY <1>6 DEF Held
  <2> QED
    BY <1>11, <2>1
<1> DEFINE new == WithEntries(pages, leaf, w)
<1>13. SortedTree(new, root)
  BY <1>4, <1>5, <1>6, <1>9, <1>10, <1>12, EntriesSort
<1>14. Stored(new) = Others(pages, leaf) \cup Held(w)
  <2>1. pages \in [PageIds -> Nodes]
    BY <1>5 DEF Sound
  <2> QED
    BY <1>6, <1>9, <2>1, StoredWith DEF new
<1> HIDE DEF new
<1>15. Stored(new) = { e \in Stored(pages) : e[1] # k }
  <2>1. \A f \in Held(w) : f[1] # k
    BY <1>10, <1>20 DEF Held
  <2> QED
    BY <1>6, <1>11, <1>14, <1>20, <2>1
<1> QED
  BY <1>1, <1>8, <1>13, <1>15 DEF Sorted, new

(* A step of a repair changes neither the order nor what is stored.         *)
Steady == Sorted' /\ Stored(pages') = Stored(pages)

LEMMA SameSteady ==
  ASSUME Sorted, pages' = pages, root' = root
  PROVE  Steady
BY DEF Sorted, Steady

LEMMA MovedSteady ==
  ASSUME NEW pg2, pages' = pg2, SortedTree(pg2, root'), Stored(pg2) = Stored(pages)
  PROVE  Steady
BY DEF Sorted, Steady

LEMMA SplitNodeSorts ==
  ASSUME Structure, Sorted, SplitNode
  PROVE  Steady
<1> DEFINE up  == Last(path)
           K   == Kids(pages)
           pg2 == Split(pages, curr, up, Allocated(space))
<1>1. /\ pc = "balance_insert" /\ Overfull(curr) /\ curr # root
      /\ pages' = pg2 /\ root' = root
  BY DEF SplitNode, ParentId
<1>2. root # 0 /\ curr \in PageIds /\ path \in Seq(PageIds)
  BY <1>1 DEF Structure, Idle, Repairing
<1>3. PICK h : Stands(h)
  BY <1>2 DEF Structure
<1>4. /\ Sound(pages, root, space, h) /\ Fits(pages, root, 0, curr)
      /\ OnLine(K, root, h, Append(path, curr))
      /\ Avail(space) >= Len(path) + 2
  BY <1>1, <1>2, <1>3 DEF Stands, Structure, Less, More, Repairing
<1>5. h \in [PageIds -> Nat] /\ K \in Families
  BY <1>4, KidsAre DEF Sound
<1> HIDE DEF K, pg2
<1>6. up \in PageIds /\ \E j \in 1 .. Len(K[up]) : K[up][j] = curr
  <2>1. /\ path = <<>> => curr = root
        /\ path # <<>> =>
             up \in PageIds /\ \E j \in 1 .. Len(K[up]) : K[up][j] = curr
    BY <1>2, <1>4, <1>5, ParentIs
  <2> QED
    BY <1>1, <2>1
<1> HIDE DEF up
<1>7. PICK j \in 1 .. Len(K[up]) : K[up][j] = curr
  BY <1>6
<1>8. curr \in KidsIn(K)
  BY <1>5, <1>6, <1>7, KidIs
<1>9. Size(pages, curr) = 2 * T
  <2>1. /\ Size(pages, curr) \in Nat /\ MaxKeys = 2 * T - 1 /\ T \in Nat
    BY <1>2, <1>4, FitsOwned
  <2>2. Size(pages, curr) <= MaxKeys + 1
    BY <1>4, <1>8 DEF Fits, K
  <2>3. Size(pages, curr) > MaxKeys
    BY <1>1 DEF Overfull, Count, Size
  <2> QED
    BY <2>1, <2>2, <2>3
<1>10. Avail(space) >= 1
  <2>1. Avail(space) \in Int /\ Len(path) \in Nat
    BY <1>2, <1>4, Constants, LenProperties DEF Avail, Sound, Spaced
  <2> QED
    BY <1>4, <2>1
<1>11. SortedTree(pg2, root) /\ Stored(pg2) = Stored(pages)
  <2>1. j \in 1 .. Len(Kids(pages)[up]) /\ Kids(pages)[up][j] = curr
    BY <1>7 DEF K
  <2>2. Sound(pages, root, space, h) /\ SortedTree(pages, root)
    BY <1>2, <1>4 DEF Sorted
  <2>3. SortedTree(pg2, root)
    BY <1>2, <1>6, <1>9, <1>10, <2>1, <2>2, SplitSorts DEF pg2
  <2>4. Stored(pg2) = Stored(pages)
    BY <1>2, <1>6, <1>9, <1>10, <2>1, <2>2, SplitSorts DEF pg2
  <2> QED
    BY <2>3, <2>4
<1> QED
  BY <1>1, <1>11, MovedSteady

LEMMA GrowTreeSorts ==
  ASSUME Structure, Sorted, GrowTree
  PROVE  Steady
<1> DEFINE n1    == Allocated(space)
           sp1   == Allocate(space)
           above == [pages EXCEPT ![n1] = Middle(<<>>, <<root>>)]
           pg2   == Split(above, root, n1, Allocated(sp1))
           A     == Kids(above)
<1>1. /\ pc = "balance_insert" /\ Overfull(curr) /\ curr = root
      /\ root' = n1 /\ pages' = pg2
  BY DEF GrowTree, Finish
<1>2. root # 0 /\ path \in Seq(PageIds)
  BY <1>1 DEF Structure, Idle, Repairing
<1>3. PICK h : Stands(h)
  BY <1>2 DEF Structure
<1>4. /\ Sound(pages, root, space, h) /\ Fits(pages, root, 0, root)
      /\ Avail(space) >= Len(path) + 2
  BY <1>1, <1>2, <1>3 DEF Stands, Structure, Less, More, Repairing
<1>5. Avail(space) >= 2 /\ Avail(space) \in Int
  <2>1. Avail(space) \in Int /\ Len(path) \in Nat
    BY <1>2, <1>4, Constants, LenProperties DEF Avail, Sound, Spaced
  <2> QED
    BY <1>4, <2>1
<1>6. Size(pages, root) = 2 * T
  <2>1. /\ Size(pages, root) \in Nat /\ MaxKeys = 2 * T - 1 /\ T \in Nat
    BY <1>4, FitsOwned
  <2>2. Size(pages, root) <= MaxKeys + 1
    BY <1>4 DEF Fits
  <2>3. Size(pages, root) > MaxKeys
    BY <1>1 DEF Overfull, Count, Size
  <2> QED
    BY <2>1, <2>2, <2>3
<1> DEFINE g == [h EXCEPT ![n1] = h[root] + 1]
<1>7. Sound(pages, root, space, h) /\ Avail(space) >= 1 /\ SortedTree(pages, root)
  BY <1>2, <1>4, <1>5 DEF Sorted
<1>8. SortedTree(above, n1) /\ Stored(above) = Stored(pages)
  BY <1>7, PlantSorts
<1>9. Sound(above, n1, sp1, g)
  BY <1>7, PlantIs
<1>10. n1 \in PageIds \ {root}
  BY <1>7, PlantIs
<1>11. A[n1] = <<root>>
  BY <1>7, PlantIs
<1>12. \A q \in PageIds \ {n1} : above[q] = pages[q]
  BY <1>7, PlantIs
<1>13. Avail(sp1) >= 1
  <2>1. Avail(sp1) = Avail(space) - 1
    BY <1>4, <1>5, AllocateIs DEF Sound
  <2> QED
    BY <1>5, <2>1
<1> HIDE DEF n1, sp1, above, g, pg2
<1>14. 1 \in 1 .. Len(A[n1]) /\ A[n1][1] = root /\ root \in PageIds
  BY <1>4, <1>11 DEF Sound
<1> HIDE DEF A
<1>15. Size(above, root) = 2 * T
  BY <1>6, <1>10, <1>12, <1>14 DEF Size
<1>16. SortedTree(pg2, n1) /\ Stored(pg2) = Stored(above)
  <2>1. 1 \in 1 .. Len(Kids(above)[n1]) /\ Kids(above)[n1][1] = root
    BY <1>14 DEF A
  <2>2. n1 \in PageIds /\ root \in PageIds
    BY <1>10, <1>14
  <2>3. SortedTree(above, n1)
    BY <1>8
  <2>4. SortedTree(pg2, n1)
    BY <1>9, <1>13, <1>15, <2>1, <2>2, <2>3, SplitSorts DEF pg2
  <2>5. Stored(pg2) = Stored(above)
    BY <1>9, <1>13, <1>15, <2>1, <2>2, <2>3, SplitSorts DEF pg2
  <2> QED
    BY <2>4, <2>5
<1> QED
  BY <1>1, <1>8, <1>16, MovedSteady

LEMMA BorrowSteady ==
  ASSUME Structure, Sorted, Balancing, NEW i \in 1 .. Len(Parent.pointers) - 1,
         NEW low, NEW high, low = Parent.pointers[i], high = Parent.pointers[i + 1],
         NEW fromHigh \in BOOLEAN,
         IF fromHigh THEN CanLend(high) ELSE CanLend(low),
         Borrow(low, high, i, fromHigh)
  PROVE  Steady
<1> DEFINE pg2 == Lent(pages, low, high, ParentId, i, fromHigh)
           K   == Kids(pages)
<1>1. pages' = pg2 /\ root' = root
  BY DEF Borrow, Separator, Parent, Lent
<1>2. root # 0
  BY DEF Structure, Balancing, Idle
<1>3. PICK h : Stands(h)
  BY <1>2 DEF Structure
<1>4. /\ Sound(pages, root, space, h) /\ ParentId \in PageIds
      /\ K[ParentId] = Parent.pointers /\ Len(Parent.pointers) \in Nat
  BY <1>3, ShortNode
<1>5. K \in Families
  BY <1>4, KidsAre DEF Sound
<1>6. /\ i \in 1 .. Len(K[ParentId]) - 1 /\ low = K[ParentId][i] /\ high = K[ParentId][i + 1]
  BY <1>4
<1>7. low \in PageIds /\ high \in PageIds
  <2>1. i \in 1 .. Len(K[ParentId]) /\ i + 1 \in 1 .. Len(K[ParentId])
    BY <1>4
  <2> HIDE DEF K
  <2> QED
    BY <1>4, <1>5, <1>6, <2>1, KidIs
<1>8. IF fromHigh THEN Size(pages, high) >= 2 ELSE Size(pages, low) >= 2
  <2>1. IF fromHigh THEN Size(pages, high) > MinKeys ELSE Size(pages, low) > MinKeys
    BY DEF CanLend, Count, Size
  <2>2. /\ Size(pages, low) \in Nat /\ Size(pages, high) \in Nat
        /\ MinKeys \in Nat \ {0}
    BY <1>4, <1>7, FitsOwned
  <2> QED
    BY <2>1, <2>2
<1>9. /\ i \in 1 .. Len(Kids(pages)[ParentId]) - 1
      /\ low = Kids(pages)[ParentId][i] /\ high = Kids(pages)[ParentId][i + 1]
  BY <1>6 DEF K
<1>10. SortedTree(pages, root)
  BY <1>2 DEF Sorted
<1> HIDE DEF pg2, K
<1>11. SortedTree(pg2, root) /\ Stored(pg2) = Stored(pages)
  <2>1. Sound(pages, root, space, h) /\ ParentId \in PageIds
    BY <1>4
  <2>2. SortedTree(pg2, root)
    BY <1>8, <1>9, <1>10, <2>1, BorrowSorts DEF pg2
  <2>3. Stored(pg2) = Stored(pages)
    BY <1>8, <1>9, <1>10, <2>1, BorrowSorts DEF pg2
  <2> QED
    BY <2>2, <2>3
<1> QED
  BY <1>1, <1>11, MovedSteady

LEMMA BorrowRightSorts ==
  ASSUME Structure, Sorted, BorrowRight
  PROVE  Steady
<1>1. /\ Balancing /\ HasRight /\ CanLend(RightSibling)
      /\ Borrow(curr, RightSibling, Place, TRUE)
  BY DEF BorrowRight
<1>2. \E h : Stands(h)
  BY <1>1 DEF Structure, Balancing, Idle
<1>3. /\ Place \in 1 .. Len(Parent.pointers) /\ Parent.pointers[Place] = curr
      /\ Len(Parent.pointers) \in Nat
  BY <1>1, <1>2, ShortNode
<1>4. Place \in 1 .. Len(Parent.pointers) - 1
  BY <1>1, <1>3 DEF HasRight
<1>5. RightSibling = Parent.pointers[Place + 1]
  BY DEF RightSibling
<1> QED
  BY <1>1, <1>3, <1>4, <1>5, BorrowSteady

LEMMA BorrowLeftSorts ==
  ASSUME Structure, Sorted, BorrowLeft
  PROVE  Steady
<1>1. /\ Balancing /\ HasLeft /\ CanLend(LeftSibling)
      /\ Borrow(LeftSibling, curr, Place - 1, FALSE)
  BY DEF BorrowLeft
<1>2. \E h : Stands(h)
  BY <1>1 DEF Structure, Balancing, Idle
<1>3. /\ Place \in 1 .. Len(Parent.pointers) /\ Parent.pointers[Place] = curr
      /\ Len(Parent.pointers) \in Nat
  BY <1>1, <1>2, ShortNode
<1>4. Place - 1 \in 1 .. Len(Parent.pointers) - 1 /\ (Place - 1) + 1 = Place
  BY <1>1, <1>3 DEF HasLeft
<1>5. LeftSibling = Parent.pointers[Place - 1]
  BY DEF LeftSibling
<1> QED
  BY <1>1, <1>3, <1>4, <1>5, BorrowSteady

LEMMA MergeSiblingSorts ==
  ASSUME Structure, Sorted, MergeSibling
  PROVE  Steady
<1> DEFINE i     == IF HasRight THEN Place ELSE Place - 1
           left  == Parent.pointers[i]
           right == Parent.pointers[i + 1]
           up    == ParentId
           K     == Kids(pages)
           pg2   == Fused(pages, left, right, up, i)
<1>1. /\ Balancing /\ root' = root
      /\ pages' = [pages EXCEPT
                     ![left] = Merged(@, pages[right], Parent.keys[i]),
                     ![right] = Blank,
                     ![up] = Middle(RemoveAt(@.keys, i), RemoveAt(@.pointers, i + 1))]
  BY DEF MergeSibling
<1>2. root # 0
  BY <1>1 DEF Structure, Balancing, Idle
<1>3. PICK h : Stands(h)
  BY <1>2 DEF Structure
<1>4. /\ Sound(pages, root, space, h) /\ up \in PageIds
      /\ K[up] = Parent.pointers
      /\ Len(Parent.pointers) \in Nat /\ Len(Parent.pointers) >= 2
      /\ Place \in 1 .. Len(Parent.pointers)
  BY <1>1, <1>3, ShortNode
<1>5. i \in 1 .. Len(Parent.pointers) - 1
  <2>1. CASE HasRight
    BY <1>4, <2>1 DEF HasRight
  <2>2. CASE ~HasRight
    BY <1>4, <2>2 DEF HasRight
  <2> QED
    BY <2>1, <2>2
<1>6. /\ i \in 1 .. Len(K[up]) - 1 /\ left = K[up][i] /\ right = K[up][i + 1]
  BY <1>4, <1>5
<1>7. /\ left \in PageIds /\ right \in PageIds
      /\ right # left /\ up # left /\ up # right
  <2>1. Sound(pages, root, space, h) /\ up \in PageIds
    BY <1>4
  <2>2. i \in 1 .. Len(Kids(pages)[up]) - 1 /\ left = Kids(pages)[up][i]
        /\ right = Kids(pages)[up][i + 1]
    BY <1>6 DEF K
  <2> HIDE DEF K, i, left, right, up, pg2
  <2> QED
    BY <2>1, <2>2, SiblingsAre
<1> HIDE DEF K, i, left, right
<1>8. pages' = pg2
  <2>1. /\ pages' = [pages EXCEPT
                     ![left] = Merged(pages[left], pages[right], pages[up].keys[i]),
                     ![right] = Blank,
                     ![up] = Middle(RemoveAt(pages[up].keys, i),
                                    RemoveAt(pages[up].pointers, i + 1))]
    BY <1>1, <1>7 DEF Parent
  <2> QED
    BY <2>1 DEF Fused
<1> HIDE DEF up, pg2
<1>9. SortedTree(pages, root)
  BY <1>2 DEF Sorted
<1>10. /\ i \in 1 .. Len(Kids(pages)[up]) - 1
       /\ left = Kids(pages)[up][i] /\ right = Kids(pages)[up][i + 1]
  BY <1>6 DEF K
<1>11. SortedTree(pg2, root) /\ Stored(pg2) = Stored(pages)
  <2>1. Sound(pages, root, space, h) /\ up \in PageIds
    BY <1>4
  <2>2. SortedTree(pg2, root)
    BY <1>9, <1>10, <2>1, MergeSorts DEF pg2
  <2>3. Stored(pg2) = Stored(pages)
    BY <1>9, <1>10, <2>1, MergeSorts DEF pg2
  <2> QED
    BY <2>2, <2>3
<1> QED
  BY <1>1, <1>8, <1>11, MovedSteady

LEMMA ShrinkRootSorts ==
  ASSUME Structure, Sorted, ShrinkRoot
  PROVE  Steady
<1>1. /\ pc = "shrink_root"
      /\ IF RootIsEmpty
         THEN root' = pages[root].pointers[1] /\ pages' = [pages EXCEPT ![root] = Blank]
         ELSE pages' = pages /\ root' = root
  BY DEF ShrinkRoot
<1>2. root # 0
  BY <1>1 DEF Structure, Idle
<1>3. PICK h : Stands(h)
  BY <1>2 DEF Structure
<1>4. Sound(pages, root, space, h)
  BY <1>3 DEF Stands
<1>5. CASE RootIsEmpty
  <2> DEFINE c   == pages[root].pointers[1]
             pg2 == Topless(pages, root)
  <2>1. pages[root].leaf = FALSE /\ Size(pages, root) = 0
    <3>1. pages[root] \in Nodes
      BY <1>4 DEF Sound
    <3>2. pages[root].leaf \in BOOLEAN
      BY <3>1, NodeIs
    <3> QED
      BY <1>5, <3>2 DEF RootIsEmpty, Count, Size
  <2>2. /\ Kids(pages)[root] = pages[root].pointers
        /\ Len(Kids(pages)[root]) = 0 + 1
    BY <1>4, <2>1, KidsAre DEF Sound
  <2>3. Len(Kids(pages)[root]) = 1 /\ c = Kids(pages)[root][1]
    BY <2>2
  <2>4. SortedTree(pages, root)
    BY <1>2 DEF Sorted
  <2>5. root' = c /\ pages' = pg2
    BY <1>1, <1>5 DEF Topless
  <2> HIDE DEF c
  <2>6. SortedTree(pg2, c)
    BY <1>4, <2>3, <2>4, ShrinkSorts
  <2>7. Stored(pg2) = Stored(pages)
    BY <1>4, <2>3, <2>4, ShrinkSorts
  <2> HIDE DEF pg2
  <2> QED
    BY <2>5, <2>6, <2>7, MovedSteady
<1>6. CASE ~RootIsEmpty
  BY <1>1, <1>6, SameSteady
<1> QED
  BY <1>5, <1>6

LEMMA BalanceSorts ==
  ASSUME Structure, Sorted, Balance
  PROVE  Steady
<1>1. CASE BalanceInsertDone \/ BalanceDeleteDone
  BY <1>1, SameSteady DEF BalanceInsertDone, BalanceDeleteDone
<1> QED
  BY <1>1, SplitNodeSorts, GrowTreeSorts, BorrowRightSorts, BorrowLeftSorts,
     MergeSiblingSorts, ShrinkRootSorts DEF Balance

LEMMA SortedNext == Structure /\ Sorted /\ [Next]_vars => Sorted'
<1> SUFFICES ASSUME Structure, Sorted, [Next]_vars PROVE Sorted'
  OBVIOUS
<1>1. CASE Balance
  BY <1>1, BalanceSorts DEF Steady
<1>2. ASSUME NEW k \in Erasable, Erase(k) PROVE Sorted'
  BY <1>2, EraseSorts, TreeAssumption
<1>3. ASSUME NEW k \in Keys, NEW r \in RidsOf[k], Insert(k, r) PROVE Sorted'
  BY <1>3, InsertFirstSorts, InsertIntoLeafSorts, TreeAssumption DEF Insert
<1>4. CASE UNCHANGED vars
  BY <1>4, SameSteady DEF vars, Steady
<1> QED
  BY <1>1, <1>2, <1>3, <1>4 DEF Next

(* For trees of any height and any t, every key of the tree lies in the     *)
(* range its place gives it: the order find_path and binary search rely on. *)
THEOREM SortedCorrect == Spec => []Sorted
<1>1. Init => Sorted
  BY DEF Init, Sorted
<1> QED
  BY <1>1, StructureCorrect, SortedNext, PTL DEF Spec

-----------------------------------------------------------------------------
(* What a sorted tree is for: separated children, ...                       *)

LEMMA EndsStep ==
  ASSUME NEW h, Sound(pages, root, space, h), NEW k, NEW q \in PageIds
  PROVE  Ends(k)[q] = IF pages[q].leaf THEN pages[q] ELSE Ends(k)[Below(q, k)]
<1>1. Down(k)[q] = Onward(Down(k), q, k)
  BY DownUses
<1>2. CASE pages[q].leaf
  <2>1. Down(k)[q] = <<q>>
    BY <1>1, <1>2 DEF Onward
  <2>2. Last(Down(k)[q]) = q
    BY <2>1 DEF Last
  <2> QED
    BY <1>2, <2>2, EndsIs
<1>3. CASE ~pages[q].leaf
  <2> DEFINE c == Below(q, k)
             s == Down(k)[q]
             t == Down(k)[c]
             u == <<q>>
  <2>1. c \in PageIds
    BY <1>3, BelowIs
  <2>2. s = u \o t
    BY <1>1, <1>3 DEF Onward
  <2>3. t \in Seq(PageIds) /\ Len(t) \in Nat \ {0}
    BY <2>1, DownIs DEF LineDown
  <2>4. u \in Seq(PageIds) /\ Len(u) = 1
    OBVIOUS
  <2>5. Ends(k)[q] = pages[Last(s)] /\ Ends(k)[c] = pages[Last(t)]
    BY <2>1, EndsIs
  <2> HIDE DEF c, s, t, u
  <2>6. /\ Len(u \o t) = Len(u) + Len(t)
        /\ \A i \in 1 .. Len(t) : (u \o t)[Len(u) + i] = t[i]
    <3>1. t \in Seq(PageIds) /\ u \in Seq(PageIds)
      BY <2>3, <2>4
    <3> QED
      BY <3>1, ConcatIs
  <2>7. Last(s) = Last(t)
    <3>1. Len(t) \in 1 .. Len(t) /\ Len(s) = 1 + Len(t)
      BY <2>2, <2>3, <2>4, <2>6
    <3>2. s[1 + Len(t)] = t[Len(t)]
      BY <2>2, <2>4, <2>6, <3>1
    <3> QED
      BY <3>1, <3>2 DEF Last
  <2> QED
    BY <1>3, <2>5, <2>7 DEF c
<1> QED
  BY <1>2, <1>3

KeysFrom ==
  CHOOSE d : d = [p \in PageIds |->
    IF pages[p].leaf THEN ToSet(KeysOf(pages[p]))
    ELSE UNION { d[c] : c \in ToSet(pages[p].pointers) }]

LEMMA KeysBelowUses == ASSUME NEW p PROVE KeysBelow(p) = KeysFrom[p]
BY DEF KeysBelow, KeysFrom

(* The keys below a node lie in its range.                                  *)
LEMMA KeysBelowInside ==
  ASSUME NEW h, Sound(pages, root, space, h), NEW S, Ordered(pages, root, S),
         NEW p \in PageIds
  PROVE  KeysBelow(p) \subseteq S[p]
<1> DEFINE On(d, q) ==
             IF pages[q].leaf THEN ToSet(KeysOf(pages[q]))
             ELSE UNION { d[c] : c \in ToSet(pages[q].pointers) }
           f == [q \in PageIds |-> { k \in S[q] : k \in ToSet(KeysOf(Ends(k)[q])) }]
<1>1. /\ pages \in [PageIds -> Nodes] /\ h \in [PageIds -> Nat]
      /\ S \in [PageIds -> SUBSET Int] /\ Levels(Kids(pages), h)
  BY DEF Sound, Ordered
<1>2. ASSUME NEW q \in PageIds, pages[q].leaf
      PROVE  ToSet(KeysOf(pages[q])) \subseteq S[q]
  <2>1. \A i \in 1 .. Len(KeysOf(pages[q])) : KeysOf(pages[q])[i] \in S[q]
    BY <1>2 DEF Ordered, InRange
  <2>2. DOMAIN KeysOf(pages[q]) = 1 .. Len(KeysOf(pages[q]))
    BY <1>1, NodeIs, LenProperties
  <2> QED
    BY <2>1, <2>2 DEF ToSet
<1>3. ASSUME NEW q \in PageIds, ~pages[q].leaf, NEW c \in ToSet(pages[q].pointers)
      PROVE  /\ \E j \in 1 .. Len(pages[q].pointers) : c = pages[q].pointers[j]
             /\ c \in PageIds /\ h[c] < h[q]
  <2>1. pages[q].pointers \in Seq(PageIds) /\ Kids(pages)[q] = pages[q].pointers
    BY <1>1, <1>3, KidsOnce
  <2>2. PICK j \in 1 .. Len(pages[q].pointers) : c = pages[q].pointers[j]
    BY <2>1, LenProperties DEF ToSet
  <2>3. h[q] = h[c] + 1 /\ c \in PageIds
    BY <1>1, <2>1, <2>2, ElementOfSeq DEF Levels
  <2> QED
    BY <1>1, <2>2, <2>3
<1>4. ASSUME NEW q \in PageIds PROVE f[q] = On(f, q)
  <2>1. CASE pages[q].leaf
    <3>1. \A k : Ends(k)[q] = pages[q]
      BY <2>1, EndsStep
    <3> QED
      BY <1>2, <2>1, <3>1
  <2>2. CASE ~pages[q].leaf
    <3>1. ASSUME NEW k \in f[q] PROVE \E c \in ToSet(pages[q].pointers) : k \in f[c]
      <4> DEFINE c == Below(q, k)
      <4>1. k \in S[q] /\ k \in ToSet(KeysOf(Ends(k)[q]))
        OBVIOUS
      <4>2. c \in PageIds /\ Ends(k)[q] = Ends(k)[c] /\ k \in S[c]
        BY <2>2, <4>1, BelowIs, EndsStep, BelowInside
      <4>3. c \in ToSet(pages[q].pointers)
        <5>1. pages[q].pointers \in Seq(PageIds) /\ Kids(pages)[q] = pages[q].pointers
          BY <1>1, <2>2, KidsOnce
        <5>2. \E j \in 1 .. Len(Kids(pages)[q]) : Kids(pages)[q][j] = c
          BY <2>2, BelowIs
        <5> HIDE DEF c
        <5> QED
          BY <5>1, <5>2, LenProperties DEF ToSet
      <4> HIDE DEF c
      <4>4. k \in f[c]
        BY <4>1, <4>2
      <4> QED
        BY <4>3, <4>4
    <3>2. ASSUME NEW c \in ToSet(pages[q].pointers), NEW k \in f[c] PROVE k \in f[q]
      <4>1. c \in PageIds
        BY <1>3, <2>2
      <4>2. k \in S[c] /\ k \in ToSet(KeysOf(Ends(k)[c]))
        BY <4>1
      <4>3. PICK j \in 1 .. Len(pages[q].pointers) : c = pages[q].pointers[j]
        BY <1>3, <2>2
      <4>4. k \in S[q] /\ Below(q, k) = c
        BY <2>2, <4>2, <4>3, BelowOnly
      <4>5. Ends(k)[q] = Ends(k)[c]
        BY <2>2, <4>4, EndsStep
      <4> QED
        BY <4>2, <4>4, <4>5
    <3> HIDE DEF f
    <3>3. f[q] = UNION { f[c] : c \in ToSet(pages[q].pointers) }
      BY <3>1, <3>2
    <3> QED
      BY <2>2, <3>3
  <2> QED
    BY <2>1, <2>2
<1>5. \E d : d = [q \in PageIds |-> On(d, q)]
  <2>1. f = [q \in PageIds |-> f[q]]
    OBVIOUS
  <2> HIDE DEF f
  <2>2. f = [q \in PageIds |-> On(f, q)]
    BY <1>4, <2>1
  <2> QED
    BY <2>2
<1> DEFINE e == KeysFrom
<1>6. e = [q \in PageIds |-> On(e, q)]
  <2>1. e = CHOOSE d : d = [q \in PageIds |-> On(d, q)]
    BY DEF KeysFrom
  <2> HIDE DEF e, On
  <2> QED
    BY <1>5, <2>1
<1> HIDE DEF e, f
<1> DEFINE W == { q \in PageIds : e[q] \subseteq S[q] }
<1>7. ASSUME NEW q \in PageIds, \A r \in PageIds : h[r] < h[q] => r \in W
      PROVE  q \in W
  <2>1. e[q] = On(e, q)
    BY <1>6
  <2>2. CASE pages[q].leaf
    BY <1>2, <2>1, <2>2
  <2>3. CASE ~pages[q].leaf
    <3>1. ASSUME NEW c \in ToSet(pages[q].pointers), NEW k \in e[c] PROVE k \in S[q]
      <4>1. PICK j \in 1 .. Len(pages[q].pointers) : c = pages[q].pointers[j]
        BY <1>3, <2>3
      <4>2. c \in PageIds /\ h[c] < h[q]
        BY <1>3, <2>3
      <4>3. k \in S[c]
        BY <1>7, <4>2
      <4> QED
        BY <2>3, <4>1, <4>3, BelowOnly
    <3>2. e[q] = UNION { e[c] : c \in ToSet(pages[q].pointers) }
      BY <2>1, <2>3
    <3> QED
      BY <3>1, <3>2
  <2> QED
    BY <2>2, <2>3
<1> HIDE DEF W
<1>8. PageIds \subseteq W
  BY <1>1, <1>7, Climb
<1> QED
  BY <1>8, KeysBelowUses DEF W, e

LEMMA SortedSeparates == Structure /\ Sorted => Separated
<1> SUFFICES ASSUME Structure, Sorted, NEW p \in Middles
             PROVE  LET node == pages[p]
                    IN  /\ Len(node.pointers) = Len(node.keys) + 1
                        /\ \A i \in DOMAIN node.keys :
                             /\ \A k \in KeysBelow(node.pointers[i]) : k < node.keys[i]
                             /\ \A k \in KeysBelow(node.pointers[i + 1]) :
                                  k >= node.keys[i]
  BY DEF Separated
<1>1. p \in PageIds /\ ~pages[p].leaf
  BY DEF Middles
<1>2. root # 0
  BY <1>1, BlankIs DEF Structure
<1>3. PICK h : Sound(pages, root, space, h)
  BY <1>2 DEF Structure, Stands
<1>4. PICK S : Ordered(pages, root, S)
  BY <1>2 DEF Sorted, SortedTree
<1> DEFINE s == pages[p].keys
           c == pages[p].pointers
<1>5. /\ pages \in [PageIds -> Nodes] /\ S[p] \in SUBSET Int
      /\ Len(c) = Len(s) + 1 /\ Len(s) \in Nat
      /\ \A j \in 1 .. Len(c) : S[c[j]] = Piece(S[p], s, j)
  BY <1>1, <1>3, <1>4, PartedNode DEF Sound
<1>6. s \in Seq(Keys) /\ c \in Seq(PageIds)
  BY <1>1, <1>5, KidsOnce
<1> HIDE DEF s, c
<1>7. DOMAIN s = 1 .. Len(s)
  BY <1>6, LenProperties
<1>8. ASSUME NEW j \in 1 .. Len(c), NEW k \in KeysBelow(c[j])
      PROVE  k \in Piece(S[p], s, j)
  <2>1. c[j] \in PageIds
    BY <1>6, ElementOfSeq
  <2>2. KeysBelow(c[j]) \subseteq S[c[j]]
    BY <1>3, <1>4, <2>1, KeysBelowInside
  <2> QED
    BY <1>5, <2>2
<1>9. ASSUME NEW i \in DOMAIN s
      PROVE  /\ \A k \in KeysBelow(c[i]) : k < s[i]
             /\ \A k \in KeysBelow(c[i + 1]) : k >= s[i]
  <2>1. /\ i \in 1 .. Len(s) /\ i \in 1 .. Len(c) /\ i + 1 \in 1 .. Len(c)
        /\ i \in i .. Len(s) /\ i \in 1 .. (i + 1) - 1
    BY <1>5, <1>7
  <2>2. ASSUME NEW k \in KeysBelow(c[i]) PROVE k < s[i]
    <3>1. k \in Piece(S[p], s, i)
      BY <1>8, <2>1
    <3> QED
      BY <2>1, <3>1 DEF Piece
  <2>3. ASSUME NEW k \in KeysBelow(c[i + 1]) PROVE k >= s[i]
    <3>1. k \in Piece(S[p], s, i + 1)
      BY <1>8, <2>1
    <3>2. s[i] <= k
      BY <2>1, <3>1 DEF Piece
    <3> QED
      BY <3>2
  <2> QED
    BY <2>2, <2>3
<1> QED
  BY <1>5, <1>9 DEF s, c

(* For trees of any height, any t and any keys, every key of a middle node  *)
(* separates what is below the children on its two sides, also while splits,*)
(* borrows and merges are under way (binary_search_in_node, split_leaf,     *)
(* split_middle, borrow_sibling, merge_sibling).                            *)
THEOREM SeparatedCorrect == Spec => []Separated
BY StructureCorrect, SortedCorrect, SortedSeparates, PTL

-----------------------------------------------------------------------------
(* ... a chain of the leaves, ...                                           *)

(* f joins the sequences of ss one after the other.                         *)
JoinedTo(ss, f, i) == IF i = 1 THEN ss[i] ELSE f[i - 1] \o ss[i]
Joining(ss, f)   == f = [i \in 1 .. Len(ss) |-> JoinedTo(ss, f, i)]

LEMMA JoiningExists ==
  ASSUME NEW ss, Len(ss) \in Nat
  PROVE  \E f : Joining(ss, f)
<1> DEFINE N == Len(ss)
           Good(f, n) == /\ f = [i \in 1 .. N |-> f[i]]
                         /\ \A i \in 1 .. N : i <= n => f[i] = JoinedTo(ss, f, i)
           bad == { n \in Nat : ~\E f : Good(f, n) }
<1>1. bad = {}
  <2> SUFFICES ASSUME bad # {} PROVE FALSE
    OBVIOUS
  <2>1. PICK m \in bad : \A n \in bad : m <= n
    <3>1. bad \subseteq Nat
      OBVIOUS
    <3> HIDE DEF bad
    <3> QED
      BY <3>1, LeastIn
  <2>2. m # 0
    <3> DEFINE f == [i \in 1 .. N |-> 0]
    <3>1. f = [i \in 1 .. N |-> f[i]] /\ \A i \in 1 .. N : ~(i <= 0)
      OBVIOUS
    <3> HIDE DEF f
    <3>2. Good(f, 0)
      BY <3>1
    <3>3. ~\E x : Good(x, m)
      OBVIOUS
    <3> QED
      BY <3>2, <3>3
  <2>3. m \in Nat /\ m - 1 \in Nat /\ m - 1 < m
    BY <2>2
  <2>4. PICK f : Good(f, m - 1)
    <3>1. m - 1 \notin bad
      BY <2>1, <2>3
    <3> QED
      BY <2>3, <3>1
  <2> DEFINE g == [i \in 1 .. N |-> JoinedTo(ss, f, i)]
  <2>5. g = [i \in 1 .. N |-> g[i]] /\ \A i \in 1 .. N : g[i] = JoinedTo(ss, f, i)
    OBVIOUS
  <2> HIDE DEF g
  <2>6. ASSUME NEW i \in 1 .. N, i <= m PROVE g[i] = JoinedTo(ss, g, i)
    <3>1. CASE i = 1
      BY <2>5, <3>1 DEF JoinedTo
    <3>2. CASE i # 1
      <4>1. i - 1 \in 1 .. N /\ i - 1 <= m - 1
        BY <2>3, <2>6, <3>2
      <4>2. g[i - 1] = f[i - 1]
        BY <2>4, <2>5, <4>1
      <4> QED
        BY <2>5, <3>2, <4>2 DEF JoinedTo
    <3> QED
      BY <3>1, <3>2
  <2>7. Good(g, m)
    BY <2>5, <2>6
  <2>8. ~\E x : Good(x, m)
    OBVIOUS
  <2> QED
    BY <2>7, <2>8
<1>2. PICK f : Good(f, N)
  <2>1. N \notin bad
    BY <1>1
  <2> QED
    BY <2>1
<1>3. \A i \in 1 .. N : f[i] = JoinedTo(ss, f, i)
  BY <1>2
<1>4. f = [i \in 1 .. N |-> JoinedTo(ss, f, i)]
  BY <1>2, <1>3
<1> QED
  BY <1>4 DEF Joining

LEMMA FlattenUses ==
  ASSUME NEW ss, Len(ss) \in Nat \ {0}
  PROVE  \E f : Joining(ss, f) /\ FlattenSeq(ss) = f[Len(ss)]
<1> DEFINE f == CHOOSE f : f = [i \in 1 .. Len(ss) |-> JoinedTo(ss, f, i)]
<1>1. \E g : g = [i \in 1 .. Len(ss) |-> JoinedTo(ss, g, i)]
  BY JoiningExists DEF Joining
<1>2. f = [i \in 1 .. Len(ss) |-> JoinedTo(ss, f, i)]
  BY <1>1
<1>3. FlattenSeq(ss) = f[Len(ss)]
  BY DEF FlattenSeq, JoinedTo
<1> HIDE DEF f
<1> QED
  BY <1>2, <1>3 DEF Joining

(* Range Y reaches the start, or the end, of range X.                       *)
StartsAt(Y, X) == Y \subseteq X /\ \A x \in X : \E y \in Y : y <= x
EndsAt(Y, X)   == Y \subseteq X /\ \A x \in X : \E y \in Y : x <= y

LEMMA StartsAtStart ==
  ASSUME NEW X \in SUBSET Int, NEW Y, NEW Z, StartsAt(Z, Y), StartsAt(Y, X)
  PROVE  StartsAt(Z, X)
<1>1. Z \subseteq Y /\ Y \subseteq X
  BY DEF StartsAt
<1>2. ASSUME NEW x \in X PROVE \E z \in Z : z <= x
  <2>1. PICK y \in Y : y <= x
    BY DEF StartsAt
  <2>2. PICK z \in Z : z <= y
    BY DEF StartsAt
  <2> QED
    BY <1>1, <2>1, <2>2
<1> QED
  BY <1>1, <1>2 DEF StartsAt

LEMMA EndsAtEnd ==
  ASSUME NEW X \in SUBSET Int, NEW Y, NEW Z, EndsAt(Z, Y), EndsAt(Y, X)
  PROVE  EndsAt(Z, X)
<1>1. Z \subseteq Y /\ Y \subseteq X
  BY DEF EndsAt
<1>2. ASSUME NEW x \in X PROVE \E z \in Z : x <= z
  <2>1. PICK y \in Y : x <= y
    BY DEF EndsAt
  <2>2. PICK z \in Z : y <= z
    BY DEF EndsAt
  <2> QED
    BY <1>1, <2>1, <2>2
<1> QED
  BY <1>1, <1>2 DEF EndsAt

LEMMA StillMeets ==
  ASSUME NEW X, NEW Y, NEW u \in Int, Meets(X, Y, u),
         NEW P, NEW Q, EndsAt(P, X), StartsAt(Q, Y)
  PROVE  Meets(P, Q, u)
<1>1. /\ u - 1 \in X /\ u \in Y
      /\ \A k \in X : k \in Int /\ k < u
      /\ \A k \in Y : k \in Int /\ u <= k
  BY DEF Meets
<1>2. P \subseteq X /\ Q \subseteq Y
  BY DEF EndsAt, StartsAt
<1>3. PICK y \in P : u - 1 <= y
  BY <1>1 DEF EndsAt
<1>4. y = u - 1
  BY <1>1, <1>2, <1>3
<1>5. PICK z \in Q : z <= u
  BY <1>1 DEF StartsAt
<1>6. z = u
  BY <1>1, <1>2, <1>5
<1> QED
  BY <1>1, <1>2, <1>3, <1>4, <1>5, <1>6 DEF Meets

(* The first child's range starts where the node's does, the last one's     *)
(* ends where the node's does.                                              *)
LEMMA FirstPiece ==
  ASSUME NEW X \in SUBSET Int, Convex(X), NEW s, Len(s) \in Nat, Rising(s),
         \A i \in 1 .. Len(s) : s[i] \in Int /\ Inside(s[i], X)
  PROVE  StartsAt(Piece(X, s, 1), X)
<1> DEFINE Y == Piece(X, s, 1)
<1>1. \A k : k \in Y <=> k \in X /\ \A j \in 1 .. Len(s) : k < s[j]
  BY DEF Piece
<1> HIDE DEF Y
<1>2. ASSUME NEW x \in X PROVE \E y \in Y : y <= x
  <2>1. CASE \A j \in 1 .. Len(s) : x < s[j]
    BY <1>1, <2>1
  <2>2. CASE \E j \in 1 .. Len(s) : ~(x < s[j])
    <3>1. PICK j \in 1 .. Len(s) : ~(x < s[j])
      BY <2>2
    <3>2. 1 \in 1 .. Len(s) /\ s[1] \in Int /\ Inside(s[1], X)
      BY <3>1
    <3>3. \A i \in 1 .. Len(s) : s[i] \in Int /\ s[1] <= s[i]
      BY <3>2 DEF Rising
    <3>4. s[1] - 1 \in X
      BY <3>2, InsideMeets
    <3>5. s[1] - 1 \in Y
      BY <1>1, <3>2, <3>3, <3>4
    <3>6. s[1] - 1 <= x
      BY <3>1, <3>2, <3>3
    <3> QED
      BY <3>5, <3>6
  <2> QED
    BY <2>1, <2>2
<1> QED
  BY <1>1, <1>2 DEF StartsAt, Y

LEMMA LastPiece ==
  ASSUME NEW X \in SUBSET Int, NEW s, Len(s) \in Nat, Rising(s),
         \A i \in 1 .. Len(s) : s[i] \in Int /\ Inside(s[i], X)
  PROVE  EndsAt(Piece(X, s, Len(s) + 1), X)
<1> DEFINE Y == Piece(X, s, Len(s) + 1)
<1>1. \A k : k \in Y <=> k \in X /\ \A j \in 1 .. Len(s) : s[j] <= k
  <2>1. (Len(s) + 1) - 1 = Len(s) /\ Len(s) + 1 .. Len(s) = {}
    OBVIOUS
  <2> QED
    BY <2>1 DEF Piece
<1> HIDE DEF Y
<1>2. ASSUME NEW x \in X PROVE \E y \in Y : x <= y
  <2>1. CASE \A j \in 1 .. Len(s) : s[j] <= x
    BY <1>1, <2>1
  <2>2. CASE \E j \in 1 .. Len(s) : ~(s[j] <= x)
    <3> DEFINE n == Len(s)
    <3>1. PICK j \in 1 .. n : ~(s[j] <= x)
      BY <2>2
    <3>2. n \in 1 .. n /\ s[n] \in Int /\ Inside(s[n], X)
      BY <3>1
    <3>3. \A i \in 1 .. n : s[i] \in Int /\ s[i] <= s[n]
      BY <3>2 DEF Rising
    <3>4. s[n] \in X
      BY <3>2 DEF Inside
    <3>5. s[n] \in Y
      BY <1>1, <3>3, <3>4
    <3>6. x <= s[n]
      BY <3>1, <3>2, <3>3
    <3> QED
      BY <3>5, <3>6
  <2> QED
    BY <2>1, <2>2
<1> QED
  BY <1>1, <1>2 DEF EndsAt, Y

(* The leaves w lead one to the next, from where range X starts to where    *)
(* range Y ends.                                                            *)
Runs(w, L, S, X, Y) ==
  /\ w \in Seq(L) /\ Len(w) \in Nat \ {0}
  /\ \A i \in 1 .. Len(w) - 1 : pages[w[i]].next = w[i + 1]
  /\ StartsAt(S[w[1]], X) /\ EndsAt(S[w[Len(w)]], Y)

LEMMA RunOn ==
  ASSUME NEW L, NEW S, Threaded(pages, L, S),
         NEW v, NEW w, NEW A, NEW B, NEW C, NEW D, NEW u \in Int,
         Runs(v, L, S, A, B), Runs(w, L, S, C, D), Meets(B, C, u)
  PROVE  Runs(v \o w, L, S, A, D)
<1>1. /\ v \in Seq(L) /\ Len(v) \in Nat \ {0} /\ w \in Seq(L) /\ Len(w) \in Nat \ {0}
      /\ \A i \in 1 .. Len(v) - 1 : pages[v[i]].next = v[i + 1]
      /\ \A i \in 1 .. Len(w) - 1 : pages[w[i]].next = w[i + 1]
      /\ StartsAt(S[v[1]], A) /\ EndsAt(S[v[Len(v)]], B)
      /\ StartsAt(S[w[1]], C) /\ EndsAt(S[w[Len(w)]], D)
  BY DEF Runs
<1> DEFINE m == Len(v)
           n == Len(w)
           x == v \o w
<1>2. /\ x \in Seq(L) /\ Len(x) = m + n
      /\ \A i \in 1 .. m : x[i] = v[i]
      /\ \A i \in 1 .. n : x[m + i] = w[i]
  BY <1>1, ConcatIs
<1>3. pages[v[m]].next = w[1]
  <2>1. v[m] \in L /\ w[1] \in L
    BY <1>1, ElementOfSeq
  <2>2. Meets(S[v[m]], S[w[1]], u)
    BY <1>1, StillMeets
  <2> QED
    BY <2>1, <2>2, MeetsLeads
<1> HIDE DEF x
<1>4. ASSUME NEW i \in 1 .. Len(x) - 1 PROVE pages[x[i]].next = x[i + 1]
  <2>1. CASE i < m
    <3>1. i \in 1 .. m - 1 /\ i \in 1 .. m /\ i + 1 \in 1 .. m
      BY <1>1, <1>2, <2>1
    <3> QED
      BY <1>1, <1>2, <3>1
  <2>2. CASE i = m
    <3>1. m \in 1 .. m /\ 1 \in 1 .. n /\ x[m + 1] = w[1]
      BY <1>1, <1>2
    <3> QED
      BY <1>2, <1>3, <2>2, <3>1
  <2>3. CASE m < i
    <3> DEFINE j == i - m
    <3>1. j \in 1 .. n - 1 /\ j \in 1 .. n /\ j + 1 \in 1 .. n
          /\ i = m + j /\ i + 1 = m + (j + 1)
      BY <1>1, <1>2, <2>3
    <3> HIDE DEF j
    <3>2. x[i] = w[j] /\ x[i + 1] = w[j + 1]
      BY <1>2, <3>1
    <3> QED
      BY <1>1, <3>1, <3>2
  <2> QED
    BY <1>1, <2>1, <2>2, <2>3
<1>5. x[1] = v[1] /\ x[Len(x)] = w[n] /\ Len(x) \in Nat \ {0}
  BY <1>1, <1>2
<1> QED
  BY <1>1, <1>2, <1>4, <1>5 DEF Runs, x

(* The children of a middle node are on lower levels.                       *)
LEMMA LowerChild ==
  ASSUME NEW h, Sound(pages, root, space, h), NEW p \in PageIds, ~pages[p].leaf,
         NEW i \in DOMAIN pages[p].pointers
  PROVE  pages[p].pointers[i] \in PageIds /\ h[pages[p].pointers[i]] < h[p]
<1>1. /\ pages \in [PageIds -> Nodes] /\ h \in [PageIds -> Nat] /\ Levels(Kids(pages), h)
  BY DEF Sound
<1> DEFINE c == pages[p].pointers
<1>2. c \in Seq(PageIds) /\ Kids(pages)[p] = c
  BY <1>1, KidsOnce
<1>3. i \in 1 .. Len(c) /\ c[i] \in PageIds
  BY <1>2, LenProperties, ElementOfSeq
<1>4. h[p] = h[c[i]] + 1
  BY <1>1, <1>2, <1>3 DEF Levels
<1> HIDE DEF c
<1>5. h[c[i]] \in Nat
  BY <1>1, <1>3
<1> QED
  BY <1>3, <1>4, <1>5 DEF c

(* The leaves under page p.                                                 *)
Spread(d, p) ==
  IF pages[p].leaf THEN <<p>>
  ELSE FlattenSeq([i \in DOMAIN pages[p].pointers |-> d[pages[p].pointers[i]]])

LeavesUnder == CHOOSE d : d = [p \in PageIds |-> Spread(d, p)]

LEMMA LeavesUses == root # 0 => Leaves = LeavesUnder[root]
BY DEF Leaves, LeavesUnder, Spread

LEMMA LeavesUnderExists ==
  ASSUME NEW h, Sound(pages, root, space, h)
  PROVE  \E d : d = [p \in PageIds |-> Spread(d, p)]
<1> DEFINE Good(d, n) == /\ d = [p \in PageIds |-> d[p]]
                         /\ \A p \in PageIds : h[p] <= n => d[p] = Spread(d, p)
           bad == { n \in Nat : ~\E d : Good(d, n) }
<1>1. h \in [PageIds -> Nat] /\ \A p \in PageIds : h[p] \in Nat /\ h[p] >= 1
  BY LevelsOf DEF Sound
<1>2. bad = {}
  <2> SUFFICES ASSUME bad # {} PROVE FALSE
    OBVIOUS
  <2>1. PICK m \in bad : \A n \in bad : m <= n
    <3>1. bad \subseteq Nat
      OBVIOUS
    <3> HIDE DEF bad
    <3> QED
      BY <3>1, LeastIn
  <2>2. m # 0
    <3> DEFINE d == [p \in PageIds |-> 0]
    <3>1. d = [p \in PageIds |-> d[p]]
      OBVIOUS
    <3>2. \A p \in PageIds : ~(h[p] <= 0)
      BY <1>1
    <3> HIDE DEF d
    <3>3. Good(d, 0)
      BY <3>1, <3>2
    <3>4. ~\E x : Good(x, m)
      OBVIOUS
    <3> QED
      BY <3>3, <3>4
  <2>3. m \in Nat /\ m - 1 \in Nat /\ m - 1 < m
    BY <2>2
  <2>4. PICK d : Good(d, m - 1)
    <3>1. m - 1 \notin bad
      BY <2>1, <2>3
    <3> QED
      BY <2>3, <3>1
  <2> DEFINE f == [p \in PageIds |-> Spread(d, p)]
  <2>5. f = [p \in PageIds |-> f[p]] /\ \A p \in PageIds : f[p] = Spread(d, p)
    OBVIOUS
  <2> HIDE DEF f
  <2>6. ASSUME NEW p \in PageIds, h[p] <= m PROVE f[p] = Spread(f, p)
    <3>1. CASE pages[p].leaf
      BY <2>5, <3>1 DEF Spread
    <3>2. CASE ~pages[p].leaf
      <4> DEFINE c == pages[p].pointers
      <4>1. ASSUME NEW i \in DOMAIN c PROVE f[c[i]] = d[c[i]]
        <5>1. c[i] \in PageIds /\ h[c[i]] < h[p]
          BY <3>2, <4>1, LowerChild
        <5>2. h[c[i]] <= m - 1
          BY <1>1, <2>3, <2>6, <5>1
        <5> QED
          BY <2>4, <2>5, <5>1, <5>2
      <4> HIDE DEF c
      <4>2. [i \in DOMAIN c |-> f[c[i]]] = [i \in DOMAIN c |-> d[c[i]]]
        BY <4>1
      <4> QED
        BY <2>5, <3>2, <4>2 DEF Spread, c
    <3> QED
      BY <3>1, <3>2
  <2>7. Good(f, m)
    BY <2>5, <2>6
  <2>8. ~\E x : Good(x, m)
    OBVIOUS
  <2> QED
    BY <2>7, <2>8
<1>3. PICK n \in Nat : \A p \in PageIds : h[p] <= n
  BY <1>1, LevelsEnd
<1>4. PICK d : Good(d, n)
  BY <1>2
<1>5. \A p \in PageIds : d[p] = Spread(d, p)
  BY <1>3, <1>4
<1>6. d = [p \in PageIds |-> Spread(d, p)]
  BY <1>4, <1>5
<1> QED
  BY <1>6

LEMMA LeavesUnderIs ==
  ASSUME NEW h, Sound(pages, root, space, h), NEW p \in PageIds
  PROVE  LeavesUnder[p] = Spread(LeavesUnder, p)
<1>1. LeavesUnder = [q \in PageIds |-> Spread(LeavesUnder, q)]
  BY LeavesUnderExists DEF LeavesUnder
<1> QED
  BY <1>1

(* The leaves under a middle node run through its range when those under    *)
(* each of its children run through the child's.                            *)
LEMMA ChildrenRun ==
  ASSUME NEW h, Sound(pages, root, space, h),
         NEW S, Ordered(pages, root, S), Strung(pages, root, S),
         NEW p \in PageIds, ~pages[p].leaf, NEW L, L = LeavesOf(pages, root), NEW d,
         \A i \in 1 .. Len(pages[p].pointers) :
           Runs(d[pages[p].pointers[i]], L, S, S[pages[p].pointers[i]], S[pages[p].pointers[i]])
  PROVE  Runs(Spread(d, p), L, S, S[p], S[p])
<1> DEFINE c  == pages[p].pointers
           s  == pages[p].keys
           ss == [i \in DOMAIN c |-> d[c[i]]]
           n  == Len(c)
<1>1. /\ pages \in [PageIds -> Nodes] /\ Rounded(S) /\ Threaded(pages, L, S)
      /\ S \in [PageIds -> SUBSET Int]
  BY DEF Sound, Strung, Ordered
<1>2. /\ s \in Seq(Keys) /\ c \in Seq(PageIds) /\ n = Len(s) + 1 /\ Len(s) \in Nat
  BY <1>1, KidsOnce
<1>3. Parted(S[p], s, c, S)
  BY DEF Ordered, InRange
<1>4. S[p] \in SUBSET Int /\ Convex(S[p])
  BY <1>1 DEF Rounded
<1>5. \A i \in 1 .. n - 1 : Meets(S[c[i]], S[c[i + 1]], s[i])
  BY <1>1, PiecesMeet
<1>6. \A i \in 1 .. n : Runs(d[c[i]], L, S, S[c[i]], S[c[i]])
  OBVIOUS
<1>7. Spread(d, p) = FlattenSeq(ss)
  BY DEF Spread
<1> HIDE DEF c, s
<1>8. /\ DOMAIN c = 1 .. n /\ n \in Nat \ {0} /\ 1 \in 1 .. n /\ n \in 1 .. n
  BY <1>2, LenProperties
<1>9. /\ Rising(s) /\ \A i \in 1 .. Len(s) : s[i] \in Int /\ Inside(s[i], S[p])
      /\ \A i \in 1 .. n : S[c[i]] = Piece(S[p], s, i)
  <2>1. \A i \in 1 .. Len(s) : s[i] \in Int
    BY <1>2, TreeAssumption, ElementOfSeq
  <2> QED
    BY <1>3, <2>1 DEF Parted, Inside
<1>10. Len(ss) = n /\ \A i \in 1 .. n : ss[i] = d[c[i]]
  BY <1>8
<1> HIDE DEF ss
<1>11. PICK f : Joining(ss, f) /\ FlattenSeq(ss) = f[n]
  BY <1>8, <1>10, FlattenUses
<1> HIDE DEF n
<1>12. \A i \in 1 .. n : f[i] = IF i = 1 THEN d[c[1]] ELSE f[i - 1] \o d[c[i]]
  BY <1>8, <1>10, <1>11 DEF Joining, JoinedTo
<1> DEFINE Good(i) == Runs(f[i], L, S, S[c[1]], S[c[i]])
           bad == { i \in 1 .. n : ~Good(i) }
<1>13. bad = {}
  <2> SUFFICES ASSUME bad # {} PROVE FALSE
    OBVIOUS
  <2>1. PICK m \in bad : \A i \in bad : m <= i
    <3>1. bad \subseteq Nat
      BY <1>8
    <3> HIDE DEF bad
    <3> QED
      BY <3>1, LeastIn
  <2>2. m \in 1 .. n /\ ~Good(m)
    OBVIOUS
  <2>3. m # 1
    <3>1. Good(1)
      BY <1>6, <1>8, <1>12
    <3> QED
      BY <2>2, <3>1
  <2> DEFINE l == m - 1
  <2>4. l \in 1 .. n - 1 /\ l \in 1 .. n /\ l < m /\ m = l + 1 /\ l \in 1 .. Len(s)
    BY <1>2, <1>8, <2>2, <2>3 DEF n
  <2>5. Good(l)
    <3>1. l \notin bad
      BY <1>8, <2>1, <2>2, <2>4
    <3> QED
      BY <2>4, <3>1
  <2>6. f[m] = f[l] \o d[c[m]]
    BY <1>12, <2>2, <2>3
  <2> HIDE DEF l
  <2>7. Meets(S[c[l]], S[c[m]], s[l]) /\ s[l] \in Int
    BY <1>5, <1>9, <2>4
  <2>8. Runs(d[c[m]], L, S, S[c[m]], S[c[m]])
    BY <1>6, <2>2
  <2>9. Good(m)
    BY <1>1, <2>5, <2>6, <2>7, <2>8, RunOn
  <2> QED
    BY <2>2, <2>9
<1>14. Runs(f[n], L, S, S[c[1]], S[c[n]])
  <2>1. n \notin bad
    BY <1>13
  <2> QED
    BY <1>8, <2>1
<1>15. StartsAt(S[c[1]], S[p]) /\ EndsAt(S[c[n]], S[p])
  <2>1. StartsAt(Piece(S[p], s, 1), S[p])
    BY <1>2, <1>4, <1>9, FirstPiece
  <2>2. EndsAt(Piece(S[p], s, Len(s) + 1), S[p])
    BY <1>2, <1>4, <1>9, LastPiece
  <2>3. S[c[1]] = Piece(S[p], s, 1) /\ S[c[n]] = Piece(S[p], s, n) /\ n = Len(s) + 1
    BY <1>2, <1>8, <1>9 DEF n
  <2> QED
    BY <2>1, <2>2, <2>3
<1>16. Runs(f[n], L, S, S[p], S[p])
  <2> DEFINE w == f[n]
  <2>1. /\ w \in Seq(L) /\ Len(w) \in Nat \ {0}
        /\ \A i \in 1 .. Len(w) - 1 : pages[w[i]].next = w[i + 1]
        /\ StartsAt(S[w[1]], S[c[1]]) /\ EndsAt(S[w[Len(w)]], S[c[n]])
    BY <1>14 DEF Runs
  <2> HIDE DEF w
  <2>2. StartsAt(S[w[1]], S[p]) /\ EndsAt(S[w[Len(w)]], S[p])
    BY <1>4, <1>15, <2>1, StartsAtStart, EndsAtEnd
  <2> QED
    BY <2>1, <2>2 DEF Runs, w
<1> QED
  BY <1>7, <1>11, <1>16

(* The leaves under a page of the tree run through the range of the page.   *)
LEMMA PageRuns ==
  ASSUME NEW h, Sound(pages, root, space, h),
         NEW S, Ordered(pages, root, S), Strung(pages, root, S),
         NEW p \in PageIds, p \in {root} \cup KidsIn(Kids(pages))
  PROVE  Runs(LeavesUnder[p], LeavesOf(pages, root), S, S[p], S[p])
<1> DEFINE L == LeavesOf(pages, root)
           d == LeavesUnder
           Tree == {root} \cup KidsIn(Kids(pages))
           W == { q \in PageIds : q \in Tree => Runs(d[q], L, S, S[q], S[q]) }
<1>1. /\ h \in [PageIds -> Nat] /\ pages \in [PageIds -> Nodes]
      /\ S \in [PageIds -> SUBSET Int]
  BY DEF Sound, Ordered
<1>2. ASSUME NEW q \in PageIds, \A r \in PageIds : h[r] < h[q] => r \in W, q \in Tree
      PROVE  Runs(d[q], L, S, S[q], S[q])
  <2>1. d[q] = Spread(d, q)
    BY LeavesUnderIs
  <2>2. CASE pages[q].leaf
    <3>1. q \in L
      BY <1>2, <2>2 DEF LeavesOf
    <3>2. StartsAt(S[q], S[q]) /\ EndsAt(S[q], S[q])
      BY <1>1 DEF StartsAt, EndsAt
    <3>3. d[q] = <<q>>
      BY <2>1, <2>2 DEF Spread
    <3> HIDE DEF L, d
    <3>4. <<q>> \in Seq(L) /\ Len(<<q>>) = 1 /\ <<q>>[1] = q
      BY <3>1
    <3> QED
      BY <3>2, <3>3, <3>4 DEF Runs
  <2>3. CASE ~pages[q].leaf
    <3> DEFINE c == pages[q].pointers
    <3>1. ASSUME NEW i \in 1 .. Len(c) PROVE Runs(d[c[i]], L, S, S[c[i]], S[c[i]])
      <4>1. c[i] \in PageIds /\ c[i] \in Tree
        BY <1>1, <2>3, KidsOnce
      <4>2. h[c[i]] < h[q]
        <5>1. c \in Seq(PageIds)
          BY <1>1, <2>3, KidsOnce
        <5>2. i \in DOMAIN c
          BY <5>1, LenProperties
        <5> QED
          BY <2>3, <5>2, LowerChild
      <4>3. c[i] \in W
        BY <1>2, <4>1, <4>2
      <4> QED
        BY <4>1, <4>3
    <3> HIDE DEF c, L, d
    <3>2. Runs(Spread(d, q), L, S, S[q], S[q])
      BY <2>3, <3>1, ChildrenRun DEF c, L
    <3> QED
      BY <2>1, <3>2
  <2> QED
    BY <2>2, <2>3
<1> HIDE DEF L, d, Tree
<1>3. \A q \in PageIds : (\A r \in PageIds : h[r] < h[q] => r \in W) => q \in W
  BY <1>2
<1> HIDE DEF W
<1>4. PageIds \subseteq W
  BY <1>1, <1>3, Climb
<1> QED
  BY <1>4 DEF W, L, d, Tree

(* The leaves w from left to right: each leads to the next and the last to  *)
(* none; their ranges rise and leave no number out.                         *)
Lined(w, L, S) ==
  /\ w \in Seq(L) /\ Len(w) \in Nat \ {0}
  /\ \A i \in 1 .. Len(w) : pages[w[i]].next = IF i < Len(w) THEN w[i + 1] ELSE 0
  /\ \A i, j \in 1 .. Len(w) : i < j => \A a \in S[w[i]], b \in S[w[j]] : a < b
  /\ \A x \in Int : \E i \in 1 .. Len(w) : x \in S[w[i]]
  /\ StartsAt(S[w[1]], Int)

LEMMA RunLined ==
  ASSUME NEW L \in SUBSET PageIds, NEW S \in [PageIds -> SUBSET Int], Rounded(S),
         Threaded(pages, L, S), NEW w, Runs(w, L, S, Int, Int)
  PROVE  Lined(w, L, S)
<1> DEFINE n == Len(w)
           X(i) == S[w[i]]
<1>1. /\ w \in Seq(L) /\ n \in Nat \ {0}
      /\ \A i \in 1 .. n - 1 : pages[w[i]].next = w[i + 1]
      /\ StartsAt(X(1), Int) /\ EndsAt(X(n), Int)
  BY DEF Runs
<1>2. /\ \A i \in 1 .. n : w[i] \in L /\ w[i] \in PageIds /\ w[i] # 0
      /\ \A i \in 1 .. n : X(i) \in SUBSET Int /\ Convex(X(i))
  <2>1. \A i \in 1 .. n : w[i] \in L
    BY <1>1, ElementOfSeq
  <2>2. 0 \notin PageIds
    BY DEF PageIds
  <2> QED
    BY <2>1, <2>2 DEF Rounded
<1>3. ASSUME NEW i \in 1 .. n PROVE Leads(pages, L, S, w[i])
  BY <1>2 DEF Threaded
<1>4. ASSUME NEW i \in 1 .. n - 1 PROVE Abut(X(i), X(i + 1))
  <2>1. i \in 1 .. n /\ i + 1 \in 1 .. n
    BY <1>1
  <2>2. pages[w[i]].next = w[i + 1] /\ w[i + 1] # 0
    BY <1>1, <1>2, <2>1
  <2> QED
    BY <1>3, <2>1, <2>2 DEF Leads
<1>5. pages[w[n]].next = 0
  <2> DEFINE r == pages[w[n]].next
  <2>1. n \in 1 .. n
    BY <1>1
  <2>2. r # 0 => Abut(X(n), S[r])
    BY <1>3, <2>1 DEF Leads
  <2> HIDE DEF r
  <2>3. ~Abut(X(n), S[r])
    <3> DEFINE Y == X(n)
    <3>1. Y \subseteq Int /\ \A x \in Int : \E y \in Y : x <= y
      BY <1>1 DEF EndsAt
    <3> HIDE DEF Y
    <3>2. ~Abut(Y, S[r])
      BY <3>1 DEF Abut
    <3> QED
      BY <3>2 DEF Y
  <2> QED
    BY <2>2, <2>3 DEF r
<1>6. ASSUME NEW i \in 1 .. n
      PROVE  pages[w[i]].next = IF i < n THEN w[i + 1] ELSE 0
  <2>1. CASE i < n
    BY <1>1, <2>1
  <2>2. CASE i = n
    BY <1>5, <2>2
  <2> QED
    BY <1>1, <2>1, <2>2
<1> HIDE DEF n, X
<1>7. ASSUME NEW i \in 1 .. n
      PROVE  \A j \in 1 .. n : i < j => \A a \in X(i), b \in X(j) : a < b
  <2> DEFINE bad == { j \in 1 .. n : i < j /\ ~\A a \in X(i), b \in X(j) : a < b }
  <2>1. SUFFICES ASSUME bad # {} PROVE FALSE
    OBVIOUS
  <2>2. PICK m \in bad : \A j \in bad : m <= j
    <3>1. bad \subseteq Nat
      BY <1>1
    <3> HIDE DEF bad
    <3> QED
      BY <2>1, <3>1, LeastIn
  <2>3. m \in 1 .. n /\ i < m
    OBVIOUS
  <2>4. PICK a \in X(i), b \in X(m) : ~(a < b)
    OBVIOUS
  <2> DEFINE l == m - 1
  <2>5. l \in 1 .. n - 1 /\ l \in 1 .. n /\ l < m /\ m = l + 1 /\ i <= l /\ l \in Nat
    BY <1>1, <2>3
  <2>6. l \notin bad
    <3> HIDE DEF bad
    <3> QED
      BY <2>2, <2>3, <2>5
  <2>7. l = i \/ \A c \in X(i), d \in X(l) : c < d
    BY <2>5, <2>6
  <2> HIDE DEF l, bad
  <2>8. PICK v \in Int : /\ v - 1 \in X(l)
                         /\ \A d \in X(l) : d < v
                         /\ \A d \in X(m) : v <= d
    BY <1>4, <2>5 DEF Abut
  <2>9. a \in Int /\ b \in Int /\ v <= b
    BY <1>2, <2>3, <2>4, <2>8
  <2>10. a < v
    BY <2>4, <2>7, <2>8, <2>9
  <2> QED
    BY <2>4, <2>9, <2>10
<1>8. ASSUME NEW x \in Int PROVE \E i \in 1 .. n : x \in X(i)
  <2> DEFINE past == { i \in 1 .. n : \E y \in X(i) : x <= y }
  <2>1. n \in past
    BY <1>1 DEF EndsAt
  <2>2. PICK m \in past : \A i \in past : m <= i
    <3>1. past \subseteq Nat
      BY <1>1
    <3> HIDE DEF past
    <3> QED
      BY <2>1, <3>1, LeastIn
  <2>3. m \in 1 .. n
    OBVIOUS
  <2>4. PICK y \in X(m) : x <= y
    OBVIOUS
  <2>5. \E z \in X(m) : z <= x
    <3>1. CASE m = 1
      BY <1>1, <3>1 DEF StartsAt
    <3>2. CASE m # 1
      <4> DEFINE l == m - 1
      <4>1. l \in 1 .. n - 1 /\ l \in 1 .. n /\ l < m /\ m = l + 1 /\ l \in Nat
        BY <1>1, <2>3, <3>2
      <4>2. l \notin past
        <5> HIDE DEF past
        <5> QED
          BY <2>2, <2>3, <4>1
      <4>3. \A z \in X(l) : ~(x <= z)
        BY <4>1, <4>2
      <4> HIDE DEF l
      <4>4. PICK v \in Int : v - 1 \in X(l) /\ v \in X(m)
        BY <1>4, <4>1 DEF Abut
      <4>5. v <= x
        BY <4>3, <4>4
      <4> QED
        BY <4>4, <4>5
    <3> QED
      BY <3>1, <3>2
  <2>6. PICK z \in X(m) : z <= x
    BY <2>5
  <2>7. y \in Int /\ z \in Int /\ Convex(X(m))
    BY <1>2, <2>3
  <2>8. x \in X(m)
    <3>1. x = y \/ x = z \/ (z < x /\ x < y)
      BY <2>4, <2>6, <2>7
    <3> QED
      BY <2>7, <3>1 DEF Convex
  <2> QED
    BY <2>3, <2>8
<1> QED
  BY <1>1, <1>6, <1>7, <1>8 DEF Lined, n, X

LEMMA LeavesLined ==
  ASSUME root # 0, NEW h, Sound(pages, root, space, h),
         NEW S, Ordered(pages, root, S), Strung(pages, root, S)
  PROVE  Lined(Leaves, LeavesOf(pages, root), S)
<1> DEFINE L == LeavesOf(pages, root)
           w == Leaves
<1>1. /\ S[root] = Int /\ root \in PageIds /\ Rounded(S) /\ Threaded(pages, L, S)
      /\ S \in [PageIds -> SUBSET Int]
  BY DEF Ordered, Strung, Sound
<1>2. Runs(w, L, S, Int, Int)
  BY <1>1, PageRuns, LeavesUses
<1>3. L \in SUBSET PageIds
  <2>1. {root} \cup KidsIn(Kids(pages)) \subseteq PageIds
    BY FitsOwned
  <2> QED
    BY <2>1 DEF LeavesOf
<1> HIDE DEF L, w
<1>4. Lined(w, L, S)
  BY <1>1, <1>2, <1>3, RunLined
<1> QED
  BY <1>4 DEF L, w

LEMMA SortedChains == Structure /\ Sorted => LeafChain
<1> SUFFICES ASSUME Structure, Sorted PROVE LeafChain
  OBVIOUS
<1> DEFINE w == Leaves
<1>1. CASE root = 0
  <2>1. Leaves = << >>
    BY <1>1 DEF Leaves
  <2> QED
    BY <2>1 DEF LeafChain
<1>2. CASE root # 0
  <2>1. PICK h : Sound(pages, root, space, h)
    BY <1>2 DEF Structure, Stands
  <2>2. PICK S : Ordered(pages, root, S) /\ Strung(pages, root, S)
    BY <1>2 DEF Sorted, SortedTree
  <2>3. Lined(w, LeavesOf(pages, root), S)
    BY <1>2, <2>1, <2>2, LeavesLined
  <2> HIDE DEF w
  <2>4. /\ w \in Seq(LeavesOf(pages, root))
        /\ \A i \in 1 .. Len(w) : pages[w[i]].next = IF i < Len(w) THEN w[i + 1] ELSE 0
    BY <2>3 DEF Lined
  <2>5. DOMAIN w = 1 .. Len(w)
    BY <2>4, LenProperties
  <2> QED
    BY <2>4, <2>5 DEF LeafChain, w
<1> QED
  BY <1>1, <1>2

(* For trees of any height, any t and any keys, following next from the     *)
(* first leaf visits the leaves of the tree from left to right and ends     *)
(* after the last, also while splits, borrows and merges are under way      *)
(* (split_leaf, merge_sibling, borrow_sibling).                             *)
THEOREM ChainCorrect == Spec => []LeafChain
BY StructureCorrect, SortedCorrect, SortedChains, PTL

-----------------------------------------------------------------------------
(* ... scans that return what the tree holds, ...                            *)

(* w lists the entries E by their keys.                                     *)
Listing(w, E) == w \in Seq(Keys \X Rids) /\ Ascending(w) /\ Held(w) = E

LEMMA ListingFacts ==
  ASSUME NEW w, NEW E, Listing(w, E)
  PROVE  /\ w \in Seq(Keys \X Rids) /\ Len(w) \in Nat /\ DOMAIN w = 1 .. Len(w)
         /\ \A i \in 1 .. Len(w) : w[i] \in Keys \X Rids /\ w[i] \in E /\ w[i][1] \in Int
         /\ \A i, j \in 1 .. Len(w) : i < j => w[i][1] < w[j][1]
         /\ \A e \in E : \E i \in 1 .. Len(w) : e = w[i]
<1>1. w \in Seq(Keys \X Rids) /\ Ascending(w) /\ Held(w) = E
  BY DEF Listing
<1>2. Len(w) \in Nat /\ DOMAIN w = 1 .. Len(w)
  BY <1>1, LenProperties
<1>3. \A i \in 1 .. Len(w) : w[i] \in Keys \X Rids
  BY <1>1, ElementOfSeq
<1>4. \A i \in 1 .. Len(w) : w[i][1] \in Int
  BY <1>3, TreeAssumption
<1> QED
  BY <1>1, <1>2, <1>3, <1>4 DEF Ascending, Held

LEMMA NothingListed == Listing(<<>>, {})
BY DEF Listing, Ascending, Held

LEMMA OneListed == ASSUME NEW e \in Keys \X Rids PROVE Listing(<<e>>, {e})
<1> DEFINE w == <<e>>
<1>1. w \in Seq(Keys \X Rids) /\ Len(w) = 1 /\ w[1] = e
  OBVIOUS
<1> HIDE DEF w
<1>2. \A i \in 1 .. Len(w) : i = 1
  BY <1>1
<1>3. Ascending(w)
  BY <1>2 DEF Ascending
<1>4. Held(w) = {e}
  BY <1>1, <1>2 DEF Held
<1> QED
  BY <1>1, <1>3, <1>4 DEF Listing, w

LEMMA ListedOn ==
  ASSUME NEW v, NEW w, NEW E, NEW F, Listing(v, E), Listing(w, F),
         \A e \in E, f \in F : e[1] < f[1]
  PROVE  Listing(v \o w, E \cup F)
<1> DEFINE x == v \o w
           m == Len(v)
           n == Len(w)
<1>1. /\ v \in Seq(Keys \X Rids) /\ m \in Nat
      /\ \A i \in 1 .. m : v[i] \in E
      /\ \A i, j \in 1 .. m : i < j => v[i][1] < v[j][1]
      /\ \A e \in E : \E i \in 1 .. m : e = v[i]
  BY ListingFacts
<1>2. /\ w \in Seq(Keys \X Rids) /\ n \in Nat
      /\ \A i \in 1 .. n : w[i] \in F
      /\ \A i, j \in 1 .. n : i < j => w[i][1] < w[j][1]
      /\ \A e \in F : \E i \in 1 .. n : e = w[i]
  BY ListingFacts
<1>3. /\ x \in Seq(Keys \X Rids) /\ Len(x) = m + n
      /\ \A i \in 1 .. m : x[i] = v[i]
      /\ \A i \in 1 .. n : x[m + i] = w[i]
  BY <1>1, <1>2, ConcatIs
<1> HIDE DEF x, m, n
<1>4. \A i \in 1 .. Len(x) : i \in 1 .. m \/ \E j \in 1 .. n : i = m + j
  <2> SUFFICES ASSUME NEW i \in 1 .. Len(x), i \notin 1 .. m
               PROVE  \E j \in 1 .. n : i = m + j
    OBVIOUS
  <2>1. i - m \in 1 .. n /\ i = m + (i - m)
    BY <1>1, <1>2, <1>3
  <2> QED
    BY <2>1
<1>5. ASSUME NEW i \in 1 .. Len(x), NEW j \in 1 .. Len(x), i < j
      PROVE  x[i][1] < x[j][1]
  <2>1. CASE i \in 1 .. m /\ j \in 1 .. m
    BY <1>1, <1>3, <1>5, <2>1
  <2>2. CASE i \in 1 .. m /\ j \notin 1 .. m
    <3>1. PICK b \in 1 .. n : j = m + b
      BY <1>4, <2>2
    <3>2. x[i] \in E /\ x[j] \in F
      BY <1>1, <1>2, <1>3, <2>2, <3>1
    <3> QED
      BY <3>2
  <2>3. CASE i \notin 1 .. m
    <3>1. j \notin 1 .. m
      BY <1>1, <1>3, <1>5, <2>3
    <3>2. PICK a \in 1 .. n : i = m + a
      BY <1>4, <2>3
    <3>3. PICK b \in 1 .. n : j = m + b
      BY <1>4, <3>1
    <3>4. a < b
      BY <1>1, <1>5, <3>2, <3>3
    <3> QED
      BY <1>2, <1>3, <3>2, <3>3, <3>4
  <2> QED
    BY <2>1, <2>2, <2>3
<1>6. Held(x) = E \cup F
  <2>1. ASSUME NEW i \in 1 .. Len(x) PROVE x[i] \in E \cup F
    BY <1>1, <1>2, <1>3, <1>4
  <2>2. ASSUME NEW e \in E PROVE \E i \in 1 .. Len(x) : e = x[i]
    <3>1. PICK i \in 1 .. m : e = v[i]
      BY <1>1
    <3>2. i \in 1 .. Len(x) /\ x[i] = e
      BY <1>1, <1>2, <1>3, <3>1
    <3> QED
      BY <3>2
  <2>3. ASSUME NEW e \in F PROVE \E i \in 1 .. Len(x) : e = x[i]
    <3>1. PICK i \in 1 .. n : e = w[i]
      BY <1>2
    <3>2. m + i \in 1 .. Len(x) /\ x[m + i] = e
      BY <1>1, <1>2, <1>3, <3>1
    <3> QED
      BY <3>2
  <2> QED
    BY <2>1, <2>2, <2>3 DEF Held
<1>7. Ascending(x)
  BY <1>5 DEF Ascending
<1> QED
  BY <1>3, <1>6, <1>7 DEF Listing, x

(* How many the first of them are.                                          *)
LEMMA ListedCount ==
  ASSUME NEW w, NEW E, Listing(w, E), NEW n \in 0 .. Len(w)
  PROVE  IsFiniteSet({ w[i] : i \in 1 .. n }) /\ Cardinality({ w[i] : i \in 1 .. n }) = n
<1> DEFINE S == { w[i] : i \in 1 .. n }
           f == [i \in 1 .. n |-> w[i]]
<1>1. /\ Len(w) \in Nat
      /\ \A i \in 1 .. Len(w) : w[i][1] \in Int
      /\ \A i, j \in 1 .. Len(w) : i < j => w[i][1] < w[j][1]
  BY ListingFacts
<1>2. n \in Nat /\ \A i \in 1 .. n : i \in 1 .. Len(w)
  BY <1>1
<1>3. ASSUME NEW i \in 1 .. n, NEW j \in 1 .. n, w[i] = w[j] PROVE i = j
  <2>1. i \in 1 .. Len(w) /\ j \in 1 .. Len(w) /\ w[i][1] = w[j][1] /\ w[i][1] \in Int
    BY <1>1, <1>2, <1>3
  <2>2. ~(i < j) /\ ~(j < i)
    BY <1>1, <2>1
  <2> QED
    BY <2>1, <2>2
<1>4. f \in Bijection(1 .. n, S)
  BY <1>3 DEF Bijection, Injection, Surjection, IsInjective
<1>5. ExistsBijection(1 .. n, S)
  BY <1>4 DEF ExistsBijection
<1>6. IsFiniteSet(1 .. n)
  BY <1>2, FS_Interval
<1> HIDE DEF S, f
<1>7. IsFiniteSet(S) /\ Cardinality(S) = n
  BY <1>2, <1>5, <1>6, FS_Bijection, FS_CountingElements
<1> QED
  BY <1>7 DEF S

LEMMA ListingIs ==
  ASSUME NEW w, NEW E, Listing(w, E)
  PROVE  w = InOrder(E) /\ IsFiniteSet(E)
<1> DEFINE n == Len(w)
           Under(e) == { x \in E : x[1] < e[1] }
           The(i) == CHOOSE e \in E : Cardinality(Under(e)) = i - 1
<1>1. /\ w \in Seq(Keys \X Rids) /\ n \in Nat /\ DOMAIN w = 1 .. n
      /\ \A i \in 1 .. n : w[i] \in E /\ w[i][1] \in Int
      /\ \A i, j \in 1 .. n : i < j => w[i][1] < w[j][1]
      /\ \A e \in E : \E i \in 1 .. n : e = w[i]
  BY ListingFacts
<1>2. E = { w[i] : i \in 1 .. n }
  BY <1>1
<1>3. IsFiniteSet(E) /\ Cardinality(E) = n
  <2>1. n \in 0 .. Len(w)
    BY <1>1
  <2> QED
    BY <1>2, <2>1, ListedCount
<1> HIDE DEF n
<1>4. ASSUME NEW i \in 1 .. n PROVE Cardinality(Under(w[i])) = i - 1
  <2> DEFINE m == i - 1
  <2>1. m \in 0 .. Len(w) /\ \A j \in 1 .. m : j \in 1 .. n /\ j < i
    BY <1>1 DEF n
  <2>2. ASSUME NEW j \in 1 .. n PROVE w[j][1] < w[i][1] <=> j \in 1 .. m
    <3>1. CASE j < i
      BY <1>1, <3>1
    <3>2. CASE j = i
      BY <1>1, <3>2
    <3>3. CASE i < j
      BY <1>1, <3>3
    <3> QED
      BY <1>1, <3>1, <3>2, <3>3
  <2> HIDE DEF m
  <2>3. Under(w[i]) = { w[j] : j \in 1 .. m }
    BY <1>1, <2>1, <2>2
  <2>4. Cardinality({ w[j] : j \in 1 .. m }) = m
    BY <2>1, ListedCount
  <2> QED
    BY <2>3, <2>4 DEF m
<1>5. ASSUME NEW i \in 1 .. n PROVE The(i) = w[i]
  <2>1. w[i] \in E /\ Cardinality(Under(w[i])) = i - 1
    BY <1>1, <1>4
  <2>2. ASSUME NEW e \in E, Cardinality(Under(e)) = i - 1 PROVE e = w[i]
    <3>1. PICK j \in 1 .. n : e = w[j]
      BY <1>1
    <3>2. Cardinality(Under(e)) = j - 1
      BY <1>4, <3>1
    <3> QED
      BY <2>2, <3>1, <3>2
  <2> HIDE DEF Under
  <2> QED
    BY <2>1, <2>2
<1>6. InOrder(E) = [i \in 1 .. n |-> The(i)]
  BY <1>3 DEF InOrder
<1> HIDE DEF The
<1>7. InOrder(E) = [i \in 1 .. n |-> w[i]]
  BY <1>5, <1>6
<1>8. w = [i \in 1 .. n |-> w[i]]
  BY <1>1
<1> QED
  BY <1>3, <1>7, <1>8

(* The entry of the least key is the first one.                             *)
LEMMA FirstListed ==
  ASSUME NEW E, IsFiniteSet(E), NEW e \in E,
         \A x \in E : x[1] \in Int, \A x \in E \ {e} : e[1] < x[1]
  PROVE  First(E) = e[2]
<1> DEFINE Under(x) == { y \in E : y[1] < x[1] }
           n == Cardinality(E)
           The(i) == CHOOSE x \in E : Cardinality(Under(x)) = i - 1
<1>1. E # {} /\ n \in Nat /\ n # 0
  BY FS_CardinalityType, FS_EmptySet
<1>2. \A x \in E : IsFiniteSet(Under(x))
  BY FS_Subset
<1>3. Under(e) = {}
  <2>1. \A x \in E : ~(x[1] < e[1])
    OBVIOUS
  <2> QED
    BY <2>1
<1>4. \A x \in E \ {e} : e \in Under(x)
  OBVIOUS
<1>5. Cardinality(Under(e)) = 0 /\ \A x \in E : Cardinality(Under(x)) = 0 => x = e
  <2> HIDE DEF Under
  <2> QED
    BY <1>2, <1>3, <1>4, FS_EmptySet
<1>6. The(1) = e
  <2> HIDE DEF Under
  <2> QED
    BY <1>5
<1>7. InOrder(E) = [i \in 1 .. n |-> The(i)]
  BY DEF InOrder
<1> HIDE DEF The, n
<1>8. InOrder(E)[1] = e
  BY <1>1, <1>6, <1>7
<1> QED
  BY <1>1, <1>8 DEF First

(* What a walk that meets w reports from lo on.                             *)
Report(w, lo, i) == IF w[i][1] < lo THEN <<>> ELSE <<w[i]>>
Reports(w, lo) == FlattenSeq([i \in DOMAIN w |-> Report(w, lo, i)])

LEMMA ReportListed ==
  ASSUME NEW w, NEW E, Listing(w, E), NEW lo \in Int, NEW i \in 1 .. Len(w)
  PROVE  Listing(Report(w, lo, i), { w[j] : j \in { j \in i .. i : w[j][1] >= lo } })
<1> DEFINE F == { w[j] : j \in { j \in i .. i : w[j][1] >= lo } }
<1>1. Len(w) \in Nat /\ w[i] \in Keys \X Rids /\ w[i][1] \in Int
  BY ListingFacts
<1>2. i .. i = {i}
  BY <1>1
<1>3. CASE w[i][1] < lo
  <2>1. F = {}
    BY <1>1, <1>2, <1>3
  <2>2. Report(w, lo, i) = <<>>
    BY <1>3 DEF Report
  <2> QED
    BY <2>1, <2>2, NothingListed
<1>4. CASE ~(w[i][1] < lo)
  <2>1. F = {w[i]}
    BY <1>1, <1>2, <1>4
  <2>2. Report(w, lo, i) = <<w[i]>>
    BY <1>4 DEF Report
  <2> QED
    BY <1>1, <2>1, <2>2, OneListed
<1> QED
  BY <1>3, <1>4

LEMMA ReportsListed ==
  ASSUME NEW w, NEW E, Listing(w, E), NEW lo \in Int
  PROVE  Listing(Reports(w, lo), { e \in E : e[1] >= lo })
<1> DEFINE n == Len(w)
           ss == [i \in DOMAIN w |-> Report(w, lo, i)]
           Upto(i) == { w[j] : j \in { j \in 1 .. i : w[j][1] >= lo } }
           Only(i) == { w[j] : j \in { j \in i .. i : w[j][1] >= lo } }
<1>1. /\ n \in Nat /\ DOMAIN w = 1 .. n
      /\ \A i \in 1 .. n : w[i] \in E /\ w[i][1] \in Int
      /\ \A i, j \in 1 .. n : i < j => w[i][1] < w[j][1]
      /\ \A e \in E : \E i \in 1 .. n : e = w[i]
  BY ListingFacts
<1>2. Upto(n) = { e \in E : e[1] >= lo }
  <2>1. ASSUME NEW e \in E, e[1] >= lo PROVE e \in Upto(n)
    BY <1>1, <2>1
  <2>2. \A e \in Upto(n) : e \in E /\ e[1] >= lo
    BY <1>1
  <2> HIDE DEF Upto
  <2> QED
    BY <2>1, <2>2
<1>3. Len(ss) = n /\ \A i \in 1 .. n : ss[i] = Report(w, lo, i)
  BY <1>1
<1>4. Reports(w, lo) = FlattenSeq(ss)
  BY DEF Reports
<1> HIDE DEF ss
<1>5. CASE n = 0
  <2>1. Upto(n) = {}
    BY <1>5
  <2>2. FlattenSeq(ss) = <<>>
    <3>1. ss = <<>>
      <4>1. DOMAIN w = {}
        BY <1>1, <1>5
      <4> QED
        BY <4>1 DEF ss
    <3>2. FlattenSeq(ss) = ss
      BY <1>3, <1>5 DEF FlattenSeq
    <3> QED
      BY <3>1, <3>2
  <2> QED
    BY <1>2, <1>4, <2>1, <2>2, NothingListed
<1>6. CASE n # 0
  <2>1. PICK f : Joining(ss, f) /\ FlattenSeq(ss) = f[n]
    <3>1. Len(ss) \in Nat \ {0}
      BY <1>1, <1>3, <1>6
    <3> QED
      BY <1>3, <3>1, FlattenUses
  <2>2. \A i \in 1 .. n : f[i] = IF i = 1 THEN Report(w, lo, 1) ELSE f[i - 1] \o Report(w, lo, i)
    BY <1>3, <2>1 DEF Joining, JoinedTo
  <2>3. \A i \in 1 .. n : Listing(Report(w, lo, i), Only(i))
    BY ReportListed
  <2> DEFINE bad == { i \in 1 .. n : ~Listing(f[i], Upto(i)) }
  <2>4. bad = {}
    <3> SUFFICES ASSUME bad # {} PROVE FALSE
      OBVIOUS
    <3>1. PICK m \in bad : \A i \in bad : m <= i
      <4>1. bad \subseteq Nat
        BY <1>1
      <4> HIDE DEF bad
      <4> QED
        BY <4>1, LeastIn
    <3>2. m \in 1 .. n /\ ~Listing(f[m], Upto(m))
      OBVIOUS
    <3>3. m # 1
      <4>1. Upto(1) = Only(1) /\ 1 \in 1 .. n
        BY <1>1, <1>6
      <4>2. Listing(f[1], Only(1))
        BY <2>2, <2>3, <4>1
      <4> QED
        BY <3>2, <4>1, <4>2
    <3> DEFINE l == m - 1
    <3>4. l \in 1 .. n /\ l < m /\ m = l + 1 /\ l \in Nat /\ 1 <= l
      BY <1>1, <3>2, <3>3
    <3>5. Listing(f[l], Upto(l))
      <4>1. l \notin bad
        <5> HIDE DEF bad
        <5> QED
          BY <3>1, <3>4
      <4> QED
        BY <3>4, <4>1
    <3>6. f[m] = f[l] \o Report(w, lo, m)
      BY <2>2, <3>2, <3>3
    <3> HIDE DEF l
    <3>7. \A e \in Upto(l), g \in Only(m) : e[1] < g[1]
      <4> SUFFICES ASSUME NEW a \in 1 .. l, NEW b \in m .. m PROVE w[a][1] < w[b][1]
        OBVIOUS
      <4>1. a \in 1 .. n /\ b \in 1 .. n /\ a < b
        BY <1>1, <3>2, <3>4
      <4> QED
        BY <1>1, <4>1
    <3>8. Upto(m) = Upto(l) \cup Only(m)
      <4>1. 1 .. m = (1 .. l) \cup (m .. m)
        BY <3>2, <3>4
      <4> QED
        BY <4>1
    <3>9. Listing(Report(w, lo, m), Only(m))
      BY <2>3, <3>2
    <3> HIDE DEF Upto, Only, bad
    <3>10. Listing(f[m], Upto(m))
      BY <3>5, <3>6, <3>7, <3>8, <3>9, ListedOn
    <3> QED
      BY <3>2, <3>10
  <2>5. Listing(f[n], Upto(n))
    <3>1. n \in 1 .. n
      BY <1>1, <1>6
    <3>2. n \notin bad
      BY <2>4
    <3> QED
      BY <3>1, <3>2
  <2> QED
    BY <1>2, <1>4, <2>1, <2>5
<1> QED
  BY <1>5, <1>6

(* A walk that stops at the first key from hi on.                           *)
Until(w, hi) ==
  LET stop == SelectInSeq(w, LAMBDA e : e[1] >= hi)
  IN  IF stop = 0 THEN w ELSE SubSeq(w, 1, stop - 1)

LEMMA UntilListed ==
  ASSUME NEW w, NEW E, Listing(w, E), NEW hi \in Int
  PROVE  Listing(Until(w, hi), { e \in E : e[1] < hi })
<1> DEFINE n == Len(w)
           I == { i \in 1 .. n : w[i][1] >= hi }
           stop == IF I # {} THEN Min(I) ELSE 0
           F == { e \in E : e[1] < hi }
<1>1. /\ w \in Seq(Keys \X Rids) /\ n \in Nat
      /\ \A i \in 1 .. n : w[i] \in E /\ w[i][1] \in Int
      /\ \A i, j \in 1 .. n : i < j => w[i][1] < w[j][1]
      /\ \A e \in E : \E i \in 1 .. n : e = w[i]
  BY ListingFacts
<1>2. Until(w, hi) = IF stop = 0 THEN w ELSE SubSeq(w, 1, stop - 1)
  BY DEF Until, SelectInSeq
<1>3. CASE I = {}
  <2>1. stop = 0
    BY <1>3
  <2>2. F = E
    <3>1. ASSUME NEW e \in E PROVE e[1] < hi
      <4>1. PICK i \in 1 .. n : e = w[i]
        BY <1>1
      <4>2. w[i][1] \in Int /\ ~(w[i][1] >= hi)
        BY <1>1, <1>3
      <4> QED
        BY <4>1, <4>2
    <3> QED
      BY <3>1
  <2> QED
    BY <1>2, <2>1, <2>2
<1>4. CASE I # {}
  <2>1. PICK m \in I : \A i \in I : m <= i
    <3>1. I \subseteq Nat
      OBVIOUS
    <3> HIDE DEF I
    <3> QED
      BY <1>4, <3>1, LeastIn
  <2>2. m \in 1 .. n /\ w[m][1] >= hi
    OBVIOUS
  <2>3. Min(I) = m
    <3>1. \A i \in I : i \in Int
      OBVIOUS
    <3> HIDE DEF I
    <3> QED
      BY <2>1, <3>1 DEF Min
  <2> DEFINE k == m - 1
             x == SubSeq(w, 1, k)
  <2>4. Until(w, hi) = x
    <3>1. stop = m /\ m # 0
      BY <1>4, <2>2, <2>3
    <3> HIDE DEF stop
    <3> QED
      BY <1>2, <3>1
  <2>5. k \in 0 .. n /\ 1 \in 1 .. n + 1 /\ k + 1 - 1 = k
    BY <1>1, <2>2
  <2>6. x \in Seq(Keys \X Rids) /\ Len(x) = k /\ \A i \in 1 .. k : x[i] = w[i]
    <3> HIDE DEF k
    <3>1. /\ x \in Seq(Keys \X Rids) /\ Len(x) = k + 1 - 1
          /\ \A i \in 1 .. k + 1 - 1 : x[i] = w[1 + i - 1]
      BY <1>1, <2>5, PartIs
    <3>2. \A i \in 1 .. k : 1 + i - 1 = i
      BY <2>5
    <3> QED
      BY <2>5, <3>1, <3>2
  <2>7. \A i \in 1 .. n : w[i][1] < hi <=> i \in 1 .. k
    <3> SUFFICES ASSUME NEW i \in 1 .. n PROVE w[i][1] < hi <=> i \in 1 .. k
      OBVIOUS
    <3>1. CASE i < m
      <4>1. i \notin I /\ i \in 1 .. k
        BY <1>1, <2>1, <2>2, <3>1
      <4> QED
        BY <1>1, <4>1
    <3>2. CASE i = m
      BY <1>1, <2>2, <3>2
    <3>3. CASE m < i
      <4>1. w[m][1] < w[i][1] /\ w[m][1] \in Int /\ w[i][1] \in Int
        BY <1>1, <2>2, <3>3
      <4> QED
        BY <2>2, <3>3, <4>1
    <3> QED
      BY <2>2, <3>1, <3>2, <3>3
  <2> HIDE DEF x, k, I
  <2>8. \A i \in 1 .. k : i \in 1 .. n
    BY <1>1, <2>5
  <2>9. Ascending(x)
    BY <1>1, <2>6, <2>8 DEF Ascending
  <2>10. Held(x) = F
    <3>1. ASSUME NEW e \in F PROVE \E i \in 1 .. k : e = x[i]
      <4>1. PICK i \in 1 .. n : e = w[i]
        BY <1>1
      <4>2. i \in 1 .. k
        BY <2>7, <4>1
      <4> QED
        BY <2>6, <4>1, <4>2
    <3>2. ASSUME NEW i \in 1 .. k PROVE x[i] \in F
      BY <1>1, <2>6, <2>7, <2>8
    <3> HIDE DEF F
    <3> QED
      BY <2>6, <3>1, <3>2 DEF Held
  <2> QED
    BY <2>4, <2>6, <2>9, <2>10 DEF Listing
<1> QED
  BY <1>3, <1>4

(* Between operations: the leaves w of the tree from left to right, none    *)
(* with an empty range.                                                     *)
Straight(w, S) ==
  /\ pages \in [PageIds -> Nodes] /\ root \in PageIds
  /\ Clean(pages, root) /\ Ordered(pages, root, S)
  /\ Lined(w, LeavesOf(pages, root), S)
  /\ \A p \in LeavesOf(pages, root) : S[p] # {} /\ \E i \in 1 .. Len(w) : w[i] = p

LEMMA StraightFacts ==
  ASSUME NEW w, NEW S, Straight(w, S)
  PROVE  /\ Len(w) \in Nat \ {0}
         /\ \A i \in 1 .. Len(w) : /\ w[i] \in PageIds /\ w[i] # 0 /\ pages[w[i]].leaf
                                   /\ w[i] \in LeavesOf(pages, root)
                                   /\ S[w[i]] \in SUBSET Int /\ S[w[i]] # {}
         /\ \A i, j \in 1 .. Len(w) : i < j => \A a \in S[w[i]], b \in S[w[j]] : a < b
         /\ \A i, j \in 1 .. Len(w) : w[i] = w[j] => i = j
<1> DEFINE L == LeavesOf(pages, root)
<1>1. /\ w \in Seq(L) /\ Len(w) \in Nat \ {0}
      /\ \A i, j \in 1 .. Len(w) : i < j => \A a \in S[w[i]], b \in S[w[j]] : a < b
      /\ S \in [PageIds -> SUBSET Int] /\ \A p \in L : S[p] # {}
  BY DEF Straight, Lined, Ordered
<1>2. \A p \in L : pages[p].leaf
  BY DEF LeavesOf
<1>3. \A p \in L : p \in PageIds
  <2>1. root \in PageIds
    BY DEF Straight
  <2>2. KidsIn(Kids(pages)) \subseteq PageIds
    BY DEF KidsIn
  <2> QED
    BY <2>1, <2>2 DEF LeavesOf
<1> HIDE DEF L
<1>4. \A i \in 1 .. Len(w) : w[i] \in L
  BY <1>1, ElementOfSeq
<1>5. 0 \notin PageIds
  BY DEF PageIds
<1>6. ASSUME NEW i \in 1 .. Len(w), NEW j \in 1 .. Len(w), w[i] = w[j] PROVE i = j
  <2>1. PICK a : a \in S[w[i]]
    BY <1>1, <1>4
  <2>2. a \in Int /\ ~(a < a)
    BY <1>1, <1>3, <1>4, <2>1
  <2>3. ~(i < j) /\ ~(j < i)
    BY <1>1, <1>6, <2>1, <2>2
  <2> QED
    BY <1>1, <2>3
<1> QED
  BY <1>1, <1>2, <1>3, <1>4, <1>5, <1>6 DEF L

(* The entries in the leaves of the line w from the i-th on.                *)
Behind(w, i) == UNION { Held(pages[w[j]].data) : j \in i .. Len(w) }

LEMMA LeafListed ==
  ASSUME NEW S, pages \in [PageIds -> Nodes], Ordered(pages, root, S),
         NEW p \in PageIds, pages[p].leaf
  PROVE  /\ Listing(pages[p].data, Held(pages[p].data))
         /\ \A e \in Held(pages[p].data) : e \in Keys \X Rids /\ e[1] \in S[p] /\ HasEntry(pages[p], e)
<1> DEFINE n == pages[p]
           d == n.data
<1>1. /\ d \in Seq(Keys \X Rids) /\ Len(KeysOf(n)) = Len(d) /\ Len(d) \in Nat
      /\ \A i \in 1 .. Len(d) : KeysOf(n)[i] = d[i][1]
  BY NodeIs, LeafIs
<1>2. Rising(KeysOf(n)) /\ \A i \in 1 .. Len(d) : KeysOf(n)[i] \in S[p]
  BY <1>1 DEF Ordered, InRange
<1>3. \A e : HasEntry(n, e) <=> \E i \in 1 .. Len(d) : d[i] = e
  BY DEF HasEntry
<1>4. \A i \in 1 .. Len(d) : d[i] \in Keys \X Rids
  BY <1>1, ElementOfSeq
<1> HIDE DEF n, d
<1>5. Ascending(d)
  BY <1>1, <1>2 DEF Ascending, Rising
<1>6. Listing(d, Held(d))
  BY <1>1, <1>5 DEF Listing
<1>7. ASSUME NEW e \in Held(d)
      PROVE  e \in Keys \X Rids /\ e[1] \in S[p] /\ HasEntry(n, e)
  <2>1. PICK i \in 1 .. Len(d) : d[i] = e
    BY DEF Held
  <2> QED
    BY <1>1, <1>2, <1>3, <1>4, <2>1
<1> QED
  BY <1>6, <1>7 DEF d, n

(* All of them are what the tree stores.                                    *)
LEMMA BehindAll ==
  ASSUME NEW w, NEW S, Straight(w, S)
  PROVE  Behind(w, 1) = Stored(pages)
<1> DEFINE L == LeavesOf(pages, root)
<1>1. /\ pages \in [PageIds -> Nodes] /\ Clean(pages, root) /\ Ordered(pages, root, S)
      /\ \A p \in L : \E i \in 1 .. Len(w) : w[i] = p
  BY DEF Straight
<1>2. \A i \in 1 .. Len(w) : w[i] \in PageIds /\ pages[w[i]].leaf
  BY StraightFacts
<1>3. ASSUME NEW e \in Behind(w, 1) PROVE e \in Stored(pages)
  <2>1. PICK j \in 1 .. Len(w) : e \in Held(pages[w[j]].data)
    BY DEF Behind
  <2>2. e \in Keys \X Rids /\ HasEntry(pages[w[j]], e)
    BY <1>1, <1>2, <2>1, LeafListed
  <2> QED
    BY <1>2, <2>2 DEF Stored
<1>4. ASSUME NEW e \in Stored(pages) PROVE e \in Behind(w, 1)
  <2>1. PICK q \in PageIds : HasEntry(pages[q], e)
    BY DEF Stored
  <2>2. pages[q].leaf /\ \E i \in 1 .. Len(pages[q].data) : pages[q].data[i] = e
    BY <2>1 DEF HasEntry
  <2>3. PICK i \in 1 .. Len(pages[q].data) : pages[q].data[i] = e
    BY <2>2
  <2>4. q \in {root} \cup KidsIn(Kids(pages))
    BY <1>1, <2>2, EntryIs
  <2>5. q \in L
    BY <2>2, <2>4 DEF LeavesOf
  <2> HIDE DEF L
  <2>6. PICK j \in 1 .. Len(w) : w[j] = q
    BY <1>1, <2>5
  <2>7. e \in Held(pages[w[j]].data)
    BY <2>3, <2>6 DEF Held
  <2> QED
    BY <2>7 DEF Behind
<1> QED
  BY <1>3, <1>4

LEMMA ContentIs ==
  ASSUME NEW S, Straight(Leaves, S)
  PROVE  Content = Stored(pages)
<1> DEFINE w == Leaves
<1>1. w \in Seq(LeavesOf(pages, root)) /\ pages \in [PageIds -> Nodes]
  BY DEF Straight, Lined
<1>2. ToSet(w) = { w[i] : i \in 1 .. Len(w) }
  <2> HIDE DEF w
  <2>1. DOMAIN w = 1 .. Len(w)
    BY <1>1, LenProperties
  <2> QED
    BY <2>1 DEF ToSet
<1>3. ASSUME NEW i \in 1 .. Len(w) PROVE ToSet(pages[w[i]].data) = Held(pages[w[i]].data)
  <2>1. w[i] \in PageIds /\ pages[w[i]].leaf
    BY StraightFacts
  <2> DEFINE d == pages[w[i]].data
  <2>2. d \in Seq(Keys \X Rids)
    BY <1>1, <2>1, NodeIs, LeafIs
  <2> HIDE DEF d
  <2>3. DOMAIN d = 1 .. Len(d)
    BY <2>2, LenProperties
  <2>4. ToSet(d) = Held(d)
    BY <2>3 DEF ToSet, Held
  <2> QED
    BY <2>4 DEF d
<1>4. Content = UNION { ToSet(pages[p].data) : p \in ToSet(w) }
  BY DEF Content
<1>5. Behind(w, 1) = UNION { Held(pages[w[i]].data) : i \in 1 .. Len(w) }
  BY DEF Behind
<1> HIDE DEF w
<1>6. Content = Behind(w, 1)
  BY <1>2, <1>3, <1>4, <1>5
<1> QED
  BY <1>6, BehindAll DEF w

LEMMA BehindOn ==
  ASSUME NEW w, NEW S, Straight(w, S), NEW i \in 1 .. Len(w)
  PROVE  /\ Behind(w, i) = Held(pages[w[i]].data) \cup Behind(w, i + 1)
         /\ \A e \in Held(pages[w[i]].data), f \in Behind(w, i + 1) : e[1] < f[1]
<1>1. i .. Len(w) = {i} \cup (i + 1 .. Len(w)) /\ Len(w) \in Nat
  BY StraightFacts
<1>2. \A j \in 1 .. Len(w) : \A e \in Held(pages[w[j]].data) : e[1] \in S[w[j]]
  <2>1. \A j \in 1 .. Len(w) : w[j] \in PageIds /\ pages[w[j]].leaf
    BY StraightFacts
  <2>2. pages \in [PageIds -> Nodes] /\ Ordered(pages, root, S)
    BY DEF Straight
  <2> QED
    BY <2>1, <2>2, LeafListed
<1>3. ASSUME NEW e \in Held(pages[w[i]].data), NEW f \in Behind(w, i + 1) PROVE e[1] < f[1]
  <2>1. PICK j \in i + 1 .. Len(w) : f \in Held(pages[w[j]].data)
    BY DEF Behind
  <2>2. j \in 1 .. Len(w) /\ i < j
    BY <1>1
  <2> QED
    BY <1>2, <2>1, <2>2, StraightFacts
<1> QED
  BY <1>1, <1>3 DEF Behind

(* A walk along the chain.                                                  *)
Stops     == {0} \cup { q \in PageIds : pages[q].leaf }
Walk(f, p) == IF p = 0 THEN <<>> ELSE pages[p].data \o f[pages[p].next]
Along     == CHOOSE f : f = [p \in Stops |-> Walk(f, p)]

LEMMA ChainUses == ASSUME NEW p PROVE Chain(p) = Along[p]
BY DEF Chain, Along, Walk, Stops

LEMMA WalkExists ==
  ASSUME NEW N \in Nat, NEW g \in [Stops -> 0 .. N],
         \A p \in Stops \ {0} : pages[p].next \in Stops /\ g[pages[p].next] < g[p]
  PROVE  \E f : f = [p \in Stops |-> Walk(f, p)]
<1> DEFINE Good(f, n) == /\ f = [p \in Stops |-> f[p]]
                         /\ \A p \in Stops : g[p] <= n => f[p] = Walk(f, p)
           bad == { n \in Nat : ~\E f : Good(f, n) }
<1>1. \A p \in Stops : g[p] \in Nat /\ g[p] <= N
  OBVIOUS
<1>2. bad = {}
  <2> SUFFICES ASSUME bad # {} PROVE FALSE
    OBVIOUS
  <2>1. PICK m \in bad : \A n \in bad : m <= n
    <3>1. bad \subseteq Nat
      OBVIOUS
    <3> HIDE DEF bad
    <3> QED
      BY <3>1, LeastIn
  <2>2. m # 0
    <3> DEFINE f == [p \in Stops |-> <<>>]
    <3>1. f = [p \in Stops |-> f[p]] /\ f[0] = <<>>
      BY DEF Stops
    <3>2. \A p \in Stops : g[p] <= 0 => p = 0
      BY <1>1
    <3> HIDE DEF f
    <3>3. Good(f, 0)
      BY <3>1, <3>2 DEF Walk
    <3>4. ~\E x : Good(x, m)
      OBVIOUS
    <3> QED
      BY <3>3, <3>4
  <2>3. m \in Nat /\ m - 1 \in Nat /\ m - 1 < m
    BY <2>2
  <2>4. PICK f : Good(f, m - 1)
    <3>1. m - 1 \notin bad
      BY <2>1, <2>3
    <3> QED
      BY <2>3, <3>1
  <2> DEFINE x == [p \in Stops |-> Walk(f, p)]
  <2>5. x = [p \in Stops |-> x[p]] /\ \A p \in Stops : x[p] = Walk(f, p)
    OBVIOUS
  <2> HIDE DEF x
  <2>6. ASSUME NEW p \in Stops, g[p] <= m PROVE x[p] = Walk(x, p)
    <3>1. CASE p = 0
      BY <2>5, <3>1 DEF Walk
    <3>2. CASE p # 0
      <4> DEFINE q == pages[p].next
      <4>1. q \in Stops /\ g[q] < g[p]
        BY <3>2
      <4> HIDE DEF q
      <4>2. g[q] <= m - 1
        BY <1>1, <2>3, <2>6, <4>1
      <4>3. x[q] = f[q]
        BY <2>4, <2>5, <4>1, <4>2
      <4> QED
        BY <2>5, <3>2, <4>3 DEF Walk, q
    <3> QED
      BY <3>1, <3>2
  <2>7. Good(x, m)
    BY <2>5, <2>6
  <2>8. ~\E y : Good(y, m)
    OBVIOUS
  <2> QED
    BY <2>7, <2>8
<1>3. PICK f : Good(f, N)
  BY <1>2
<1>4. \A p \in Stops : f[p] = Walk(f, p)
  BY <1>1, <1>3
<1>5. f = [p \in Stops |-> Walk(f, p)]
  BY <1>3, <1>4
<1> QED
  BY <1>5

LEMMA WalkEnds ==
  ASSUME NEW w, NEW S, Straight(w, S)
  PROVE  Along = [p \in Stops |-> Walk(Along, p)]
<1> DEFINE L == LeavesOf(pages, root)
           n == Len(w)
           At(p) == CHOOSE i \in 1 .. n : w[i] = p
           rank(p) == IF p = 0 THEN 0 ELSE IF p \in L THEN n + 1 - At(p) ELSE 1
           g == [p \in Stops |-> rank(p)]
<1>1. /\ n \in Nat \ {0}
      /\ \A i \in 1 .. n : w[i] \in L /\ w[i] \in PageIds /\ w[i] # 0 /\ pages[w[i]].leaf
      /\ \A i, j \in 1 .. n : w[i] = w[j] => i = j
  BY StraightFacts
<1>2. /\ \A i \in 1 .. n : pages[w[i]].next = IF i < n THEN w[i + 1] ELSE 0
      /\ \A p \in L : \E i \in 1 .. n : w[i] = p
  BY DEF Straight, Lined
<1>3. 0 \notin PageIds
  BY DEF PageIds
<1>4. ASSUME NEW p \in Stops, p # 0, p \notin L PROVE pages[p].next = 0
  <2>1. p \in PageIds /\ pages[p].leaf
    BY <1>4 DEF Stops
  <2>2. pages[p] = Blank
    BY <1>4, <2>1 DEF Straight, Clean, LeavesOf
  <2> QED
    BY <2>2 DEF Blank, Leaf
<1> HIDE DEF L, n
<1>5. \A i \in 1 .. n : At(w[i]) = i
  BY <1>1
<1> HIDE DEF At
<1>6. \A i \in 1 .. n : rank(w[i]) = n + 1 - i
  BY <1>1, <1>5
<1>7. ASSUME NEW p \in Stops, p # 0
      PROVE  /\ pages[p].next \in Stops /\ rank(pages[p].next) < rank(p)
             /\ rank(p) \in 0 .. n + 1
  <2>1. CASE p \notin L
    <3>1. pages[p].next = 0 /\ rank(0) = 0 /\ rank(p) = 1
      BY <1>4, <1>7, <2>1
    <3> QED
      BY <1>1, <3>1 DEF Stops
  <2>2. CASE p \in L
    <3>1. PICK i \in 1 .. n : p = w[i]
      BY <1>2, <2>2
    <3>2. rank(p) = n + 1 - i
      BY <1>6, <3>1
    <3>3. CASE i < n
      <4>1. i + 1 \in 1 .. n /\ pages[p].next = w[i + 1]
        BY <1>1, <1>2, <3>1, <3>3
      <4>2. rank(pages[p].next) = n + 1 - (i + 1) /\ w[i + 1] \in Stops
        BY <1>1, <1>6, <4>1 DEF Stops
      <4> QED
        BY <1>1, <3>2, <4>1, <4>2
    <3>4. CASE ~(i < n)
      <4>1. pages[p].next = 0 /\ rank(0) = 0
        BY <1>2, <3>1, <3>4
      <4> QED
        BY <1>1, <3>2, <4>1 DEF Stops
    <3> QED
      BY <3>3, <3>4
  <2> QED
    BY <2>1, <2>2
<1>8. rank(0) = 0 /\ 0 \in 0 .. n + 1 /\ n + 1 \in Nat
  BY <1>1
<1> HIDE DEF rank
<1>9. g \in [Stops -> 0 .. n + 1]
  BY <1>7, <1>8
<1>10. \A p \in Stops \ {0} : pages[p].next \in Stops /\ g[pages[p].next] < g[p]
  BY <1>7
<1> HIDE DEF g
<1>11. \E f : f = [p \in Stops |-> Walk(f, p)]
  BY <1>8, <1>9, <1>10, WalkExists
<1> QED
  BY <1>11 DEF Along

(* A walk from a leaf meets the entries behind it in order.                 *)
LEMMA ChainListed ==
  ASSUME NEW w, NEW S, Straight(w, S), NEW i \in 1 .. Len(w)
  PROVE  Listing(Chain(w[i]), Behind(w, i))
<1> DEFINE n == Len(w)
           at(j) == IF j <= n THEN w[j] ELSE 0
           Good(j) == Listing(Chain(at(j)), Behind(w, j))
           bad == { k \in 0 .. n : ~Good(n + 1 - k) }
<1>1. /\ n \in Nat \ {0}
      /\ \A j \in 1 .. n : w[j] \in PageIds /\ w[j] # 0 /\ pages[w[j]].leaf
  BY StraightFacts
<1>2. \A j \in 1 .. n : pages[w[j]].next = IF j < n THEN w[j + 1] ELSE 0
  BY DEF Straight, Lined
<1>3. \A p \in Stops : Chain(p) = Walk(Along, p)
  <2>1. Along = [p \in Stops |-> Walk(Along, p)]
    BY WalkEnds
  <2> QED
    BY <2>1, ChainUses
<1> HIDE DEF n
<1>4. Good(n + 1)
  <2>1. at(n + 1) = 0 /\ n + 1 .. n = {}
    BY <1>1
  <2>2. Behind(w, n + 1) = {}
    BY <2>1 DEF Behind, n
  <2>3. Chain(0) = <<>>
    BY <1>3 DEF Walk, Stops
  <2> QED
    BY <2>1, <2>2, <2>3, NothingListed
<1>5. ASSUME NEW j \in 1 .. n, Good(j + 1) PROVE Good(j)
  <2> DEFINE d == pages[w[j]].data
  <2>1. at(j) = w[j] /\ w[j] \in Stops /\ w[j] # 0 /\ pages[w[j]].next = at(j + 1)
    BY <1>1, <1>2 DEF Stops
  <2>2. Chain(w[j]) = d \o Chain(at(j + 1))
    BY <1>3, <2>1, ChainUses DEF Walk
  <2>3. Listing(d, Held(d))
    BY <1>1, LeafListed DEF Straight
  <2>4. /\ Behind(w, j) = Held(d) \cup Behind(w, j + 1)
        /\ \A e \in Held(d), f \in Behind(w, j + 1) : e[1] < f[1]
    BY BehindOn DEF n
  <2> HIDE DEF d
  <2>5. Listing(d \o Chain(at(j + 1)), Behind(w, j))
    BY <1>5, <2>3, <2>4, ListedOn
  <2> QED
    BY <2>1, <2>2, <2>5
<1> HIDE DEF Good
<1>6. bad = {}
  <2> SUFFICES ASSUME bad # {} PROVE FALSE
    OBVIOUS
  <2>1. PICK m \in bad : \A k \in bad : m <= k
    <3>1. bad \subseteq Nat
      BY <1>1
    <3> HIDE DEF bad
    <3> QED
      BY <3>1, LeastIn
  <2>2. m \in 0 .. n /\ ~Good(n + 1 - m)
    OBVIOUS
  <2>3. m # 0
    <3>1. n + 1 - 0 = n + 1
      BY <1>1
    <3> QED
      BY <1>4, <2>2, <3>1
  <2> DEFINE l == m - 1
             j == n + 1 - m
  <2>4. l \in 0 .. n /\ l < m /\ j \in 1 .. n /\ n + 1 - l = j + 1
    BY <1>1, <2>2, <2>3
  <2>5. l \notin bad
    <3> HIDE DEF bad
    <3> QED
      BY <2>1, <2>2, <2>4
  <2>6. Good(j + 1)
    BY <2>4, <2>5
  <2> HIDE DEF j
  <2>7. Good(j)
    BY <1>5, <2>4, <2>6
  <2> QED
    BY <2>2, <2>7 DEF j
<1>7. Good(i)
  <2> DEFINE k == n + 1 - i
  <2>1. k \in 0 .. n /\ n + 1 - k = i
    BY <1>1 DEF n
  <2> HIDE DEF k
  <2> QED
    BY <1>6, <2>1
<1> QED
  BY <1>7 DEF Good, n

(* Between operations every middle node has a key, so no page of the tree   *)
(* has an empty range.                                                      *)
LEMMA IdleKeys ==
  ASSUME Structure, Idle, root # 0, NEW h, Sound(pages, root, space, h),
         NEW q \in {root} \cup KidsIn(Kids(pages)), q # root \/ ~pages[q].leaf
  PROVE  Size(pages, q) >= 1
<1>1. Less = 0
  BY DEF Idle, Less
<1>2. /\ q \in PageIds /\ 0 \notin PageIds /\ MinKeys \in Nat \ {0}
      /\ Size(pages, q) \in Nat /\ Least(pages, root, q) \in Nat
  BY FitsOwned
<1>3. Fits(pages, root, 0, More)
  BY <1>1 DEF Structure
<1>4. Size(pages, q) >= Least(pages, root, q) - (IF q = 0 THEN 1 ELSE 0)
  BY <1>3 DEF Fits
<1>5. Least(pages, root, q) >= 1
  BY <1>2 DEF Least
<1>6. q # 0
  BY <1>2
<1> QED
  BY <1>2, <1>4, <1>5, <1>6

LEMMA IdleRanges ==
  ASSUME Structure, Idle, root # 0, NEW h, Sound(pages, root, space, h),
         Clean(pages, root), NEW S, Ordered(pages, root, S), Rounded(S),
         NEW p \in {root} \cup KidsIn(Kids(pages))
  PROVE  S[p] # {}
<1>1. CASE p = root
  <2>1. S[root] = Int /\ 0 \in Int
    BY DEF Ordered
  <2> QED
    BY <1>1, <2>1
<1>2. CASE p \in KidsIn(Kids(pages))
  <2>1. pages \in [PageIds -> Nodes]
    BY DEF Sound
  <2>2. PICK q \in PageIds : \E i \in 1 .. Len(Kids(pages)[q]) : Kids(pages)[q][i] = p
    BY <1>2 DEF KidsIn
  <2>3. PICK j \in 1 .. Len(Kids(pages)[q]) : Kids(pages)[q][j] = p
    BY <2>2
  <2>4. ~pages[q].leaf
    BY <2>1, <2>3, KidsAre
  <2>5. /\ Kids(pages)[q] = pages[q].pointers
        /\ Len(pages[q].pointers) = Size(pages, q) + 1 /\ Size(pages, q) \in Nat
    BY <2>1, <2>4, KidsAre
  <2>6. Size(pages, q) >= 1
    <3>1. q \in {root} \cup KidsIn(Kids(pages))
      BY <2>4, MiddleInTree
    <3> QED
      BY <2>4, <3>1, IdleKeys
  <2> DEFINE c == pages[q].pointers
  <2>7. c[j] = p /\ j \in 1 .. Len(c) /\ Len(c) \in Nat /\ Len(c) >= 2
    BY <2>3, <2>5, <2>6
  <2>8. \A i \in 1 .. Len(c) - 1 : Meets(S[c[i]], S[c[i + 1]], pages[q].keys[i])
    BY <2>1, <2>4, PiecesMeet
  <2> HIDE DEF c
  <2>9. CASE j < Len(c)
    <3>1. j \in 1 .. Len(c) - 1
      BY <2>7, <2>9
    <3> QED
      BY <2>7, <2>8, <3>1 DEF Meets
  <2>10. CASE j = Len(c)
    <3>1. j - 1 \in 1 .. Len(c) - 1 /\ (j - 1) + 1 = j
      BY <2>7, <2>10
    <3> QED
      BY <2>7, <2>8, <3>1 DEF Meets
  <2> QED
    BY <2>7, <2>9, <2>10
<1> QED
  BY <1>1, <1>2

LEMMA IdleStraight ==
  ASSUME Structure, Idle, root # 0, NEW h, Sound(pages, root, space, h),
         Clean(pages, root), NEW S, Ordered(pages, root, S), Strung(pages, root, S)
  PROVE  Straight(Leaves, S)
<1> DEFINE L == LeavesOf(pages, root)
           w == Leaves
<1>1. /\ S[root] = Int /\ root \in PageIds /\ Rounded(S) /\ Threaded(pages, L, S)
      /\ S \in [PageIds -> SUBSET Int] /\ pages \in [PageIds -> Nodes]
  BY DEF Ordered, Strung, Sound
<1>2. Lined(w, L, S)
  BY LeavesLined
<1>3. L \in SUBSET PageIds
  <2>1. {root} \cup KidsIn(Kids(pages)) \subseteq PageIds
    BY FitsOwned
  <2> QED
    BY <2>1 DEF LeavesOf
<1>4. \A p \in L : S[p] # {}
  BY <1>1, IdleRanges DEF LeavesOf
<1> HIDE DEF L, w
<1>5. ASSUME NEW p \in L PROVE \E i \in 1 .. Len(w) : w[i] = p
  <2>1. PICK x : x \in S[p]
    BY <1>4
  <2>2. x \in Int
    BY <1>1, <1>3, <2>1
  <2>3. PICK i \in 1 .. Len(w) : x \in S[w[i]]
    BY <1>2, <2>2 DEF Lined
  <2>4. w[i] \in L
    BY <1>2, ElementOfSeq DEF Lined
  <2>5. w[i] = p
    BY <1>1, <2>1, <2>3, <2>4 DEF Threaded
  <2> QED
    BY <2>5
<1> QED
  BY <1>1, <1>2, <1>4, <1>5 DEF Straight, L, w

(* The leaf k is looked for in is on the line, what is left of it is below  *)
(* k and what is right of it above.                                         *)
LEMMA LookedAt ==
  ASSUME Structure, Idle, root # 0, NEW h, Sound(pages, root, space, h),
         Clean(pages, root), NEW S, Ordered(pages, root, S), Straight(Leaves, S),
         NEW k \in Keys
  PROVE  \E m \in 1 .. Len(Leaves) :
           /\ Leaves[m] = Last(FindPath(k)) /\ k \in S[Leaves[m]]
           /\ \A e \in Behind(Leaves, m + 1) : k < e[1]
           /\ \A e \in Content : e[1] >= k => e \in Behind(Leaves, m)
<1> DEFINE w == Leaves
           leaf == Last(FindPath(k))
<1>1. /\ leaf \in PageIds /\ leaf \in {root} \cup KidsIn(Kids(pages)) /\ pages[leaf].leaf
      /\ k \in Int /\ k \in S[leaf]
  BY LeafSorted
<1>2. leaf \in LeavesOf(pages, root)
  BY <1>1 DEF LeavesOf
<1> HIDE DEF leaf
<1>3. PICK m \in 1 .. Len(w) : w[m] = leaf
  BY <1>2 DEF Straight
<1>4. /\ Len(w) \in Nat
      /\ \A i \in 1 .. Len(w) : w[i] \in PageIds /\ pages[w[i]].leaf /\ S[w[i]] \in SUBSET Int
      /\ \A i, j \in 1 .. Len(w) : i < j => \A a \in S[w[i]], b \in S[w[j]] : a < b
  BY StraightFacts
<1>5. \A j \in 1 .. Len(w) : \A e \in Held(pages[w[j]].data) : e[1] \in S[w[j]]
  <2>1. pages \in [PageIds -> Nodes]
    BY DEF Straight
  <2> QED
    BY <1>4, <2>1, LeafListed
<1>6. Content = Behind(w, 1)
  BY BehindAll, ContentIs
<1> HIDE DEF w
<1>7. ASSUME NEW e \in Behind(w, m + 1) PROVE k < e[1]
  <2>1. PICK j \in m + 1 .. Len(w) : e \in Held(pages[w[j]].data)
    BY DEF Behind
  <2>2. j \in 1 .. Len(w) /\ m < j
    BY <1>4
  <2>3. e[1] \in S[w[j]]
    BY <1>5, <2>1, <2>2
  <2> QED
    BY <1>1, <1>3, <1>4, <2>2, <2>3
<1>8. ASSUME NEW e \in Content, e[1] >= k PROVE e \in Behind(w, m)
  <2>1. PICK j \in 1 .. Len(w) : e \in Held(pages[w[j]].data)
    BY <1>6 DEF Behind
  <2>2. e[1] \in S[w[j]] /\ e[1] \in Int
    BY <1>4, <1>5, <2>1
  <2>3. ~(j < m)
    <3> SUFFICES ASSUME j < m PROVE FALSE
      OBVIOUS
    <3>1. e[1] < k
      BY <1>1, <1>3, <1>4, <2>2
    <3> QED
      BY <1>1, <1>8, <2>2, <3>1
  <2>4. j \in m .. Len(w)
    BY <1>4, <2>3
  <2> QED
    BY <2>1, <2>4 DEF Behind
<1> QED
  BY <1>1, <1>3, <1>7, <1>8 DEF w, leaf

LEMMA ContentListed ==
  ASSUME NEW S, Straight(Leaves, S)
  PROVE  /\ Listing(Chain(Leaves[1]), Content)
         /\ IsFiniteSet(Content)
         /\ \A e \in Content : e \in Keys \X Rids /\ e[1] \in Int
<1>1. 1 \in 1 .. Len(Leaves)
  BY StraightFacts
<1>2. Listing(Chain(Leaves[1]), Content)
  BY <1>1, ChainListed, BehindAll, ContentIs
<1>3. IsFiniteSet(Content)
  BY <1>2, ListingIs
<1>4. Content \subseteq Keys \X Rids
  BY ContentIs DEF Stored
<1>5. \A e \in Content : e[1] \in Int
  BY <1>4, TreeAssumption
<1> QED
  BY <1>2, <1>3, <1>4, <1>5

LEMMA ScanListed ==
  ASSUME Structure, Idle, root # 0, NEW h, Sound(pages, root, space, h),
         Clean(pages, root), NEW S, Ordered(pages, root, S), Straight(Leaves, S),
         NEW k \in Keys
  PROVE  Listing(LowerBoundScan(k), { e \in Content : e[1] >= k })
<1> DEFINE w == Leaves
           leaf == Last(FindPath(k))
<1>1. PICK m \in 1 .. Len(w) :
        w[m] = leaf /\ \A e \in Content : e[1] >= k => e \in Behind(w, m)
  BY LookedAt
<1>2. Listing(Chain(w[m]), Behind(w, m))
  BY ChainListed
<1>3. k \in Int
  BY TreeAssumption
<1>4. LowerBoundScan(k) = Reports(Chain(leaf), k)
  BY DEF LowerBoundScan, Reports, Report
<1>5. Behind(w, m) \subseteq Content
  <2>1. Content = Behind(w, 1)
    BY BehindAll, ContentIs
  <2>2. Len(w) \in Nat
    BY StraightFacts
  <2> HIDE DEF w
  <2>3. m .. Len(w) \subseteq 1 .. Len(w)
    BY <2>2
  <2> QED
    BY <2>1, <2>3 DEF Behind
<1> HIDE DEF w, leaf
<1>6. Listing(Reports(Chain(leaf), k), { e \in Behind(w, m) : e[1] >= k })
  BY <1>1, <1>2, <1>3, ReportsListed
<1>7. { e \in Behind(w, m) : e[1] >= k } = { e \in Content : e[1] >= k }
  BY <1>1, <1>5
<1> QED
  BY <1>4, <1>6, <1>7

LEMMA RangeListed ==
  ASSUME NEW k \in Keys, NEW hi \in Keys, NEW E, Listing(LowerBoundScan(k), E)
  PROVE  Listing(RangeScan(k, hi), { e \in E : e[1] < hi })
<1>1. RangeScan(k, hi) = Until(LowerBoundScan(k), hi)
  BY DEF RangeScan, Until
<1>2. hi \in Int
  BY TreeAssumption
<1> QED
  BY <1>1, <1>2, UntilListed

Past(k) == { e \in Content : e[1] > k }

(* The entry after the last one of the leaf is the first one of the next.   *)
LEMMA NextHolds ==
  ASSUME Structure, Idle, root # 0, NEW h, Sound(pages, root, space, h),
         NEW S, Ordered(pages, root, S), Straight(Leaves, S),
         NEW m \in 1 .. Len(Leaves) - 1
  PROVE  /\ Leaves[m + 1] # 0 /\ pages[Leaves[m + 1]].data # <<>>
         /\ Len(pages[Leaves[m + 1]].data) >= 1
<1> DEFINE w == Leaves
           q == w[m + 1]
           d == pages[q].data
<1>1. /\ Len(w) \in Nat
      /\ \A i \in 1 .. Len(w) : /\ w[i] \in PageIds /\ w[i] # 0 /\ pages[w[i]].leaf
                                /\ w[i] \in LeavesOf(pages, root)
                                /\ S[w[i]] \in SUBSET Int /\ S[w[i]] # {}
      /\ \A i, j \in 1 .. Len(w) : i < j => \A a \in S[w[i]], b \in S[w[j]] : a < b
  BY StraightFacts
<1>2. pages \in [PageIds -> Nodes] /\ S[root] = Int
  BY DEF Straight, Ordered
<1> HIDE DEF w
<1>3. m \in 1 .. Len(w) /\ m + 1 \in 1 .. Len(w) /\ m < m + 1
  BY <1>1 DEF w
<1>4. q # root
  <2> SUFFICES ASSUME q = root PROVE FALSE
    OBVIOUS
  <2>1. PICK a : a \in S[w[m]]
    BY <1>1, <1>3
  <2>2. a \in Int /\ a \in S[w[m + 1]]
    BY <1>1, <1>2, <1>3, <2>1
  <2>3. a < a
    BY <1>1, <1>3, <2>1, <2>2
  <2> QED
    BY <2>2, <2>3
<1>5. q \in PageIds /\ q # 0 /\ pages[q].leaf /\ q \in {root} \cup KidsIn(Kids(pages))
  BY <1>1, <1>3 DEF LeavesOf
<1> HIDE DEF q
<1>6. Size(pages, q) >= 1
  BY <1>4, <1>5, IdleKeys
<1>7. d \in Seq(Keys \X Rids) /\ Len(d) = Size(pages, q)
  BY <1>2, <1>5, NodeIs, LeafIs DEF Size
<1> HIDE DEF d
<1>8. d # <<>> /\ Len(d) >= 1
  BY <1>6, <1>7, EmptySeq
<1> QED
  BY <1>5, <1>8 DEF d, q, w

(* The leaf after the one k is looked for in holds the least key above k    *)
(* when that one holds none.                                                *)
LEMMA NextFirst ==
  ASSUME Structure, Idle, root # 0, NEW h, Sound(pages, root, space, h),
         NEW S, Ordered(pages, root, S), Straight(Leaves, S),
         NEW m \in 1 .. Len(Leaves),
         NEW E, E = Behind(Leaves, m + 1)
  PROVE  LET next == pages[Leaves[m]].next
         IN  First(E) = IF next # 0 /\ pages[next].data # <<>>
                        THEN pages[next].data[1][2] ELSE NoRid
<1> DEFINE w == Leaves
           next == pages[w[m]].next
           d == pages[next].data
<1>1. Len(w) \in Nat /\ \A i \in 1 .. Len(w) : w[i] \in PageIds /\ pages[w[i]].leaf
  BY StraightFacts
<1>2. next = IF m < Len(w) THEN w[m + 1] ELSE 0
  BY DEF Straight, Lined
<1>3. CASE m < Len(w)
  <2>1. m \in 1 .. Len(w) - 1 /\ m + 1 \in 1 .. Len(w) /\ next = w[m + 1]
    BY <1>1, <1>2, <1>3
  <2>2. next # 0 /\ d # <<>> /\ Len(d) >= 1
    BY <2>1, NextHolds
  <2>3. /\ E = Held(d) \cup Behind(w, m + 1 + 1)
        /\ \A e \in Held(d), f \in Behind(w, m + 1 + 1) : e[1] < f[1]
    BY <2>1, BehindOn
  <2>4. Listing(d, Held(d))
    <3>1. pages \in [PageIds -> Nodes]
      BY DEF Straight
    <3> QED
      BY <1>1, <2>1, <3>1, LeafListed
  <2>5. Listing(Chain(w[m + 1]), E)
    BY <2>1, ChainListed
  <2>6. IsFiniteSet(E) /\ \A x \in E : x[1] \in Int
    <3>1. IsFiniteSet(E)
      BY <2>5, ListingIs
    <3>2. \A x \in E : \E i \in 1 .. Len(Chain(w[m + 1])) : x = Chain(w[m + 1])[i]
      BY <2>5, ListingFacts
    <3>3. \A i \in 1 .. Len(Chain(w[m + 1])) : Chain(w[m + 1])[i][1] \in Int
      BY <2>5, ListingFacts
    <3> QED
      BY <3>1, <3>2, <3>3
  <2> HIDE DEF d, next
  <2>7. /\ Len(d) \in Nat
        /\ \A i \in 1 .. Len(d) : d[i] \in Held(d)
        /\ \A i, j \in 1 .. Len(d) : i < j => d[i][1] < d[j][1]
        /\ \A e \in Held(d) : \E i \in 1 .. Len(d) : e = d[i]
    BY <2>4, ListingFacts
  <2>8. 1 \in 1 .. Len(d) /\ d[1] \in E
    BY <2>2, <2>3, <2>7
  <2>9. ASSUME NEW x \in E \ {d[1]} PROVE d[1][1] < x[1]
    <3>1. CASE x \in Held(d)
      <4>1. PICK i \in 1 .. Len(d) : x = d[i]
        BY <2>7, <3>1
      <4>2. 1 < i
        BY <2>7, <2>9, <4>1
      <4> QED
        BY <2>7, <2>8, <4>1, <4>2
    <3>2. CASE x \in Behind(w, m + 1 + 1)
      BY <2>3, <2>7, <2>8, <3>2
    <3> QED
      BY <2>3, <2>9, <3>1, <3>2
  <2>10. First(E) = d[1][2]
    BY <2>6, <2>8, <2>9, FirstListed
  <2> QED
    BY <2>2, <2>10 DEF d, next
<1>4. CASE ~(m < Len(w))
  <2>1. next = 0 /\ m + 1 .. Len(w) = {}
    BY <1>1, <1>2, <1>4
  <2>2. E = {}
    BY <2>1 DEF Behind
  <2> QED
    BY <2>1, <2>2 DEF First
<1> QED
  BY <1>3, <1>4

LEMMA AfterFirst ==
  ASSUME Structure, Idle, root # 0, NEW h, Sound(pages, root, space, h),
         Clean(pages, root), NEW S, Ordered(pages, root, S), Straight(Leaves, S),
         NEW k \in Keys
  PROVE  EntryAfter(LeafOf(k), Position(LeafOf(k), k)) = First(Past(k))
<1> DEFINE w == Leaves
           leaf == Last(FindPath(k))
           d == pages[leaf].data
           i == Position(pages[leaf], k)
           E == Past(k)
<1>1. /\ leaf \in PageIds /\ pages[leaf].leaf /\ LeafOf(k) = pages[leaf]
      /\ Len(d) \in Nat /\ i \in 0 .. Len(d) /\ k \in Int
      /\ \A x \in 1 .. Len(d) : d[x][1] \in Int
      /\ \A x \in 1 .. i : d[x][1] <= k
      /\ \A x \in i + 1 .. Len(d) : k < d[x][1]
  BY LeafSorted
<1>2. PICK m \in 1 .. Len(w) :
        /\ w[m] = leaf
        /\ \A e \in Behind(w, m + 1) : k < e[1]
        /\ \A e \in Content : e[1] >= k => e \in Behind(w, m)
  BY LookedAt
<1>3. /\ Behind(w, m) = Held(d) \cup Behind(w, m + 1)
      /\ \A e \in Held(d), f \in Behind(w, m + 1) : e[1] < f[1]
  BY <1>2, BehindOn
<1>4. Behind(w, m) \subseteq Content
  <2>1. Content = Behind(w, 1)
    BY BehindAll, ContentIs
  <2>2. Len(w) \in Nat
    BY StraightFacts
  <2> HIDE DEF w
  <2>3. m .. Len(w) \subseteq 1 .. Len(w)
    BY <2>2
  <2> QED
    BY <2>1, <2>3 DEF Behind
<1>5. IsFiniteSet(Content) /\ \A e \in Content : e[1] \in Int
  BY ContentListed
<1>6. IsFiniteSet(E) /\ \A e \in E : e[1] \in Int
  BY <1>5, FS_Subset DEF Past
<1>7. Listing(d, Held(d))
  BY <1>1, LeafListed DEF Straight
<1>8. /\ \A x \in 1 .. Len(d) : d[x] \in Held(d)
      /\ \A x, y \in 1 .. Len(d) : x < y => d[x][1] < d[y][1]
      /\ \A e \in Held(d) : \E x \in 1 .. Len(d) : e = d[x]
  BY <1>7, ListingFacts
<1>9. EntryAfter(LeafOf(k), Position(LeafOf(k), k)) =
        IF i < Len(d) THEN d[i + 1][2]
        ELSE IF pages[w[m]].next # 0 /\ pages[pages[w[m]].next].data # <<>>
             THEN pages[pages[w[m]].next].data[1][2] ELSE NoRid
  BY <1>1, <1>2 DEF EntryAfter
<1> HIDE DEF w, leaf, i
<1>10. ASSUME NEW e \in E PROVE e \in Behind(w, m)
  <2>1. e \in Content /\ e[1] > k
    BY DEF Past
  <2>2. e[1] >= k
    BY <1>1, <1>5, <2>1
  <2> QED
    BY <1>2, <2>1, <2>2
<1>11. CASE i < Len(d)
  <2>1. i + 1 \in 1 .. Len(d) /\ i + 1 \in i + 1 .. Len(d)
    BY <1>1, <1>11
  <2> HIDE DEF d
  <2>2. d[i + 1] \in E
    BY <1>1, <1>3, <1>4, <1>8, <2>1 DEF Past
  <2>3. ASSUME NEW x \in E \ {d[i + 1]} PROVE d[i + 1][1] < x[1]
    <3>1. CASE x \in Held(d)
      <4>1. PICK y \in 1 .. Len(d) : x = d[y]
        BY <1>8, <3>1
      <4>2. y \notin 1 .. i
        <5>1. x[1] > k /\ x[1] \in Int
          BY <1>6, <2>3 DEF Past
        <5> QED
          BY <1>1, <4>1, <5>1
      <4>3. i + 1 < y
        BY <1>1, <2>3, <4>1, <4>2
      <4> QED
        BY <1>8, <2>1, <4>1, <4>3
    <3>2. CASE x \in Behind(w, m + 1)
      BY <1>3, <1>8, <2>1, <3>2
    <3> QED
      BY <1>3, <1>10, <3>1, <3>2
  <2>4. First(E) = d[i + 1][2]
    BY <1>6, <2>2, <2>3, FirstListed
  <2> QED
    BY <1>9, <1>11, <2>4
<1>12. CASE ~(i < Len(d))
  <2> HIDE DEF d
  <2>1. i = Len(d)
    BY <1>1, <1>12
  <2>2. ASSUME NEW e \in E PROVE e \in Behind(w, m + 1)
    <3>1. e[1] > k /\ e[1] \in Int
      BY <1>6 DEF Past
    <3>2. e \notin Held(d)
      BY <1>1, <1>8, <2>1, <3>1
    <3> QED
      BY <1>3, <1>10, <3>2
  <2>3. ASSUME NEW e \in Behind(w, m + 1) PROVE e \in E
    <3>1. e \in Content /\ k < e[1]
      BY <1>2, <1>3, <1>4
    <3> QED
      BY <1>1, <1>5, <3>1 DEF Past
  <2>4. E = Behind(w, m + 1)
    BY <2>2, <2>3
  <2>5. First(E) = IF pages[w[m]].next # 0 /\ pages[pages[w[m]].next].data # <<>>
                   THEN pages[pages[w[m]].next].data[1][2] ELSE NoRid
    BY <2>4, NextFirst DEF w
  <2> QED
    BY <1>9, <1>12, <2>5
<1> QED
  BY <1>11, <1>12

LEMMA LowerFirst ==
  ASSUME Structure, Sorted, root # 0, NEW S, Straight(Leaves, S), NEW k \in Keys,
         UpperBound(k) = First(Past(k))
  PROVE  LowerBound(k) = First({ e \in Content : e[1] >= k })
<1> DEFINE E == { e \in Content : e[1] >= k }
           r == Find(k)
<1>1. /\ IsFiniteSet(Content) /\ Content = Stored(pages)
      /\ \A e \in Content : e \in Keys \X Rids /\ e[1] \in Int
  BY ContentListed, ContentIs
<1>2. IsFiniteSet(E) /\ \A e \in E : e \in Content /\ e[1] \in Int
  BY <1>1, FS_Subset
<1>3. k \in Int /\ NoRid \notin Rids
  BY TreeAssumption
<1>4. /\ \A x : <<k, x>> \in Stored(pages) => r = x
      /\ r # NoRid => <<k, r>> \in Stored(pages)
  BY LookUp
<1>5. \A e \in Content : e[1] = k => e[2] = r /\ e[2] \in Rids /\ e = <<k, e[2]>>
  BY <1>1, <1>4
<1> HIDE DEF r
<1>6. CASE r # NoRid
  <2> DEFINE e == <<k, r>>
  <2>1. e \in E /\ e[1] = k /\ e[2] = r
    BY <1>1, <1>3, <1>4, <1>6
  <2>2. ASSUME NEW x \in E \ {e} PROVE e[1] < x[1]
    <3>1. x[1] >= k /\ x \in Content /\ x[1] \in Int
      BY <1>2
    <3>2. x[1] # k
      BY <1>5, <2>2, <3>1
    <3> QED
      BY <1>3, <2>1, <3>1, <3>2
  <2> HIDE DEF e, E
  <2>3. First(E) = r
    BY <1>2, <2>1, <2>2, FirstListed
  <2>4. LowerBound(k) = r
    BY <1>6 DEF LowerBound, HasKey, r
  <2> QED
    BY <2>3, <2>4 DEF E
<1>7. CASE r = NoRid
  <2>1. LowerBound(k) = UpperBound(k)
    BY <1>7 DEF LowerBound, UpperBound, HasKey, r
  <2>2. \A e \in Content : e[1] # k
    BY <1>3, <1>5, <1>7
  <2>3. \A e \in Content : e[1] >= k <=> e[1] > k
    BY <1>1, <1>3, <2>2
  <2>4. E = Past(k)
    BY <2>3 DEF Past
  <2> QED
    BY <2>1, <2>4
<1> QED
  BY <1>6, <1>7

(* The first leaf below each page: its range starts where the page's does.  *)
Foremost(d, p) == IF pages[p].leaf THEN p ELSE d[pages[p].pointers[1]]
Leftmost == CHOOSE d : d = [p \in PageIds |-> Foremost(d, p)]

LEMMA ForEachUses == root # 0 => ForEach = Chain(Leftmost[root])
BY DEF ForEach, Leftmost, Foremost

LEMMA FirstChild ==
  ASSUME NEW h, Sound(pages, root, space, h), NEW S, Ordered(pages, root, S), Rounded(S),
         NEW p \in PageIds, ~pages[p].leaf
  PROVE  LET c == pages[p].pointers[1]
         IN  c \in PageIds /\ h[c] < h[p] /\ c \in KidsIn(Kids(pages)) /\ StartsAt(S[c], S[p])
<1> DEFINE n == pages[p]
           c == n.pointers[1]
<1>1. pages \in [PageIds -> Nodes] /\ h \in [PageIds -> Nat]
  BY DEF Sound
<1>2. /\ n.keys \in Seq(Keys) /\ n.pointers \in Seq(PageIds)
      /\ Len(n.pointers) = Len(n.keys) + 1 /\ Len(n.keys) \in Nat
      /\ \A i \in 1 .. Len(n.pointers) : n.pointers[i] \in PageIds /\ n.pointers[i] \in KidsIn(Kids(pages))
  BY <1>1, KidsOnce
<1>3. 1 \in 1 .. Len(n.pointers) /\ DOMAIN n.pointers = 1 .. Len(n.pointers)
  BY <1>2, LenProperties
<1>4. h[c] < h[p]
  BY <1>3, LowerChild
<1>5. Parted(S[p], n.keys, n.pointers, S) /\ S[p] \in SUBSET Int /\ Convex(S[p])
  BY DEF Ordered, InRange, Rounded
<1>6. \A i \in 1 .. Len(n.keys) : n.keys[i] \in Int /\ Inside(n.keys[i], S[p])
  BY <1>5 DEF Parted, Inside
<1>7. S[c] = Piece(S[p], n.keys, 1) /\ Rising(n.keys)
  BY <1>3, <1>5 DEF Parted
<1> HIDE DEF n
<1>8. StartsAt(Piece(S[p], n.keys, 1), S[p])
  BY <1>2, <1>5, <1>6, <1>7, FirstPiece
<1> QED
  BY <1>2, <1>3, <1>4, <1>7, <1>8 DEF n

LEMMA StartsMeet ==
  ASSUME NEW X \in SUBSET Int, NEW Y, NEW Z, Y # {}, Z # {}, Convex(Y), Convex(Z),
         StartsAt(Y, X), StartsAt(Z, X)
  PROVE  \E x \in Y : x \in Z
<1>1. /\ Y \subseteq Int /\ Z \subseteq Int
      /\ \A x \in Z : \E y \in Y : y <= x
      /\ \A x \in Y : \E z \in Z : z <= x
  BY DEF StartsAt
<1>2. PICK y : y \in Y
  OBVIOUS
<1>3. PICK z : z \in Z
  OBVIOUS
<1>4. CASE y <= z
  <2>1. PICK v \in Z : v <= y
    BY <1>1, <1>2
  <2>2. y = z \/ y = v \/ (v < y /\ y < z)
    BY <1>1, <1>2, <1>3, <1>4, <2>1
  <2>3. y \in Z
    BY <1>1, <1>2, <1>3, <2>1, <2>2 DEF Convex
  <2> QED
    BY <1>2, <2>3
<1>5. CASE z <= y
  <2>1. PICK v \in Y : v <= z
    BY <1>1, <1>3
  <2>2. z = y \/ z = v \/ (v < z /\ z < y)
    BY <1>1, <1>2, <1>3, <1>5, <2>1
  <2>3. z \in Y
    BY <1>1, <1>2, <1>3, <2>1, <2>2 DEF Convex
  <2> QED
    BY <1>3, <2>3
<1> QED
  BY <1>1, <1>2, <1>3, <1>4, <1>5

(* Leaf q is the first one below page p.                                    *)
Fore(q, p, S) == q \in LeavesOf(pages, root) /\ StartsAt(S[q], S[p])

LEMMA ForeOnce ==
  ASSUME NEW S, Ordered(pages, root, S), Strung(pages, root, S),
         root \in PageIds,
         \A p \in LeavesOf(pages, root) : S[p] # {},
         NEW p \in PageIds, NEW q, NEW r, Fore(q, p, S), Fore(r, p, S)
  PROVE  q = r
<1> DEFINE L == LeavesOf(pages, root)
<1>1. q \in L /\ r \in L /\ StartsAt(S[q], S[p]) /\ StartsAt(S[r], S[p])
  BY DEF Fore
<1>2. q \in PageIds /\ r \in PageIds
  BY <1>1 DEF LeavesOf, KidsIn
<1>3. S[q] # {} /\ S[r] # {}
  BY <1>1
<1>4. S[p] \in SUBSET Int /\ Convex(S[q]) /\ Convex(S[r]) /\ Threaded(pages, L, S)
  BY <1>2 DEF Ordered, Strung, Rounded
<1> HIDE DEF L
<1>5. \E x \in S[q] : x \in S[r]
  BY <1>1, <1>3, <1>4, StartsMeet
<1> QED
  BY <1>1, <1>4, <1>5 DEF Threaded

LEMMA ForeStep ==
  ASSUME NEW h, Sound(pages, root, space, h), NEW S, Ordered(pages, root, S), Rounded(S),
         NEW p \in PageIds, ~pages[p].leaf, NEW q, Fore(q, pages[p].pointers[1], S)
  PROVE  Fore(q, p, S)
<1> DEFINE c == pages[p].pointers[1]
<1>1. StartsAt(S[c], S[p])
  BY FirstChild
<1>2. StartsAt(S[q], S[c]) /\ q \in LeavesOf(pages, root) /\ S[p] \in SUBSET Int
  BY DEF Fore, Ordered
<1> HIDE DEF c
<1>3. StartsAt(S[q], S[p])
  BY <1>1, <1>2, StartsAtStart
<1> QED
  BY <1>2, <1>3 DEF Fore

LEMMA ForeExists ==
  ASSUME NEW h, Sound(pages, root, space, h), NEW S, Ordered(pages, root, S),
         Strung(pages, root, S), NEW p \in PageIds, p \in {root} \cup KidsIn(Kids(pages))
  PROVE  (\E q : Fore(q, p, S)) /\ (pages[p].leaf => Fore(p, p, S))
<1> DEFINE w == LeavesUnder[p]
           L == LeavesOf(pages, root)
<1>1. Runs(w, L, S, S[p], S[p])
  BY PageRuns
<1>2. S[p] \in SUBSET Int
  BY DEF Ordered
<1>3. pages[p].leaf => p \in L
  BY DEF LeavesOf
<1>4. pages[p].leaf => Fore(p, p, S)
  BY <1>2, <1>3 DEF Fore, StartsAt
<1> HIDE DEF w, L
<1>5. w \in Seq(L) /\ 1 \in 1 .. Len(w) /\ StartsAt(S[w[1]], S[p])
  BY <1>1 DEF Runs
<1>6. w[1] \in L
  BY <1>5, ElementOfSeq
<1>7. Fore(w[1], p, S)
  BY <1>5, <1>6 DEF Fore, L
<1> QED
  BY <1>4, <1>7

LEMMA LeftmostExists ==
  ASSUME NEW h, Sound(pages, root, space, h), Clean(pages, root), NEW S,
         Ordered(pages, root, S), Strung(pages, root, S),
         \A p \in LeavesOf(pages, root) : S[p] # {}
  PROVE  \E d : d = [p \in PageIds |-> Foremost(d, p)]
<1> DEFINE The(p) == CHOOSE q : Fore(q, p, S)
           d == [p \in PageIds |-> IF pages[p].leaf THEN p ELSE The(p)]
<1>1. root \in PageIds /\ Rounded(S)
  BY DEF Sound, Strung
<1>2. ASSUME NEW p \in PageIds, p \in {root} \cup KidsIn(Kids(pages))
      PROVE  Fore(d[p], p, S)
  <2>1. CASE pages[p].leaf
    BY <1>2, <2>1, ForeExists
  <2>2. CASE ~pages[p].leaf
    <3>1. \E q : Fore(q, p, S)
      BY <1>2, ForeExists
    <3> QED
      BY <2>2, <3>1
  <2> QED
    BY <2>1, <2>2
<1>3. \A p \in PageIds : pages[p].leaf => d[p] = p
  OBVIOUS
<1>4. d = [p \in PageIds |-> d[p]]
  OBVIOUS
<1> HIDE DEF d
<1>5. ASSUME NEW p \in PageIds, ~pages[p].leaf PROVE d[p] = d[pages[p].pointers[1]]
  <2> DEFINE c == pages[p].pointers[1]
  <2>1. c \in PageIds /\ c \in KidsIn(Kids(pages))
    BY <1>1, <1>5, FirstChild
  <2>2. Fore(d[c], c, S)
    BY <1>2, <2>1
  <2>3. Fore(d[c], p, S)
    BY <1>1, <1>5, <2>2, ForeStep
  <2>4. Fore(d[p], p, S)
    BY <1>2, <1>5, MiddleInTree
  <2> QED
    BY <1>1, <2>3, <2>4, ForeOnce
<1>6. \A p \in PageIds : d[p] = Foremost(d, p)
  BY <1>3, <1>5 DEF Foremost
<1>7. d = [p \in PageIds |-> Foremost(d, p)]
  BY <1>4, <1>6
<1> QED
  BY <1>7

LEMMA LeftmostIs ==
  ASSUME NEW h, Sound(pages, root, space, h), Clean(pages, root), NEW S,
         Ordered(pages, root, S), Strung(pages, root, S),
         \A p \in LeavesOf(pages, root) : S[p] # {}
  PROVE  Fore(Leftmost[root], root, S)
<1> DEFINE Tree == {root} \cup KidsIn(Kids(pages))
           W == { p \in PageIds : p \in Tree => Fore(Leftmost[p], p, S) }
<1>1. Leftmost = [p \in PageIds |-> Foremost(Leftmost, p)]
  BY LeftmostExists DEF Leftmost
<1>2. \A p \in PageIds : Leftmost[p] = Foremost(Leftmost, p)
  BY <1>1
<1>3. h \in [PageIds -> Nat] /\ root \in PageIds /\ Rounded(S)
  BY DEF Sound, Strung
<1>4. ASSUME NEW p \in PageIds, \A q \in PageIds : h[q] < h[p] => q \in W, p \in Tree
      PROVE  Fore(Leftmost[p], p, S)
  <2>1. CASE pages[p].leaf
    BY <1>2, <1>4, <2>1, ForeExists DEF Foremost
  <2>2. CASE ~pages[p].leaf
    <3> DEFINE c == pages[p].pointers[1]
    <3>1. c \in PageIds /\ h[c] < h[p] /\ c \in Tree
      BY <1>3, <2>2, FirstChild
    <3>2. Fore(Leftmost[c], c, S)
      BY <1>4, <3>1
    <3>3. Leftmost[p] = Leftmost[c]
      BY <1>2, <2>2 DEF Foremost
    <3> QED
      BY <1>3, <2>2, <3>2, <3>3, ForeStep
  <2> QED
    BY <2>1, <2>2
<1> HIDE DEF Tree
<1>5. \A p \in PageIds : (\A q \in PageIds : h[q] < h[p] => q \in W) => p \in W
  BY <1>4
<1> HIDE DEF W
<1>6. PageIds \subseteq W
  BY <1>3, <1>5, Climb
<1> QED
  BY <1>3, <1>6 DEF W, Tree

LEMMA ForEachIs ==
  ASSUME root # 0, NEW h, Sound(pages, root, space, h),
         Clean(pages, root), NEW S, Ordered(pages, root, S), Strung(pages, root, S),
         Straight(Leaves, S)
  PROVE  ForEach = InOrder(Content)
<1> DEFINE w == Leaves
<1>1. /\ \A p \in LeavesOf(pages, root) : S[p] # {}
      /\ S[root] = Int /\ root \in PageIds /\ StartsAt(S[w[1]], Int)
  BY DEF Straight, Ordered, Lined
<1>2. w[1] \in LeavesOf(pages, root)
  <2>1. 1 \in 1 .. Len(w)
    BY StraightFacts
  <2> QED
    BY <2>1, StraightFacts
<1>3. Fore(w[1], root, S)
  BY <1>1, <1>2 DEF Fore
<1>4. Fore(Leftmost[root], root, S)
  BY <1>1, LeftmostIs
<1>5. Leftmost[root] = w[1]
  BY <1>1, <1>3, <1>4, ForeOnce
<1>6. ForEach = Chain(w[1])
  BY <1>5, ForEachUses
<1>7. Listing(Chain(w[1]), Content)
  BY ContentListed
<1> QED
  BY <1>6, <1>7, ListingIs

LEMMA NothingRead ==
  ASSUME root = 0
  PROVE  /\ ForEach = <<>> /\ Content = {}
         /\ \A k : /\ LowerBound(k) = NoRid /\ UpperBound(k) = NoRid
                   /\ LowerBoundScan(k) = <<>>
<1>1. Leaves = <<>> /\ ToSet(<<>>) = {}
  BY DEF Leaves, ToSet
<1>2. Content = {}
  BY <1>1 DEF Content
<1> QED
  BY <1>2 DEF ForEach, LowerBound, UpperBound, LowerBoundScan, HasKey, Find

LEMMA SortedScans == Structure /\ Sorted => ScansAgree
<1> SUFFICES ASSUME Structure, Sorted, Idle PROVE ScansAgree
  BY DEF ScansAgree
<1> DEFINE from(k) == { e \in Content : e[1] >= k }
           above(k) == { e \in Content : e[1] > k }
<1>1. SUFFICES /\ ForEach = InOrder(Content)
               /\ \A k \in Keys : /\ LowerBound(k) = First(from(k))
                                  /\ UpperBound(k) = First(above(k))
                                  /\ Listing(LowerBoundScan(k), from(k))
  <2>1. ASSUME NEW k \in Keys, Listing(LowerBoundScan(k), from(k))
        PROVE  /\ LowerBoundScan(k) = InOrder(from(k))
               /\ \A hi \in Keys :
                    RangeScan(k, hi) = InOrder({ e \in from(k) : e[1] < hi })
    <3> HIDE DEF from
    <3>1. LowerBoundScan(k) = InOrder(from(k))
      BY <2>1, ListingIs
    <3>2. ASSUME NEW hi \in Keys
          PROVE  RangeScan(k, hi) = InOrder({ e \in from(k) : e[1] < hi })
      <4>1. Listing(RangeScan(k, hi), { e \in from(k) : e[1] < hi })
        BY <2>1, RangeListed
      <4> QED
        BY <4>1, ListingIs
    <3> QED
      BY <3>1, <3>2
  <2> QED
    BY <1>1, <2>1 DEF ScansAgree
<1>2. CASE root = 0
  <2>1. InOrder({}) = <<>>
    BY NothingListed, ListingIs
  <2>2. First({}) = NoRid
    BY DEF First
  <2>3. Content = {} /\ ForEach = <<>>
    BY <1>2, NothingRead
  <2>4. ASSUME NEW k \in Keys
        PROVE  /\ LowerBound(k) = First(from(k)) /\ UpperBound(k) = First(above(k))
               /\ Listing(LowerBoundScan(k), from(k))
    <3>1. from(k) = {} /\ above(k) = {}
      BY <2>3
    <3> HIDE DEF from, above
    <3> QED
      BY <1>2, <2>2, <3>1, NothingRead, NothingListed
  <2> QED
    BY <2>1, <2>3, <2>4
<1>3. CASE root # 0
  <2>1. PICK h : Sound(pages, root, space, h)
    BY <1>3 DEF Structure, Stands
  <2>2. PICK S : Ordered(pages, root, S) /\ Strung(pages, root, S)
    BY <1>3 DEF Sorted, SortedTree
  <2>3. Clean(pages, root)
    BY <1>3 DEF Sorted, SortedTree
  <2>4. Straight(Leaves, S)
    BY <1>3, <2>1, <2>2, <2>3, IdleStraight
  <2>5. ForEach = InOrder(Content)
    BY <1>3, <2>1, <2>2, <2>3, <2>4, ForEachIs
  <2>6. ASSUME NEW k \in Keys
        PROVE  /\ LowerBound(k) = First(from(k)) /\ UpperBound(k) = First(above(k))
               /\ Listing(LowerBoundScan(k), from(k))
    <3>1. EntryAfter(LeafOf(k), Position(LeafOf(k), k)) = First(Past(k))
      BY <1>3, <2>1, <2>2, <2>3, <2>4, AfterFirst
    <3>2. UpperBound(k) = First(Past(k))
      BY <1>3, <3>1 DEF UpperBound
    <3>3. LowerBound(k) = First(from(k))
      BY <1>3, <2>4, <3>2, LowerFirst
    <3>4. Listing(LowerBoundScan(k), from(k))
      BY <1>3, <2>1, <2>2, <2>3, <2>4, ScanListed
    <3> QED
      BY <3>2, <3>3, <3>4 DEF Past
  <2> QED
    BY <2>5, <2>6
<1> QED
  BY <1>2, <1>3

(* For trees of any height, any t, any keys and records: between operations *)
(* for_each returns all entries in the order of their keys, lower_bound and *)
(* upper_bound the record of the least key from and above the one given,    *)
(* also when it stands in the next leaf, and range_scan and lower_bound_scan*)
(* the entries of their range in order (lower_bound, upper_bound,           *)
(* range_scan, lower_bound_scan, for_each).                                 *)
THEOREM ScansCorrect == Spec => []ScansAgree
BY StructureCorrect, SortedCorrect, SortedScans, PTL

-----------------------------------------------------------------------------
(* ... and an index.                                                        *)

Looked ==
  \A k \in Keys :
    /\ \A r : <<k, r>> \in Stored(pages) => Find(k) = r
    /\ Find(k) # NoRid => <<k, Find(k)>> \in Stored(pages)

LEMMA SortedLooked == Structure /\ Sorted => Looked
BY LookUp DEF Looked

(* A lookup sees only what is stored.                                       *)
LEMMA SameFound ==
  ASSUME Looked, Looked', NEW k \in Keys,
         \A r \in Rids : <<k, r>> \in Stored(pages) <=> <<k, r>> \in Stored(pages')
  PROVE  Find(k)' = Find(k)
<1> DEFINE now  == Stored(pages)
           next == Stored(pages')
           a    == Find(k)
           b    == Find(k)'
<1>1. /\ \A r : <<k, r>> \in now => a = r
      /\ a # NoRid => <<k, a>> \in now
  BY DEF Looked
<1>2. /\ \A r : <<k, r>> \in next => b = r
      /\ b # NoRid => <<k, b>> \in next
  BY DEF Looked
<1>3. now \subseteq Keys \X Rids /\ next \subseteq Keys \X Rids
  BY DEF Stored
<1> HIDE DEF now, next, a, b
<1>4. a = b
  <2>1. a # NoRid => a \in Rids /\ <<k, a>> \in now
    BY <1>1, <1>3
  <2>2. b # NoRid => b \in Rids /\ <<k, b>> \in next
    BY <1>2, <1>3
  <2>3. \A r \in Rids : <<k, r>> \in now <=> <<k, r>> \in next
    BY DEF now, next
  <2> QED
    BY <1>1, <1>2, <2>1, <2>2, <2>3
<1> QED
  BY <1>4 DEF a, b

LEMMA InsertIndexes ==
  ASSUME Structure, Sorted, Looked, Looked',
         NEW k \in Keys, NEW r \in Rids, Insert(k, r)
  PROVE  Index!Insert(k, r)
<1>1. Find(k) = NoRid /\ Stored(pages') = Stored(pages) \cup {<<k, r>>}
  BY InsertFirstSorts, InsertIntoLeafSorts DEF Insert
<1>2. Find(k)' = r
  <2>1. <<k, r>> \in Stored(pages')
    BY <1>1
  <2> QED
    BY <2>1 DEF Looked
<1>3. ASSUME NEW j \in Keys \ {k} PROVE Find(j)' = Find(j)
  BY <1>1, SameFound
<1> QED
  BY <1>1, <1>2, <1>3 DEF Index!Insert, Index!Present, Index!Becomes

LEMMA EraseIndexes ==
  ASSUME Structure, Sorted, Looked, Looked', NEW k \in Keys, Erase(k)
  PROVE  Index!Erase(k)
<1>1. Find(k) # NoRid /\ Stored(pages') = { e \in Stored(pages) : e[1] # k }
  BY EraseSorts
<1>2. Find(k)' = NoRid
  <2>1. Find(k)' # NoRid => <<k, Find(k)'>> \in Stored(pages')
    BY DEF Looked
  <2> QED
    BY <1>1, <2>1
<1>3. ASSUME NEW j \in Keys \ {k} PROVE Find(j)' = Find(j)
  BY <1>1, SameFound
<1> QED
  BY <1>1, <1>2, <1>3 DEF Index!Erase, Index!Present, Index!Becomes

LEMMA SteadyIndexes ==
  ASSUME Looked, Looked', Steady
  PROVE  UNCHANGED [k \in Keys |-> Find(k)]
<1>1. ASSUME NEW k \in Keys PROVE Find(k)' = Find(k)
  BY SameFound DEF Steady
<1> QED
  BY <1>1

LEMMA IndexStep ==
  ASSUME Structure, Sorted, Looked, Looked', [Next]_vars
  PROVE  [Index!Next]_[k \in Keys |-> Find(k)]
<1>1. CASE Balance
  BY <1>1, BalanceSorts, SteadyIndexes
<1>2. ASSUME NEW k \in Erasable, Erase(k) PROVE Index!Next
  BY <1>2, EraseIndexes, TreeAssumption DEF Index!Next
<1>3. ASSUME NEW k \in Keys, NEW r \in RidsOf[k], Insert(k, r) PROVE Index!Next
  <2>1. r \in Rids
    BY <1>3, TreeAssumption
  <2> QED
    BY <1>3, <2>1, InsertIndexes DEF Index!Next
<1>4. CASE UNCHANGED vars
  <2>1. Steady
    BY <1>4, SameSteady DEF vars
  <2> QED
    BY <2>1, SteadyIndexes
<1> QED
  BY <1>1, <1>2, <1>3, <1>4 DEF Next

(* The tree is an ordered index, of any height, for any t and any keys: an  *)
(* insertion adds one entry, a deletion removes one, and no step of the     *)
(* repairs that follow loses, adds or moves an entry (insert, erase, find,  *)
(* balance_insert, balance_delete).                                         *)
THEOREM IndexCorrect == Spec => ImplementsIndex
<1>1. Init => Index!Init
  BY DEF Init, Index!Init, Find
<1>2. Structure /\ Sorted => Looked
  BY SortedLooked
<1>3. Structure /\ Sorted /\ Looked /\ Looked' /\ [Next]_vars
      => [Index!Next]_[k \in Keys |-> Find(k)]
  BY IndexStep
<1>4. Spec => Index!Init /\ [][Index!Next]_[k \in Keys |-> Find(k)]
  BY <1>1, <1>2, <1>3, StructureCorrect, SortedCorrect, PTL DEF Spec
<1> QED
  BY <1>4, PTL DEF ImplementsIndex, Index!Spec
=============================================================================
