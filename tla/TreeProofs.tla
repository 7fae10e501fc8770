----------------------------- MODULE TreeProofs ------------------------------
(***************************************************************************)
(* The structure of the B+ tree: no page has two owners, every node has    *)
(* the keys it should, the remembered path is right, all leaves are on one *)
(* level.                                                                  *)
(***************************************************************************)
EXTENDS TreeProperties, FiniteSetTheorems, SequenceTheorems, TLAPS

-----------------------------------------------------------------------------
(* Numbers and sequences.                                                   *)

(* A set of numbers has a least one: what stands in for induction here.     *)
LEMMA LeastIn ==
  ASSUME NEW S, S \subseteq Nat, S # {}
  PROVE  \E m \in S : \A n \in S : m <= n
<1> DEFINE below == { 1 .. n : n \in S }
<1>1. \A n \in S : IsFiniteSet(1 .. n)
  BY FS_Interval
<1>2. below \subseteq FiniteSubsetsOf(Nat) /\ below # {}
  <2>1. \A n \in S : 1 .. n \subseteq Nat
    OBVIOUS
  <2>2. \A n \in S : 1 .. n \in FiniteSubsetsOf(Nat)
    BY <1>1, <2>1 DEF FiniteSubsetsOf
  <2> QED
    BY <2>2
<1>3. PICK x \in below :
        \A y \in below : ~(<<y, x>> \in StrictSubsetOrdering(Nat))
  <2> HIDE DEF below
  <2> QED
    BY <1>2, FS_StrictSubsetOrderingWellFounded, WFMin
<1>4. PICK m \in S : x = 1 .. m
  OBVIOUS
<1>5. SUFFICES ASSUME NEW n \in S, n < m PROVE FALSE
  OBVIOUS
<1>6. /\ 1 .. n \subseteq 1 .. m
      /\ m \in 1 .. m /\ m \notin 1 .. n
  BY <1>5
<1>7. <<1 .. n, x>> \in StrictSubsetOrdering(Nat)
  BY <1>4, <1>6 DEF StrictSubsetOrdering
<1> QED
  BY <1>3, <1>7

LEMMA ConcatIs ==
  ASSUME NEW S, NEW s \in Seq(S), NEW t \in Seq(S)
  PROVE  /\ s \o t \in Seq(S)
         /\ Len(s \o t) = Len(s) + Len(t)
         /\ \A i \in 1 .. Len(s) : (s \o t)[i] = s[i]
         /\ \A i \in 1 .. Len(t) : (s \o t)[Len(s) + i] = t[i]
OBVIOUS

LEMMA PartIs ==
  ASSUME NEW S, NEW s \in Seq(S), NEW m \in 1 .. Len(s) + 1,
         NEW n \in 0 .. Len(s), m <= n + 1
  PROVE  /\ SubSeq(s, m, n) \in Seq(S)
         /\ Len(SubSeq(s, m, n)) = n + 1 - m
         /\ \A i \in 1 .. n + 1 - m : SubSeq(s, m, n)[i] = s[m + i - 1]
<1>1. \A i \in m .. n : s[i] \in S
  BY ElementOfSeq
<1> QED
  BY <1>1, SubSeqProperties

LEMMA InsertAtIs ==
  ASSUME NEW S, NEW s \in Seq(S), NEW j \in 1 .. Len(s) + 1, NEW e \in S
  PROVE  /\ InsertAt(s, j, e) \in Seq(S)
         /\ Len(InsertAt(s, j, e)) = Len(s) + 1
         /\ \A i \in 1 .. j - 1 : InsertAt(s, j, e)[i] = s[i]
         /\ InsertAt(s, j, e)[j] = e
         /\ \A i \in j .. Len(s) : InsertAt(s, j, e)[i + 1] = s[i]
<1> DEFINE a == SubSeq(s, 1, j - 1)
           b == SubSeq(s, j, Len(s))
<1>1. a \in Seq(S) /\ Len(a) = j - 1 /\ \A i \in 1 .. j - 1 : a[i] = s[i]
  BY PartIs
<1>2. /\ b \in Seq(S) /\ Len(b) = Len(s) + 1 - j
      /\ \A i \in 1 .. Len(s) + 1 - j : b[i] = s[j + i - 1]
  BY PartIs
<1> HIDE DEF a, b
<1> DEFINE c == a \o <<e>>
<1>3. /\ c \in Seq(S) /\ Len(c) = j
      /\ \A i \in 1 .. j - 1 : c[i] = s[i]
      /\ c[j] = e
  BY <1>1
<1> HIDE DEF c
<1>4. /\ c \o b \in Seq(S) /\ Len(c \o b) = Len(s) + 1
      /\ \A i \in 1 .. j : (c \o b)[i] = c[i]
      /\ \A i \in 1 .. Len(s) + 1 - j : (c \o b)[j + i] = b[i]
  <2>1. /\ c \o b \in Seq(S) /\ Len(c \o b) = Len(c) + Len(b)
        /\ \A i \in 1 .. Len(c) : (c \o b)[i] = c[i]
        /\ \A i \in 1 .. Len(b) : (c \o b)[Len(c) + i] = b[i]
    BY <1>2, <1>3, ConcatIs
  <2> QED
    BY <1>2, <1>3, <2>1, SMTT(20)
<1>5. ASSUME NEW i \in j .. Len(s) PROVE (c \o b)[i + 1] = s[i]
  <2>1. i + 1 - j \in 1 .. Len(s) + 1 - j /\ j + (i + 1 - j) = i + 1
    OBVIOUS
  <2>2. (c \o b)[i + 1] = b[i + 1 - j] /\ b[i + 1 - j] = s[j + (i + 1 - j) - 1]
    BY <1>2, <1>4, <2>1
  <2> QED
    BY <2>2
<1>6. InsertAt(s, j, e) = c \o b
  BY DEF InsertAt, a, b, c
<1> QED
  BY <1>3, <1>4, <1>5, <1>6

LEMMA RemoveAtIs ==
  ASSUME NEW S, NEW s \in Seq(S), NEW j \in 1 .. Len(s)
  PROVE  /\ RemoveAt(s, j) \in Seq(S)
         /\ Len(RemoveAt(s, j)) = Len(s) - 1
         /\ \A i \in 1 .. j - 1 : RemoveAt(s, j)[i] = s[i]
         /\ \A i \in j .. Len(s) - 1 : RemoveAt(s, j)[i] = s[i + 1]
<1> DEFINE a == SubSeq(s, 1, j - 1)
           b == SubSeq(s, j + 1, Len(s))
<1>1. a \in Seq(S) /\ Len(a) = j - 1 /\ \A i \in 1 .. j - 1 : a[i] = s[i]
  BY PartIs
<1>2. /\ b \in Seq(S) /\ Len(b) = Len(s) - j
      /\ \A i \in 1 .. Len(s) - j : b[i] = s[j + i]
  BY PartIs
<1> HIDE DEF a, b
<1>3. /\ a \o b \in Seq(S) /\ Len(a \o b) = Len(s) - 1
      /\ \A i \in 1 .. j - 1 : (a \o b)[i] = a[i]
      /\ \A i \in 1 .. Len(s) - j : (a \o b)[j - 1 + i] = b[i]
  BY <1>1, <1>2, ConcatIs
<1>4. ASSUME NEW i \in j .. Len(s) - 1 PROVE (a \o b)[i] = s[i + 1]
  <2>1. i + 1 - j \in 1 .. Len(s) - j /\ j - 1 + (i + 1 - j) = i
    OBVIOUS
  <2>2. (a \o b)[i] = b[i + 1 - j] /\ b[i + 1 - j] = s[j + (i + 1 - j)]
    BY <1>2, <1>3, <2>1
  <2> QED
    BY <2>2
<1>5. RemoveAt(s, j) = a \o b
  BY DEF RemoveAt, a, b
<1> QED
  BY <1>1, <1>3, <1>4, <1>5

LEMMA FrontIs ==
  ASSUME NEW S, NEW s \in Seq(S), s # <<>>
  PROVE  /\ Len(s) \in Nat \ {0} /\ Last(s) = s[Len(s)] /\ Last(s) \in S
         /\ Front(s) \in Seq(S) /\ Len(Front(s)) = Len(s) - 1
         /\ \A i \in 1 .. Len(s) - 1 : Front(s)[i] = s[i]
<1>1. Len(s) \in Nat \ {0}
  BY EmptySeq
<1>2. /\ Front(s) \in Seq(S) /\ Len(Front(s)) = Len(s) - 1
      /\ \A i \in 1 .. Len(s) - 1 : Front(s)[i] = s[i]
  <2> DEFINE n == Len(s) - 1
  <2>1. n \in 0 .. Len(s) /\ 1 <= n + 1 /\ 1 \in 1 .. Len(s) + 1
    BY <1>1
  <2> HIDE DEF n
  <2>2. /\ SubSeq(s, 1, n) \in Seq(S)
        /\ Len(SubSeq(s, 1, n)) = n + 1 - 1
        /\ \A i \in 1 .. n + 1 - 1 : SubSeq(s, 1, n)[i] = s[1 + i - 1]
    BY <2>1, PartIs
  <2> QED
    BY <1>1, <2>2 DEF Front, n
<1> QED
  BY <1>1, <1>2, ElementOfSeq DEF Last

-----------------------------------------------------------------------------
(* The allocator.                                                           *)

(* The pages an allocation may hand out, and their number.                  *)
Fresh(sp) == ToSet(sp.free_list) \cup (sp.page_count .. MaxPages)
Avail(sp) == Len(sp.free_list) + (MaxPages + 1 - sp.page_count)

Spaced(sp) ==
  /\ sp \in [free_list : Seq(PageIds), page_count : 1 .. MaxPages + 1]
  /\ IsInjective(sp.free_list)
  /\ ToSet(sp.free_list) \subseteq 1 .. sp.page_count - 1

(* The free list has no more pages than it has places.                      *)
Listed(sp) == Len(sp.free_list) <= FreeLimit

LEMMA AllocateLists ==
  ASSUME NEW sp, Spaced(sp), Listed(sp)
  PROVE  Listed(Allocate(sp))
<1> DEFINE s == sp.free_list
<1>1. /\ sp \in [free_list : Seq(PageIds), page_count : 1 .. MaxPages + 1]
      /\ s \in Seq(PageIds) /\ FreeLimit \in Nat
  BY TreeAssumption DEF Spaced
<1>2. CASE s = <<>>
  <2>1. Allocate(sp).free_list = s
    BY <1>1, <1>2 DEF Allocate
  <2> QED
    BY <2>1 DEF Listed
<1>3. CASE s # <<>>
  <2>1. Allocate(sp).free_list = Front(s)
    BY <1>1, <1>3 DEF Allocate
  <2>2. Len(Front(s)) = Len(s) - 1 /\ Len(s) \in Nat
    <3> HIDE DEF s
    <3> QED
      BY <1>1, <1>3, FrontIs
  <2> QED
    BY <1>1, <2>1, <2>2 DEF Listed
<1> QED
  BY <1>2, <1>3

LEMMA DeallocateLists ==
  ASSUME NEW sp, Spaced(sp), NEW p \in PageIds, Listed(sp)
  PROVE  Listed(Deallocate(sp, p))
<1> DEFINE s == sp.free_list
<1>1. /\ sp \in [free_list : Seq(PageIds), page_count : 1 .. MaxPages + 1]
      /\ s \in Seq(PageIds) /\ Len(s) \in Nat /\ FreeLimit \in Nat
  BY TreeAssumption, LenProperties DEF Spaced
<1>2. CASE ~(Len(s) < FreeLimit)
  BY <1>2 DEF Deallocate
<1>3. CASE Len(s) < FreeLimit
  <2>1. Deallocate(sp, p).free_list = Append(s, p)
    BY <1>1, <1>3 DEF Deallocate
  <2>2. Len(Append(s, p)) = Len(s) + 1
    BY <1>1, AppendProperties
  <2> QED
    BY <1>1, <1>3, <2>1, <2>2 DEF Listed
<1> QED
  BY <1>2, <1>3

(* A page is handed out that was free or beyond the file, and is it no more.*)
LEMMA AllocateIs ==
  ASSUME NEW sp, Spaced(sp), Avail(sp) >= 1
  PROVE  /\ Spaced(Allocate(sp)) /\ Avail(Allocate(sp)) = Avail(sp) - 1
         /\ Allocated(sp) \in PageIds \cap Fresh(sp)
         /\ Fresh(Allocate(sp)) = Fresh(sp) \ {Allocated(sp)}
<1> DEFINE s == sp.free_list
           n == sp.page_count
           new == Allocate(sp)
<1>1. /\ sp = [free_list |-> s, page_count |-> n]
      /\ s \in Seq(PageIds) /\ n \in 1 .. MaxPages + 1 /\ MaxPages \in Nat
      /\ DOMAIN s = 1 .. Len(s) /\ Len(s) \in Nat
  BY TreeAssumption, LenProperties DEF Spaced
<1>2. CASE s = <<>>
  <2>1. new = [free_list |-> s, page_count |-> n + 1] /\ Allocated(sp) = n
    BY <1>1, <1>2 DEF Allocate, Allocated
  <2>2. n <= MaxPages
    BY <1>1, <1>2, EmptySeq DEF Avail
  <2>3. ToSet(s) = {}
    BY <1>2 DEF ToSet
  <2> HIDE DEF s, n
  <2> QED
    BY <1>1, <2>1, <2>2, <2>3 DEF Spaced, Avail, Fresh, PageIds
<1>3. CASE s # <<>>
  <2>1. /\ new.free_list = Front(s) /\ new.page_count = n
        /\ new = [free_list |-> Front(s), page_count |-> n]
        /\ Allocated(sp) = s[Len(s)]
    BY <1>1, <1>3 DEF Allocate, Allocated, Last
  <2>2. /\ Front(s) \in Seq(PageIds) /\ Len(Front(s)) = Len(s) - 1
        /\ Len(s) \in Nat \ {0} /\ s[Len(s)] \in PageIds
        /\ \A i \in 1 .. Len(s) - 1 : Front(s)[i] = s[i]
        /\ DOMAIN Front(s) = 1 .. Len(s) - 1
    <3>1. /\ Len(s) \in Nat \ {0} /\ Last(s) = s[Len(s)] /\ Last(s) \in PageIds
          /\ Front(s) \in Seq(PageIds) /\ Len(Front(s)) = Len(s) - 1
          /\ \A i \in 1 .. Len(s) - 1 : Front(s)[i] = s[i]
      <4> HIDE DEF s
      <4> QED
        BY <1>1, <1>3, FrontIs
    <3>2. DOMAIN Front(s) = 1 .. Len(Front(s))
      BY <3>1, LenProperties
    <3> QED
      BY <3>1, <3>2
  <2>3. \A i, j \in 1 .. Len(s) : s[i] = s[j] => i = j
    BY <1>1 DEF Spaced, IsInjective
  <2>4. ToSet(Front(s)) = ToSet(s) \ {s[Len(s)]}
    <3>1. ToSet(Front(s)) = { s[i] : i \in 1 .. Len(s) - 1 }
      BY <2>2 DEF ToSet
    <3>2. ToSet(s) = { s[i] : i \in 1 .. Len(s) }
      BY <1>1 DEF ToSet
    <3> QED
      BY <2>2, <2>3, <3>1, <3>2
  <2>5. s[Len(s)] \in ToSet(s)
    BY <1>1, <2>2 DEF ToSet
  <2>6. ToSet(s) \subseteq 1 .. n - 1
    BY DEF Spaced
  <2>7. Fresh(new) = Fresh(sp) \ {s[Len(s)]}
    BY <1>1, <2>1, <2>4, <2>5, <2>6 DEF Fresh
  <2>8. IsInjective(Front(s))
    BY <2>2, <2>3 DEF IsInjective
  <2>9. Spaced(new)
    BY <1>1, <2>1, <2>2, <2>4, <2>6, <2>8 DEF Spaced
  <2>10. Avail(new) = Avail(sp) - 1
    BY <1>1, <2>1, <2>2 DEF Avail
  <2> QED
    BY <2>1, <2>2, <2>5, <2>7, <2>9, <2>10 DEF Fresh
<1> QED
  BY <1>2, <1>3

(* The page given back becomes available, if the list has room for it.      *)
LEMMA DeallocateIs ==
  ASSUME NEW sp, Spaced(sp), NEW p \in PageIds, p \notin Fresh(sp)
  PROVE  /\ Spaced(Deallocate(sp, p))
         /\ IF Len(sp.free_list) < FreeLimit
            THEN Fresh(Deallocate(sp, p)) = Fresh(sp) \cup {p}
            ELSE Fresh(Deallocate(sp, p)) = Fresh(sp)
<1> DEFINE s == sp.free_list
           n == sp.page_count
           t == Append(s, p)
<1>1. /\ sp = [free_list |-> s, page_count |-> n]
      /\ s \in Seq(PageIds) /\ n \in 1 .. MaxPages + 1 /\ MaxPages \in Nat
      /\ DOMAIN s = 1 .. Len(s) /\ Len(s) \in Nat
  BY TreeAssumption, LenProperties DEF Spaced
<1>2. CASE ~(Len(s) < FreeLimit)
  BY <1>2 DEF Deallocate
<1>3. CASE Len(s) < FreeLimit
  <2>1. Deallocate(sp, p) = [free_list |-> t, page_count |-> n]
    BY <1>1, <1>3 DEF Deallocate
  <2>2. /\ t \in Seq(PageIds) /\ Len(t) = Len(s) + 1
        /\ \A i \in 1 .. Len(s) : t[i] = s[i]
        /\ t[Len(s) + 1] = p
        /\ DOMAIN t = 1 .. Len(s) + 1
    BY <1>1, AppendProperties, LenProperties
  <2> HIDE DEF t
  <2>3. ToSet(t) = ToSet(s) \cup {p}
    BY <1>1, <2>2, SMTT(20) DEF ToSet
  <2>4. p \in 1 .. n - 1 /\ p \notin ToSet(s)
    BY <1>1 DEF Fresh, PageIds
  <2>5. \A i \in 1 .. Len(s) : s[i] # p
    BY <1>1, <2>4 DEF ToSet
  <2>6. \A i, j \in 1 .. Len(s) : s[i] = s[j] => i = j
    BY <1>1 DEF Spaced, IsInjective
  <2>7. IsInjective(t)
    BY <1>1, <2>2, <2>5, <2>6, SMTT(20) DEF IsInjective
  <2>8. Fresh(Deallocate(sp, p)) = Fresh(sp) \cup {p}
    BY <1>1, <2>1, <2>3 DEF Fresh
  <2>9. Spaced(Deallocate(sp, p))
    <3> HIDE DEF s, n
    <3> QED
      BY <1>1, <2>1, <2>2, <2>3, <2>4, <2>7 DEF Spaced
  <2> QED
    BY <1>3, <2>8, <2>9
<1> QED
  BY <1>2, <1>3

-----------------------------------------------------------------------------
(* Families.  K[q] are the children of page q, in order.                    *)

Families == [PageIds -> Seq(PageIds)]

(* No page is a child twice.                                                *)
Once(K) ==
  \A q, r \in PageIds : \A i \in 1 .. Len(K[q]), j \in 1 .. Len(K[r]) :
    K[q][i] = K[r][j] => q = r /\ i = j

KidsIn(K) == { c \in PageIds : \E q \in PageIds : \E i \in 1 .. Len(K[q]) :
                                 K[q][i] = c }

(* Every child is one level below its parent.                               *)
Levels(K, h) ==
  \A q \in PageIds : \A i \in 1 .. Len(K[q]) : h[q] = h[K[q][i]] + 1

LEMMA KidIs ==
  ASSUME NEW K \in Families, NEW q \in PageIds, NEW i \in 1 .. Len(K[q])
  PROVE  K[q][i] \in PageIds /\ K[q][i] \in KidsIn(K)
<1>1. K[q] \in Seq(PageIds)
  BY DEF Families
<1>2. K[q][i] \in PageIds
  BY <1>1, ElementOfSeq
<1> QED
  BY <1>2 DEF KidsIn

LEMMA KidsWithin ==
  ASSUME NEW L, NEW S,
         \A q \in PageIds : \A i \in 1 .. Len(L[q]) : L[q][i] \in S
  PROVE  KidsIn(L) \subseteq S
BY DEF KidsIn

LEMMA LenIs ==
  ASSUME NEW K \in Families, NEW q \in PageIds
  PROVE  K[q] \in Seq(PageIds) /\ Len(K[q]) \in Nat
<1>1. K[q] \in Seq(PageIds)
  BY DEF Families
<1> QED
  BY <1>1, LenProperties

(* The families of two pages after one another, and where a child stands.   *)
Joined(K, l, r) == K[l] \o K[r]
Stand(K, l, q, i) == IF q = l THEN i ELSE Len(K[l]) + i

StandsIn(K, l, r, both) ==
  /\ \A q \in {l, r} : \A i \in 1 .. Len(K[q]) :
       /\ Stand(K, l, q, i) \in 1 .. Len(both)
       /\ both[Stand(K, l, q, i)] = K[q][i]
  /\ \A n \in 1 .. Len(both) : \E q \in {l, r} : \E i \in 1 .. Len(K[q]) :
       n = Stand(K, l, q, i)

LEMMA PairIs ==
  ASSUME NEW K \in Families, NEW l \in PageIds, NEW r \in PageIds, l # r
  PROVE  StandsIn(K, l, r, Joined(K, l, r))
<1> DEFINE a == K[l]
           b == K[r]
           both == Joined(K, l, r)
<1>1. a \in Seq(PageIds) /\ b \in Seq(PageIds) /\ both = a \o b
  BY DEF Families, Joined
<1>2. Len(a) \in Nat /\ Len(b) \in Nat
  BY LenIs
<1> HIDE DEF a, b, both
<1>3. /\ Len(both) = Len(a) + Len(b)
      /\ \A i \in 1 .. Len(a) : both[i] = a[i]
      /\ \A i \in 1 .. Len(b) : both[Len(a) + i] = b[i]
  BY <1>1, ConcatIs
<1>4. /\ \A i \in 1 .. Len(a) : i \in 1 .. Len(both)
      /\ \A i \in 1 .. Len(b) : Len(a) + i \in 1 .. Len(both)
  BY <1>2, <1>3
<1>5. \A n \in 1 .. Len(both) :
        n \in 1 .. Len(a) \/ \E i \in 1 .. Len(b) : n = Len(a) + i
  <2> SUFFICES ASSUME NEW n \in 1 .. Len(both), n \notin 1 .. Len(a)
               PROVE  \E i \in 1 .. Len(b) : n = Len(a) + i
    OBVIOUS
  <2>1. n - Len(a) \in 1 .. Len(b) /\ n = Len(a) + (n - Len(a))
    BY <1>2, <1>3
  <2> QED
    BY <2>1
<1>6. /\ \A i : Stand(K, l, l, i) = i
      /\ \A i : Stand(K, l, r, i) = Len(a) + i
  BY DEF Stand, a
<1>7. /\ \A i \in 1 .. Len(K[l]) : /\ Stand(K, l, l, i) \in 1 .. Len(both)
                                   /\ both[Stand(K, l, l, i)] = K[l][i]
      /\ \A i \in 1 .. Len(K[r]) : /\ Stand(K, l, r, i) \in 1 .. Len(both)
                                   /\ both[Stand(K, l, r, i)] = K[r][i]
  BY <1>3, <1>4, <1>6, Zenon DEF a, b
<1>8. \A n \in 1 .. Len(both) : \/ \E i \in 1 .. Len(K[l]) : n = Stand(K, l, l, i)
                                \/ \E i \in 1 .. Len(K[r]) : n = Stand(K, l, r, i)
  BY <1>5, <1>6, Zenon DEF a, b
<1> QED
  BY <1>7, <1>8, Zenon DEF StandsIn, both

(* Two pages share their children out anew, in the same order.              *)
LEMMA SharedOut ==
  ASSUME NEW K \in Families, NEW L \in Families,
         NEW l \in PageIds, NEW r \in PageIds, l # r,
         Joined(L, l, r) = Joined(K, l, r),
         \A q \in PageIds \ {l, r} : L[q] = K[q],
         Once(K)
  PROVE  /\ Once(L) /\ KidsIn(L) = KidsIn(K)
         /\ \A h \in [PageIds -> Nat] : Levels(K, h) /\ h[l] = h[r] => Levels(L, h)
<1> DEFINE both == Joined(K, l, r)
<1>1. StandsIn(K, l, r, both)
  BY PairIs
<1>2. StandsIn(L, l, r, both)
  <2>1. StandsIn(L, l, r, Joined(L, l, r))
    BY PairIs
  <2> QED
    BY <2>1
<1> HIDE DEF both
<1>3. \A q \in {l, r} : q \in PageIds
  OBVIOUS
<1>4. \A m, n \in 1 .. Len(both) : both[m] = both[n] => m = n
  <2> SUFFICES ASSUME NEW m \in 1 .. Len(both), NEW n \in 1 .. Len(both),
                      both[m] = both[n]
               PROVE  m = n
    OBVIOUS
  <2>1. PICK q1 \in {l, r} : \E i \in 1 .. Len(K[q1]) : m = Stand(K, l, q1, i)
    BY <1>1, Zenon DEF StandsIn
  <2>2. PICK q2 \in {l, r} : \E i \in 1 .. Len(K[q2]) : n = Stand(K, l, q2, i)
    BY <1>1, Zenon DEF StandsIn
  <2>3. PICK i1 \in 1 .. Len(K[q1]) : m = Stand(K, l, q1, i1)
    BY <2>1
  <2>4. PICK i2 \in 1 .. Len(K[q2]) : n = Stand(K, l, q2, i2)
    BY <2>2
  <2>5. K[q1][i1] = both[m] /\ K[q2][i2] = both[n]
    BY <1>1, <2>3, <2>4, Zenon DEF StandsIn
  <2>6. K[q1][i1] = K[q2][i2]
    BY <2>5
  <2>7. q1 = q2 /\ i1 = i2
    BY <1>3, <2>6 DEF Once
  <2> QED
    BY <2>3, <2>4, <2>7, Zenon
<1>5. \A q \in {l, r} : \A i \in 1 .. Len(L[q]) :
        \E p \in {l, r} : \E j \in 1 .. Len(K[p]) : K[p][j] = L[q][i]
  <2> SUFFICES ASSUME NEW q \in {l, r}, NEW i \in 1 .. Len(L[q])
               PROVE  \E p \in {l, r} : \E j \in 1 .. Len(K[p]) : K[p][j] = L[q][i]
    OBVIOUS
  <2>1. PICK n \in 1 .. Len(both) : both[n] = L[q][i]
    BY <1>1, <1>2, Zenon DEF StandsIn
  <2>2. PICK p \in {l, r} : \E j \in 1 .. Len(K[p]) : n = Stand(K, l, p, j)
    BY <1>1, <1>2, Zenon DEF StandsIn
  <2>3. PICK j \in 1 .. Len(K[p]) : n = Stand(K, l, p, j)
    BY <2>2
  <2>4. K[p][j] = L[q][i]
    BY <1>1, <1>2, <2>1, <2>3, Zenon DEF StandsIn
  <2> QED
    BY <2>4
<1>6. \A q \in {l, r} : \A i \in 1 .. Len(K[q]) :
        \E p \in {l, r} : \E j \in 1 .. Len(L[p]) : L[p][j] = K[q][i]
  <2> SUFFICES ASSUME NEW q \in {l, r}, NEW i \in 1 .. Len(K[q])
               PROVE  \E p \in {l, r} : \E j \in 1 .. Len(L[p]) : L[p][j] = K[q][i]
    OBVIOUS
  <2>1. PICK n \in 1 .. Len(both) : both[n] = K[q][i]
    BY <1>1, <1>2, Zenon DEF StandsIn
  <2>2. PICK p \in {l, r} : \E j \in 1 .. Len(L[p]) : n = Stand(L, l, p, j)
    BY <1>1, <1>2, Zenon DEF StandsIn
  <2>3. PICK j \in 1 .. Len(L[p]) : n = Stand(L, l, p, j)
    BY <2>2
  <2>4. L[p][j] = K[q][i]
    BY <1>1, <1>2, <2>1, <2>3, Zenon DEF StandsIn
  <2> QED
    BY <2>4
<1>7. Once(L)
  <2> SUFFICES ASSUME NEW q1 \in PageIds, NEW q2 \in PageIds,
                      NEW i1 \in 1 .. Len(L[q1]), NEW i2 \in 1 .. Len(L[q2]),
                      L[q1][i1] = L[q2][i2]
               PROVE  q1 = q2 /\ i1 = i2
    BY DEF Once
  <2>1. CASE q1 \in {l, r} /\ q2 \in {l, r}
    <3>1. /\ Stand(L, l, q1, i1) \in 1 .. Len(both)
          /\ Stand(L, l, q2, i2) \in 1 .. Len(both)
          /\ both[Stand(L, l, q1, i1)] = both[Stand(L, l, q2, i2)]
      BY <1>2, <2>1, Zenon DEF StandsIn
    <3>2. Stand(L, l, q1, i1) = Stand(L, l, q2, i2)
      BY <1>4, <3>1, Zenon
    <3>3. Len(L[l]) \in Nat /\ Len(L[r]) \in Nat
      BY LenIs
    <3> QED
      BY <2>1, <3>2, <3>3 DEF Stand
  <2>2. CASE q1 \in {l, r} /\ q2 \notin {l, r}
    <3>1. PICK p \in {l, r} : \E j \in 1 .. Len(K[p]) : K[p][j] = L[q1][i1]
      BY <1>5, <2>2, Zenon
    <3>2. PICK j \in 1 .. Len(K[p]) : K[p][j] = L[q1][i1]
      BY <3>1
    <3>3. i2 \in 1 .. Len(K[q2]) /\ K[q2][i2] = K[p][j]
      BY <2>2, <3>2
    <3> QED
      BY <1>3, <2>2, <3>3, Zenon DEF Once
  <2>3. CASE q1 \notin {l, r} /\ q2 \in {l, r}
    <3>1. PICK p \in {l, r} : \E j \in 1 .. Len(K[p]) : K[p][j] = L[q2][i2]
      BY <1>5, <2>3, Zenon
    <3>2. PICK j \in 1 .. Len(K[p]) : K[p][j] = L[q2][i2]
      BY <3>1
    <3>3. i1 \in 1 .. Len(K[q1]) /\ K[q1][i1] = K[p][j]
      BY <2>3, <3>2
    <3> QED
      BY <1>3, <2>3, <3>3, Zenon DEF Once
  <2>4. CASE q1 \notin {l, r} /\ q2 \notin {l, r}
    BY <2>4 DEF Once
  <2> QED
    BY <2>1, <2>2, <2>3, <2>4
<1>8. KidsIn(L) \subseteq KidsIn(K)
  <2> SUFFICES ASSUME NEW q \in PageIds, NEW i \in 1 .. Len(L[q])
               PROVE  L[q][i] \in KidsIn(K)
    BY KidsWithin
  <2>1. CASE q \in {l, r}
    <3>1. PICK p \in {l, r} : \E j \in 1 .. Len(K[p]) : K[p][j] = L[q][i]
      BY <1>5, <2>1, Zenon
    <3> QED
      BY <1>3, <3>1, KidIs
  <2>2. CASE q \notin {l, r}
    BY <2>2, KidIs
  <2> QED
    BY <2>1, <2>2
<1>9. KidsIn(K) \subseteq KidsIn(L)
  <2> SUFFICES ASSUME NEW q \in PageIds, NEW i \in 1 .. Len(K[q])
               PROVE  K[q][i] \in KidsIn(L)
    BY KidsWithin
  <2>1. CASE q \in {l, r}
    <3>1. PICK p \in {l, r} : \E j \in 1 .. Len(L[p]) : L[p][j] = K[q][i]
      BY <1>6, <2>1, Zenon
    <3> QED
      BY <1>3, <3>1, KidIs
  <2>2. CASE q \notin {l, r}
    BY <2>2, KidIs
  <2> QED
    BY <2>1, <2>2
<1>10. ASSUME NEW h \in [PageIds -> Nat], Levels(K, h), h[l] = h[r]
       PROVE  Levels(L, h)
  <2> SUFFICES ASSUME NEW q \in PageIds, NEW i \in 1 .. Len(L[q])
               PROVE  h[q] = h[L[q][i]] + 1
    BY DEF Levels
  <2>1. CASE q \in {l, r}
    <3>1. PICK p \in {l, r} : \E j \in 1 .. Len(K[p]) : K[p][j] = L[q][i]
      BY <1>5, <2>1, Zenon
    <3>2. PICK j \in 1 .. Len(K[p]) : K[p][j] = L[q][i]
      BY <3>1
    <3>3. h[p] = h[L[q][i]] + 1
      BY <1>3, <1>10, <3>2, Zenon DEF Levels
    <3> QED
      BY <1>10, <2>1, <3>3
  <2>2. CASE q \notin {l, r}
    BY <1>10, <2>2 DEF Levels
  <2> QED
    BY <2>1, <2>2
<1> QED
  BY <1>7, <1>8, <1>9, <1>10

(* t is s with e put in at place j.                                         *)
Inserted(s, t, j, e) ==
  /\ j \in 1 .. Len(s) + 1
  /\ Len(t) = Len(s) + 1 /\ t[j] = e
  /\ \A i \in 1 .. j - 1 : t[i] = s[i]
  /\ \A i \in j .. Len(s) : t[i + 1] = s[i]

(* A page that was no child becomes one.                                    *)
LEMMA Grafted ==
  ASSUME NEW K \in Families, NEW L \in Families, NEW q \in PageIds,
         NEW j, NEW c \in PageIds, c \notin KidsIn(K),
         \A p \in PageIds \ {q} : L[p] = K[p],
         Inserted(K[q], L[q], j, c),
         Once(K)
  PROVE  /\ Once(L) /\ KidsIn(L) = KidsIn(K) \cup {c}
         /\ \A h \in [PageIds -> Nat] :
              Levels(K, h) /\ h[q] = h[c] + 1 => Levels(L, h)
<1> DEFINE Of(p, i) == IF p = q /\ i > j THEN i - 1 ELSE i
<1>0. /\ j \in 1 .. Len(K[q]) + 1
      /\ Len(L[q]) = Len(K[q]) + 1 /\ L[q][j] = c
      /\ \A i \in 1 .. j - 1 : L[q][i] = K[q][i]
      /\ \A i \in j .. Len(K[q]) : L[q][i + 1] = K[q][i]
  BY DEF Inserted
<1>1. \A p \in PageIds : Len(K[p]) \in Nat /\ Len(L[p]) \in Nat
  BY LenProperties DEF Families
<1>2. ASSUME NEW p \in PageIds, NEW i \in 1 .. Len(L[p]), <<p, i>> # <<q, j>>
      PROVE  Of(p, i) \in 1 .. Len(K[p]) /\ L[p][i] = K[p][Of(p, i)]
  <2>1. CASE p = q /\ i > j
    <3>1. i - 1 \in j .. Len(K[q]) /\ (i - 1) + 1 = i
      BY <1>0, <1>1, <2>1
    <3>2. i - 1 \in 1 .. Len(K[q])
      BY <1>0, <1>1, <3>1
    <3> QED
      BY <1>0, <2>1, <3>1, <3>2
  <2>2. CASE p = q /\ i < j
    <3>1. i \in 1 .. j - 1 /\ i \in 1 .. Len(K[q])
      BY <1>0, <1>1, <2>2
    <3> QED
      BY <1>0, <2>2, <3>1
  <2>3. CASE p # q
    BY <2>3
  <2>4. p = q => i # j
    BY <1>2
  <2>5. j \in Int /\ i \in Int
    BY <1>0, <1>1
  <2> QED
    BY <2>1, <2>2, <2>3, <2>4, <2>5
<1>3. \A p \in PageIds : \A i \in 1 .. Len(K[p]) : K[p][i] # c
  BY DEF KidsIn
<1>4. Once(L)
  <2> SUFFICES ASSUME NEW q1 \in PageIds, NEW q2 \in PageIds,
                      NEW i1 \in 1 .. Len(L[q1]), NEW i2 \in 1 .. Len(L[q2]),
                      L[q1][i1] = L[q2][i2]
               PROVE  q1 = q2 /\ i1 = i2
    BY DEF Once
  <2>1. CASE <<q1, i1>> = <<q, j>>
    <3>1. L[q2][i2] = c
      BY <1>0, <2>1
    <3>2. <<q2, i2>> = <<q, j>>
      BY <1>2, <1>3, <3>1
    <3> QED
      BY <2>1, <3>2
  <2>2. CASE <<q2, i2>> = <<q, j>>
    <3>1. L[q1][i1] = c
      BY <1>0, <2>2
    <3>2. <<q1, i1>> = <<q, j>>
      BY <1>2, <1>3, <3>1
    <3> QED
      BY <2>2, <3>2
  <2>3. CASE <<q1, i1>> # <<q, j>> /\ <<q2, i2>> # <<q, j>>
    <3>1. K[q1][Of(q1, i1)] = K[q2][Of(q2, i2)]
      BY <1>2, <2>3
    <3>2. Of(q1, i1) \in 1 .. Len(K[q1]) /\ Of(q2, i2) \in 1 .. Len(K[q2])
      BY <1>2, <2>3
    <3>3. q1 = q2 /\ Of(q1, i1) = Of(q2, i2)
      BY <3>1, <3>2 DEF Once
    <3> QED
      BY <1>0, <1>1, <2>3, <3>3
  <2> QED
    BY <2>1, <2>2, <2>3
<1>5. KidsIn(L) \subseteq KidsIn(K) \cup {c}
  <2> SUFFICES ASSUME NEW p \in PageIds, NEW i \in 1 .. Len(L[p])
               PROVE  L[p][i] \in KidsIn(K) \cup {c}
    BY KidsWithin
  <2>1. CASE <<p, i>> = <<q, j>>
    BY <1>0, <2>1
  <2>2. CASE <<p, i>> # <<q, j>>
    BY <1>2, <2>2, KidIs
  <2> QED
    BY <2>1, <2>2
<1>6. KidsIn(K) \cup {c} \subseteq KidsIn(L)
  <2>1. j \in 1 .. Len(L[q])
    BY <1>0, <1>1
  <2>2. ASSUME NEW p \in PageIds, NEW i \in 1 .. Len(K[p])
        PROVE  K[p][i] \in KidsIn(L)
    <3>1. CASE p = q /\ i >= j
      <4>1. i \in j .. Len(K[q]) /\ i + 1 \in 1 .. Len(L[q])
        BY <1>0, <1>1, <3>1
      <4>2. L[q][i + 1] = K[q][i]
        BY <1>0, <4>1
      <4> QED
        BY <3>1, <4>1, <4>2, KidIs
    <3>2. CASE p = q /\ i < j
      <4>1. i \in 1 .. j - 1 /\ i \in 1 .. Len(L[q])
        BY <1>0, <1>1, <3>2
      <4>2. L[q][i] = K[q][i]
        BY <1>0, <4>1
      <4> QED
        BY <3>2, <4>1, <4>2, KidIs
    <3>3. CASE p # q
      BY <3>3, KidIs
    <3>4. j \in Int /\ i \in Int
      BY <1>0, <1>1
    <3> QED
      BY <3>1, <3>2, <3>3, <3>4
  <2>3. c \in KidsIn(L)
    BY <1>0, <2>1, KidIs
  <2>4. KidsIn(K) \subseteq KidsIn(L)
    BY <2>2, KidsWithin
  <2> QED
    BY <2>3, <2>4
<1>7. ASSUME NEW h \in [PageIds -> Nat], Levels(K, h), h[q] = h[c] + 1
      PROVE  Levels(L, h)
  <2> SUFFICES ASSUME NEW p \in PageIds, NEW i \in 1 .. Len(L[p])
               PROVE  h[p] = h[L[p][i]] + 1
    BY DEF Levels
  <2>1. CASE <<p, i>> = <<q, j>>
    BY <1>0, <1>7, <2>1
  <2>2. CASE <<p, i>> # <<q, j>>
    <3>1. Of(p, i) \in 1 .. Len(K[p]) /\ L[p][i] = K[p][Of(p, i)]
      BY <1>2, <2>2
    <3> QED
      BY <1>7, <3>1 DEF Levels
  <2> QED
    BY <2>1, <2>2
<1> QED
  BY <1>4, <1>5, <1>6, <1>7

(* A child is taken away from its parent.                                   *)
LEMMA Pruned ==
  ASSUME NEW K \in Families, NEW L \in Families, NEW q \in PageIds,
         NEW j \in 1 .. Len(K[q]),
         \A p \in PageIds \ {q} : L[p] = K[p],
         L[q] = RemoveAt(K[q], j),
         Once(K)
  PROVE  /\ Once(L) /\ KidsIn(L) = KidsIn(K) \ {K[q][j]}
         /\ \A h \in [PageIds -> Nat] : Levels(K, h) => Levels(L, h)
<1> DEFINE Of(p, i) == IF p = q /\ i >= j THEN i + 1 ELSE i
<1>1. \A p \in PageIds : Len(K[p]) \in Nat /\ Len(L[p]) \in Nat
  BY LenProperties DEF Families
<1>2. /\ Len(L[q]) = Len(K[q]) - 1
      /\ \A i \in 1 .. j - 1 : L[q][i] = K[q][i]
      /\ \A i \in j .. Len(K[q]) - 1 : L[q][i] = K[q][i + 1]
  <2>1. K[q] \in Seq(PageIds)
    BY DEF Families
  <2> QED
    BY <2>1, RemoveAtIs, SMTT(20)
<1>3. ASSUME NEW p \in PageIds, NEW i \in 1 .. Len(L[p])
      PROVE  /\ Of(p, i) \in 1 .. Len(K[p]) /\ L[p][i] = K[p][Of(p, i)]
             /\ <<p, Of(p, i)>> # <<q, j>>
  <2>1. CASE p = q /\ i >= j
    <3>1. i \in j .. Len(K[q]) - 1 /\ i + 1 \in 1 .. Len(K[q])
      BY <1>1, <1>2, <2>1
    <3> QED
      BY <1>2, <2>1, <3>1
  <2>2. CASE p = q /\ i < j
    BY <1>1, <1>2, <2>2
  <2>3. CASE p # q
    BY <2>3
  <2> QED
    BY <1>1, <2>1, <2>2, <2>3
<1>4. Once(L)
  <2> SUFFICES ASSUME NEW q1 \in PageIds, NEW q2 \in PageIds,
                      NEW i1 \in 1 .. Len(L[q1]), NEW i2 \in 1 .. Len(L[q2]),
                      L[q1][i1] = L[q2][i2]
               PROVE  q1 = q2 /\ i1 = i2
    BY DEF Once
  <2>1. /\ Of(q1, i1) \in 1 .. Len(K[q1]) /\ Of(q2, i2) \in 1 .. Len(K[q2])
        /\ K[q1][Of(q1, i1)] = K[q2][Of(q2, i2)]
    BY <1>3
  <2>2. q1 = q2 /\ Of(q1, i1) = Of(q2, i2)
    BY <2>1 DEF Once
  <2> QED
    BY <1>1, <2>2
<1>5. KidsIn(L) \subseteq KidsIn(K) \ {K[q][j]}
  <2> SUFFICES ASSUME NEW p \in PageIds, NEW i \in 1 .. Len(L[p])
               PROVE  L[p][i] \in KidsIn(K) \ {K[q][j]}
    BY KidsWithin
  <2>1. /\ Of(p, i) \in 1 .. Len(K[p]) /\ L[p][i] = K[p][Of(p, i)]
        /\ <<p, Of(p, i)>> # <<q, j>>
    BY <1>3
  <2> HIDE DEF Of
  <2>2. L[p][i] # K[q][j]
    BY <2>1 DEF Once
  <2> QED
    BY <2>1, <2>2, KidIs
<1>6. KidsIn(K) \ {K[q][j]} \subseteq KidsIn(L)
  <2> SUFFICES ASSUME NEW p \in PageIds, NEW i \in 1 .. Len(K[p]), K[p][i] # K[q][j]
               PROVE  \E n \in 1 .. Len(L[p]) : L[p][n] = K[p][i]
    BY DEF KidsIn
  <2>1. CASE p = q /\ i > j
    <3>1. /\ i - 1 \in j .. Len(K[q]) - 1 /\ i - 1 \in 1 .. Len(L[q])
          /\ (i - 1) + 1 = i
      BY <1>1, <1>2, <2>1
    <3>2. L[q][i - 1] = K[q][(i - 1) + 1]
      BY <1>2, <3>1
    <3> QED
      BY <2>1, <3>1, <3>2
  <2>2. CASE p = q /\ i < j
    <3>1. i \in 1 .. j - 1 /\ i \in 1 .. Len(L[q])
      BY <1>1, <1>2, <2>2
    <3> QED
      BY <1>2, <2>2, <3>1
  <2>3. CASE p # q
    BY <2>3
  <2> QED
    BY <1>1, <2>1, <2>2, <2>3
<1>7. \A h \in [PageIds -> Nat] : Levels(K, h) => Levels(L, h)
  <2> SUFFICES ASSUME NEW h \in [PageIds -> Nat], Levels(K, h),
                      NEW p \in PageIds, NEW i \in 1 .. Len(L[p])
               PROVE  h[p] = h[L[p][i]] + 1
    BY DEF Levels
  <2>1. Of(p, i) \in 1 .. Len(K[p]) /\ L[p][i] = K[p][Of(p, i)]
    BY <1>3
  <2> QED
    BY <2>1 DEF Levels
<1> QED
  BY <1>4, <1>5, <1>6, <1>7

(* A page without parent and children may be on any level.                  *)
LEMMA LevelGiven ==
  ASSUME NEW K \in Families, NEW h \in [PageIds -> Nat], Levels(K, h),
         NEW x \in PageIds, x \notin KidsIn(K), Len(K[x]) = 0, NEW v \in Nat
  PROVE  /\ [h EXCEPT ![x] = v] \in [PageIds -> Nat]
         /\ Levels(K, [h EXCEPT ![x] = v])
<1> DEFINE g == [h EXCEPT ![x] = v]
<1>1. g \in [PageIds -> Nat] /\ \A q \in PageIds \ {x} : g[q] = h[q]
  OBVIOUS
<1> HIDE DEF g
<1>2. ASSUME NEW q \in PageIds, NEW i \in 1 .. Len(K[q])
      PROVE  g[q] = g[K[q][i]] + 1
  <2>1. q # x
    OBVIOUS
  <2>2. K[q][i] \in PageIds /\ K[q][i] # x
    BY KidIs
  <2>3. h[q] = h[K[q][i]] + 1
    BY DEF Levels
  <2> QED
    BY <1>1, <2>1, <2>2, <2>3
<1> QED
  BY <1>1, <1>2 DEF Levels, g

-----------------------------------------------------------------------------
(* Nodes.                                                                   *)

LeafNodes == [leaf : {TRUE}, data : Seq(Keys \X Rids), next : 0 .. MaxPages]
MiddleNodes ==
  { n \in [leaf : {FALSE}, keys : Seq(Keys), pointers : Seq(PageIds)] :
      Len(n.pointers) = Len(n.keys) + 1 }
Nodes == LeafNodes \cup MiddleNodes

Size(pg, p) == Len(KeysOf(pg[p]))

(* The children of each page.                                               *)
Kids(pg) == [p \in PageIds |-> IF pg[p].leaf THEN <<>> ELSE pg[p].pointers]

LEMMA Constants == /\ T \in Nat /\ T >= 2 /\ MinKeys = T - 1 /\ MaxKeys = 2 * T - 1
                   /\ MaxPages \in Nat \ {0}
BY TreeAssumption DEF MinKeys, MaxKeys

LEMMA LeafIs ==
  ASSUME NEW n \in LeafNodes
  PROVE  /\ n.leaf = TRUE /\ n.data \in Seq(Keys \X Rids) /\ n.next \in 0 .. MaxPages
         /\ n = Leaf(n.data, n.next)
         /\ KeysOf(n) \in Seq(Keys) /\ Len(KeysOf(n)) = Len(n.data)
         /\ Len(n.data) \in Nat
         /\ \A i \in 1 .. Len(n.data) : KeysOf(n)[i] = n.data[i][1]
<1>1. /\ n.leaf = TRUE /\ n.data \in Seq(Keys \X Rids) /\ n.next \in 0 .. MaxPages
      /\ n = Leaf(n.data, n.next)
  BY DEF LeafNodes, Leaf
<1> DEFINE d == n.data
           k == [i \in 1 .. Len(d) |-> d[i][1]]
<1>2. Len(d) \in Nat /\ DOMAIN d = 1 .. Len(d) /\ \A i \in 1 .. Len(d) : d[i] \in Keys \X Rids
  BY <1>1, LenProperties, ElementOfSeq
<1>3. KeysOf(n) = k
  BY <1>1, <1>2 DEF KeysOf
<1> HIDE DEF d
<1>4. k \in [1 .. Len(d) -> Keys]
  BY <1>2
<1>5. k \in Seq(Keys)
  BY <1>2, <1>4, SeqDef
<1>6. Len(k) \in Nat /\ 1 .. Len(k) = 1 .. Len(d)
  <2>1. Len(k) \in Nat /\ DOMAIN k = 1 .. Len(k)
    BY <1>5, LenProperties
  <2> QED
    BY <2>1
<1>7. Len(k) = Len(d)
  <2> HIDE DEF k
  <2>1. CASE Len(k) < Len(d)
    BY <1>2, <1>6, <2>1
  <2>2. CASE Len(k) > Len(d)
    BY <1>2, <1>6, <2>2
  <2> QED
    BY <1>2, <1>6, <2>1, <2>2
<1> QED
  BY <1>1, <1>2, <1>3, <1>5, <1>7 DEF d

LEMMA MiddleIs ==
  ASSUME NEW n \in MiddleNodes
  PROVE  /\ n.leaf = FALSE /\ n.keys \in Seq(Keys) /\ n.pointers \in Seq(PageIds)
         /\ n = Middle(n.keys, n.pointers)
         /\ KeysOf(n) = n.keys /\ Len(n.pointers) = Len(n.keys) + 1
         /\ Len(n.keys) \in Nat
<1>1. /\ n.leaf = FALSE /\ n.keys \in Seq(Keys) /\ n.pointers \in Seq(PageIds)
      /\ n = Middle(n.keys, n.pointers) /\ Len(n.pointers) = Len(n.keys) + 1
  BY DEF MiddleNodes, Middle
<1> QED
  BY <1>1, LenProperties DEF KeysOf

LEMMA NodeIs ==
  ASSUME NEW n \in Nodes
  PROVE  /\ n.leaf \in BOOLEAN
         /\ n.leaf => n \in LeafNodes
         /\ ~n.leaf => n \in MiddleNodes
         /\ KeysOf(n) \in Seq(Keys) /\ Len(KeysOf(n)) \in Nat
<1>1. CASE n \in LeafNodes
  BY <1>1, LeafIs
<1>2. CASE n \in MiddleNodes
  BY <1>2, MiddleIs
<1> QED
  BY <1>1, <1>2 DEF Nodes

LEMMA LeafMade ==
  ASSUME NEW d \in Seq(Keys \X Rids), NEW x \in 0 .. MaxPages
  PROVE  /\ Leaf(d, x) \in LeafNodes /\ Leaf(d, x).leaf = TRUE
         /\ Leaf(d, x).data = d /\ Leaf(d, x).next = x
         /\ Len(KeysOf(Leaf(d, x))) = Len(d)
<1>1. /\ Leaf(d, x) \in LeafNodes /\ Leaf(d, x).leaf = TRUE
      /\ Leaf(d, x).data = d /\ Leaf(d, x).next = x
  BY DEF Leaf, LeafNodes
<1> QED
  BY <1>1, LeafIs

LEMMA MiddleMade ==
  ASSUME NEW k \in Seq(Keys), NEW p \in Seq(PageIds), Len(p) = Len(k) + 1
  PROVE  /\ Middle(k, p) \in MiddleNodes /\ Middle(k, p).leaf = FALSE
         /\ Middle(k, p).keys = k /\ Middle(k, p).pointers = p
         /\ KeysOf(Middle(k, p)) = k
BY DEF Middle, MiddleNodes, KeysOf

LEMMA BlankIs == Blank \in LeafNodes /\ Blank.leaf = TRUE /\ Len(KeysOf(Blank)) = 0
<1>1. <<>> \in Seq(Keys \X Rids) /\ Len(<<>>) = 0
  BY EmptySeq
<1>2. 0 \in 0 .. MaxPages
  BY Constants
<1> QED
  BY <1>1, <1>2, LeafMade DEF Blank

LEMMA KidsAre ==
  ASSUME NEW pg \in [PageIds -> Nodes]
  PROVE  /\ Kids(pg) \in Families
         /\ \A p \in PageIds :
              /\ pg[p] \in Nodes /\ Size(pg, p) \in Nat
              /\ pg[p].leaf => Kids(pg)[p] = <<>> /\ Len(Kids(pg)[p]) = 0
              /\ ~pg[p].leaf => /\ Kids(pg)[p] = pg[p].pointers
                                /\ Len(Kids(pg)[p]) = Size(pg, p) + 1
                                /\ pg[p] \in MiddleNodes
<1>1. ASSUME NEW p \in PageIds
      PROVE  /\ pg[p] \in Nodes /\ Size(pg, p) \in Nat /\ Kids(pg)[p] \in Seq(PageIds)
             /\ pg[p].leaf => Kids(pg)[p] = <<>> /\ Len(Kids(pg)[p]) = 0
             /\ ~pg[p].leaf => /\ Kids(pg)[p] = pg[p].pointers
                               /\ Len(Kids(pg)[p]) = Size(pg, p) + 1
                               /\ pg[p] \in MiddleNodes
  <2>1. pg[p] \in Nodes
    OBVIOUS
  <2>2. Kids(pg)[p] = IF pg[p].leaf THEN <<>> ELSE pg[p].pointers
    BY DEF Kids
  <2>3. CASE pg[p].leaf
    BY <2>1, <2>2, <2>3, NodeIs, EmptySeq DEF Size
  <2>4. CASE ~pg[p].leaf
    BY <2>1, <2>2, <2>4, NodeIs, MiddleIs DEF Size
  <2> QED
    BY <2>3, <2>4
<1>2. Kids(pg) = [p \in PageIds |-> Kids(pg)[p]]
  BY DEF Kids
<1> QED
  BY <1>1, <1>2 DEF Families

LEMMA CountUpTo ==
  ASSUME NEW m \in Nat, NEW S \in SUBSET (1 .. m)
  PROVE  Cardinality(S) \in 0 .. m
<1>1. IsFiniteSet(1 .. m) /\ Cardinality(1 .. m) = m
  BY FS_Interval
<1>2. IsFiniteSet(S) /\ Cardinality(S) <= Cardinality(1 .. m)
  BY <1>1, FS_Subset
<1>3. Cardinality(S) \in Nat
  BY <1>2, FS_CardinalityType
<1> QED
  BY <1>1, <1>2, <1>3

LEMMA PositionIs ==
  ASSUME NEW n \in Nodes, NEW k
  PROVE  Position(n, k) \in 0 .. Len(KeysOf(n))
<1>1. CASE n.leaf
  <2> DEFINE S == { i \in DOMAIN n.data : n.data[i][1] <= k }
  <2>1. /\ n.data \in Seq(Keys \X Rids) /\ Len(n.data) \in Nat
        /\ Len(KeysOf(n)) = Len(n.data)
    BY <1>1, NodeIs, LeafIs
  <2>2. S \in SUBSET (1 .. Len(n.data))
    BY <2>1, LenProperties
  <2> HIDE DEF S
  <2> QED
    BY <1>1, <2>1, <2>2, CountUpTo DEF Position, S
<1>2. CASE ~n.leaf
  <2> DEFINE S == { i \in DOMAIN n.keys : n.keys[i] <= k }
  <2>1. /\ n.keys \in Seq(Keys) /\ Len(n.keys) \in Nat
        /\ KeysOf(n) = n.keys
    BY <1>2, NodeIs, MiddleIs
  <2>2. S \in SUBSET (1 .. Len(n.keys))
    BY <2>1, LenProperties
  <2> HIDE DEF S
  <2> QED
    BY <1>2, <2>1, <2>2, CountUpTo DEF Position, S
<1> QED
  BY <1>1, <1>2, NodeIs

-----------------------------------------------------------------------------
(* A sound tree: root rt in the pages pg of a file with allocator sp; h is  *)
(* the level of each page, counted from the leaves.                         *)

Sound(pg, rt, sp, h) ==
  /\ pg \in [PageIds -> Nodes]
  /\ rt \in PageIds /\ rt \notin Fresh(sp) /\ rt \notin KidsIn(Kids(pg))
  /\ Spaced(sp)
  /\ Once(Kids(pg))
  /\ \A p \in Fresh(sp) : p \notin KidsIn(Kids(pg)) /\ pg[p].leaf
  /\ h \in [PageIds -> Nat] /\ Levels(Kids(pg), h)
  /\ \A p \in PageIds : pg[p].leaf => h[p] = 1

(* Only leaves are on level 1.                                              *)
LEMMA LevelsOf ==
  ASSUME NEW pg, NEW rt, NEW sp, NEW h, Sound(pg, rt, sp, h), NEW p \in PageIds
  PROVE  h[p] \in Nat /\ h[p] >= 1 /\ (pg[p].leaf <=> h[p] = 1)
<1> DEFINE K == Kids(pg)
<1>1. ASSUME NEW q \in PageIds, ~pg[q].leaf
      PROVE  \E c \in PageIds : h[q] = h[c] + 1
  <2>1. 1 \in 1 .. Len(K[q])
    BY <1>1, KidsAre DEF Sound
  <2>2. K[q][1] \in PageIds
    BY <2>1, KidIs, KidsAre DEF Sound
  <2> QED
    BY <2>1, <2>2 DEF Sound, Levels
<1>2. \A q \in PageIds : h[q] \in Nat /\ h[q] >= 1
  BY <1>1 DEF Sound
<1>3. ~pg[p].leaf => h[p] # 1
  BY <1>1, <1>2
<1> QED
  BY <1>2, <1>3 DEF Sound

(* A leaf is given other entries or another successor.                      *)
LEMMA LeafChanged ==
  ASSUME NEW pg, NEW rt, NEW sp, NEW h, Sound(pg, rt, sp, h),
         NEW p \in PageIds, pg[p].leaf, NEW n \in LeafNodes
  PROVE  LET new == [pg EXCEPT ![p] = n]
         IN  Kids(new) = Kids(pg) /\ Sound(new, rt, sp, h)
<1> DEFINE new == [pg EXCEPT ![p] = n]
<1>1. pg \in [PageIds -> Nodes] /\ n \in Nodes /\ n.leaf = TRUE
  BY LeafIs DEF Sound, Nodes
<1>2. /\ new \in [PageIds -> Nodes] /\ new[p] = n
      /\ \A q \in PageIds \ {p} : new[q] = pg[q]
  BY <1>1
<1> HIDE DEF new
<1>3. \A q \in PageIds : new[q].leaf <=> pg[q].leaf
  BY <1>1, <1>2
<1>4. Kids(new) = Kids(pg)
  BY <1>1, <1>2 DEF Kids
<1>5. Fresh(sp) \subseteq PageIds
  BY Constants DEF Sound, Spaced, Fresh, PageIds, ToSet
<1>6. Sound(new, rt, sp, h)
  BY <1>2, <1>3, <1>4, <1>5 DEF Sound
<1> QED
  BY <1>4, <1>6 DEF new


-----------------------------------------------------------------------------
(* Splitting.                                                               *)

(* The halves of an overfull node are nodes that share its children.        *)
LEMMA HalvesAre ==
  ASSUME NEW n \in Nodes, Len(KeysOf(n)) = 2 * T, NEW x \in PageIds
  PROVE  LET l == LeftHalf(n, x)
             r == RightHalf(n)
         IN  /\ l \in Nodes /\ r \in Nodes /\ l.leaf = n.leaf /\ r.leaf = n.leaf
             /\ Len(KeysOf(l)) \in {T - 1, T} /\ Len(KeysOf(r)) = T
             /\ ~n.leaf => l.pointers \o r.pointers = n.pointers
             /\ UpKey(n) \in Keys
<1> DEFINE l == LeftHalf(n, x)
           r == RightHalf(n)
<1>0. T \in Nat /\ T >= 2 /\ x \in 0 .. MaxPages
  BY Constants DEF PageIds
<1>1. CASE n.leaf
  <2> DEFINE d == n.data
  <2>1. /\ d \in Seq(Keys \X Rids) /\ Len(d) = 2 * T /\ n.next \in 0 .. MaxPages
        /\ KeysOf(n) \in Seq(Keys)
    BY <1>1, NodeIs, LeafIs
  <2> HIDE DEF d
  <2>2. /\ SubSeq(d, 1, T) \in Seq(Keys \X Rids) /\ Len(SubSeq(d, 1, T)) = T
        /\ SubSeq(d, T + 1, Len(d)) \in Seq(Keys \X Rids)
        /\ Len(SubSeq(d, T + 1, Len(d))) = T
    <3>1. /\ T \in 0 .. Len(d) /\ Len(d) \in 0 .. Len(d)
          /\ 1 \in 1 .. Len(d) + 1 /\ T + 1 \in 1 .. Len(d) + 1
          /\ 1 <= T + 1 /\ T + 1 <= Len(d) + 1
      BY <1>0, <2>1
    <3>2. /\ SubSeq(d, 1, T) \in Seq(Keys \X Rids)
          /\ Len(SubSeq(d, 1, T)) = T + 1 - 1
      BY <2>1, <3>1, PartIs
    <3>3. /\ SubSeq(d, T + 1, Len(d)) \in Seq(Keys \X Rids)
          /\ Len(SubSeq(d, T + 1, Len(d))) = Len(d) + 1 - (T + 1)
      BY <2>1, <3>1, PartIs
    <3> QED
      BY <1>0, <2>1, <3>2, <3>3
  <2>3. l = Leaf(SubSeq(d, 1, T), x) /\ r = Leaf(SubSeq(d, T + 1, Len(d)), n.next)
    BY <1>1 DEF LeftHalf, RightHalf, d
  <2>4. /\ l \in LeafNodes /\ r \in LeafNodes /\ l.leaf = TRUE /\ r.leaf = TRUE
        /\ Len(KeysOf(l)) = T /\ Len(KeysOf(r)) = T
    <3>1. /\ Leaf(SubSeq(d, 1, T), x) \in LeafNodes
          /\ Leaf(SubSeq(d, 1, T), x).leaf = TRUE
          /\ Len(KeysOf(Leaf(SubSeq(d, 1, T), x))) = T
      BY <1>0, <2>2, LeafMade
    <3>2. /\ Leaf(SubSeq(d, T + 1, Len(d)), n.next) \in LeafNodes
          /\ Leaf(SubSeq(d, T + 1, Len(d)), n.next).leaf = TRUE
          /\ Len(KeysOf(Leaf(SubSeq(d, T + 1, Len(d)), n.next))) = T
      BY <2>1, <2>2, LeafMade
    <3> QED
      BY <2>3, <3>1, <3>2
  <2>5. UpKey(n) \in Keys
    <3>1. T + 1 \in 1 .. Len(KeysOf(n))
      BY <1>0
    <3>2. UpKey(n) = KeysOf(n)[T + 1]
      BY <1>1 DEF UpKey
    <3> QED
      BY <2>1, <3>1, <3>2, ElementOfSeq
  <2>6. n.leaf = TRUE
    BY <1>1, NodeIs
  <2> QED
    BY <1>1, <2>4, <2>5, <2>6 DEF Nodes
<1>2. CASE ~n.leaf
  <2> DEFINE k == n.keys
             p == n.pointers
             kl == SubSeq(k, 1, T - 1)
             kr == SubSeq(k, T + 1, Len(k))
             pl == SubSeq(p, 1, T)
             pr == SubSeq(p, T + 1, Len(p))
  <2>1. /\ k \in Seq(Keys) /\ Len(k) = 2 * T /\ KeysOf(n) = k
        /\ p \in Seq(PageIds) /\ Len(p) = 2 * T + 1
        /\ n.leaf = FALSE
    BY <1>2, NodeIs, MiddleIs
  <2>2. UpKey(n) = k[T]
    BY <1>2, <2>1 DEF UpKey
  <2>3. l = Middle(kl, pl) /\ r = Middle(kr, pr)
    BY <1>2 DEF LeftHalf, RightHalf
  <2> HIDE DEF k, p
  <2>4. /\ T - 1 \in 0 .. Len(k) /\ Len(k) \in 0 .. Len(k) /\ 1 \in 1 .. Len(k) + 1
        /\ T + 1 \in 1 .. Len(k) + 1 /\ 1 <= (T - 1) + 1 /\ T + 1 <= Len(k) + 1
        /\ T \in 0 .. Len(p) /\ Len(p) \in 0 .. Len(p) /\ 1 \in 1 .. Len(p) + 1
        /\ T + 1 \in 1 .. Len(p) + 1 /\ 1 <= T + 1 /\ T + 1 <= Len(p) + 1
        /\ T \in 1 .. Len(k)
    BY <1>0, <2>1
  <2>5. kl \in Seq(Keys) /\ Len(kl) = (T - 1) + 1 - 1
    BY <2>1, <2>4, PartIs
  <2>6. kr \in Seq(Keys) /\ Len(kr) = Len(k) + 1 - (T + 1)
    BY <2>1, <2>4, PartIs
  <2>7. pl \in Seq(PageIds) /\ Len(pl) = T + 1 - 1
    BY <2>1, <2>4, PartIs
  <2>8. pr \in Seq(PageIds) /\ Len(pr) = Len(p) + 1 - (T + 1)
    BY <2>1, <2>4, PartIs
  <2>9. pl \o pr = p
    <3>1. /\ 1 \in 1 .. Len(p) + 1 /\ T \in 1 - 1 .. Len(p)
          /\ Len(p) \in T .. Len(p)
      BY <1>0, <2>1
    <3>2. pl \o pr = SubSeq(p, 1, Len(p))
      BY <2>1, <3>1, ConcatAdjacentSubSeq
    <3> QED
      BY <2>1, <3>2, SubSeqFull
  <2>10. k[T] \in Keys
    BY <2>1, <2>4, ElementOfSeq
  <2> HIDE DEF kl, kr, pl, pr
  <2>11. Len(kl) = T - 1 /\ Len(pl) = Len(kl) + 1 /\ Len(kr) = T /\ Len(pr) = Len(kr) + 1
    BY <1>0, <2>1, <2>5, <2>6, <2>7, <2>8
  <2>12. /\ l \in MiddleNodes /\ l.leaf = FALSE /\ KeysOf(l) = kl /\ l.pointers = pl
         /\ r \in MiddleNodes /\ r.leaf = FALSE /\ KeysOf(r) = kr /\ r.pointers = pr
    <3>1. /\ Middle(kl, pl) \in MiddleNodes /\ Middle(kl, pl).leaf = FALSE
          /\ KeysOf(Middle(kl, pl)) = kl /\ Middle(kl, pl).pointers = pl
      BY <2>5, <2>7, <2>11, MiddleMade
    <3>2. /\ Middle(kr, pr) \in MiddleNodes /\ Middle(kr, pr).leaf = FALSE
          /\ KeysOf(Middle(kr, pr)) = kr /\ Middle(kr, pr).pointers = pr
      BY <2>6, <2>8, <2>11, MiddleMade
    <3> QED
      BY <2>3, <3>1, <3>2
  <2> QED
    BY <1>2, <2>1, <2>2, <2>9, <2>10, <2>11, <2>12 DEF Nodes, p
<1> QED
  BY <1>1, <1>2, NodeIs

(* A parent with one child more.                                            *)
LEMMA WithChildIs ==
  ASSUME NEW n \in MiddleNodes, NEW k \in Keys, NEW c \in PageIds
  PROVE  LET m == WithChild(n, k, c)
         IN  /\ m \in MiddleNodes /\ m.leaf = FALSE
             /\ Len(KeysOf(m)) = Len(KeysOf(n)) + 1
             /\ \E j \in 1 .. Len(n.pointers) + 1 :
                  m.pointers = InsertAt(n.pointers, j, c)
<1> DEFINE i == Position(n, k)
           nk == n.keys
           np == n.pointers
           ks == InsertAt(nk, i + 1, k)
           ps == InsertAt(np, i + 2, c)
<1>1. /\ nk \in Seq(Keys) /\ np \in Seq(PageIds) /\ KeysOf(n) = nk
      /\ Len(np) = Len(nk) + 1 /\ Len(nk) \in Nat
  BY MiddleIs
<1>2. i \in 0 .. Len(nk)
  BY <1>1, PositionIs DEF Nodes
<1>3. WithChild(n, k, c) = Middle(ks, ps)
  BY DEF WithChild
<1> HIDE DEF i, nk, np
<1>4. i + 1 \in 1 .. Len(nk) + 1 /\ i + 2 \in 1 .. Len(np) + 1
  BY <1>1, <1>2
<1>5. ks \in Seq(Keys) /\ Len(ks) = Len(nk) + 1
  BY <1>1, <1>4, InsertAtIs
<1>6. ps \in Seq(PageIds) /\ Len(ps) = Len(np) + 1
  BY <1>1, <1>4, InsertAtIs
<1>7. \E j \in 1 .. Len(np) + 1 : ps = InsertAt(np, j, c)
  BY <1>4
<1> HIDE DEF ks, ps
<1>8. Len(ps) = Len(ks) + 1
  BY <1>1, <1>5, <1>6
<1>9. /\ Middle(ks, ps) \in MiddleNodes /\ Middle(ks, ps).leaf = FALSE
      /\ KeysOf(Middle(ks, ps)) = ks /\ Middle(ks, ps).pointers = ps
  BY <1>5, <1>6, <1>8, MiddleMade
<1> QED
  BY <1>1, <1>3, <1>5, <1>7, <1>9 DEF np

LEMMA FreshIs == ASSUME NEW sp, Spaced(sp) PROVE Fresh(sp) \subseteq PageIds
<1>1. \A i \in DOMAIN sp.free_list : sp.free_list[i] \in PageIds
  BY LenProperties, ElementOfSeq DEF Spaced
<1> QED
  BY <1>1, Constants DEF Spaced, Fresh, PageIds, ToSet

(* A split keeps a tree sound: only the halves and the parent change.       *)
LEMMA SplitIs ==
  ASSUME NEW pg, NEW rt, NEW sp, NEW h, Sound(pg, rt, sp, h), Avail(sp) >= 1,
         NEW p \in PageIds, NEW up \in PageIds, NEW j \in 1 .. Len(Kids(pg)[up]),
         Kids(pg)[up][j] = p, Size(pg, p) = 2 * T
  PROVE  LET new == Allocated(sp)
             pg2 == Split(pg, p, up, new)
         IN  /\ Sound(pg2, rt, Allocate(sp), [h EXCEPT ![new] = h[p]])
             /\ KidsIn(Kids(pg2)) = KidsIn(Kids(pg)) \cup {new}
             /\ new \in PageIds /\ new \notin {p, up, rt} /\ p # up
             /\ new \notin KidsIn(Kids(pg))
             /\ Size(pg2, p) \in {T - 1, T} /\ Size(pg2, new) = T
             /\ Size(pg2, up) = Size(pg, up) + 1
             /\ pg2[p].leaf = pg[p].leaf /\ ~pg2[up].leaf /\ ~pg[up].leaf
             /\ \A q \in PageIds \ {p, up, new} : pg2[q] = pg[q]
<1> DEFINE new == Allocated(sp)
           sp2 == Allocate(sp)
           pg2 == Split(pg, p, up, new)
           K   == Kids(pg)
           M   == Kids(pg2)
           g   == [h EXCEPT ![new] = h[p]]
<1>1. /\ Spaced(sp2) /\ new \in PageIds /\ new \in Fresh(sp)
      /\ Fresh(sp2) = Fresh(sp) \ {new}
  BY AllocateIs DEF Sound
<1>2. /\ pg \in [PageIds -> Nodes] /\ K \in Families /\ Once(K)
      /\ h \in [PageIds -> Nat] /\ Levels(K, h)
      /\ p \in KidsIn(K) /\ new \notin KidsIn(K) /\ pg[new].leaf
      /\ rt # new /\ p # new
  BY <1>1, KidsAre, KidIs DEF Sound
<1>3. ~pg[up].leaf /\ new # up
  BY <1>2, KidsAre
<1>4. h[up] = h[p] + 1 /\ h[p] \in Nat /\ p # up
  BY <1>2 DEF Levels
<1> HIDE DEF new, sp2
<1>5. /\ pg2[p] = LeftHalf(pg[p], new) /\ pg2[new] = RightHalf(pg[p])
      /\ pg2[up] = WithChild(pg[up], UpKey(pg[p]), new)
      /\ \A q \in PageIds \ {p, up, new} : pg2[q] = pg[q]
  BY <1>1, <1>2, <1>3, <1>4 DEF Split
<1>6. pg2 = [q \in PageIds |-> pg2[q]]
  BY <1>2 DEF Split
<1> HIDE DEF pg2
<1>7. /\ pg2[p] \in Nodes /\ pg2[new] \in Nodes
      /\ pg2[p].leaf = pg[p].leaf /\ pg2[new].leaf = pg[p].leaf
      /\ Size(pg2, p) \in {T - 1, T} /\ Size(pg2, new) = T
      /\ ~pg[p].leaf => pg2[p].pointers \o pg2[new].pointers = pg[p].pointers
      /\ UpKey(pg[p]) \in Keys
  <2> DEFINE l == LeftHalf(pg[p], new)
             r == RightHalf(pg[p])
  <2>1. pg[p] \in Nodes /\ Len(KeysOf(pg[p])) = 2 * T
    BY <1>2 DEF Size
  <2>2. /\ l \in Nodes /\ r \in Nodes /\ l.leaf = pg[p].leaf /\ r.leaf = pg[p].leaf
        /\ Len(KeysOf(l)) \in {T - 1, T} /\ Len(KeysOf(r)) = T
        /\ ~pg[p].leaf => l.pointers \o r.pointers = pg[p].pointers
        /\ UpKey(pg[p]) \in Keys
    BY <1>1, <2>1, HalvesAre
  <2>3. pg2[p] = l /\ pg2[new] = r
    BY <1>5
  <2> HIDE DEF l, r
  <2> QED
    BY <2>2, <2>3 DEF Size
<1>8. /\ pg2[up] \in Nodes /\ pg2[up].leaf = FALSE
      /\ Size(pg2, up) = Size(pg, up) + 1
      /\ \E i \in 1 .. Len(K[up]) + 1 : pg2[up].pointers = InsertAt(K[up], i, new)
  <2>1. pg[up] \in MiddleNodes /\ K[up] = pg[up].pointers
    BY <1>2, <1>3, KidsAre
  <2>2. LET m == WithChild(pg[up], UpKey(pg[p]), new)
        IN  /\ m \in MiddleNodes /\ m.leaf = FALSE
            /\ Len(KeysOf(m)) = Len(KeysOf(pg[up])) + 1
            /\ \E i \in 1 .. Len(pg[up].pointers) + 1 :
                 m.pointers = InsertAt(pg[up].pointers, i, new)
    BY <1>1, <1>7, <2>1, WithChildIs
  <2> QED
    BY <1>5, <2>1, <2>2 DEF Size, Nodes
<1>9. pg2 \in [PageIds -> Nodes]
  <2>1. \A q \in PageIds : pg2[q] \in Nodes
    BY <1>2, <1>5, <1>7, <1>8
  <2> QED
    BY <1>6, <2>1
<1>10. M \in Families
  BY <1>9, KidsAre
<1> DEFINE L == [K EXCEPT ![p] = M[p], ![new] = M[new]]
<1>11. /\ L \in Families /\ L[p] = M[p] /\ L[new] = M[new]
       /\ \A q \in PageIds \ {p, new} : L[q] = K[q]
  BY <1>1, <1>2, <1>10 DEF Families
<1>12. K[new] = <<>> /\ Len(K[new]) = 0 /\ K[p] \in Seq(PageIds)
  BY <1>1, <1>2, KidsAre DEF Families
<1>13. M[p] \o M[new] = K[p]
  <2>1. CASE pg[p].leaf
    <3>1. M[p] = <<>> /\ M[new] = <<>> /\ K[p] = <<>>
      BY <1>1, <1>2, <1>7, <1>9, <2>1, KidsAre
    <3> QED
      BY <1>12, <3>1, ConcatEmptySeq
  <2>2. CASE ~pg[p].leaf
    BY <1>1, <1>2, <1>7, <1>9, <2>2, KidsAre
  <2> QED
    BY <2>1, <2>2
<1>14. Joined(L, p, new) = Joined(K, p, new)
  BY <1>11, <1>12, <1>13, ConcatEmptySeq DEF Joined
<1>15. /\ g \in [PageIds -> Nat] /\ Levels(K, g)
       /\ g[p] = h[p] /\ g[new] = h[p] /\ g[up] = h[up]
       /\ \A q \in PageIds \ {new} : g[q] = h[q]
  BY <1>1, <1>2, <1>3, <1>4, <1>12, LevelGiven
<1> HIDE DEF L, K, M, g
<1>16. Once(L) /\ KidsIn(L) = KidsIn(K) /\ Levels(L, g)
  BY <1>1, <1>2, <1>11, <1>14, <1>15, SharedOut
<1>17. /\ Once(M) /\ KidsIn(M) = KidsIn(K) \cup {new} /\ Levels(M, g)
  <2>1. PICK i \in 1 .. Len(K[up]) + 1 : pg2[up].pointers = InsertAt(K[up], i, new)
    BY <1>8
  <2>2. M[up] = InsertAt(K[up], i, new)
    BY <1>8, <1>9, <2>1, KidsAre DEF M
  <2>3. L[up] = K[up] /\ K[up] \in Seq(PageIds)
    BY <1>2, <1>3, <1>4, <1>11, LenIs
  <2>4. \A q \in PageIds \ {up} : M[q] = L[q]
    <3>1. \A q \in PageIds \ {p, up, new} : M[q] = K[q]
      BY <1>5 DEF M, K, Kids
    <3> QED
      BY <1>11, <3>1
  <2>5. Inserted(L[up], M[up], i, new)
    <3>1. Len(K[up]) \in Nat
      BY <2>3, LenProperties
    <3>2. Inserted(K[up], InsertAt(K[up], i, new), i, new)
      <4> DEFINE t == InsertAt(K[up], i, new)
      <4>1. /\ Len(t) = Len(K[up]) + 1 /\ t[i] = new
            /\ \A n \in 1 .. i - 1 : t[n] = K[up][n]
            /\ \A n \in i .. Len(K[up]) : t[n + 1] = K[up][n]
        BY <1>1, <2>3, InsertAtIs, SMTT(20)
      <4> HIDE DEF t
      <4>2. Inserted(K[up], t, i, new)
        BY <4>1 DEF Inserted
      <4> QED
        BY <4>2 DEF t
    <3> QED
      BY <2>2, <2>3, <3>2
  <2>6. new \notin KidsIn(L) /\ g[up] = g[new] + 1
    BY <1>2, <1>4, <1>15, <1>16
  <2> QED
    <3>1. /\ Once(M) /\ KidsIn(M) = KidsIn(L) \cup {new}
          /\ \A f \in [PageIds -> Nat] : Levels(L, f) /\ f[up] = f[new] + 1 => Levels(M, f)
      BY <1>1, <1>10, <1>11, <1>16, <2>4, <2>5, <2>6, Grafted
    <3> QED
      BY <1>15, <1>16, <2>6, <3>1
<1>18. \A q \in PageIds : pg2[q].leaf => g[q] = 1
  <2>1. \A q \in PageIds : pg[q].leaf => h[q] = 1
    BY DEF Sound
  <2> QED
    BY <1>1, <1>5, <1>7, <1>8, <1>15, <2>1
<1>19. \A q \in Fresh(sp2) : q \notin KidsIn(M) /\ pg2[q].leaf
  <2> SUFFICES ASSUME NEW q \in Fresh(sp), q # new
               PROVE  q \notin KidsIn(M) /\ pg2[q].leaf
    BY <1>1
  <2>1. q \in PageIds /\ q \notin KidsIn(K) /\ pg[q].leaf
    BY FreshIs DEF Sound, K
  <2>2. q # p /\ q # up
    BY <1>2, <1>3, <2>1
  <2> QED
    BY <1>5, <1>17, <2>1, <2>2
<1>20. rt \in PageIds /\ rt \notin Fresh(sp2) /\ rt \notin KidsIn(M)
  BY <1>1, <1>2, <1>17 DEF Sound, K
<1>21. Sound(pg2, rt, sp2, g)
  BY <1>1, <1>9, <1>15, <1>17, <1>18, <1>19, <1>20 DEF Sound, M
<1> QED
  BY <1>1, <1>2, <1>3, <1>4, <1>5, <1>7, <1>8, <1>17, <1>21
     DEF new, sp2, pg2, g, K, M

(* A new root above the old one keeps a tree sound.                         *)
LEMMA PlantIs ==
  ASSUME NEW pg, NEW rt, NEW sp, NEW h, Sound(pg, rt, sp, h), Avail(sp) >= 1
  PROVE  LET new == Allocated(sp)
             pg2 == [pg EXCEPT ![new] = Middle(<<>>, <<rt>>)]
         IN  /\ Sound(pg2, new, Allocate(sp), [h EXCEPT ![new] = h[rt] + 1])
             /\ KidsIn(Kids(pg2)) = KidsIn(Kids(pg)) \cup {rt}
             /\ new \in PageIds \ {rt} /\ Kids(pg2)[new] = <<rt>>
             /\ Size(pg2, new) = 0 /\ pg2[rt] = pg[rt]
             /\ \A q \in PageIds \ {new} : pg2[q] = pg[q]
<1> DEFINE new == Allocated(sp)
           sp2 == Allocate(sp)
           pg2 == [pg EXCEPT ![new] = Middle(<<>>, <<rt>>)]
           K   == Kids(pg)
           M   == Kids(pg2)
           g   == [h EXCEPT ![new] = h[rt] + 1]
<1>1. /\ Spaced(sp2) /\ new \in PageIds /\ new \in Fresh(sp)
      /\ Fresh(sp2) = Fresh(sp) \ {new}
  BY AllocateIs DEF Sound
<1>2. /\ pg \in [PageIds -> Nodes] /\ K \in Families /\ Once(K)
      /\ h \in [PageIds -> Nat] /\ Levels(K, h) /\ h[rt] + 1 \in Nat
      /\ new \notin KidsIn(K) /\ pg[new].leaf
      /\ rt # new /\ rt \in PageIds /\ rt \notin KidsIn(K)
  BY <1>1, KidsAre DEF Sound
<1> DEFINE top == Middle(<<>>, <<rt>>)
<1>3. /\ top \in MiddleNodes /\ top.leaf = FALSE /\ top.pointers = <<rt>>
      /\ Len(KeysOf(top)) = 0
  <2>1. <<>> \in Seq(Keys) /\ Len(<<>>) = 0
    BY EmptySeq
  <2>2. <<rt>> \in Seq(PageIds) /\ Len(<<rt>>) = 1
    BY <1>2
  <2>3. Len(<<rt>>) = Len(<<>>) + 1
    BY <2>1, <2>2
  <2> QED
    BY <2>1, <2>2, <2>3, MiddleMade, ZenonT(30)
<1> HIDE DEF new, sp2, top
<1>4. /\ pg2[new] = top /\ \A q \in PageIds \ {new} : pg2[q] = pg[q]
      /\ pg2 \in [PageIds -> Nodes]
  BY <1>1, <1>2, <1>3 DEF Nodes, top
<1> HIDE DEF pg2
<1>5. /\ M \in Families /\ M[new] = <<rt>> /\ Size(pg2, new) = 0
      /\ \A q \in PageIds \ {new} : M[q] = K[q]
  <2>1. M \in Families /\ M[new] = <<rt>> /\ Size(pg2, new) = 0
    BY <1>1, <1>3, <1>4, KidsAre DEF Size
  <2>2. \A q \in PageIds \ {new} : M[q] = K[q]
    BY <1>4 DEF Kids
  <2> QED
    BY <2>1, <2>2
<1>6. K[new] = <<>> /\ Len(K[new]) = 0
  BY <1>1, <1>2, KidsAre
<1>7. /\ g \in [PageIds -> Nat] /\ Levels(K, g)
      /\ g[new] = g[rt] + 1
      /\ \A q \in PageIds \ {new} : g[q] = h[q]
  <2>1. g \in [PageIds -> Nat] /\ Levels(K, g)
    <3> HIDE DEF K
    <3> QED
      BY <1>1, <1>2, <1>6, LevelGiven
  <2> QED
    BY <1>1, <1>2, <2>1
<1> HIDE DEF K, M, g
<1>8. Inserted(K[new], M[new], 1, rt)
  BY <1>5, <1>6 DEF Inserted
<1>9. Once(M) /\ KidsIn(M) = KidsIn(K) \cup {rt} /\ Levels(M, g)
  <2>1. /\ Once(M) /\ KidsIn(M) = KidsIn(K) \cup {rt}
        /\ \A f \in [PageIds -> Nat] : Levels(K, f) /\ f[new] = f[rt] + 1 => Levels(M, f)
    BY <1>1, <1>2, <1>5, <1>8, Grafted
  <2> QED
    BY <1>7, <2>1
<1>10. \A q \in PageIds : pg2[q].leaf => g[q] = 1
  BY <1>3, <1>4, <1>7 DEF Sound
<1>11. \A q \in Fresh(sp2) : q \notin KidsIn(M) /\ pg2[q].leaf
  <2> SUFFICES ASSUME NEW q \in Fresh(sp), q # new
               PROVE  q \notin KidsIn(M) /\ pg2[q].leaf
    BY <1>1
  <2>1. q \in PageIds /\ q \notin KidsIn(K) /\ pg[q].leaf /\ q # rt
    BY FreshIs DEF Sound, K
  <2> QED
    BY <1>4, <1>9, <2>1
<1>12. new \notin Fresh(sp2) /\ new \notin KidsIn(M)
  BY <1>1, <1>2, <1>9
<1>13. Sound(pg2, new, sp2, g)
  BY <1>1, <1>4, <1>7, <1>9, <1>10, <1>11, <1>12 DEF Sound, M
<1> QED
  BY <1>1, <1>2, <1>4, <1>5, <1>9, <1>13 DEF new, sp2, pg2, g, K, M

-----------------------------------------------------------------------------
(* Borrowing, merging, shrinking.                                           *)

(* A sequence cut in two.                                                   *)
LEMMA CutIs ==
  ASSUME NEW S, NEW s \in Seq(S), NEW n \in 0 .. Len(s)
  PROVE  /\ SubSeq(s, 1, n) \in Seq(S) /\ Len(SubSeq(s, 1, n)) = n
         /\ SubSeq(s, n + 1, Len(s)) \in Seq(S)
         /\ Len(SubSeq(s, n + 1, Len(s))) = Len(s) - n
         /\ SubSeq(s, 1, n) \o SubSeq(s, n + 1, Len(s)) = s
<1>1. /\ Len(s) \in Nat /\ n \in 0 .. Len(s) /\ Len(s) \in 0 .. Len(s)
      /\ 1 \in 1 .. Len(s) + 1 /\ n + 1 \in 1 .. Len(s) + 1
      /\ 1 <= n + 1 /\ n + 1 <= Len(s) + 1
  BY LenProperties
<1>2. SubSeq(s, 1, n) \in Seq(S) /\ Len(SubSeq(s, 1, n)) = n + 1 - 1
  BY <1>1, PartIs
<1>3. /\ SubSeq(s, n + 1, Len(s)) \in Seq(S)
      /\ Len(SubSeq(s, n + 1, Len(s))) = Len(s) + 1 - (n + 1)
  BY <1>1, PartIs
<1>4. SubSeq(s, 1, n) \o SubSeq(s, n + 1, Len(s)) = s
  <2>1. 1 \in 1 .. Len(s) + 1 /\ n \in 1 - 1 .. Len(s) /\ Len(s) \in n .. Len(s)
    BY <1>1
  <2>2. SubSeq(s, 1, n) \o SubSeq(s, n + 1, Len(s)) = SubSeq(s, 1, Len(s))
    BY <2>1, ConcatAdjacentSubSeq
  <2> QED
    BY <2>2, SubSeqFull
<1>5. /\ Len(SubSeq(s, 1, n)) = n
      /\ Len(SubSeq(s, n + 1, Len(s))) = Len(s) - n
  BY <1>1, <1>2, <1>3
<1> QED
  BY <1>2, <1>3, <1>4, <1>5

(* A borrow moves one key over and keeps the children in order.             *)
LEMMA RotationIs ==
  ASSUME NEW low \in Nodes, NEW high \in Nodes, low.leaf = high.leaf,
         NEW sep \in Keys, NEW fromHigh \in BOOLEAN,
         IF fromHigh THEN Len(KeysOf(high)) >= 2 ELSE Len(KeysOf(low)) >= 2
  PROVE  LET r == Rotation(low, high, sep, fromHigh)
             d == IF fromHigh THEN 1 ELSE -1
         IN  /\ r.low \in Nodes /\ r.low.leaf = low.leaf
             /\ r.high \in Nodes /\ r.high.leaf = low.leaf
             /\ Len(KeysOf(r.low)) = Len(KeysOf(low)) + d
             /\ Len(KeysOf(r.high)) = Len(KeysOf(high)) - d
             /\ ~low.leaf =>
                  r.low.pointers \o r.high.pointers = low.pointers \o high.pointers
             /\ r.sep \in Keys
<1> DEFINE r   == Rotation(low, high, sep, fromHigh)
           d   == IF fromHigh THEN 1 ELSE -1
           a   == Len(KeysOf(low))
           b   == Len(KeysOf(high))
           cut == a + d
<1>1. /\ a \in Nat /\ b \in Nat /\ d \in Int /\ cut \in Nat
      /\ cut + 1 <= a + b
  BY NodeIs
<1>2. CASE low.leaf
  <2> DEFINE data == low.data \o high.data
             dl   == SubSeq(data, 1, cut)
             dh   == SubSeq(data, cut + 1, Len(data))
  <2>1. /\ low.data \in Seq(Keys \X Rids) /\ Len(low.data) = a
        /\ high.data \in Seq(Keys \X Rids) /\ Len(high.data) = b
        /\ low.next \in 0 .. MaxPages /\ high.next \in 0 .. MaxPages
        /\ low.leaf = TRUE
    BY <1>2, NodeIs, LeafIs
  <2>2. data \in Seq(Keys \X Rids) /\ Len(data) = a + b
    <3> DEFINE x == low.data
               y == high.data
    <3> HIDE DEF x, y
    <3>1. x \in Seq(Keys \X Rids) /\ y \in Seq(Keys \X Rids)
      BY <2>1 DEF x, y
    <3>2. x \o y \in Seq(Keys \X Rids) /\ Len(x \o y) = Len(x) + Len(y)
      BY <3>1, ConcatIs
    <3> QED
      BY <2>1, <3>2 DEF x, y
  <2>3. r = [low |-> Leaf(dl, low.next), high |-> Leaf(dh, high.next),
             sep |-> data[cut + 1][1]]
    BY <1>2 DEF Rotation
  <2> HIDE DEF data, r, cut
  <2>4. /\ dl \in Seq(Keys \X Rids) /\ Len(dl) = cut
        /\ dh \in Seq(Keys \X Rids) /\ Len(dh) = a + b - cut
    <3>1. cut \in 0 .. Len(data)
      BY <1>1, <2>2
    <3>2. /\ dl \in Seq(Keys \X Rids) /\ Len(dl) = cut
          /\ dh \in Seq(Keys \X Rids) /\ Len(dh) = Len(data) - cut
      BY <2>2, <3>1, CutIs, ZenonT(30)
    <3> QED
      BY <2>2, <3>2
  <2> HIDE DEF dl, dh
  <2>5. /\ Leaf(dl, low.next) \in LeafNodes /\ Leaf(dl, low.next).leaf = TRUE
        /\ Len(KeysOf(Leaf(dl, low.next))) = cut
    BY <2>1, <2>4, LeafMade
  <2>6. /\ Leaf(dh, high.next) \in LeafNodes /\ Leaf(dh, high.next).leaf = TRUE
        /\ Len(KeysOf(Leaf(dh, high.next))) = a + b - cut
    BY <2>1, <2>4, LeafMade
  <2>7. data[cut + 1][1] \in Keys
    <3>1. cut + 1 \in 1 .. Len(data)
      BY <1>1, <2>2
    <3>2. data[cut + 1] \in Keys \X Rids
      BY <2>2, <3>1, ElementOfSeq
    <3> QED
      BY <3>2
  <2>8. /\ r.low = Leaf(dl, low.next) /\ r.high = Leaf(dh, high.next)
        /\ r.sep = data[cut + 1][1]
    BY <2>3
  <2>9. /\ r.low \in Nodes /\ r.low.leaf = low.leaf
        /\ r.high \in Nodes /\ r.high.leaf = low.leaf
        /\ Len(KeysOf(r.low)) = cut /\ Len(KeysOf(r.high)) = a + b - cut
        /\ r.sep \in Keys
    BY <2>1, <2>5, <2>6, <2>7, <2>8 DEF Nodes
  <2>10. cut = a + d /\ a + b - cut = b - d
    BY <1>1 DEF cut
  <2> QED
    BY <1>2, <2>9, <2>10 DEF r
<1>3. CASE ~low.leaf
  <2> DEFINE left == low.keys \o <<sep>>
             keys == left \o high.keys
             kids == low.pointers \o high.pointers
             kl   == SubSeq(keys, 1, cut)
             kh   == SubSeq(keys, cut + 2, Len(keys))
             pl   == SubSeq(kids, 1, cut + 1)
             ph   == SubSeq(kids, cut + 2, Len(kids))
  <2>1. /\ low.keys \in Seq(Keys) /\ Len(low.keys) = a
        /\ high.keys \in Seq(Keys) /\ Len(high.keys) = b
        /\ low.pointers \in Seq(PageIds) /\ Len(low.pointers) = a + 1
        /\ high.pointers \in Seq(PageIds) /\ Len(high.pointers) = b + 1
        /\ low.leaf = FALSE
    BY <1>3, NodeIs, MiddleIs
  <2>2. r = [low |-> Middle(kl, pl), high |-> Middle(kh, ph),
             sep |-> keys[cut + 1]]
    BY <1>3 DEF Rotation
  <2>3. left \in Seq(Keys) /\ Len(left) = a + 1
    <3>1. <<sep>> \in Seq(Keys) /\ Len(<<sep>>) = 1
      OBVIOUS
    <3> QED
      BY <2>1, <3>1, ConcatIs
  <2> HIDE DEF left
  <2>4. keys \in Seq(Keys) /\ Len(keys) = a + 1 + b
    <3> DEFINE y == high.keys
    <3> HIDE DEF y
    <3>1. left \o y \in Seq(Keys) /\ Len(left \o y) = Len(left) + Len(y)
      BY <2>1, <2>3, ConcatIs, ZenonT(30) DEF y
    <3> QED
      BY <2>1, <2>3, <3>1 DEF y
  <2>5. kids \in Seq(PageIds) /\ Len(kids) = (a + 1) + (b + 1)
    <3> DEFINE x == low.pointers
               y == high.pointers
    <3> HIDE DEF x, y
    <3>1. x \o y \in Seq(PageIds) /\ Len(x \o y) = Len(x) + Len(y)
      BY <2>1, ConcatIs, ZenonT(30) DEF x, y
    <3> QED
      BY <2>1, <3>1 DEF x, y
  <2> HIDE DEF keys, kids, r, cut
  <2>6. kl \in Seq(Keys) /\ Len(kl) = cut
    <3>1. cut \in 0 .. Len(keys)
      BY <1>1, <2>4
    <3> QED
      BY <2>4, <3>1, CutIs
  <2>7. kh \in Seq(Keys) /\ Len(kh) = a + b - cut
    <3>1. cut + 1 \in 0 .. Len(keys) /\ cut + 2 = (cut + 1) + 1
      BY <1>1, <2>4
    <3> DEFINE n == cut + 1
    <3>2. n \in 0 .. Len(keys)
      BY <3>1
    <3> HIDE DEF n
    <3>3. /\ SubSeq(keys, n + 1, Len(keys)) \in Seq(Keys)
          /\ Len(SubSeq(keys, n + 1, Len(keys))) = Len(keys) - n
      BY <2>4, <3>2, CutIs
    <3>4. kh = SubSeq(keys, n + 1, Len(keys)) /\ Len(keys) - n = a + b - cut
      BY <1>1, <2>4, <3>1 DEF n
    <3> QED
      BY <3>3, <3>4
  <2>8. /\ pl \in Seq(PageIds) /\ Len(pl) = cut + 1
        /\ ph \in Seq(PageIds) /\ Len(ph) = a + b - cut + 1
        /\ pl \o ph = kids
    <3>1. cut + 1 \in 0 .. Len(kids) /\ cut + 2 = (cut + 1) + 1
      BY <1>1, <2>5
    <3> DEFINE n == cut + 1
    <3>2. n \in 0 .. Len(kids)
      BY <3>1
    <3> HIDE DEF n
    <3>3. /\ SubSeq(kids, 1, n) \in Seq(PageIds) /\ Len(SubSeq(kids, 1, n)) = n
          /\ SubSeq(kids, n + 1, Len(kids)) \in Seq(PageIds)
          /\ Len(SubSeq(kids, n + 1, Len(kids))) = Len(kids) - n
          /\ SubSeq(kids, 1, n) \o SubSeq(kids, n + 1, Len(kids)) = kids
      BY <2>5, <3>2, CutIs
    <3>4. /\ pl = SubSeq(kids, 1, n) /\ ph = SubSeq(kids, n + 1, Len(kids))
          /\ Len(kids) - n = a + b - cut + 1 /\ n = cut + 1
      BY <1>1, <2>5, <3>1 DEF n
    <3> QED
      BY <3>3, <3>4
  <2>9. keys[cut + 1] \in Keys
    <3>1. cut + 1 \in 1 .. Len(keys)
      BY <1>1, <2>4
    <3> QED
      BY <2>4, <3>1, ElementOfSeq
  <2> HIDE DEF kl, kh, pl, ph
  <2>10. /\ Middle(kl, pl) \in MiddleNodes /\ Middle(kl, pl).leaf = FALSE
         /\ KeysOf(Middle(kl, pl)) = kl /\ Middle(kl, pl).pointers = pl
    BY <2>6, <2>8, MiddleMade, ZenonT(30)
  <2>11. /\ Middle(kh, ph) \in MiddleNodes /\ Middle(kh, ph).leaf = FALSE
         /\ KeysOf(Middle(kh, ph)) = kh /\ Middle(kh, ph).pointers = ph
    <3>1. Len(ph) = Len(kh) + 1
      BY <1>1, <2>7, <2>8
    <3> QED
      BY <2>7, <2>8, <3>1, MiddleMade, ZenonT(30)
  <2>12. /\ r.low = Middle(kl, pl) /\ r.high = Middle(kh, ph)
         /\ r.sep = keys[cut + 1]
    BY <2>2
  <2>13. /\ r.low \in Nodes /\ r.low.leaf = low.leaf
         /\ r.high \in Nodes /\ r.high.leaf = low.leaf
         /\ Len(KeysOf(r.low)) = cut /\ Len(KeysOf(r.high)) = a + b - cut
         /\ r.low.pointers \o r.high.pointers = kids
         /\ r.sep \in Keys
    BY <2>1, <2>6, <2>7, <2>8, <2>9, <2>10, <2>11, <2>12 DEF Nodes
  <2>14. cut = a + d /\ a + b - cut = b - d
    BY <1>1 DEF cut
  <2> QED
    BY <2>13, <2>14 DEF r, kids
<1> QED
  BY <1>2, <1>3, NodeIs

(* The pages after a borrow and after a merge.                              *)
Lent(pg, low, high, up, i, fromHigh) ==
  LET r == Rotation(pg[low], pg[high], pg[up].keys[i], fromHigh)
  IN  [pg EXCEPT ![low] = r.low, ![high] = r.high, ![up].keys[i] = r.sep]

Fused(pg, left, right, up, i) ==
  [pg EXCEPT ![left] = Merged(pg[left], pg[right], pg[up].keys[i]),
             ![right] = Blank,
             ![up] = Middle(RemoveAt(pg[up].keys, i),
                            RemoveAt(pg[up].pointers, i + 1))]

(* A borrow keeps a tree sound: only the two siblings and the separator     *)
(* between them change.                                                     *)
LEMMA BorrowIs ==
  ASSUME NEW pg, NEW rt, NEW sp, NEW h, Sound(pg, rt, sp, h),
         NEW up \in PageIds, NEW i \in 1 .. Len(Kids(pg)[up]) - 1,
         NEW low, NEW high, low = Kids(pg)[up][i], high = Kids(pg)[up][i + 1],
         NEW fromHigh \in BOOLEAN,
         IF fromHigh THEN Size(pg, high) >= 2 ELSE Size(pg, low) >= 2
  PROVE  LET pg2 == Lent(pg, low, high, up, i, fromHigh)
             d   == IF fromHigh THEN 1 ELSE -1
         IN  /\ Sound(pg2, rt, sp, h)
             /\ KidsIn(Kids(pg2)) = KidsIn(Kids(pg))
             /\ Size(pg2, low) = Size(pg, low) + d
             /\ Size(pg2, high) = Size(pg, high) - d
             /\ \A q \in PageIds \ {low, high} : Size(pg2, q) = Size(pg, q)
             /\ \A q \in PageIds : pg2[q].leaf = pg[q].leaf
<1> DEFINE r   == Rotation(pg[low], pg[high], pg[up].keys[i], fromHigh)
           pg2 == [pg EXCEPT ![low] = r.low, ![high] = r.high,
                     ![up].keys[i] = r.sep]
           d   == IF fromHigh THEN 1 ELSE -1
           K   == Kids(pg)
           M   == Kids(pg2)
<1>1. /\ pg \in [PageIds -> Nodes] /\ K \in Families /\ Once(K)
      /\ h \in [PageIds -> Nat] /\ Levels(K, h)
  BY KidsAre DEF Sound
<1>2. K[up] \in Seq(PageIds) /\ Len(K[up]) \in Nat
  BY <1>1, LenIs
<1>3. /\ i \in 1 .. Len(K[up]) /\ i + 1 \in 1 .. Len(K[up])
      /\ low \in PageIds /\ high \in PageIds
  BY <1>1, <1>2, KidIs
<1>4. low # high
  <2>1. i # i + 1
    OBVIOUS
  <2> QED
    BY <1>1, <1>3, <2>1 DEF Once
<1>5. h[up] = h[low] + 1 /\ h[up] = h[high] + 1 /\ h[low] = h[high]
  <2>1. h[up] = h[low] + 1 /\ h[up] = h[high] + 1
    BY <1>1, <1>3 DEF Levels
  <2> QED
    BY <1>1, <1>3, <2>1
<1>6. up \notin {low, high}
  BY <1>1, <1>5
<1>7. ~pg[up].leaf
  BY <1>1, <1>2, <1>3, KidsAre, SMTT(20)
<1>8. /\ pg[up] \in MiddleNodes /\ K[up] = pg[up].pointers
      /\ pg[up].keys \in Seq(Keys) /\ Len(pg[up].keys) = Len(K[up]) - 1
      /\ pg[up].leaf = FALSE /\ KeysOf(pg[up]) = pg[up].keys
  <2>1. pg[up] \in MiddleNodes /\ K[up] = pg[up].pointers
    BY <1>1, <1>7, KidsAre
  <2>2. /\ pg[up].leaf = FALSE /\ pg[up].keys \in Seq(Keys)
        /\ KeysOf(pg[up]) = pg[up].keys
        /\ Len(pg[up].pointers) = Len(pg[up].keys) + 1
        /\ Len(pg[up].keys) \in Nat
    BY <2>1, MiddleIs
  <2>3. Len(pg[up].keys) = Len(K[up]) - 1
    BY <2>1, <2>2
  <2> QED
    BY <2>1, <2>2, <2>3
<1>9. i \in 1 .. Len(pg[up].keys) /\ pg[up].keys[i] \in Keys
  BY <1>2, <1>8, ElementOfSeq
<1>10. pg[low].leaf = pg[high].leaf
  <2>1. pg[low].leaf <=> h[low] = 1
    BY <1>3, LevelsOf
  <2>2. pg[high].leaf <=> h[high] = 1
    BY <1>3, LevelsOf
  <2>3. pg[low].leaf \in BOOLEAN /\ pg[high].leaf \in BOOLEAN
    <3>1. pg[low] \in Nodes /\ pg[high] \in Nodes
      BY <1>1, <1>3
    <3> QED
      BY <3>1, NodeIs
  <2> QED
    BY <1>5, <2>1, <2>2, <2>3
<1>11. /\ r.low \in Nodes /\ r.low.leaf = pg[low].leaf
       /\ r.high \in Nodes /\ r.high.leaf = pg[low].leaf
       /\ Len(KeysOf(r.low)) = Size(pg, low) + d
       /\ Len(KeysOf(r.high)) = Size(pg, high) - d
       /\ ~pg[low].leaf =>
            r.low.pointers \o r.high.pointers = pg[low].pointers \o pg[high].pointers
       /\ r.sep \in Keys
  <2>1. pg[low] \in Nodes /\ pg[high] \in Nodes
    BY <1>1, <1>3
  <2> QED
    <3> DEFINE lo == pg[low]
               hi == pg[high]
               se == pg[up].keys[i]
    <3>1. /\ lo \in Nodes /\ hi \in Nodes /\ lo.leaf = hi.leaf /\ se \in Keys
          /\ IF fromHigh THEN Len(KeysOf(hi)) >= 2 ELSE Len(KeysOf(lo)) >= 2
          /\ Size(pg, low) = Len(KeysOf(lo)) /\ Size(pg, high) = Len(KeysOf(hi))
          /\ r = Rotation(lo, hi, se, fromHigh)
      BY <1>9, <1>10, <2>1 DEF Size
    <3> HIDE DEF lo, hi, se, r
    <3>2. LET x == Rotation(lo, hi, se, fromHigh)
          IN  /\ x.low \in Nodes /\ x.low.leaf = lo.leaf
              /\ x.high \in Nodes /\ x.high.leaf = lo.leaf
              /\ Len(KeysOf(x.low)) = Len(KeysOf(lo)) + d
              /\ Len(KeysOf(x.high)) = Len(KeysOf(hi)) - d
              /\ ~lo.leaf =>
                   x.low.pointers \o x.high.pointers = lo.pointers \o hi.pointers
              /\ x.sep \in Keys
      BY <3>1, RotationIs, Zenon
    <3> HIDE DEF d
    <3>3. /\ r.low \in Nodes /\ r.low.leaf = lo.leaf
          /\ r.high \in Nodes /\ r.high.leaf = lo.leaf
          /\ Len(KeysOf(r.low)) = Size(pg, low) + d
          /\ Len(KeysOf(r.high)) = Size(pg, high) - d
          /\ ~lo.leaf =>
               r.low.pointers \o r.high.pointers = lo.pointers \o hi.pointers
          /\ r.sep \in Keys
      BY <3>1, <3>2, Zenon
    <3> QED
      BY <3>3, Zenon DEF lo, hi
<1> DEFINE e == [pg[up] EXCEPT !.keys[i] = r.sep]
<1>12. /\ e \in MiddleNodes /\ e.leaf = FALSE /\ e.pointers = K[up]
       /\ Len(KeysOf(e)) = Len(pg[up].keys)
  <2> HIDE DEF r
  <2> DEFINE ks == [pg[up].keys EXCEPT ![i] = r.sep]
  <2>1. ks \in Seq(Keys) /\ Len(ks) = Len(pg[up].keys)
    <3> DEFINE k == pg[up].keys
               v == r.sep
    <3>1. k \in Seq(Keys) /\ i \in 1 .. Len(k) /\ v \in Keys
      BY <1>8, <1>9, <1>11
    <3> HIDE DEF k, v
    <3>2. [k EXCEPT ![i] = v] \in Seq(Keys) /\ Len([k EXCEPT ![i] = v]) = Len(k)
      BY <3>1, ExceptSeq
    <3> QED
      BY <3>2, Zenon DEF k, v
  <2>2. e = Middle(ks, K[up])
    <3> DEFINE n == pg[up]
               k == pg[up].keys
               v == r.sep
    <3>1. /\ n = [leaf |-> n.leaf, keys |-> n.keys, pointers |-> n.pointers]
          /\ n.leaf = FALSE /\ n.keys = k /\ n.pointers = K[up]
      BY <1>8 DEF MiddleNodes
    <3> HIDE DEF n, k, v, K
    <3>2. [n EXCEPT !.keys[i] = v] = [n EXCEPT !.keys = [n.keys EXCEPT ![i] = v]]
      BY <3>1
    <3> DEFINE w == [k EXCEPT ![i] = v]
    <3> HIDE DEF w
    <3>3. [n EXCEPT !.keys = w] = [leaf |-> n.leaf, keys |-> w, pointers |-> n.pointers]
      BY <3>1
    <3>4. [n EXCEPT !.keys[i] = v] = Middle(w, K[up])
      BY <3>1, <3>2, <3>3 DEF w, Middle
    <3> QED
      BY <3>4, Zenon DEF n, k, v, w
  <2> HIDE DEF ks, e
  <2>3. Len(K[up]) = Len(ks) + 1
    BY <1>2, <1>8, <2>1
  <2> QED
    BY <1>2, <2>1, <2>2, <2>3, MiddleMade, ZenonT(30)
<1>13. /\ pg2[low] = r.low /\ pg2[high] = r.high /\ pg2[up] = e
       /\ \A q \in PageIds \ {low, high, up} : pg2[q] = pg[q]
       /\ pg2 = [q \in PageIds |-> pg2[q]]
  <2> HIDE DEF r
  <2> QED
    BY <1>1, <1>3, <1>4, <1>6
<1> HIDE DEF pg2, e, r
<1>14. pg2 \in [PageIds -> Nodes]
  <2>1. \A q \in PageIds : pg2[q] \in Nodes
    BY <1>1, <1>11, <1>12, <1>13 DEF Nodes
  <2> QED
    BY <1>13, <2>1
<1>15. \A q \in PageIds : pg2[q].leaf = pg[q].leaf
  BY <1>8, <1>10, <1>11, <1>12, <1>13
<1>16. /\ M \in Families
       /\ \A q \in PageIds \ {low, high} : M[q] = K[q]
  <2>1. M \in Families /\ M[up] = K[up]
    BY <1>12, <1>13, <1>14, KidsAre
  <2>2. \A q \in PageIds \ {low, high, up} : M[q] = K[q]
    BY <1>13 DEF Kids
  <2> QED
    BY <2>1, <2>2
<1>17. Joined(M, low, high) = Joined(K, low, high)
  <2>1. CASE pg[low].leaf
    <3>1. M[low] = <<>> /\ M[high] = <<>> /\ K[low] = <<>> /\ K[high] = <<>>
      BY <1>1, <1>3, <1>10, <1>14, <1>15, <2>1, KidsAre
    <3> QED
      BY <3>1 DEF Joined
  <2>2. CASE ~pg[low].leaf
    <3>1. ~pg[high].leaf /\ ~pg2[low].leaf /\ ~pg2[high].leaf
      BY <1>3, <1>10, <1>15, <2>2
    <3>2. K[low] = pg[low].pointers /\ K[high] = pg[high].pointers
      BY <1>1, <1>3, <2>2, <3>1, KidsAre
    <3>3. M[low] = pg2[low].pointers /\ M[high] = pg2[high].pointers
      BY <1>3, <1>14, <3>1, KidsAre
    <3> QED
      BY <1>11, <1>13, <2>2, <3>2, <3>3 DEF Joined
  <2> QED
    BY <2>1, <2>2
<1> HIDE DEF K, M
<1>18. Once(M) /\ KidsIn(M) = KidsIn(K) /\ Levels(M, h)
  BY <1>1, <1>3, <1>4, <1>5, <1>16, <1>17, SharedOut
<1>19. /\ Size(pg2, low) = Size(pg, low) + d
       /\ Size(pg2, high) = Size(pg, high) - d
       /\ \A q \in PageIds \ {low, high} : Size(pg2, q) = Size(pg, q)
  BY <1>8, <1>11, <1>12, <1>13 DEF Size
<1>20. Sound(pg2, rt, sp, h)
  <2>1. Fresh(sp) \subseteq PageIds
    BY FreshIs DEF Sound
  <2> QED
    BY <1>14, <1>15, <1>18, <2>1 DEF Sound, K, M
<1> QED
  <2>1. pg2 = Lent(pg, low, high, up, i, fromHigh)
    BY Zenon DEF Lent, pg2, r
  <2> QED
    BY <1>15, <1>18, <1>19, <1>20, <2>1 DEF d, K, M

(* The merged node has all children of both.                                *)
LEMMA MergedIs ==
  ASSUME NEW low \in Nodes, NEW high \in Nodes, low.leaf = high.leaf, NEW sep \in Keys
  PROVE  LET m == Merged(low, high, sep)
         IN  /\ m \in Nodes /\ m.leaf = low.leaf
             /\ Len(KeysOf(m)) = Len(KeysOf(low)) + Len(KeysOf(high))
                                 + (IF low.leaf THEN 0 ELSE 1)
             /\ ~low.leaf => m.pointers = low.pointers \o high.pointers
<1> DEFINE m == Merged(low, high, sep)
           a == Len(KeysOf(low))
           b == Len(KeysOf(high))
<1>1. a \in Nat /\ b \in Nat
  BY NodeIs
<1>2. CASE low.leaf
  <2> DEFINE x == low.data
             y == high.data
             z == high.next
             data == x \o y
  <2>1. /\ x \in Seq(Keys \X Rids) /\ Len(x) = a
        /\ y \in Seq(Keys \X Rids) /\ Len(y) = b
        /\ z \in 0 .. MaxPages /\ low.leaf = TRUE
    BY <1>2, NodeIs, LeafIs
  <2>2. m = Leaf(data, z)
    BY <1>2 DEF Merged
  <2> HIDE DEF x, y, z, m
  <2>3. data \in Seq(Keys \X Rids) /\ Len(data) = a + b
    <3>1. data \in Seq(Keys \X Rids) /\ Len(data) = Len(x) + Len(y)
      BY <2>1, ConcatIs, Zenon
    <3> QED
      BY <2>1, <3>1
  <2> HIDE DEF data, a, b
  <2>4. m \in LeafNodes /\ m.leaf = TRUE /\ Len(KeysOf(m)) = a + b
    BY <2>1, <2>2, <2>3, LeafMade
  <2>5. m \in Nodes /\ m.leaf = low.leaf
    BY <2>1, <2>4 DEF Nodes
  <2>6. Len(KeysOf(m)) = a + b + 0
    BY <1>1, <2>4 DEF a, b
  <2> QED
    BY <1>2, <2>5, <2>6 DEF m, a, b
<1>3. CASE ~low.leaf
  <2> DEFINE x    == low.keys
             y    == high.keys
             left == x \o <<sep>>
             keys == left \o y
             u    == low.pointers
             v    == high.pointers
             kids == u \o v
  <2>1. /\ x \in Seq(Keys) /\ Len(x) = a
        /\ y \in Seq(Keys) /\ Len(y) = b
        /\ u \in Seq(PageIds) /\ Len(u) = a + 1
        /\ v \in Seq(PageIds) /\ Len(v) = b + 1
        /\ low.leaf = FALSE
    BY <1>3, NodeIs, MiddleIs
  <2>2. m = Middle(keys, kids)
    BY <1>3 DEF Merged
  <2> HIDE DEF x, y, u, v, m
  <2>3. left \in Seq(Keys) /\ Len(left) = a + 1
    <3>1. <<sep>> \in Seq(Keys) /\ Len(<<sep>>) = 1
      OBVIOUS
    <3> QED
      BY <2>1, <3>1, ConcatIs
  <2> HIDE DEF left
  <2>4. keys \in Seq(Keys) /\ Len(keys) = a + 1 + b
    <3>1. keys \in Seq(Keys) /\ Len(keys) = Len(left) + Len(y)
      BY <2>1, <2>3, ConcatIs, Zenon
    <3> QED
      BY <2>1, <2>3, <3>1
  <2>5. kids \in Seq(PageIds) /\ Len(kids) = (a + 1) + (b + 1)
    <3>1. kids \in Seq(PageIds) /\ Len(kids) = Len(u) + Len(v)
      BY <2>1, ConcatIs, Zenon
    <3> QED
      BY <2>1, <3>1
  <2> HIDE DEF keys, kids, a, b
  <2>6. Len(kids) = Len(keys) + 1 /\ Len(keys) = a + b + 1
    BY <1>1, <2>4, <2>5
  <2>7. m \in MiddleNodes /\ m.leaf = FALSE /\ KeysOf(m) = keys /\ m.pointers = kids
    BY <2>2, <2>4, <2>5, <2>6, MiddleMade, ZenonT(30)
  <2>8. m \in Nodes /\ m.leaf = low.leaf /\ Len(KeysOf(m)) = a + b + 1
    BY <2>1, <2>6, <2>7 DEF Nodes
  <2> QED
    BY <1>3, <2>7, <2>8 DEF m, a, b, kids, u, v
<1> QED
  BY <1>2, <1>3, NodeIs

(* A merge keeps a tree sound: the left sibling takes everything, the       *)
(* parent loses a child, and the page of the right one may be free.         *)
LEMMA MergeIs ==
  ASSUME NEW pg, NEW rt, NEW sp, NEW h, Sound(pg, rt, sp, h),
         NEW up \in PageIds, NEW i \in 1 .. Len(Kids(pg)[up]) - 1,
         NEW left, NEW right, left = Kids(pg)[up][i], right = Kids(pg)[up][i + 1]
  PROVE  LET pg2 == Fused(pg, left, right, up, i)
         IN  /\ Sound(pg2, rt, Deallocate(sp, right), [h EXCEPT ![right] = 1])
             /\ KidsIn(Kids(pg2)) = KidsIn(Kids(pg)) \ {right}
             /\ Size(pg2, left) = Size(pg, left) + Size(pg, right)
                                  + (IF pg[left].leaf THEN 0 ELSE 1)
             /\ Size(pg2, up) = Size(pg, up) - 1
             /\ pg2[left].leaf = pg[left].leaf /\ ~pg2[up].leaf /\ ~pg[up].leaf
             /\ right \in PageIds \ {rt, left, up}
             /\ left \in PageIds \ {rt, up}
             /\ \A q \in PageIds \ {left, right, up} : pg2[q] = pg[q]
<1> DEFINE merged == Merged(pg[left], pg[right], pg[up].keys[i])
           lean == Middle(RemoveAt(pg[up].keys, i), RemoveAt(pg[up].pointers, i + 1))
           pg2 == [pg EXCEPT ![left] = merged, ![right] = Blank, ![up] = lean]
           sp2 == Deallocate(sp, right)
           K   == Kids(pg)
           M   == Kids(pg2)
           g   == [h EXCEPT ![right] = 1]
<1>1. /\ pg \in [PageIds -> Nodes] /\ K \in Families /\ Once(K)
      /\ h \in [PageIds -> Nat] /\ Levels(K, h)
  BY KidsAre DEF Sound
<1>2. K[up] \in Seq(PageIds) /\ Len(K[up]) \in Nat
  BY <1>1, LenIs
<1>3. /\ i \in 1 .. Len(K[up]) /\ i + 1 \in 1 .. Len(K[up])
      /\ left \in PageIds /\ right \in PageIds
      /\ left \in KidsIn(K) /\ right \in KidsIn(K)
  BY <1>1, <1>2, KidIs, SMTT(20)
<1>4. left # right /\ rt \notin {left, right}
  <2>1. i # i + 1
    OBVIOUS
  <2> QED
    BY <1>1, <1>3, <2>1 DEF Once, Sound
<1>5. h[up] = h[left] + 1 /\ h[up] = h[right] + 1 /\ h[left] = h[right]
  <2>1. h[up] = h[left] + 1 /\ h[up] = h[right] + 1
    BY <1>1, <1>3 DEF Levels
  <2> QED
    BY <1>1, <1>3, <2>1
<1>6. up \notin {left, right}
  BY <1>1, <1>5
<1>7. ~pg[up].leaf
  <2>1. Len(K[up]) # 0
    BY <1>2, <1>3
  <2> QED
    BY <1>1, <2>1, KidsAre
<1>8. /\ pg[up] \in MiddleNodes /\ K[up] = pg[up].pointers
      /\ pg[up].keys \in Seq(Keys) /\ Len(pg[up].keys) = Len(K[up]) - 1
      /\ pg[up].leaf = FALSE /\ KeysOf(pg[up]) = pg[up].keys
  <2>1. pg[up] \in MiddleNodes /\ K[up] = pg[up].pointers
    BY <1>1, <1>7, KidsAre
  <2>2. /\ pg[up].leaf = FALSE /\ pg[up].keys \in Seq(Keys)
        /\ KeysOf(pg[up]) = pg[up].keys
        /\ Len(pg[up].pointers) = Len(pg[up].keys) + 1
        /\ Len(pg[up].keys) \in Nat
    BY <2>1, MiddleIs
  <2>3. Len(pg[up].keys) = Len(K[up]) - 1
    BY <2>1, <2>2
  <2> QED
    BY <2>1, <2>2, <2>3
<1>9. i \in 1 .. Len(pg[up].keys) /\ pg[up].keys[i] \in Keys
  BY <1>2, <1>8, ElementOfSeq
<1>10. pg[left].leaf = pg[right].leaf /\ pg[left] \in Nodes /\ pg[right] \in Nodes
  <2>1. pg[left].leaf <=> h[left] = 1
    BY <1>3, LevelsOf
  <2>2. pg[right].leaf <=> h[right] = 1
    BY <1>3, LevelsOf
  <2>3. pg[left] \in Nodes /\ pg[right] \in Nodes
    BY <1>1, <1>3
  <2>4. pg[left].leaf \in BOOLEAN /\ pg[right].leaf \in BOOLEAN
    BY <2>3, NodeIs
  <2> QED
    BY <1>5, <2>1, <2>2, <2>3, <2>4
<1>11. /\ merged \in Nodes /\ merged.leaf = pg[left].leaf
       /\ Len(KeysOf(merged)) = Size(pg, left) + Size(pg, right)
                                + (IF pg[left].leaf THEN 0 ELSE 1)
       /\ ~pg[left].leaf => merged.pointers = pg[left].pointers \o pg[right].pointers
  BY <1>9, <1>10, MergedIs, Zenon DEF Size
<1>12. /\ lean \in MiddleNodes /\ lean.leaf = FALSE
       /\ lean.pointers = RemoveAt(K[up], i + 1)
       /\ Len(KeysOf(lean)) = Len(pg[up].keys) - 1
  <2> DEFINE k  == pg[up].keys
             ks == RemoveAt(k, i)
             ps == RemoveAt(K[up], i + 1)
  <2>1. k \in Seq(Keys) /\ i \in 1 .. Len(k) /\ lean = Middle(ks, ps)
    BY <1>8, <1>9
  <2> HIDE DEF k, K, lean
  <2>2. ks \in Seq(Keys) /\ Len(ks) = Len(k) - 1
    BY <2>1, RemoveAtIs
  <2>3. ps \in Seq(PageIds) /\ Len(ps) = Len(K[up]) - 1
    BY <1>2, <1>3, RemoveAtIs
  <2>4. Len(ps) = Len(ks) + 1
    BY <1>2, <1>8, <2>2, <2>3 DEF k
  <2> HIDE DEF ks, ps
  <2>5. lean \in MiddleNodes /\ lean.leaf = FALSE /\ lean.pointers = ps /\ KeysOf(lean) = ks
    BY <2>1, <2>2, <2>3, <2>4, MiddleMade
  <2> QED
    BY <2>2, <2>5 DEF ps, k
<1> HIDE DEF merged, lean
<1>13. /\ pg2[left] = merged /\ pg2[right] = Blank /\ pg2[up] = lean
       /\ \A q \in PageIds \ {left, right, up} : pg2[q] = pg[q]
       /\ pg2 = [q \in PageIds |-> pg2[q]]
  BY <1>1, <1>3, <1>4, <1>6
<1> HIDE DEF pg2
<1>14. pg2 \in [PageIds -> Nodes]
  <2>1. \A q \in PageIds : pg2[q] \in Nodes
    BY <1>1, <1>11, <1>12, <1>13, BlankIs DEF Nodes
  <2> QED
    BY <1>13, <2>1
<1>15. M \in Families /\ M[up] = RemoveAt(K[up], i + 1) /\ M[right] = <<>>
  BY <1>3, <1>12, <1>13, <1>14, BlankIs, KidsAre
<1> DEFINE L == [K EXCEPT ![left] = M[left], ![right] = <<>>]
<1>16. /\ L \in Families /\ L[left] = M[left] /\ L[right] = <<>> /\ L[up] = K[up]
       /\ \A q \in PageIds \ {left, right} : L[q] = K[q]
       /\ \A q \in PageIds \ {up} : M[q] = L[q]
  <2>1. /\ L \in Families /\ L[left] = M[left] /\ L[right] = <<>>
        /\ \A q \in PageIds \ {left, right} : L[q] = K[q]
    <3> HIDE DEF M, K
    <3>1. M[left] \in Seq(PageIds) /\ <<>> \in Seq(PageIds)
      BY <1>3, <1>15, LenIs
    <3> QED
      BY <1>1, <1>3, <1>4, <3>1 DEF Families
  <2>2. \A q \in PageIds \ {left, right, up} : M[q] = K[q]
    BY <1>13 DEF Kids
  <2> QED
    BY <1>6, <1>15, <2>1, <2>2
<1>17. Joined(L, left, right) = Joined(K, left, right)
  <2>1. M[left] \in Seq(PageIds) /\ K[left] \in Seq(PageIds) /\ K[right] \in Seq(PageIds)
    BY <1>1, <1>3, <1>15, LenIs
  <2>2. CASE pg[left].leaf
    <3>1. M[left] = <<>> /\ K[left] = <<>> /\ K[right] = <<>>
      BY <1>1, <1>3, <1>10, <1>11, <1>13, <1>14, <2>2, KidsAre
    <3> QED
      BY <1>16, <3>1 DEF Joined
  <2>3. CASE ~pg[left].leaf
    <3>1. /\ M[left] = merged.pointers
          /\ K[left] = pg[left].pointers /\ K[right] = pg[right].pointers
      BY <1>1, <1>3, <1>10, <1>11, <1>13, <1>14, <2>3, KidsAre
    <3>2. M[left] = K[left] \o K[right]
      BY <1>11, <2>3, <3>1
    <3>3. M[left] \o <<>> = M[left]
      BY <2>1, ConcatEmptySeq
    <3> QED
      BY <1>16, <3>2, <3>3 DEF Joined
  <2> QED
    BY <2>2, <2>3
<1> HIDE DEF K, M, L
<1>18. Once(L) /\ KidsIn(L) = KidsIn(K) /\ Levels(L, h)
  <2>1. /\ Once(L) /\ KidsIn(L) = KidsIn(K)
        /\ \A f \in [PageIds -> Nat] : Levels(K, f) /\ f[left] = f[right] => Levels(L, f)
    BY <1>1, <1>3, <1>4, <1>16, <1>17, SharedOut
  <2> QED
    BY <1>1, <1>5, <2>1
<1>19. Once(M) /\ KidsIn(M) = KidsIn(K) \ {right} /\ Levels(M, h)
  <2>1. i + 1 \in 1 .. Len(L[up]) /\ M[up] = RemoveAt(L[up], i + 1) /\ L[up][i + 1] = right
    BY <1>3, <1>15, <1>16 DEF K
  <2>2. /\ Once(M) /\ KidsIn(M) = KidsIn(L) \ {L[up][i + 1]}
        /\ \A f \in [PageIds -> Nat] : Levels(L, f) => Levels(M, f)
    BY <1>15, <1>16, <1>18, <2>1, Pruned
  <2> QED
    BY <1>1, <1>18, <2>1, <2>2
<1>20. g \in [PageIds -> Nat] /\ Levels(M, g)
  <2>1. right \notin KidsIn(M) /\ Len(M[right]) = 0
    BY <1>15, <1>19
  <2> QED
    BY <1>1, <1>3, <1>15, <1>19, <2>1, LevelGiven DEF g
<1>21. right \notin Fresh(sp) /\ left \notin Fresh(sp) /\ up \notin Fresh(sp)
  BY <1>3, <1>7 DEF Sound, K
<1>22. Spaced(sp2) /\ Fresh(sp2) \subseteq Fresh(sp) \cup {right}
  BY <1>3, <1>21, DeallocateIs DEF Sound
<1> HIDE DEF sp2
<1>23. \A q \in Fresh(sp2) : q \notin KidsIn(M) /\ pg2[q].leaf
  <2> SUFFICES ASSUME NEW q \in Fresh(sp2)
               PROVE  q \notin KidsIn(M) /\ pg2[q].leaf
    OBVIOUS
  <2>1. CASE q = right
    BY <1>13, <1>19, <2>1, BlankIs
  <2>2. CASE q # right
    <3>1. q \in Fresh(sp)
      BY <1>22, <2>2
    <3>2. q \in PageIds /\ q \notin KidsIn(K) /\ pg[q].leaf
      BY <3>1, FreshIs DEF Sound, K
    <3> QED
      BY <1>13, <1>19, <1>21, <2>2, <3>1, <3>2
  <2> QED
    BY <2>1, <2>2
<1>24. \A q \in PageIds : pg2[q].leaf => g[q] = 1
  <2>1. \A q \in PageIds : pg[q].leaf => h[q] = 1
    BY DEF Sound
  <2>2. g[right] = 1 /\ \A q \in PageIds \ {right} : g[q] = h[q]
    BY <1>1, <1>3 DEF g
  <2> QED
    BY <1>4, <1>11, <1>12, <1>13, <2>1, <2>2
<1>25. rt \in PageIds /\ rt \notin Fresh(sp2) /\ rt \notin KidsIn(M)
  BY <1>4, <1>19, <1>22 DEF Sound, K
<1>26. Sound(pg2, rt, sp2, g)
  BY <1>14, <1>19, <1>20, <1>22, <1>23, <1>24, <1>25 DEF Sound, M
<1>27. /\ Size(pg2, left) = Size(pg, left) + Size(pg, right)
                             + (IF pg[left].leaf THEN 0 ELSE 1)
       /\ Size(pg2, up) = Size(pg, up) - 1
       /\ pg2[left].leaf = pg[left].leaf /\ ~pg2[up].leaf
  BY <1>8, <1>11, <1>12, <1>13 DEF Size
<1> QED
  <2>1. pg2 = Fused(pg, left, right, up, i)
    BY DEF Fused, pg2, merged, lean
  <2> HIDE DEF pg2
  <2> QED
    BY <1>3, <1>4, <1>6, <1>7, <1>13, <1>19, <1>26, <1>27, <2>1 DEF sp2, g, K, M

(* The pages without the root.                                             *)
Topless(pg, rt) == [pg EXCEPT ![rt] = Blank]

(* The only child of a root takes its place.                                *)
LEMMA ShrinkIs ==
  ASSUME NEW pg, NEW rt, NEW sp, NEW h, Sound(pg, rt, sp, h),
         Len(Kids(pg)[rt]) = 1, NEW c, c = Kids(pg)[rt][1]
  PROVE  LET pg2 == Topless(pg, rt)
         IN  /\ Sound(pg2, c, Deallocate(sp, rt), [h EXCEPT ![rt] = 1])
             /\ KidsIn(Kids(pg2)) = KidsIn(Kids(pg)) \ {c}
             /\ c \in PageIds \ {rt} /\ c \in KidsIn(Kids(pg))
             /\ \A q \in PageIds \ {rt} : pg2[q] = pg[q]
<1> DEFINE pg2 == [pg EXCEPT ![rt] = Blank]
           sp2 == Deallocate(sp, rt)
           K   == Kids(pg)
           M   == Kids(pg2)
           g   == [h EXCEPT ![rt] = 1]
<1>1. /\ pg \in [PageIds -> Nodes] /\ K \in Families /\ Once(K)
      /\ h \in [PageIds -> Nat] /\ Levels(K, h)
      /\ rt \in PageIds /\ rt \notin KidsIn(K) /\ rt \notin Fresh(sp)
  BY KidsAre DEF Sound
<1>2. K[rt] \in Seq(PageIds) /\ Len(K[rt]) = 1 /\ K[rt][1] = c
  BY <1>1, LenIs
<1>3. 1 \in 1 .. Len(K[rt]) /\ c \in PageIds /\ c \in KidsIn(K) /\ c # rt
  <2>1. 1 \in 1 .. Len(K[rt])
    BY <1>2
  <2> QED
    BY <1>1, <1>2, <2>1, KidIs
<1>4. /\ pg2 \in [PageIds -> Nodes] /\ pg2[rt] = Blank
      /\ \A q \in PageIds \ {rt} : pg2[q] = pg[q]
  BY <1>1, BlankIs DEF Nodes
<1> HIDE DEF pg2
<1>5. M \in Families /\ M[rt] = <<>> /\ \A q \in PageIds \ {rt} : M[q] = K[q]
  <2>1. M \in Families /\ M[rt] = <<>>
    BY <1>1, <1>4, BlankIs, KidsAre
  <2>2. \A q \in PageIds \ {rt} : M[q] = K[q]
    BY <1>4 DEF Kids
  <2> QED
    BY <2>1, <2>2
<1> HIDE DEF K, M
<1>6. M[rt] = RemoveAt(K[rt], 1)
  <2>1. RemoveAt(K[rt], 1) \in Seq(PageIds) /\ Len(RemoveAt(K[rt], 1)) = Len(K[rt]) - 1
    BY <1>2, <1>3, RemoveAtIs
  <2>2. RemoveAt(K[rt], 1) = <<>>
    BY <1>2, <2>1, EmptySeq
  <2> QED
    BY <1>5, <2>2
<1>7. Once(M) /\ KidsIn(M) = KidsIn(K) \ {c} /\ Levels(M, h)
  <2>1. /\ Once(M) /\ KidsIn(M) = KidsIn(K) \ {K[rt][1]}
        /\ \A f \in [PageIds -> Nat] : Levels(K, f) => Levels(M, f)
    BY <1>1, <1>3, <1>5, <1>6, Pruned
  <2> QED
    BY <1>1, <1>2, <2>1
<1>8. g \in [PageIds -> Nat] /\ Levels(M, g)
  <2>1. rt \notin KidsIn(M) /\ Len(M[rt]) = 0
    BY <1>1, <1>5, <1>7
  <2> QED
    BY <1>1, <1>5, <1>7, <2>1, LevelGiven DEF g
<1>9. Spaced(sp2) /\ Fresh(sp2) \subseteq Fresh(sp) \cup {rt}
  BY <1>1, DeallocateIs DEF Sound
<1> HIDE DEF sp2
<1>10. \A q \in Fresh(sp2) : q \notin KidsIn(M) /\ pg2[q].leaf
  <2> SUFFICES ASSUME NEW q \in Fresh(sp2)
               PROVE  q \notin KidsIn(M) /\ pg2[q].leaf
    OBVIOUS
  <2>1. CASE q = rt
    BY <1>1, <1>4, <1>7, <2>1, BlankIs
  <2>2. CASE q # rt
    <3>1. q \in Fresh(sp)
      BY <1>9, <2>2
    <3>2. q \in PageIds /\ q \notin KidsIn(K) /\ pg[q].leaf
      BY <3>1, FreshIs DEF Sound, K
    <3> QED
      BY <1>4, <1>7, <2>2, <3>2
  <2> QED
    BY <2>1, <2>2
<1>11. \A q \in PageIds : pg2[q].leaf => g[q] = 1
  <2>1. \A q \in PageIds : pg[q].leaf => h[q] = 1
    BY DEF Sound
  <2>2. g[rt] = 1 /\ \A q \in PageIds \ {rt} : g[q] = h[q]
    BY <1>1 DEF g
  <2> QED
    BY <1>4, <2>1, <2>2
<1>12. c \notin Fresh(sp2) /\ c \notin KidsIn(M)
  BY <1>3, <1>7, <1>9 DEF Sound, K
<1>13. Sound(pg2, c, sp2, g)
  BY <1>3, <1>4, <1>7, <1>8, <1>9, <1>10, <1>11, <1>12 DEF Sound, M
<1> QED
  BY <1>3, <1>4, <1>7, <1>13 DEF pg2, sp2, g, K, M, Topless

(* A first leaf is a sound tree.                                            *)
LEMMA FirstIs ==
  ASSUME NEW sp, Spaced(sp), Avail(sp) >= 1, NEW n \in LeafNodes
  PROVE  LET rt == Allocated(sp)
             pg == [p \in PageIds |-> IF p = rt THEN n ELSE Blank]
         IN  /\ Sound(pg, rt, Allocate(sp), [p \in PageIds |-> 1])
             /\ KidsIn(Kids(pg)) = {} /\ pg[rt] = n
<1> DEFINE rt == Allocated(sp)
           pg == [p \in PageIds |-> IF p = rt THEN n ELSE Blank]
           h  == [p \in PageIds |-> 1]
           K  == Kids(pg)
<1>1. /\ Spaced(Allocate(sp)) /\ rt \in PageIds
      /\ Fresh(Allocate(sp)) = Fresh(sp) \ {rt}
  BY AllocateIs
<1>2. /\ pg \in [PageIds -> Nodes] /\ pg[rt] = n
      /\ \A p \in PageIds : pg[p].leaf
  <2>1. n \in Nodes /\ n.leaf = TRUE /\ Blank \in Nodes /\ Blank.leaf = TRUE
    BY LeafIs, BlankIs DEF Nodes
  <2> HIDE DEF rt
  <2>2. pg \in [PageIds -> Nodes] /\ pg[rt] = n
    BY <1>1, <2>1
  <2>3. \A p \in PageIds : pg[p] = n \/ pg[p] = Blank
    OBVIOUS
  <2> QED
    BY <2>1, <2>2, <2>3
<1> HIDE DEF rt, pg
<1>3. \A p \in PageIds : Len(K[p]) = 0
  BY <1>2, KidsAre
<1> HIDE DEF K
<1>4. Once(K) /\ KidsIn(K) = {} /\ Levels(K, h) /\ h \in [PageIds -> Nat]
  BY <1>3 DEF Once, KidsIn, Levels
<1>5. Fresh(Allocate(sp)) \subseteq PageIds
  BY <1>1, FreshIs
<1>6. Sound(pg, rt, Allocate(sp), h)
  BY <1>1, <1>2, <1>4, <1>5 DEF Sound, K
<1> QED
  BY <1>2, <1>4, <1>6 DEF rt, pg, h, K

-----------------------------------------------------------------------------
(* Going down.  The functions that FindPath, LeafOf and Height define are   *)
(* well defined because every step goes down a level.                       *)

Down(k) ==
  CHOOSE d : d = [p \in PageIds |->
    IF pages[p].leaf THEN <<p>>
    ELSE <<p>> \o d[pages[p].pointers[Position(pages[p], k) + 1]]]

Ends(k) ==
  CHOOSE d : d = [p \in PageIds |->
    LET node == pages[p]
    IN  IF node.leaf THEN node ELSE d[node.pointers[Position(node, k) + 1]]]

LEMMA FindPathUses == ASSUME NEW k PROVE FindPath(k) = Down(k)[root]
BY DEF FindPath, Down

LEMMA LeafOfUses == ASSUME NEW k PROVE LeafOf(k) = Ends(k)[root]
BY DEF LeafOf, Ends

(* The child of a middle node that k is looked for in.                      *)
Below(p, k) == pages[p].pointers[Position(pages[p], k) + 1]

LEMMA BelowIs ==
  ASSUME NEW h, Sound(pages, root, space, h),
         NEW k, NEW p \in PageIds, ~pages[p].leaf
  PROVE  /\ Below(p, k) \in PageIds /\ h[p] = h[Below(p, k)] + 1
         /\ \E j \in 1 .. Len(Kids(pages)[p]) : Kids(pages)[p][j] = Below(p, k)
<1> DEFINE K == Kids(pages)
           j == Position(pages[p], k) + 1
<1>1. /\ K \in Families /\ pages[p] \in Nodes /\ K[p] = pages[p].pointers
      /\ Len(K[p]) = Size(pages, p) + 1 /\ Size(pages, p) \in Nat
      /\ Levels(K, h)
  BY KidsAre DEF Sound
<1>2. Position(pages[p], k) \in 0 .. Size(pages, p)
  BY <1>1, PositionIs DEF Size
<1>3. j \in 1 .. Len(K[p])
  BY <1>1, <1>2
<1>4. Below(p, k) = K[p][j]
  BY <1>1 DEF Below
<1> HIDE DEF j, K
<1>5. K[p][j] \in PageIds /\ h[p] = h[K[p][j]] + 1
  BY <1>1, <1>3, KidIs DEF Levels
<1> QED
  BY <1>3, <1>4, <1>5 DEF K

(* There is a highest level.                                                *)
LEMMA LevelsEnd ==
  ASSUME NEW h \in [PageIds -> Nat]
  PROVE  \E n \in Nat : \A p \in PageIds : h[p] <= n
<1> DEFINE Ok(j) == \E n \in Nat : \A p \in 1 .. j : h[p] <= n
           S == { j \in 0 .. MaxPages : ~Ok(j) }
<1>1. SUFFICES ASSUME S # {} PROVE FALSE
  <2>1. MaxPages \in 0 .. MaxPages /\ PageIds = 1 .. MaxPages
    BY Constants DEF PageIds
  <2> QED
    BY <2>1
<1>2. PICK m \in S : \A n \in S : m <= n
  <2>1. S \subseteq Nat
    BY Constants
  <2> HIDE DEF S
  <2> QED
    BY <1>1, <2>1, LeastIn
<1>3. m # 0
  <2>1. Ok(0)
    OBVIOUS
  <2> QED
    BY <2>1
<1>4. m - 1 \in 0 .. MaxPages /\ m - 1 < m /\ m \in PageIds
  BY <1>3, Constants DEF PageIds
<1>5. Ok(m - 1)
  <2>1. m - 1 \notin S
    BY <1>2, <1>4
  <2> QED
    BY <1>4, <2>1
<1>6. PICK n \in Nat : \A p \in 1 .. m - 1 : h[p] <= n
  BY <1>5
<1>7. /\ n + h[m] \in Nat /\ n <= n + h[m] /\ h[m] <= n + h[m]
      /\ \A p \in 1 .. m : p = m \/ p \in 1 .. m - 1
  BY <1>4
<1>8. \A p \in 1 .. m : h[p] <= n + h[m]
  <2> SUFFICES ASSUME NEW p \in 1 .. m PROVE h[p] <= n + h[m]
    OBVIOUS
  <2>1. p \in PageIds
    BY Constants DEF PageIds
  <2> QED
    BY <1>4, <1>6, <1>7, <2>1
<1> QED
  BY <1>7, <1>8

(* A property of pages that holds of one when it holds of those below its   *)
(* level holds of all.                                                      *)
LEMMA Climb ==
  ASSUME NEW h \in [PageIds -> Nat], NEW S,
         \A p \in PageIds : (\A q \in PageIds : h[q] < h[p] => q \in S) => p \in S
  PROVE  PageIds \subseteq S
<1> DEFINE bad == { h[p] : p \in PageIds \ S }
<1>1. SUFFICES ASSUME bad # {} PROVE FALSE
  OBVIOUS
<1>2. bad \subseteq Nat
  OBVIOUS
<1>3. PICK m \in bad : \A n \in bad : m <= n
  <2> HIDE DEF bad
  <2> QED
    BY <1>1, <1>2, LeastIn
<1>4. PICK p \in PageIds \ S : h[p] = m
  BY <1>3
<1>5. \A q \in PageIds : h[q] < h[p] => q \in S
  <2> SUFFICES ASSUME NEW q \in PageIds, h[q] < h[p], q \notin S PROVE FALSE
    OBVIOUS
  <2>1. h[q] \in bad
    OBVIOUS
  <2>2. m <= h[q]
    BY <1>3, <2>1
  <2> QED
    BY <1>4, <2>2
<1> QED
  BY <1>4, <1>5

(* What Down(k) is of page p when it is d of the page below.                *)
Onward(d, p, k) == IF pages[p].leaf THEN <<p>> ELSE <<p>> \o d[Below(p, k)]

LEMMA DownExists ==
  ASSUME NEW h, Sound(pages, root, space, h), NEW k
  PROVE  \E d : d = [p \in PageIds |-> Onward(d, p, k)]
<1> DEFINE Good(d, n) == /\ d = [p \in PageIds |-> d[p]]
                         /\ \A p \in PageIds : h[p] <= n => d[p] = Onward(d, p, k)
           bad == { n \in Nat : ~\E d : Good(d, n) }
<1>1. h \in [PageIds -> Nat] /\ \A p \in PageIds : h[p] \in Nat /\ h[p] >= 1
  BY LevelsOf DEF Sound
<1>2. bad = {}
  <2> SUFFICES ASSUME bad # {} PROVE FALSE
    OBVIOUS
  <2>1. PICK m \in bad : \A n \in bad : m <= n
    <3>1. bad \subseteq Nat
      OBVIOUS
    <3> HIDE DEF bad
    <3> QED
      BY <3>1, LeastIn
  <2>2. m # 0
    <3> DEFINE d == [p \in PageIds |-> 0]
    <3>1. d = [p \in PageIds |-> d[p]]
      OBVIOUS
    <3>2. \A p \in PageIds : ~(h[p] <= 0)
      BY <1>1
    <3> HIDE DEF d
    <3>3. Good(d, 0)
      BY <3>1, <3>2
    <3>4. ~\E x : Good(x, m)
      OBVIOUS
    <3> QED
      BY <3>3, <3>4
  <2>3. m \in Nat /\ m - 1 \in Nat /\ m - 1 < m
    BY <2>2
  <2>4. PICK d : Good(d, m - 1)
    <3>1. m - 1 \notin bad
      BY <2>1, <2>3
    <3> QED
      BY <2>3, <3>1
  <2> DEFINE f == [p \in PageIds |-> Onward(d, p, k)]
  <2>5. f = [p \in PageIds |-> f[p]] /\ \A p \in PageIds : f[p] = Onward(d, p, k)
    OBVIOUS
  <2> HIDE DEF f
  <2>6. ASSUME NEW p \in PageIds, h[p] <= m PROVE f[p] = Onward(f, p, k)
    <3>1. CASE pages[p].leaf
      BY <2>5, <3>1 DEF Onward
    <3>2. CASE ~pages[p].leaf
      <4>1. Below(p, k) \in PageIds /\ h[p] = h[Below(p, k)] + 1
        BY <3>2, BelowIs
      <4>2. h[Below(p, k)] <= m - 1
        BY <1>1, <2>3, <2>6, <4>1
      <4>3. f[Below(p, k)] = d[Below(p, k)]
        BY <2>4, <2>5, <4>1, <4>2
      <4> QED
        BY <2>5, <3>2, <4>3 DEF Onward
    <3> QED
      BY <3>1, <3>2
  <2>7. Good(f, m)
    BY <2>5, <2>6
  <2>8. ~\E x : Good(x, m)
    OBVIOUS
  <2> QED
    BY <2>7, <2>8
<1>3. PICK n \in Nat : \A p \in PageIds : h[p] <= n
  BY <1>1, LevelsEnd
<1>4. PICK d : Good(d, n)
  BY <1>2
<1>5. \A p \in PageIds : d[p] = Onward(d, p, k)
  BY <1>3, <1>4
<1>6. d = [p \in PageIds |-> Onward(d, p, k)]
  BY <1>4, <1>5
<1> QED
  BY <1>6

LEMMA DownUses ==
  ASSUME NEW h, Sound(pages, root, space, h), NEW k, NEW p \in PageIds
  PROVE  Down(k)[p] = Onward(Down(k), p, k)
<1>1. Down(k) = CHOOSE d : d = [q \in PageIds |-> Onward(d, q, k)]
  BY DEF Down, Onward, Below
<1>2. Down(k) = [q \in PageIds |-> Onward(Down(k), q, k)]
  BY <1>1, DownExists
<1> QED
  BY <1>2

(* s leads from page p to a leaf, every page to the child k belongs to.     *)
LineDown(h, k, p, s) ==
  /\ s \in Seq(PageIds) /\ Len(s) \in Nat \ {0} /\ s[1] = p
  /\ \A i \in 1 .. Len(s) - 1 : ~pages[s[i]].leaf /\ s[i + 1] = Below(s[i], k)
  /\ pages[s[Len(s)]].leaf
  /\ \A i \in 1 .. Len(s) : h[s[i]] = Len(s) + 1 - i

LEMMA DownIs ==
  ASSUME NEW h, Sound(pages, root, space, h), NEW k, NEW p \in PageIds
  PROVE  LineDown(h, k, p, Down(k)[p])
<1> DEFINE S == { q \in PageIds : LineDown(h, k, q, Down(k)[q]) }
<1>1. h \in [PageIds -> Nat] /\ \A q \in PageIds : pages[q].leaf => h[q] = 1
  BY DEF Sound
<1>2. ASSUME NEW q \in PageIds, \A r \in PageIds : h[r] < h[q] => r \in S
      PROVE  q \in S
  <2> DEFINE s == Down(k)[q]
  <2>1. s = Onward(Down(k), q, k)
    BY DownUses
  <2>2. CASE pages[q].leaf
    <3>1. s = <<q>>
      BY <2>1, <2>2 DEF Onward
    <3> HIDE DEF s
    <3>2. s \in Seq(PageIds) /\ Len(s) = 1 /\ s[1] = q /\ h[q] = 1
      BY <1>1, <2>2, <3>1
    <3>3. LineDown(h, k, q, s)
      BY <2>2, <3>2 DEF LineDown
    <3> QED
      BY <3>3 DEF s
  <2>3. CASE ~pages[q].leaf
    <3> DEFINE c == Below(q, k)
               t == Down(k)[c]
    <3>1. c \in PageIds /\ h[q] = h[c] + 1
      BY <2>3, BelowIs
    <3>2. LineDown(h, k, c, t)
      <4>1. h[c] < h[q]
        BY <1>1, <3>1
      <4>2. c \in S
        BY <1>2, <3>1, <4>1
      <4> QED
        BY <4>2
    <3>3. s = <<q>> \o t
      BY <2>1, <2>3 DEF Onward
    <3> HIDE DEF s, t
    <3>4. /\ t \in Seq(PageIds) /\ Len(t) \in Nat \ {0} /\ t[1] = c
          /\ \A i \in 1 .. Len(t) - 1 : ~pages[t[i]].leaf /\ t[i + 1] = Below(t[i], k)
          /\ pages[t[Len(t)]].leaf
          /\ \A i \in 1 .. Len(t) : h[t[i]] = Len(t) + 1 - i
      BY <3>2 DEF LineDown
    <3> DEFINE u == <<q>>
    <3>5. u \in Seq(PageIds) /\ Len(u) = 1 /\ u[1] = q
      OBVIOUS
    <3> HIDE DEF u
    <3>6. /\ u \o t \in Seq(PageIds) /\ Len(u \o t) = Len(u) + Len(t)
          /\ \A i \in 1 .. Len(u) : (u \o t)[i] = u[i]
          /\ \A i \in 1 .. Len(t) : (u \o t)[Len(u) + i] = t[i]
      <4>1. t \in Seq(PageIds) /\ u \in Seq(PageIds)
        BY <3>4, <3>5
      <4> QED
        BY <4>1, ConcatIs
    <3>7. /\ s \in Seq(PageIds) /\ Len(s) = 1 + Len(t) /\ s[1] = q
          /\ \A i \in 1 .. Len(t) : s[1 + i] = t[i]
      BY <3>3, <3>5, <3>6 DEF u
    <3>8. ASSUME NEW i \in 1 .. Len(s) - 1
          PROVE  ~pages[s[i]].leaf /\ s[i + 1] = Below(s[i], k)
      <4>1. CASE i = 1
        <5>1. 1 \in 1 .. Len(t) /\ s[1 + 1] = t[1]
          BY <3>4, <3>7
        <5> QED
          BY <2>3, <3>4, <3>7, <4>1, <5>1
      <4>2. CASE i # 1
        <5>1. /\ i - 1 \in 1 .. Len(t) - 1 /\ i - 1 \in 1 .. Len(t) /\ i \in 1 .. Len(t)
              /\ 1 + (i - 1) = i /\ (i - 1) + 1 = i
          BY <3>4, <3>7, <4>2
        <5>2. s[i] = t[i - 1] /\ s[1 + i] = t[i]
          BY <3>7, <5>1
        <5>3. ~pages[t[i - 1]].leaf /\ t[(i - 1) + 1] = Below(t[i - 1], k)
          BY <3>4, <5>1
        <5>4. 1 + i = i + 1
          OBVIOUS
        <5> QED
          BY <5>1, <5>2, <5>3, <5>4
      <4> QED
        BY <4>1, <4>2
    <3>9. ASSUME NEW i \in 1 .. Len(s) PROVE h[s[i]] = Len(s) + 1 - i
      <4>1. CASE i = 1
        <5>1. 1 \in 1 .. Len(t)
          BY <3>4
        <5>2. h[c] = Len(t) + 1 - 1
          BY <3>4, <5>1
        <5> QED
          BY <3>1, <3>4, <3>7, <4>1, <5>2
      <4>2. CASE i # 1
        <5>1. i - 1 \in 1 .. Len(t) /\ 1 + (i - 1) = i
          BY <3>4, <3>7, <4>2
        <5>2. s[i] = t[i - 1] /\ h[t[i - 1]] = Len(t) + 1 - (i - 1)
          BY <3>4, <3>7, <5>1
        <5> QED
          BY <3>4, <3>7, <5>2
      <4> QED
        BY <4>1, <4>2
    <3>10. pages[s[Len(s)]].leaf
      <4>1. Len(t) \in 1 .. Len(t)
        BY <3>4
      <4>2. s[1 + Len(t)] = t[Len(t)]
        BY <3>7, <4>1
      <4> QED
        BY <3>4, <3>7, <4>2
    <3>11. Len(s) \in Nat \ {0}
      BY <3>4, <3>7
    <3>12. LineDown(h, k, q, s)
      BY <3>7, <3>8, <3>9, <3>10, <3>11 DEF LineDown
    <3> QED
      BY <3>12 DEF s
  <2> QED
    BY <2>2, <2>3
<1> HIDE DEF S
<1>3. PageIds \subseteq S
  BY <1>1, <1>2, Climb
<1> QED
  BY <1>3 DEF S

(* A lookup ends in the leaf its path ends in.                              *)
LEMMA EndsIs ==
  ASSUME NEW h, Sound(pages, root, space, h), NEW k, NEW p \in PageIds
  PROVE  Ends(k)[p] = pages[Last(Down(k)[p])]
<1> DEFINE On(d, q) == IF pages[q].leaf THEN pages[q] ELSE d[Below(q, k)]
           f == [q \in PageIds |-> pages[Last(Down(k)[q])]]
<1>1. h \in [PageIds -> Nat] /\ \A q \in PageIds : h[q] \in Nat
  BY DEF Sound
<1>2. ASSUME NEW q \in PageIds PROVE f[q] = On(f, q)
  <2>1. LineDown(h, k, q, Down(k)[q]) /\ Down(k)[q] = Onward(Down(k), q, k)
    BY DownIs, DownUses
  <2>2. CASE pages[q].leaf
    <3>1. Down(k)[q] = <<q>>
      BY <2>1, <2>2 DEF Onward
    <3>2. Last(<<q>>) = q
      BY DEF Last
    <3> QED
      BY <2>2, <3>1, <3>2
  <2>3. CASE ~pages[q].leaf
    <3> DEFINE c == Below(q, k)
               s == Down(k)[q]
               t == Down(k)[c]
               u == <<q>>
    <3>1. c \in PageIds
      BY <2>3, BelowIs
    <3>2. s = u \o t
      BY <2>1, <2>3 DEF Onward
    <3>3. t \in Seq(PageIds) /\ Len(t) \in Nat \ {0}
      BY <3>1, DownIs DEF LineDown
    <3>4. u \in Seq(PageIds) /\ Len(u) = 1
      OBVIOUS
    <3>5. f[q] = pages[Last(s)] /\ f[c] = pages[Last(t)]
      BY <3>1
    <3>6. On(f, q) = f[c]
      BY <2>3
    <3> HIDE DEF u, s, t, f
    <3>7. /\ Len(u \o t) = Len(u) + Len(t)
          /\ \A i \in 1 .. Len(t) : (u \o t)[Len(u) + i] = t[i]
      <4>1. t \in Seq(PageIds) /\ u \in Seq(PageIds)
        BY <3>3, <3>4
      <4> QED
        BY <4>1, ConcatIs
    <3>8. Last(s) = Last(t)
      <4>1. Len(t) \in 1 .. Len(t) /\ Len(s) = 1 + Len(t)
        BY <3>2, <3>3, <3>4, <3>7
      <4>2. s[1 + Len(t)] = t[Len(t)]
        BY <3>2, <3>4, <3>7, <4>1
      <4> QED
        BY <4>1, <4>2 DEF Last
    <3> QED
      BY <3>5, <3>6, <3>8
  <2> QED
    BY <2>2, <2>3
<1>3. \E d : d = [q \in PageIds |-> On(d, q)]
  <2>1. f = [q \in PageIds |-> f[q]]
    OBVIOUS
  <2> HIDE DEF f
  <2>2. f = [q \in PageIds |-> On(f, q)]
    BY <1>2, <2>1
  <2> QED
    BY <2>2
<1>4. Ends(k) = CHOOSE d : d = [q \in PageIds |-> On(d, q)]
  BY DEF Ends, Below
<1> DEFINE e == Ends(k)
<1>5. e = [q \in PageIds |-> On(e, q)]
  BY <1>3, <1>4
<1> HIDE DEF e
<1>6. \A q \in PageIds : e[q] = On(e, q)
  BY <1>5
<1> DEFINE S == { q \in PageIds : e[q] = f[q] }
<1>7. ASSUME NEW q \in PageIds, \A r \in PageIds : h[r] < h[q] => r \in S
      PROVE  q \in S
  <2>1. e[q] = On(e, q) /\ f[q] = On(f, q)
    BY <1>2, <1>6
  <2> HIDE DEF f
  <2>2. CASE pages[q].leaf
    BY <2>1, <2>2
  <2>3. CASE ~pages[q].leaf
    <3>1. Below(q, k) \in PageIds /\ h[q] = h[Below(q, k)] + 1
      BY <2>3, BelowIs
    <3>2. h[Below(q, k)] < h[q]
      BY <1>1, <3>1
    <3>3. Below(q, k) \in S
      BY <1>7, <3>1, <3>2
    <3> QED
      BY <2>1, <2>3, <3>3
  <2> QED
    BY <2>2, <2>3
<1> HIDE DEF S
<1>8. PageIds \subseteq S
  BY <1>1, <1>7, Climb
<1> QED
  BY <1>8 DEF S, e

(* The path to a key, and the node at its end.                              *)
LEMMA PathIs ==
  ASSUME NEW h, Sound(pages, root, space, h), NEW k
  PROVE  LineDown(h, k, root, FindPath(k)) /\ LeafOf(k) = pages[Last(FindPath(k))]
<1>1. root \in PageIds
  BY DEF Sound
<1> QED
  BY <1>1, DownIs, EndsIs, FindPathUses, LeafOfUses

(* All paths from the root to a leaf have the length the levels say.        *)
HeightFrom ==
  CHOOSE d : d = [p \in PageIds |->
    IF pages[p].leaf THEN 1
    ELSE LET below == { d[c] : c \in ToSet(pages[p].pointers) }
         IN  IF \E h \in below \ {0} : below = {h}
             THEN 1 + (CHOOSE h \in below : TRUE) ELSE 0]

LEMMA HeightUses == ASSUME NEW p PROVE Height(p) = HeightFrom[p]
BY DEF Height, HeightFrom

LEMMA HeightIs ==
  ASSUME NEW h, Sound(pages, root, space, h), NEW p \in PageIds
  PROVE  Height(p) = h[p]
<1> DEFINE BelowOf(d, q) == { d[c] : c \in ToSet(pages[q].pointers) }
           On(d, q) ==
             IF pages[q].leaf THEN 1
             ELSE IF \E x \in BelowOf(d, q) \ {0} : BelowOf(d, q) = {x}
                  THEN 1 + (CHOOSE x \in BelowOf(d, q) : TRUE) ELSE 0
<1>1. /\ h \in [PageIds -> Nat] /\ Levels(Kids(pages), h)
      /\ Kids(pages) \in Families
      /\ \A q \in PageIds : h[q] \in Nat /\ h[q] >= 1
  BY LevelsOf, KidsAre DEF Sound
<1>2. ASSUME NEW q \in PageIds, ~pages[q].leaf
      PROVE  /\ ToSet(pages[q].pointers) # {}
             /\ \A c \in ToSet(pages[q].pointers) : c \in PageIds /\ h[q] = h[c] + 1
  <2> DEFINE s == Kids(pages)[q]
  <2>1. s = pages[q].pointers /\ Len(s) \in Nat \ {0} /\ s \in Seq(PageIds)
    BY <1>2, KidsAre, LenIs DEF Sound
  <2>2. \A i \in 1 .. Len(s) : s[i] \in PageIds /\ h[q] = h[s[i]] + 1
    BY <1>1, KidIs DEF Levels
  <2>3. DOMAIN s = 1 .. Len(s) /\ 1 \in 1 .. Len(s)
    BY <2>1, LenProperties
  <2> HIDE DEF s
  <2> QED
    BY <2>1, <2>2, <2>3 DEF ToSet
<1>3. ASSUME NEW d, NEW q \in PageIds, ~pages[q].leaf,
             \A c \in ToSet(pages[q].pointers) : d[c] = h[c]
      PROVE  On(d, q) = h[q]
  <2>1. h[q] \in Nat /\ h[q] - 1 \in Nat
    BY <1>1
  <2>2. \A c \in ToSet(pages[q].pointers) : d[c] = h[q] - 1
    BY <1>1, <1>2, <1>3
  <2>3. BelowOf(d, q) = {h[q] - 1}
    BY <1>2, <1>3, <2>2
  <2>4. h[q] - 1 # 0
    <3>1. PICK c \in ToSet(pages[q].pointers) : TRUE
      BY <1>2, <1>3
    <3>2. c \in PageIds /\ h[q] = h[c] + 1
      BY <1>2, <1>3
    <3> QED
      BY <1>1, <3>2
  <2>5. On(d, q) = 1 + (CHOOSE x \in {h[q] - 1} : TRUE)
    BY <1>3, <2>3, <2>4
  <2>6. (CHOOSE x \in {h[q] - 1} : TRUE) = h[q] - 1
    OBVIOUS
  <2> HIDE DEF On
  <2>7. On(d, q) = 1 + (h[q] - 1)
    BY <2>5, <2>6
  <2> QED
    BY <2>1, <2>7
<1>4. \A q \in PageIds : pages[q].leaf => h[q] = 1 /\ \A d : On(d, q) = 1
  BY DEF Sound
<1> HIDE DEF On
<1>5. \E d : d = [q \in PageIds |-> On(d, q)]
  <2>1. \A q \in PageIds : h[q] = On(h, q)
    BY <1>3, <1>4
  <2>2. h = [q \in PageIds |-> On(h, q)]
    BY <1>1, <2>1
  <2> QED
    BY <2>2
<1> DEFINE e == HeightFrom
<1>6. e = [q \in PageIds |-> On(e, q)]
  <2>1. e = CHOOSE d : d = [q \in PageIds |-> On(d, q)]
    BY DEF HeightFrom, On
  <2> HIDE DEF e
  <2> QED
    BY <1>5, <2>1
<1> HIDE DEF e
<1> DEFINE S == { q \in PageIds : e[q] = h[q] }
<1>7. ASSUME NEW q \in PageIds, \A r \in PageIds : h[r] < h[q] => r \in S
      PROVE  q \in S
  <2>1. e[q] = On(e, q)
    BY <1>6
  <2>2. CASE pages[q].leaf
    BY <1>4, <2>1, <2>2
  <2>3. CASE ~pages[q].leaf
    <3>1. \A c \in ToSet(pages[q].pointers) : c \in PageIds /\ h[c] < h[q]
      BY <1>1, <1>2, <2>3
    <3>2. \A c \in ToSet(pages[q].pointers) : e[c] = h[c]
      BY <1>7, <3>1
    <3> QED
      BY <1>3, <2>1, <2>3, <3>2
  <2> QED
    BY <2>2, <2>3
<1> HIDE DEF S
<1>8. PageIds \subseteq S
  BY <1>1, <1>7, Climb
<1> QED
  BY <1>8, HeightUses DEF S, e

-----------------------------------------------------------------------------
(* The line from the root to the node that is being repaired.               *)

OnLine(K, rt, h, s) ==
  /\ s \in Seq(PageIds) /\ Len(s) \in Nat \ {0} /\ s[1] = rt
  /\ \A i \in 1 .. Len(s) - 1 : \E j \in 1 .. Len(K[s[i]]) : K[s[i]][j] = s[i + 1]
  /\ \A i \in 1 .. Len(s) : h[s[i]] = h[s[Len(s)]] + Len(s) - i

LEMMA PathOnLine ==
  ASSUME NEW h, Sound(pages, root, space, h), NEW k, NEW s, LineDown(h, k, root, s)
  PROVE  OnLine(Kids(pages), root, h, s)
<1> DEFINE K == Kids(pages)
<1>1. /\ s \in Seq(PageIds) /\ Len(s) \in Nat \ {0} /\ s[1] = root
      /\ \A i \in 1 .. Len(s) - 1 : ~pages[s[i]].leaf /\ s[i + 1] = Below(s[i], k)
      /\ \A i \in 1 .. Len(s) : h[s[i]] = Len(s) + 1 - i
  BY DEF LineDown
<1>2. ASSUME NEW i \in 1 .. Len(s) - 1
      PROVE  \E j \in 1 .. Len(K[s[i]]) : K[s[i]][j] = s[i + 1]
  <2>1. s[i] \in PageIds
    <3>1. i \in 1 .. Len(s)
      BY <1>1
    <3> QED
      BY <1>1, <3>1, ElementOfSeq
  <2>2. ~pages[s[i]].leaf /\ s[i + 1] = Below(s[i], k)
    BY <1>1
  <2> QED
    BY <2>1, <2>2, BelowIs
<1>3. ASSUME NEW i \in 1 .. Len(s) PROVE h[s[i]] = h[s[Len(s)]] + Len(s) - i
  <2>1. Len(s) \in 1 .. Len(s)
    BY <1>1
  <2>2. h[s[Len(s)]] = Len(s) + 1 - Len(s) /\ h[s[i]] = Len(s) + 1 - i
    BY <1>1, <2>1
  <2> QED
    BY <1>1, <2>2
<1> QED
  BY <1>1, <1>2, <1>3 DEF OnLine

(* The path and the node together are the line.                             *)
LEMMA LineOf ==
  ASSUME NEW s \in Seq(PageIds), s # <<>>
  PROVE  /\ Append(Front(s), Last(s)) = s
         /\ Front(s) \in Seq(PageIds) /\ Last(s) \in PageIds
         /\ Last(s) = s[Len(s)] /\ Len(Front(s)) = Len(s) - 1
         /\ Len(s) \in Nat \ {0}
<1> DEFINE f == Front(s)
           l == Last(s)
<1>1. /\ Len(s) \in Nat \ {0} /\ l = s[Len(s)] /\ l \in PageIds
      /\ f \in Seq(PageIds) /\ Len(f) = Len(s) - 1
      /\ \A i \in 1 .. Len(s) - 1 : f[i] = s[i]
  BY FrontIs
<1> HIDE DEF f, l
<1>2. /\ Append(f, l) \in Seq(PageIds) /\ Len(Append(f, l)) = Len(f) + 1
      /\ \A i \in 1 .. Len(f) : Append(f, l)[i] = f[i]
      /\ Append(f, l)[Len(f) + 1] = l
  BY <1>1, AppendProperties
<1>3. Len(Append(f, l)) = Len(s)
  BY <1>1, <1>2
<1>4. ASSUME NEW i \in 1 .. Len(s) PROVE Append(f, l)[i] = s[i]
  <2>1. CASE i = Len(s)
    BY <1>1, <1>2, <2>1
  <2>2. CASE i # Len(s)
    <3>1. i \in 1 .. Len(s) - 1 /\ i \in 1 .. Len(f)
      BY <1>1, <2>2
    <3> QED
      BY <1>1, <1>2, <3>1
  <2> QED
    BY <2>1, <2>2
<1>5. Append(f, l) = s
  BY <1>2, <1>3, <1>4, SeqEqual
<1> QED
  BY <1>1, <1>5 DEF f, l

(* The end of the path is the parent of the node.                           *)
LEMMA ParentIs ==
  ASSUME NEW K, NEW rt, NEW h \in [PageIds -> Nat],
         NEW ph \in Seq(PageIds), NEW c \in PageIds, OnLine(K, rt, h, Append(ph, c))
  PROVE  /\ ph = <<>> => c = rt
         /\ ph # <<>> =>
              /\ Last(ph) \in PageIds /\ h[Last(ph)] = h[c] + 1
              /\ \E j \in 1 .. Len(K[Last(ph)]) : K[Last(ph)][j] = c
<1> DEFINE s == Append(ph, c)
<1>1. /\ s \in Seq(PageIds) /\ Len(s) = Len(ph) + 1
      /\ \A i \in 1 .. Len(ph) : s[i] = ph[i]
      /\ s[Len(ph) + 1] = c /\ Len(ph) \in Nat
  BY AppendProperties, LenProperties
<1> HIDE DEF s
<1>2. /\ s[1] = rt
      /\ \A i \in 1 .. Len(s) - 1 : \E j \in 1 .. Len(K[s[i]]) : K[s[i]][j] = s[i + 1]
      /\ \A i \in 1 .. Len(s) : h[s[i]] = h[s[Len(s)]] + Len(s) - i
  BY DEF OnLine, s
<1>3. CASE ph = <<>>
  <2>1. Len(ph) = 0
    BY <1>3, EmptySeq
  <2> QED
    BY <1>1, <1>2, <1>3, <2>1
<1>4. CASE ph # <<>>
  <2> DEFINE n == Len(ph)
             up == Last(ph)
  <2>1. n \in Nat \ {0} /\ up = ph[n] /\ up \in PageIds
    BY <1>4, FrontIs
  <2>2. n \in 1 .. n /\ n \in 1 .. Len(s) /\ n \in 1 .. Len(s) - 1 /\ Len(s) = n + 1
    BY <1>1, <2>1
  <2>3. s[n] = up /\ s[n + 1] = c
    BY <1>1, <2>1, <2>2
  <2> HIDE DEF n, up
  <2>4. \E j \in 1 .. Len(K[up]) : K[up][j] = c
    BY <1>2, <2>2, <2>3
  <2>5. h[up] = h[c] + (n + 1) - n
    BY <1>2, <2>2, <2>3
  <2>6. h[up] = h[c] + 1
    BY <2>1, <2>5
  <2> QED
    BY <1>4, <2>1, <2>4, <2>6 DEF up
<1> QED
  BY <1>3, <1>4

LEMMA ParentInTree ==
  ASSUME NEW K, NEW rt, NEW h, NEW ph \in Seq(PageIds), ph # <<>>,
         NEW c \in PageIds, OnLine(K, rt, h, Append(ph, c))
  PROVE  Last(ph) \in {rt} \cup KidsIn(K)
<1> DEFINE s == Append(ph, c)
           n == Len(ph)
           up == Last(ph)
<1>1. /\ s \in Seq(PageIds) /\ Len(s) = n + 1 /\ \A i \in 1 .. n : s[i] = ph[i]
  BY AppendProperties
<1>2. n \in Nat \ {0} /\ up = ph[n] /\ up \in PageIds
  BY FrontIs
<1> HIDE DEF s, n, up
<1>3. /\ s[1] = rt
      /\ \A i \in 1 .. Len(s) - 1 : \E j \in 1 .. Len(K[s[i]]) : K[s[i]][j] = s[i + 1]
  BY DEF OnLine, s
<1>4. s[n] = up
  <2>1. n \in 1 .. n
    BY <1>2
  <2> QED
    BY <1>1, <1>2, <2>1
<1>5. CASE n = 1
  BY <1>3, <1>4, <1>5 DEF up
<1>6. CASE n # 1
  <2>1. n - 1 \in 1 .. Len(s) - 1 /\ n - 1 \in 1 .. Len(s) /\ n - 1 + 1 = n
    BY <1>1, <1>2, <1>6
  <2>2. s[n - 1] \in PageIds
    BY <1>1, <2>1, ElementOfSeq
  <2>3. \E j \in 1 .. Len(K[s[n - 1]]) : K[s[n - 1]][j] = up
    BY <1>3, <1>4, <2>1
  <2>4. up \in KidsIn(K)
    BY <1>2, <2>2, <2>3 DEF KidsIn
  <2> QED
    BY <2>4 DEF up
<1> QED
  BY <1>5, <1>6

(* The line to the parent survives what happens on its level and below.     *)
LEMMA UpIs ==
  ASSUME NEW K, NEW L, NEW rt,
         NEW h \in [PageIds -> Nat], NEW g \in [PageIds -> Nat],
         NEW ph \in Seq(PageIds), NEW c \in PageIds, OnLine(K, rt, h, Append(ph, c)),
         ph # <<>>,
         \A q \in PageIds : h[q] > h[Last(ph)] => L[q] = K[q],
         \A q \in PageIds : h[q] >= h[Last(ph)] => g[q] = h[q]
  PROVE  OnLine(L, rt, g, ph)
<1> DEFINE s == Append(ph, c)
           n == Len(ph)
<1>1. /\ s \in Seq(PageIds) /\ Len(s) = n + 1
      /\ \A i \in 1 .. n : s[i] = ph[i]
      /\ s[n + 1] = c
  BY AppendProperties
<1>2. n \in Nat \ {0} /\ Last(ph) = ph[n] /\ Last(ph) \in PageIds
  BY FrontIs
<1> HIDE DEF s, n
<1>3. /\ s[1] = rt
      /\ \A i \in 1 .. Len(s) - 1 : \E j \in 1 .. Len(K[s[i]]) : K[s[i]][j] = s[i + 1]
      /\ \A i \in 1 .. Len(s) : h[s[i]] = h[s[Len(s)]] + Len(s) - i
  BY DEF OnLine, s
<1>4. ASSUME NEW i \in 1 .. n
      PROVE  /\ ph[i] \in PageIds /\ h[ph[i]] = h[c] + (n + 1) - i
             /\ h[ph[i]] = h[ph[n]] + n - i
             /\ g[ph[i]] = h[ph[i]]
  <2>1. /\ n \in Nat \ {0} /\ i \in Nat /\ 1 <= i /\ i <= n
        /\ n \in 1 .. n /\ n \in 1 .. n + 1 /\ i \in 1 .. n + 1
    BY <1>2
  <2>2. h[ph[i]] = h[c] + (n + 1) - i /\ h[ph[n]] = h[c] + (n + 1) - n
    BY <1>1, <1>3, <2>1
  <2>3. ph[i] \in PageIds
    BY ElementOfSeq DEF n
  <2>4. h[c] \in Nat
    OBVIOUS
  <2>5. h[ph[i]] = h[ph[n]] + n - i /\ h[ph[i]] >= h[ph[n]]
    <3> DEFINE x == h[c]
               y == h[ph[i]]
               z == h[ph[n]]
    <3>1. x \in Nat /\ y = x + (n + 1) - i /\ z = x + (n + 1) - n
      BY <2>2, <2>4
    <3> HIDE DEF x, y, z
    <3>2. y = z + n - i /\ y >= z
      BY <2>1, <3>1
    <3> QED
      BY <3>2 DEF y, z
  <2> QED
    BY <1>2, <2>2, <2>3, <2>5
<1>5. \A i \in 1 .. n : g[ph[i]] = g[ph[n]] + n - i
  <2>1. n \in 1 .. n
    BY <1>2
  <2> QED
    BY <1>4, <2>1
<1>6. ASSUME NEW i \in 1 .. n - 1
      PROVE  \E j \in 1 .. Len(L[ph[i]]) : L[ph[i]][j] = ph[i + 1]
  <2>1. i \in 1 .. n /\ i + 1 \in 1 .. n /\ i \in 1 .. Len(s) - 1 /\ n \in 1 .. n
    BY <1>1, <1>2
  <2>2. s[i] = ph[i] /\ s[i + 1] = ph[i + 1]
    BY <1>1, <2>1
  <2>3. \E j \in 1 .. Len(K[ph[i]]) : K[ph[i]][j] = ph[i + 1]
    BY <1>3, <2>1, <2>2
  <2>4. h[ph[i]] > h[ph[n]] /\ ph[i] \in PageIds
    <3>1. h[ph[n]] \in Nat /\ h[ph[i]] = h[ph[n]] + n - i
      BY <1>2, <1>4, <2>1
    <3> QED
      BY <1>2, <1>4, <2>1, <3>1, SMTT(20)
  <2>5. L[ph[i]] = K[ph[i]]
    BY <1>2, <2>4
  <2> QED
    BY <2>3, <2>5
<1>7. ph[1] = rt
  <2>1. 1 \in 1 .. n
    BY <1>2
  <2> QED
    BY <1>1, <1>3, <2>1
<1> QED
  BY <1>2, <1>5, <1>6, <1>7 DEF OnLine, n

-----------------------------------------------------------------------------
(* The inductive invariant.                                                 *)

(* The keys each page of the tree holds: page less may have one too few,    *)
(* page more one too many.                                                  *)
Least(pg, rt, p) == IF p # rt THEN MinKeys ELSE IF pg[p].leaf THEN 0 ELSE 1
Fits(pg, rt, less, more) ==
  \A p \in {rt} \cup KidsIn(Kids(pg)) :
    /\ Size(pg, p) >= Least(pg, rt, p) - (IF p = less THEN 1 ELSE 0)
    /\ Size(pg, p) <= MaxKeys + (IF p = more THEN 1 ELSE 0)

Repairing == pc \in {"balance_insert", "balance_delete"}
Less == IF pc = "shrink_root" THEN root ELSE IF pc = "balance_delete" THEN curr ELSE 0
More == IF pc = "balance_insert" THEN curr ELSE 0

Stands(h) ==
  /\ Sound(pages, root, space, h)
  /\ Repairing => OnLine(Kids(pages), root, h, Append(path, curr))

Structure ==
  /\ pc \in {"idle", "balance_insert", "balance_delete", "shrink_root"}
  /\ path \in Seq(PageIds)
  /\ IF Repairing THEN curr \in PageIds ELSE curr = 0 /\ path = <<>>
  /\ IF root = 0
     THEN /\ Idle /\ pages = [p \in PageIds |-> Blank]
          /\ space = [free_list |-> <<>>, page_count |-> 1]
     ELSE (\E h : Stands(h)) /\ Fits(pages, root, Less, More)
  /\ pc = "balance_insert" /\ Overfull(curr) => Avail(space) >= Len(path) + 2

(* The pages that are accounted for: of the tree, free, or beyond the file. *)
Claimed(pg, rt, sp) == ({rt} \ {0}) \cup KidsIn(Kids(pg)) \cup Fresh(sp)

(* A step gives no page up but one of the tree, when the free list is full. *)
Settled ==
  LET before == Claimed(pages, root, space)
      after  == Claimed(pages, root, space)'
  IN  /\ Listed(space) => Listed(space')
      /\ \/ after = before
         \/ /\ ~(Len(space.free_list) < FreeLimit)
            /\ \E p \in before \ Fresh(space) : after = before \ {p}

LEMMA SettledIs ==
  ASSUME KidsIn(Kids(pages)) = KidsIn(Kids(pages)'), root' = root, space' = space
  PROVE  Settled
BY DEF Settled, Claimed

LEMMA EmptyIs == <<>> \in Seq(PageIds) /\ Len(<<>>) = 0
BY EmptySeq

LEMMA StructureInit == Init => Structure
BY EmptyIs DEF Init, Structure, Repairing, Idle

(* A leaf with other entries.                                               *)
WithEntries(pg, p, w) == [pg EXCEPT ![p].data = w]

LEMMA WithData ==
  ASSUME NEW pg, NEW rt, NEW sp, NEW h, Sound(pg, rt, sp, h),
         NEW p \in PageIds, pg[p].leaf, NEW w \in Seq(Keys \X Rids)
  PROVE  LET new == WithEntries(pg, p, w)
         IN  /\ Kids(new) = Kids(pg) /\ Sound(new, rt, sp, h)
             /\ Size(new, p) = Len(w) /\ new[p].leaf
             /\ \A q \in PageIds \ {p} : new[q] = pg[q]
<1> DEFINE n   == pg[p]
           m   == Leaf(w, n.next)
           new == [pg EXCEPT ![p] = m]
<1>1. /\ n \in LeafNodes /\ n.leaf = TRUE /\ n.next \in 0 .. MaxPages
      /\ n = Leaf(n.data, n.next) /\ pg \in [PageIds -> Nodes]
  <2>1. pg \in [PageIds -> Nodes] /\ n \in Nodes /\ n.leaf
    BY DEF Sound
  <2> HIDE DEF n
  <2>2. n \in LeafNodes
    BY <2>1, NodeIs
  <2> QED
    BY <2>1, <2>2, LeafIs
<1>2. [pg EXCEPT ![p].data = w] = new
  <2>1. n = [leaf |-> n.leaf, data |-> n.data, next |-> n.next]
    BY <1>1 DEF Leaf
  <2> HIDE DEF n
  <2>2. [n EXCEPT !.data = w] = [leaf |-> n.leaf, data |-> w, next |-> n.next]
    BY <2>1
  <2>3. [n EXCEPT !.data = w] = m
    BY <1>1, <2>2 DEF Leaf
  <2> HIDE DEF m
  <2>4. [pg EXCEPT ![p] = [n EXCEPT !.data = w]] = new
    BY <2>3
  <2> QED
    BY <2>4 DEF n
<1>3. m \in LeafNodes /\ m.leaf = TRUE /\ Len(KeysOf(m)) = Len(w)
  <2> HIDE DEF n
  <2> QED
    BY <1>1, LeafMade
<1> HIDE DEF m
<1>4. Kids(new) = Kids(pg) /\ Sound(new, rt, sp, h)
  BY <1>3, LeafChanged
<1>5. new[p] = m /\ \A q \in PageIds \ {p} : new[q] = pg[q]
  BY <1>1
<1>6. Size(new, p) = Len(w) /\ new[p].leaf
  BY <1>3, <1>5 DEF Size
<1> HIDE DEF new
<1>7. new = WithEntries(pg, p, w)
  BY <1>2 DEF WithEntries
<1> QED
  BY <1>4, <1>5, <1>6, <1>7

LEMMA InsertFirstKeeps ==
  ASSUME Structure, NEW k \in Keys, NEW r \in Rids, InsertFirst(k, r)
  PROVE  Structure' /\ Settled
<1> DEFINE n  == Leaf(<< <<k, r>> >>, 0)
           pg == [p \in PageIds |-> IF p = Allocated(space) THEN n ELSE Blank]
           h  == [p \in PageIds |-> 1]
<1>1. /\ root = 0 /\ pc' = "idle" /\ curr' = 0 /\ path' = <<>>
      /\ root' = Allocated(space) /\ space' = Allocate(space)
      /\ pages' = [pages EXCEPT ![root'] = n]
      /\ pages = [p \in PageIds |-> Blank]
      /\ space = [free_list |-> <<>>, page_count |-> 1]
  BY DEF InsertFirst, Structure, Idle, Repairing
<1>2. pages' = pg
  <2> HIDE DEF n
  <2> QED
    BY <1>1
<1>3. Spaced(space) /\ Avail(space) >= 1
  <2>1. /\ IsInjective(space.free_list) /\ ToSet(space.free_list) = {}
        /\ space.free_list = <<>> /\ space.page_count = 1
    BY <1>1 DEF IsInjective, ToSet
  <2>2. MaxPages \in Nat \ {0}
    BY Constants
  <2>3. space \in [free_list : Seq(PageIds), page_count : 1 .. MaxPages + 1]
    BY <1>1, <2>2, EmptyIs
  <2>4. Spaced(space)
    BY <2>1, <2>3 DEF Spaced
  <2>5. Avail(space) = 0 + (MaxPages + 1 - 1)
    BY <2>1, EmptyIs DEF Avail
  <2> QED
    BY <2>2, <2>4, <2>5
<1>4. n \in LeafNodes /\ Len(KeysOf(n)) = 1 /\ n.leaf = TRUE
  <2> DEFINE d == << <<k, r>> >>
  <2>1. d \in Seq(Keys \X Rids) /\ Len(d) = 1
    OBVIOUS
  <2>2. 0 \in 0 .. MaxPages
    BY Constants
  <2> HIDE DEF d
  <2>3. n \in LeafNodes /\ Len(KeysOf(n)) = Len(d) /\ n.leaf = TRUE
    BY <2>1, <2>2, LeafMade DEF d
  <2> QED
    BY <2>1, <2>3
<1>5. /\ Sound(pages', root', space', h) /\ KidsIn(Kids(pages')) = {}
      /\ pages'[root'] = n
  <2> HIDE DEF n
  <2>1. /\ Sound(pg, Allocated(space), Allocate(space), h)
        /\ KidsIn(Kids(pg)) = {} /\ pg[Allocated(space)] = n
    BY <1>3, <1>4, FirstIs, Zenon
  <2> HIDE DEF pg, h
  <2> QED
    BY <1>1, <1>2, <2>1
<1> HIDE DEF n, pg, h
<1>6. Size(pages', root') = 1 /\ pages'[root'].leaf
  BY <1>4, <1>5 DEF Size
<1>7. Fits(pages', root', 0, 0)
  <2>1. Least(pages', root', root') = 0
    BY <1>6 DEF Least
  <2>2. \A x : (IF x = 0 THEN 1 ELSE 0) \in {0, 1}
    OBVIOUS
  <2>3. 1 <= MaxKeys /\ MaxKeys \in Nat
    BY Constants
  <2> QED
    BY <1>5, <1>6, <2>1, <2>2, <2>3 DEF Fits
<1>8. root' # 0 /\ Less' = 0 /\ More' = 0 /\ ~Repairing' /\ pc' # "balance_insert"
  <2>1. root' \in PageIds
    BY <1>5 DEF Sound
  <2> QED
    BY <1>1, <2>1 DEF PageIds, Less, More, Repairing
<1>9. Stands(h)'
  BY <1>5, <1>8 DEF Stands, h
<1>10. \E x : Stands(x)'
  BY <1>9
<1>11. Settled
  <2>1. KidsIn(Kids(pages)) = {}
    <3>1. \A q \in PageIds : pages[q].leaf
      BY <1>1, BlankIs
    <3>2. \A q \in PageIds : Len(Kids(pages)[q]) = 0
      BY <3>1, EmptyIs DEF Kids
    <3> QED
      BY <3>2 DEF KidsIn
  <2>2. /\ Fresh(space') = Fresh(space) \ {root'} /\ root' \in Fresh(space)
        /\ root' # 0
    BY <1>1, <1>3, <1>8, AllocateIs
  <2>3. Listed(space) => Listed(space')
    BY <1>1, <1>3, AllocateLists
  <2>4. Claimed(pages, root, space) = Fresh(space)
    BY <1>1, <2>1 DEF Claimed
  <2>5. Claimed(pages', root', space') = {root'} \cup Fresh(space')
    BY <1>5, <2>2 DEF Claimed
  <2>6. Claimed(pages', root', space') = Claimed(pages, root, space)
    BY <2>2, <2>4, <2>5
  <2> QED
    BY <2>3, <2>6 DEF Settled
<1> QED
  BY <1>1, <1>7, <1>8, <1>10, <1>11, EmptyIs DEF Structure

(* The leaf a key belongs to, once there is a tree.                         *)
LEMMA LeafFor ==
  ASSUME NEW h, Sound(pages, root, space, h), NEW k
  PROVE  LET line == FindPath(k)
             leaf == Last(line)
         IN  /\ leaf \in PageIds /\ pages[leaf].leaf /\ LeafOf(k) = pages[leaf]
             /\ pages[leaf].data \in Seq(Keys \X Rids)
             /\ Len(pages[leaf].data) = Size(pages, leaf)
             /\ Position(pages[leaf], k) \in 0 .. Size(pages, leaf)
             /\ Front(line) \in Seq(PageIds) /\ Len(line) = Len(Front(line)) + 1
             /\ Len(line) \in Nat \ {0}
             /\ OnLine(Kids(pages), root, h, Append(Front(line), leaf))
             /\ leaf = root \/ leaf \in KidsIn(Kids(pages))
<1> DEFINE line == FindPath(k)
           leaf == Last(line)
<1>1. LineDown(h, k, root, line) /\ LeafOf(k) = pages[leaf]
  BY PathIs
<1>2. OnLine(Kids(pages), root, h, line)
  BY <1>1, PathOnLine
<1>3. line \in Seq(PageIds) /\ Len(line) \in Nat \ {0} /\ pages[line[Len(line)]].leaf
  BY <1>1 DEF LineDown
<1> HIDE DEF line
<1>4. line # <<>>
  BY <1>3, EmptySeq
<1>5. /\ Append(Front(line), leaf) = line /\ Front(line) \in Seq(PageIds)
      /\ leaf \in PageIds /\ leaf = line[Len(line)] /\ Len(Front(line)) = Len(line) - 1
  BY <1>3, <1>4, LineOf
<1> HIDE DEF leaf
<1>6. pages[leaf].leaf /\ pages[leaf] \in Nodes
  BY <1>3, <1>5 DEF Sound
<1>7. /\ pages[leaf].data \in Seq(Keys \X Rids)
      /\ Len(pages[leaf].data) = Size(pages, leaf)
      /\ Position(pages[leaf], k) \in 0 .. Size(pages, leaf)
  <2> DEFINE n == pages[leaf]
  <2>1. n \in Nodes /\ n.leaf
    BY <1>6
  <2>2. Size(pages, leaf) = Len(KeysOf(n))
    BY DEF Size
  <2> HIDE DEF n
  <2>3. n \in LeafNodes
    BY <2>1, NodeIs
  <2>4. n.data \in Seq(Keys \X Rids) /\ Len(KeysOf(n)) = Len(n.data)
    BY <2>3, LeafIs
  <2>5. Position(n, k) \in 0 .. Len(KeysOf(n))
    BY <2>1, PositionIs
  <2> QED
    BY <2>2, <2>4, <2>5 DEF n
<1>8. leaf = root \/ leaf \in KidsIn(Kids(pages))
  <2> DEFINE K  == Kids(pages)
             ph == Front(line)
             up == Last(ph)
  <2>1. h \in [PageIds -> Nat] /\ K \in Families
    BY KidsAre DEF Sound
  <2>2. OnLine(K, root, h, Append(ph, leaf)) /\ ph \in Seq(PageIds)
    BY <1>2, <1>5
  <2> HIDE DEF K, ph
  <2>3. /\ ph = <<>> => leaf = root
        /\ ph # <<>> => up \in PageIds /\ \E j \in 1 .. Len(K[up]) : K[up][j] = leaf
    <3>1. leaf \in PageIds /\ h \in [PageIds -> Nat]
      BY <1>5, <2>1
    <3>2. /\ ph = <<>> => leaf = root
          /\ ph # <<>> => /\ up \in PageIds /\ h[up] = h[leaf] + 1
                          /\ \E j \in 1 .. Len(K[up]) : K[up][j] = leaf
      BY <2>2, <3>1, ParentIs
    <3> QED
      BY <3>2
  <2> HIDE DEF up
  <2>4. ph # <<>> => leaf \in KidsIn(K)
    BY <2>1, <2>3, KidIs
  <2> QED
    BY <2>3, <2>4 DEF K
<1>9. Len(line) = Len(Front(line)) + 1
  BY <1>3, <1>5
<1> QED
  BY <1>1, <1>2, <1>3, <1>5, <1>6, <1>7, <1>8, <1>9 DEF leaf, line

LEMMA InsertIntoLeafKeeps ==
  ASSUME Structure, NEW k \in Keys, NEW r \in Rids, InsertIntoLeaf(k, r)
  PROVE  Structure' /\ Settled
<1> DEFINE line == FindPath(k)
           leaf == Last(line)
           i    == Position(pages[leaf], k)
           w    == InsertAt(pages[leaf].data, i + 1, <<k, r>>)
<1>1. /\ Idle /\ root # 0 /\ Room(k)
      /\ curr' = leaf /\ path' = Front(line) /\ pc' = "balance_insert"
      /\ pages' = [pages EXCEPT ![curr'].data =
                     InsertAt(@, Position(LeafOf(k), k) + 1, <<k, r>>)]
      /\ root' = root /\ space' = space
  BY DEF InsertIntoLeaf
<1>2. PICK h : Stands(h)
  BY <1>1 DEF Structure
<1>3. Sound(pages, root, space, h) /\ Fits(pages, root, 0, 0)
  BY <1>1, <1>2 DEF Stands, Structure, Idle, Less, More
<1>4. /\ leaf \in PageIds /\ pages[leaf].leaf /\ LeafOf(k) = pages[leaf]
      /\ pages[leaf].data \in Seq(Keys \X Rids)
      /\ Len(pages[leaf].data) = Size(pages, leaf)
      /\ i \in 0 .. Size(pages, leaf)
      /\ Front(line) \in Seq(PageIds) /\ Len(line) = Len(Front(line)) + 1
      /\ Len(line) \in Nat \ {0}
      /\ OnLine(Kids(pages), root, h, Append(Front(line), leaf))
      /\ leaf = root \/ leaf \in KidsIn(Kids(pages))
  BY <1>3, LeafFor
<1>5. Size(pages, leaf) \in Nat
  BY <1>3, <1>4, KidsAre DEF Sound
<1>6. pages' = [pages EXCEPT ![leaf].data = w]
  BY <1>1, <1>4
<1>7. Room(k) <=> Size(pages, leaf) < MaxKeys \/ Avail(space) > Len(line)
  BY DEF Room, Avail, Count, Size
<1> HIDE DEF line, leaf, i
<1>8. w \in Seq(Keys \X Rids) /\ Len(w) = Size(pages, leaf) + 1
  <2> DEFINE d == pages[leaf].data
  <2>1. d \in Seq(Keys \X Rids) /\ i + 1 \in 1 .. Len(d) + 1 /\ <<k, r>> \in Keys \X Rids
    BY <1>4, <1>5
  <2> HIDE DEF d
  <2>2. /\ InsertAt(d, i + 1, <<k, r>>) \in Seq(Keys \X Rids)
        /\ Len(InsertAt(d, i + 1, <<k, r>>)) = Len(d) + 1
    BY <2>1, InsertAtIs
  <2> QED
    BY <1>4, <2>2 DEF d
<1> HIDE DEF w
<1>9. /\ Kids(pages') = Kids(pages) /\ Sound(pages', root, space, h)
      /\ Size(pages', leaf) = Size(pages, leaf) + 1 /\ pages'[leaf].leaf
      /\ \A q \in PageIds \ {leaf} : pages'[q] = pages[q]
  <2> DEFINE new == WithEntries(pages, leaf, w)
  <2>1. /\ Kids(new) = Kids(pages) /\ Sound(new, root, space, h)
        /\ Size(new, leaf) = Len(w) /\ new[leaf].leaf
        /\ \A q \in PageIds \ {leaf} : new[q] = pages[q]
    <3>1. leaf \in PageIds /\ pages[leaf].leaf /\ w \in Seq(Keys \X Rids)
      BY <1>4, <1>8
    <3> QED
      BY <1>3, <3>1, WithData
  <2>2. pages' = new
    BY <1>6 DEF WithEntries
  <2> HIDE DEF new
  <2> QED
    BY <1>8, <2>1, <2>2
<1>10. Fits(pages', root, 0, leaf)
  <2> SUFFICES ASSUME NEW q \in {root} \cup KidsIn(Kids(pages))
               PROVE  /\ Size(pages', q) >= Least(pages', root, q) - 0
                      /\ Size(pages', q) <= MaxKeys + (IF q = leaf THEN 1 ELSE 0)
    <3>1. \A q \in {root} \cup KidsIn(Kids(pages)) : q # 0
      BY <1>3 DEF Sound, PageIds, KidsIn
    <3> QED
      BY <1>9, <3>1 DEF Fits
  <2>1. /\ q \in PageIds /\ q # 0 /\ MaxKeys \in Nat
        /\ MinKeys \in Nat
    BY <1>3, Constants DEF Sound, PageIds, KidsIn
  <2>2. Size(pages, q) >= Least(pages, root, q) /\ Size(pages, q) <= MaxKeys
    BY <1>3, <2>1, Constants DEF Fits, Least
  <2>3. Least(pages', root, q) = Least(pages, root, q) /\ Least(pages, root, q) \in Nat
    BY <1>4, <1>9, <2>1 DEF Least
  <2>4. CASE q = leaf
    BY <1>5, <1>9, <2>1, <2>2, <2>3, <2>4
  <2>5. CASE q # leaf
    <3>1. Size(pages', q) = Size(pages, q)
      BY <1>9, <2>1, <2>5 DEF Size
    <3> QED
      BY <2>1, <2>2, <2>3, <2>5, <3>1
  <2> QED
    BY <2>4, <2>5
<1>11. /\ Repairing' /\ Less' = 0 /\ More' = leaf /\ root' # 0
       /\ curr' \in PageIds /\ path' \in Seq(PageIds)
  BY <1>1, <1>4 DEF Repairing, Less, More
<1>12. Stands(h)'
  BY <1>1, <1>4, <1>9 DEF Stands
<1>13. Overfull(curr)' => Avail(space') >= Len(path') + 2
  <2>1. Overfull(curr)' <=> Size(pages, leaf) + 1 > MaxKeys
    BY <1>1, <1>9 DEF Overfull, Count, Size
  <2>2. Avail(space) \in Int /\ MaxKeys \in Nat
    BY <1>3, Constants, LenProperties DEF Avail, Sound, Spaced
  <2> QED
    BY <1>1, <1>4, <1>5, <1>7, <2>1, <2>2
<1>14. \E x : Stands(x)'
  BY <1>12
<1>15. Settled
  BY <1>1, <1>9, SettledIs
<1> QED
  BY <1>1, <1>10, <1>11, <1>13, <1>14, <1>15 DEF Structure

LEMMA EraseKeeps ==
  ASSUME Structure, NEW k, Erase(k)
  PROVE  Structure' /\ Settled
<1> DEFINE line == FindPath(k)
           leaf == Last(line)
           i    == Position(pages[leaf], k)
           w    == RemoveAt(pages[leaf].data, i)
<1>1. /\ Idle /\ HasKey(k) /\ root' = root /\ space' = space
      /\ pages' = [pages EXCEPT ![leaf].data = RemoveAt(@, i)]
      /\ IF leaf # root /\ Underfull(Count(leaf) - 1)
         THEN pc' = "balance_delete" /\ curr' = leaf /\ path' = Front(line)
         ELSE pc' = "shrink_root" /\ curr' = curr /\ path' = path
  BY DEF Erase
<1>2. root # 0 /\ Position(LeafOf(k), k) > 0
  BY <1>1 DEF HasKey, Find
<1>3. PICK h : Stands(h)
  BY <1>2 DEF Structure
<1>4. /\ Sound(pages, root, space, h) /\ Fits(pages, root, 0, 0)
      /\ curr = 0 /\ path = <<>>
  BY <1>1, <1>2, <1>3 DEF Stands, Structure, Idle, Less, More, Repairing
<1>5. /\ leaf \in PageIds /\ pages[leaf].leaf /\ LeafOf(k) = pages[leaf]
      /\ pages[leaf].data \in Seq(Keys \X Rids)
      /\ Len(pages[leaf].data) = Size(pages, leaf)
      /\ i \in 0 .. Size(pages, leaf)
      /\ Front(line) \in Seq(PageIds)
      /\ OnLine(Kids(pages), root, h, Append(Front(line), leaf))
      /\ leaf = root \/ leaf \in KidsIn(Kids(pages))
  BY <1>4, LeafFor
<1>6. Size(pages, leaf) \in Nat
  BY <1>4, <1>5, KidsAre DEF Sound
<1>7. pages' = [pages EXCEPT ![leaf].data = w]
  BY <1>1
<1>8. i > 0 /\ Count(leaf) = Size(pages, leaf)
  BY <1>2, <1>5 DEF Count, Size
<1> HIDE DEF line, leaf, i
<1>9. w \in Seq(Keys \X Rids) /\ Len(w) = Size(pages, leaf) - 1
  <2> DEFINE d == pages[leaf].data
  <2>1. d \in Seq(Keys \X Rids) /\ i \in 1 .. Len(d)
    BY <1>5, <1>6, <1>8
  <2> HIDE DEF d
  <2>2. /\ RemoveAt(d, i) \in Seq(Keys \X Rids)
        /\ Len(RemoveAt(d, i)) = Len(d) - 1
    BY <2>1, RemoveAtIs
  <2> QED
    BY <1>5, <2>2 DEF d
<1> HIDE DEF w
<1>10. /\ Kids(pages') = Kids(pages) /\ Sound(pages', root, space, h)
       /\ Size(pages', leaf) = Size(pages, leaf) - 1 /\ pages'[leaf].leaf
       /\ \A q \in PageIds \ {leaf} : pages'[q] = pages[q]
  <2> DEFINE new == WithEntries(pages, leaf, w)
  <2>1. /\ Kids(new) = Kids(pages) /\ Sound(new, root, space, h)
        /\ Size(new, leaf) = Len(w) /\ new[leaf].leaf
        /\ \A q \in PageIds \ {leaf} : new[q] = pages[q]
    <3>1. leaf \in PageIds /\ pages[leaf].leaf /\ w \in Seq(Keys \X Rids)
      BY <1>5, <1>9
    <3>2. Sound(pages, root, space, h)
      BY <1>4
    <3> QED
      BY <3>1, <3>2, WithData
  <2>2. pages' = new
    BY <1>7 DEF WithEntries
  <2> HIDE DEF new
  <2> QED
    BY <1>9, <2>1, <2>2
<1>11. Fits(pages', root, IF leaf = root \/ Size(pages', leaf) < MinKeys THEN leaf ELSE 0, 0)
  <2> DEFINE less == IF leaf = root \/ Size(pages', leaf) < MinKeys THEN leaf ELSE 0
  <2> SUFFICES ASSUME NEW q \in {root} \cup KidsIn(Kids(pages))
               PROVE  /\ Size(pages', q) >= Least(pages', root, q) - (IF q = less THEN 1 ELSE 0)
                      /\ Size(pages', q) <= MaxKeys + 0
    <3>1. \A q \in {root} \cup KidsIn(Kids(pages)) : q # 0
      BY <1>4 DEF Sound, PageIds, KidsIn
    <3> QED
      BY <1>10, <3>1 DEF Fits
  <2>1. /\ q \in PageIds /\ q # 0 /\ leaf # 0 /\ MaxKeys \in Nat /\ MinKeys \in Nat
    BY <1>4, <1>5, Constants DEF Sound, PageIds, KidsIn
  <2>2. Size(pages, q) >= Least(pages, root, q) /\ Size(pages, q) <= MaxKeys
    BY <1>4, <2>1, Constants DEF Fits, Least
  <2>3. Least(pages', root, q) = Least(pages, root, q) /\ Least(pages, root, q) \in Nat
    BY <1>5, <1>10, <2>1 DEF Least
  <2>4. CASE q = leaf
    <3>1. q # root => Least(pages, root, q) = MinKeys
      BY DEF Least
    <3>2. CASE leaf = root \/ Size(pages', leaf) < MinKeys
      BY <1>6, <1>10, <2>1, <2>2, <2>3, <2>4, <3>2
    <3>3. CASE ~(leaf = root \/ Size(pages', leaf) < MinKeys)
      BY <1>6, <1>10, <2>1, <2>2, <2>3, <2>4, <3>1, <3>3
    <3> QED
      BY <3>2, <3>3
  <2>5. CASE q # leaf
    <3>1. Size(pages', q) = Size(pages, q) /\ q # less
      BY <1>10, <2>1, <2>5 DEF Size
    <3> QED
      BY <2>1, <2>2, <2>3, <2>5, <3>1
  <2> QED
    BY <2>4, <2>5
<1> SUFFICES Structure'
  BY <1>1, <1>10, SettledIs
<1>12. CASE leaf # root /\ Underfull(Count(leaf) - 1)
  <2>1. pc' = "balance_delete" /\ curr' = leaf /\ path' = Front(line)
    BY <1>1, <1>12 DEF line, leaf
  <2>2. Size(pages', leaf) < MinKeys
    BY <1>8, <1>10, <1>12 DEF Underfull
  <2>3. Fits(pages', root, leaf, 0)
    BY <1>11, <2>2
  <2>4. /\ Repairing' /\ Less' = leaf /\ More' = 0 /\ root' # 0
        /\ curr' \in PageIds /\ path' \in Seq(PageIds)
    BY <1>1, <1>2, <1>5, <2>1 DEF Repairing, Less, More
  <2>5. Stands(h)'
    BY <1>1, <1>5, <1>10, <2>1 DEF Stands
  <2>6. \E x : Stands(x)'
    BY <2>5
  <2> QED
    BY <1>1, <2>1, <2>3, <2>4, <2>6 DEF Structure
<1>13. CASE ~(leaf # root /\ Underfull(Count(leaf) - 1))
  <2>1. pc' = "shrink_root" /\ curr' = 0 /\ path' = <<>>
    BY <1>1, <1>4, <1>13 DEF line, leaf
  <2>2. leaf # root => ~(Size(pages', leaf) < MinKeys)
    BY <1>8, <1>10, <1>13 DEF Underfull
  <2>3. Fits(pages', root, root, 0)
    <3>1. CASE leaf = root
      BY <1>11, <3>1
    <3>2. CASE leaf # root
      <4>1. Fits(pages', root, 0, 0)
        BY <1>11, <2>2, <3>2
      <4>2. \A q \in {root} \cup KidsIn(Kids(pages)) : q # 0
        BY <1>4 DEF Sound, PageIds, KidsIn
      <4>3. \A q \in {root} \cup KidsIn(Kids(pages)) :
              Size(pages', q) \in Nat /\ Least(pages', root, q) \in Nat
        <5>1. \A q \in {root} \cup KidsIn(Kids(pages)) : q \in PageIds
          BY <1>4 DEF Sound, KidsIn
        <5>2. \A q \in PageIds : Size(pages', q) \in Nat
          BY <1>10, KidsAre DEF Sound
        <5>3. MinKeys \in Nat
          BY Constants
        <5> QED
          BY <5>1, <5>2, <5>3 DEF Least
      <4> QED
        BY <1>10, <4>1, <4>2, <4>3 DEF Fits
    <3> QED
      BY <3>1, <3>2
  <2>4. ~Repairing' /\ Less' = root /\ More' = 0 /\ root' # 0
    BY <1>1, <1>2, <2>1 DEF Repairing, Less, More
  <2>5. Stands(h)'
    BY <1>1, <1>10, <2>4 DEF Stands
  <2>6. \E x : Stands(x)'
    BY <2>5
  <2> QED
    BY <1>1, <2>1, <2>3, <2>4, <2>6, EmptyIs DEF Structure
<1> QED
  BY <1>12, <1>13

LEMMA FitsOwned ==
  ASSUME NEW pg, NEW rt, NEW sp, NEW h, Sound(pg, rt, sp, h)
  PROVE  /\ {rt} \cup KidsIn(Kids(pg)) \subseteq PageIds /\ 0 \notin PageIds
         /\ \A q \in PageIds : Size(pg, q) \in Nat /\ Least(pg, rt, q) \in Nat
         /\ MinKeys \in Nat \ {0} /\ MaxKeys \in Nat /\ T \in Nat
         /\ MinKeys = T - 1 /\ MaxKeys = 2 * T - 1
<1>1. /\ MinKeys \in Nat \ {0} /\ MaxKeys \in Nat /\ T \in Nat
      /\ MinKeys = T - 1 /\ MaxKeys = 2 * T - 1
  BY Constants
<1>2. {rt} \cup KidsIn(Kids(pg)) \subseteq PageIds /\ 0 \notin PageIds
  BY DEF Sound, KidsIn, PageIds
<1>3. \A q \in PageIds : Size(pg, q) \in Nat
  BY KidsAre DEF Sound
<1>4. \A q \in PageIds : Least(pg, rt, q) \in Nat
  BY <1>1 DEF Least
<1> QED
  BY <1>1, <1>2, <1>3, <1>4

LEMMA BalanceInsertDoneKeeps ==
  ASSUME Structure, BalanceInsertDone
  PROVE  Structure' /\ Settled
<1>1. /\ pc = "balance_insert" /\ ~Overfull(curr) /\ pc' = "idle"
      /\ curr' = 0 /\ path' = <<>>
      /\ pages' = pages /\ root' = root /\ space' = space
  BY DEF BalanceInsertDone, Finish
<1>2. root # 0 /\ curr \in PageIds
  BY <1>1 DEF Structure, Idle, Repairing
<1>3. PICK h : Stands(h)
  BY <1>2 DEF Structure
<1>4. Sound(pages, root, space, h) /\ Fits(pages, root, 0, curr)
  BY <1>1, <1>2, <1>3 DEF Stands, Structure, Less, More
<1>5. Size(pages, curr) <= MaxKeys
  <2>1. Size(pages, curr) \in Nat /\ MaxKeys \in Nat
    BY <1>2, <1>4, FitsOwned
  <2> QED
    BY <1>1, <2>1 DEF Overfull, Count, Size
<1>6. Fits(pages, root, 0, 0)
  <2>1. /\ {root} \cup KidsIn(Kids(pages)) \subseteq PageIds /\ 0 \notin PageIds
        /\ MaxKeys \in Nat
    BY <1>4, FitsOwned
  <2> QED
    BY <1>4, <1>5, <2>1 DEF Fits
<1>7. ~Repairing' /\ Less' = 0 /\ More' = 0 /\ root' # 0
  BY <1>1, <1>2 DEF Repairing, Less, More
<1>8. Stands(h)'
  BY <1>1, <1>4, <1>7 DEF Stands
<1>9. \E x : Stands(x)'
  BY <1>8
<1>10. Settled
  BY <1>1, SettledIs
<1> QED
  BY <1>1, <1>6, <1>7, <1>9, <1>10, EmptyIs DEF Structure

LEMMA SplitNodeKeeps ==
  ASSUME Structure, SplitNode
  PROVE  Structure' /\ Settled
<1> DEFINE new == Allocated(space)
           up  == Last(path)
           K   == Kids(pages)
           M   == Kids(pages')
<1>1. /\ pc = "balance_insert" /\ Overfull(curr) /\ curr # root
      /\ pages' = Split(pages, curr, up, new) /\ space' = Allocate(space)
      /\ curr' = up /\ path' = Front(path) /\ root' = root /\ pc' = pc
  BY DEF SplitNode, ParentId
<1>2. root # 0 /\ curr \in PageIds /\ path \in Seq(PageIds)
  BY <1>1 DEF Structure, Idle, Repairing
<1>3. PICK h : Stands(h)
  BY <1>2 DEF Structure
<1>4. /\ Sound(pages, root, space, h) /\ Fits(pages, root, 0, curr)
      /\ OnLine(K, root, h, Append(path, curr))
      /\ Avail(space) >= Len(path) + 2
  BY <1>1, <1>2, <1>3 DEF Stands, Structure, Less, More, Repairing
<1>5. h \in [PageIds -> Nat] /\ K \in Families
  BY <1>4, KidsAre DEF Sound
<1> HIDE DEF K
<1>6. path # <<>> /\ up \in PageIds /\ h[up] = h[curr] + 1
      /\ \E j \in 1 .. Len(K[up]) : K[up][j] = curr
  <2>1. /\ path = <<>> => curr = root
        /\ path # <<>> =>
             /\ up \in PageIds /\ h[up] = h[curr] + 1
             /\ \E j \in 1 .. Len(K[up]) : K[up][j] = curr
    BY <1>2, <1>4, <1>5, ParentIs
  <2> QED
    BY <1>1, <2>1
<1>7. /\ Append(Front(path), up) = path /\ Front(path) \in Seq(PageIds)
      /\ Len(Front(path)) = Len(path) - 1 /\ Len(path) \in Nat \ {0}
  BY <1>2, <1>6, LineOf
<1> HIDE DEF up
<1>8. PICK j \in 1 .. Len(K[up]) : K[up][j] = curr
  BY <1>6
<1>9. curr \in KidsIn(K)
  BY <1>5, <1>6, <1>8, KidIs
<1>10. Size(pages, curr) = 2 * T
  <2>1. /\ Size(pages, curr) \in Nat /\ MaxKeys = 2 * T - 1 /\ T \in Nat
    BY <1>2, <1>4, FitsOwned
  <2>2. Size(pages, curr) <= MaxKeys + 1
    BY <1>4, <1>9 DEF Fits, K
  <2>3. Size(pages, curr) > MaxKeys
    BY <1>1 DEF Overfull, Count, Size
  <2> QED
    BY <2>1, <2>2, <2>3
<1>11. Avail(space) >= 1 /\ Avail(space) \in Int
  <2>1. Avail(space) \in Int
    BY <1>4, Constants, LenProperties DEF Avail, Sound, Spaced
  <2> QED
    BY <1>4, <1>7, <2>1
<1> DEFINE g == [h EXCEPT ![new] = h[curr]]
<1>12. /\ Sound(pages', root, space', g)
       /\ KidsIn(M) = KidsIn(K) \cup {new}
       /\ new \in PageIds /\ new \notin {curr, up, root} /\ curr # up
       /\ new \notin KidsIn(K)
       /\ Size(pages', curr) \in {T - 1, T} /\ Size(pages', new) = T
       /\ Size(pages', up) = Size(pages, up) + 1
       /\ pages'[curr].leaf = pages[curr].leaf /\ ~pages'[up].leaf /\ ~pages[up].leaf
       /\ \A q \in PageIds \ {curr, up, new} : pages'[q] = pages[q]
  <2> DEFINE pg2 == Split(pages, curr, up, new)
             sp2 == Allocate(space)
  <2>1. j \in 1 .. Len(Kids(pages)[up]) /\ Kids(pages)[up][j] = curr
    BY <1>8 DEF K
  <2>2. Sound(pages, root, space, h)
    BY <1>4
  <2>3. /\ Sound(pg2, root, sp2, g)
        /\ KidsIn(Kids(pg2)) = KidsIn(Kids(pages)) \cup {new}
        /\ new \in PageIds /\ new \notin {curr, up, root} /\ curr # up
        /\ new \notin KidsIn(Kids(pages))
        /\ Size(pg2, curr) \in {T - 1, T} /\ Size(pg2, new) = T
        /\ Size(pg2, up) = Size(pages, up) + 1
        /\ pg2[curr].leaf = pages[curr].leaf /\ ~pg2[up].leaf /\ ~pages[up].leaf
        /\ \A q \in PageIds \ {curr, up, new} : pg2[q] = pages[q]
    BY <1>2, <1>6, <1>10, <1>11, <2>1, <2>2, SplitIs
  <2>4. pages' = pg2 /\ space' = sp2
    BY <1>1
  <2> HIDE DEF pg2, sp2, g, new
  <2> QED
    BY <2>3, <2>4 DEF K
<1>13. Avail(space') = Avail(space) - 1
  BY <1>1, <1>4, <1>11, AllocateIs DEF Sound
<1>14. /\ g \in [PageIds -> Nat] /\ pages[new].leaf /\ h[new] = 1
       /\ \A q \in PageIds \ {new} : g[q] = h[q]
  <2>1. g \in [PageIds -> Nat]
    BY <1>12 DEF Sound
  <2>2. new \in Fresh(space)
    BY <1>4, <1>11, AllocateIs DEF Sound
  <2>3. pages[new].leaf
    BY <1>4, <2>2 DEF Sound
  <2>4. h[new] = 1
    BY <1>4, <1>12, <2>3 DEF Sound
  <2> QED
    BY <1>5, <2>1, <2>3, <2>4
<1> HIDE DEF new, g
<1>15. OnLine(M, root, g, path)
  <2>1. h[up] \in Nat /\ h[up] >= 2 /\ h[curr] \in Nat
    <3>1. h[curr] \in Nat /\ h[curr] >= 1
      BY <1>2, <1>4, LevelsOf
    <3> QED
      BY <1>6, <3>1
  <2>2. ASSUME NEW q \in PageIds, h[q] >= h[up] PROVE g[q] = h[q]
    BY <1>12, <1>14, <2>1, <2>2
  <2>3. ASSUME NEW q \in PageIds, h[q] > h[up] PROVE M[q] = K[q]
    <3>1. q \notin {curr, up, new}
      BY <1>6, <1>14, <2>1, <2>3
    <3>2. pages'[q] = pages[q]
      BY <1>12, <3>1
    <3> QED
      BY <3>2 DEF M, K, Kids
  <2> HIDE DEF M
  <2> QED
    BY <1>2, <1>4, <1>5, <1>6, <1>14, <2>2, <2>3, UpIs DEF up
<1>16. Fits(pages', root, 0, up)
  <2>1. /\ \A q \in {root} \cup KidsIn(K) : q \in PageIds /\ q # 0
        /\ \A q \in PageIds : Size(pages, q) \in Nat /\ Least(pages, root, q) \in Nat
        /\ MinKeys \in Nat \ {0} /\ MaxKeys \in Nat /\ T \in Nat
        /\ MinKeys = T - 1 /\ MaxKeys = 2 * T - 1
    BY <1>4, FitsOwned DEF K
  <2>2. \A q \in {root} \cup KidsIn(K) :
          /\ Size(pages, q) >= Least(pages, root, q)
          /\ Size(pages, q) <= MaxKeys + (IF q = curr THEN 1 ELSE 0)
    BY <1>4, <2>1 DEF Fits, K
  <2> SUFFICES ASSUME NEW q \in {root} \cup KidsIn(M)
               PROVE  /\ q # 0 /\ Size(pages', q) >= Least(pages', root, q)
                      /\ Size(pages', q) <= MaxKeys + (IF q = up THEN 1 ELSE 0)
    <3>1. \A q \in {root} \cup KidsIn(M) : Least(pages', root, q) \in Nat
      BY <2>1 DEF Least
    <3> QED
      BY <3>1 DEF Fits, M
  <2>3. CASE q = curr
    BY <1>1, <1>12, <2>1, <2>3 DEF Least
  <2>4. CASE q = new
    BY <1>12, <2>1, <2>4, Constants DEF Least, PageIds
  <2>5. CASE q \notin {curr, new}
    <3>1. q \in {root} \cup KidsIn(K) /\ q \in PageIds /\ q # 0
      BY <1>12, <2>1, <2>5
    <3>2. /\ Size(pages, q) >= Least(pages, root, q) /\ Size(pages, q) <= MaxKeys
      BY <2>1, <2>2, <2>5, <3>1
    <3>3. CASE q = up
      <4>1. Least(pages', root, q) = Least(pages, root, q)
        BY <1>12, <3>3 DEF Least
      <4> QED
        BY <1>12, <2>1, <3>1, <3>2, <3>3, <4>1
    <3>4. CASE q # up
      <4>1. pages'[q] = pages[q]
        BY <1>12, <2>5, <3>1, <3>4
      <4> QED
        BY <2>1, <3>1, <3>2, <3>4, <4>1 DEF Least, Size
    <3> QED
      BY <3>3, <3>4
  <2> QED
    BY <2>3, <2>4, <2>5
<1>17. /\ Repairing' /\ Less' = 0 /\ More' = up /\ root' # 0
       /\ curr' \in PageIds /\ path' \in Seq(PageIds)
  BY <1>1, <1>2, <1>6, <1>7 DEF Repairing, Less, More
<1>18. \E x : Stands(x)'
  <2>1. PICK x : x = g
    OBVIOUS
  <2>2. Stands(x)'
    BY <1>1, <1>7, <1>12, <1>15, <2>1 DEF Stands, M
  <2> QED
    BY <2>2
<1>19. Avail(space') >= Len(path') + 2
  BY <1>1, <1>4, <1>7, <1>11, <1>13
<1>20. Settled
  <2>1. new \in Fresh(space) /\ Fresh(space') = Fresh(space) \ {new}
    BY <1>1, <1>4, <1>11, AllocateIs DEF Sound, new
  <2>2. KidsIn(Kids(pages')) = KidsIn(Kids(pages)) \cup {new} /\ root' = root
    BY <1>1, <1>12 DEF K, M
  <2>3. Listed(space) => Listed(space')
    BY <1>1, <1>4, AllocateLists DEF Sound
  <2> QED
    BY <2>1, <2>2, <2>3 DEF Settled, Claimed
<1> QED
  BY <1>1, <1>16, <1>17, <1>18, <1>19, <1>20 DEF Structure

LEMMA GrowTreeKeeps ==
  ASSUME Structure, GrowTree
  PROVE  Structure' /\ Settled
<1> DEFINE n1    == Allocated(space)
           sp1   == Allocate(space)
           above == [pages EXCEPT ![n1] = Middle(<<>>, <<root>>)]
           n2    == Allocated(sp1)
           K     == Kids(pages)
           A     == Kids(above)
           M     == Kids(pages')
<1>1. /\ pc = "balance_insert" /\ Overfull(curr) /\ curr = root
      /\ root' = n1 /\ pages' = Split(above, root, n1, n2) /\ space' = Allocate(sp1)
      /\ pc' = "idle" /\ curr' = 0 /\ path' = <<>>
  BY DEF GrowTree, Finish
<1>2. root # 0 /\ path \in Seq(PageIds)
  BY <1>1 DEF Structure, Idle, Repairing
<1>3. PICK h : Stands(h)
  BY <1>2 DEF Structure
<1>4. /\ Sound(pages, root, space, h) /\ Fits(pages, root, 0, root)
      /\ Avail(space) >= Len(path) + 2
  BY <1>1, <1>2, <1>3 DEF Stands, Structure, Less, More, Repairing
<1>5. Avail(space) >= 2 /\ Avail(space) \in Int
  <2>1. Avail(space) \in Int /\ Len(path) \in Nat
    BY <1>2, <1>4, Constants, LenProperties DEF Avail, Sound, Spaced
  <2> QED
    BY <1>4, <2>1
<1>6. Size(pages, root) = 2 * T
  <2>1. /\ Size(pages, root) \in Nat /\ MaxKeys = 2 * T - 1 /\ T \in Nat
    BY <1>4, FitsOwned
  <2>2. Size(pages, root) <= MaxKeys + 1
    BY <1>4 DEF Fits
  <2>3. Size(pages, root) > MaxKeys
    BY <1>1 DEF Overfull, Count, Size
  <2> QED
    BY <2>1, <2>2, <2>3
<1> DEFINE g == [h EXCEPT ![n1] = h[root] + 1]
<1>7. /\ Sound(above, n1, sp1, g)
      /\ KidsIn(A) = KidsIn(K) \cup {root}
      /\ n1 \in PageIds \ {root} /\ A[n1] = <<root>>
      /\ Size(above, n1) = 0 /\ above[root] = pages[root]
      /\ \A q \in PageIds \ {n1} : above[q] = pages[q]
  <2>1. Sound(pages, root, space, h) /\ Avail(space) >= 1
    BY <1>4, <1>5
  <2>2. /\ Sound(above, n1, sp1, g)
        /\ KidsIn(Kids(above)) = KidsIn(Kids(pages)) \cup {root}
        /\ n1 \in PageIds \ {root} /\ Kids(above)[n1] = <<root>>
        /\ Size(above, n1) = 0 /\ above[root] = pages[root]
        /\ \A q \in PageIds \ {n1} : above[q] = pages[q]
    <3>1. Sound(above, n1, sp1, g)
      BY <2>1, PlantIs
    <3>2. KidsIn(Kids(above)) = KidsIn(Kids(pages)) \cup {root}
      BY <2>1, PlantIs
    <3>3. n1 \in PageIds \ {root}
      BY <2>1, PlantIs
    <3>4. Kids(above)[n1] = <<root>>
      BY <2>1, PlantIs
    <3>5. Size(above, n1) = 0
      BY <2>1, PlantIs
    <3>6. \A q \in PageIds \ {n1} : above[q] = pages[q]
      BY <2>1, PlantIs
    <3>7. above[root] = pages[root]
      BY <2>1, <3>3, <3>6 DEF Sound
    <3> QED
      BY <3>1, <3>2, <3>3, <3>4, <3>5, <3>6, <3>7
  <2> HIDE DEF n1, sp1, above, g
  <2> QED
    BY <2>2
<1>8. Avail(sp1) >= 1 /\ n1 \notin KidsIn(K)
  <2>1. /\ Avail(sp1) = Avail(space) - 1 /\ n1 \in Fresh(space)
    BY <1>4, <1>5, AllocateIs DEF Sound
  <2> QED
    BY <1>4, <1>5, <2>1 DEF Sound
<1> HIDE DEF n1, sp1, above, g
<1>9. 1 \in 1 .. Len(A[n1]) /\ A[n1][1] = root /\ root \in PageIds
  BY <1>4, <1>7 DEF Sound
<1>10. Size(above, root) = 2 * T
  BY <1>6, <1>7 DEF Size
<1> DEFINE f == [g EXCEPT ![n2] = g[root]]
<1>11. /\ Sound(pages', n1, space', f)
       /\ KidsIn(M) = KidsIn(A) \cup {n2}
       /\ n2 \in PageIds /\ n2 \notin {root, n1} /\ n2 \notin KidsIn(A)
       /\ Size(pages', root) \in {T - 1, T} /\ Size(pages', n2) = T
       /\ Size(pages', n1) = 0 + 1 /\ ~pages'[n1].leaf
       /\ \A q \in PageIds \ {root, n1, n2} : pages'[q] = above[q]
  <2> DEFINE pg2 == Split(above, root, n1, n2)
             sp2 == Allocate(sp1)
  <2>1. 1 \in 1 .. Len(Kids(above)[n1]) /\ Kids(above)[n1][1] = root
    BY <1>9 DEF A
  <2>2. Sound(above, n1, sp1, g) /\ Avail(sp1) >= 1 /\ n1 \in PageIds /\ root \in PageIds
    BY <1>7, <1>8, <1>9
  <2>3. /\ Sound(pg2, n1, sp2, f)
        /\ KidsIn(Kids(pg2)) = KidsIn(Kids(above)) \cup {n2}
        /\ n2 \in PageIds /\ n2 \notin {root, n1, n1} /\ root # n1
        /\ n2 \notin KidsIn(Kids(above))
        /\ Size(pg2, root) \in {T - 1, T} /\ Size(pg2, n2) = T
        /\ Size(pg2, n1) = Size(above, n1) + 1
        /\ pg2[root].leaf = above[root].leaf /\ ~pg2[n1].leaf /\ ~above[n1].leaf
        /\ \A q \in PageIds \ {root, n1, n2} : pg2[q] = above[q]
    BY <1>10, <2>1, <2>2, SplitIs
  <2>4. pages' = pg2 /\ space' = sp2
    BY <1>1
  <2> HIDE DEF pg2, sp2, f, n2
  <2> QED
    BY <1>7, <2>3, <2>4 DEF A
<1> HIDE DEF f, n2
<1>12. Fits(pages', n1, 0, 0)
  <2>1. /\ \A q \in {root} \cup KidsIn(K) : q \in PageIds /\ q # 0
        /\ \A q \in PageIds : Size(pages, q) \in Nat /\ Least(pages, root, q) \in Nat
        /\ MinKeys \in Nat \ {0} /\ MaxKeys \in Nat /\ T \in Nat
        /\ MinKeys = T - 1 /\ MaxKeys = 2 * T - 1
    BY <1>4, FitsOwned DEF K
  <2>2. \A q \in {root} \cup KidsIn(K) :
          /\ Size(pages, q) >= Least(pages, root, q)
          /\ Size(pages, q) <= MaxKeys + (IF q = root THEN 1 ELSE 0)
    BY <1>4, <2>1 DEF Fits, K
  <2> SUFFICES ASSUME NEW q \in {n1} \cup KidsIn(M)
               PROVE  /\ q # 0 /\ Size(pages', q) >= Least(pages', n1, q)
                      /\ Size(pages', q) <= MaxKeys
    <3>1. \A q \in {n1} \cup KidsIn(M) : Least(pages', n1, q) \in Nat
      BY <2>1 DEF Least
    <3> QED
      BY <2>1, <3>1 DEF Fits, M
  <2>3. CASE q = root
    BY <1>7, <1>11, <2>1, <2>3 DEF Least
  <2>4. CASE q = n2
    BY <1>11, <2>1, <2>4, Constants DEF Least, PageIds
  <2>5. CASE q = n1
    BY <1>7, <1>11, <2>1, <2>5, Constants DEF Least, PageIds
  <2>6. CASE q \notin {root, n2, n1}
    <3>1. q \in KidsIn(K) /\ q \in PageIds /\ q # 0
      BY <1>7, <1>11, <2>1, <2>6
    <3>2. /\ Size(pages, q) >= Least(pages, root, q) /\ Size(pages, q) <= MaxKeys
      BY <2>1, <2>2, <2>6, <3>1
    <3>3. pages'[q] = pages[q]
      BY <1>7, <1>11, <2>6, <3>1
    <3> QED
      BY <2>6, <3>1, <3>2, <3>3 DEF Least, Size
  <2> QED
    BY <2>3, <2>4, <2>5, <2>6
<1>13. ~Repairing' /\ Less' = 0 /\ More' = 0 /\ root' # 0
  BY <1>1, <1>7 DEF Repairing, Less, More, PageIds
<1>14. \E x : Stands(x)'
  <2>1. PICK x : x = f
    OBVIOUS
  <2>2. Stands(x)'
    BY <1>1, <1>11, <1>13, <2>1 DEF Stands
  <2> QED
    BY <2>2
<1>15. Settled
  <2>1. /\ n1 \in Fresh(space) /\ Fresh(sp1) = Fresh(space) \ {n1}
        /\ n2 \in Fresh(sp1) /\ Fresh(space') = Fresh(sp1) \ {n2}
    <3>1. n1 \in Fresh(space) /\ Fresh(sp1) = Fresh(space) \ {n1}
      BY <1>4, <1>5, AllocateIs DEF Sound, n1, sp1
    <3>2. n2 \in Fresh(sp1) /\ Fresh(Allocate(sp1)) = Fresh(sp1) \ {n2}
      BY <1>7, <1>8, AllocateIs DEF Sound, n2
    <3> QED
      BY <1>1, <3>1, <3>2
  <2>2. /\ KidsIn(Kids(pages')) = KidsIn(Kids(pages)) \cup {root, n2}
        /\ root' = n1 /\ root # 0 /\ n1 # 0
    BY <1>1, <1>2, <1>7, <1>11, <1>13 DEF K, A, M
  <2>3. Listed(space) => Listed(space')
    <3>1. Listed(space) => Listed(sp1)
      BY <1>4, AllocateLists DEF Sound, sp1
    <3>2. Listed(sp1) => Listed(space')
      BY <1>1, <1>7, AllocateLists DEF Sound
    <3> QED
      BY <3>1, <3>2
  <2> QED
    BY <2>1, <2>2, <2>3 DEF Settled, Claimed
<1> QED
  BY <1>1, <1>12, <1>13, <1>14, <1>15, EmptyIs DEF Structure


(* A root that may have a key less than it should is no harm.               *)
LEMMA FitsLess ==
  ASSUME NEW pg, NEW rt, NEW sp, NEW h, Sound(pg, rt, sp, h), Fits(pg, rt, 0, 0)
  PROVE  Fits(pg, rt, rt, 0)
<1>1. /\ {rt} \cup KidsIn(Kids(pg)) \subseteq PageIds /\ 0 \notin PageIds
      /\ \A q \in PageIds : Size(pg, q) \in Nat /\ Least(pg, rt, q) \in Nat
      /\ MaxKeys \in Nat
  BY FitsOwned
<1> SUFFICES ASSUME NEW q \in {rt} \cup KidsIn(Kids(pg))
             PROVE  /\ Size(pg, q) >= Least(pg, rt, q) - (IF q = rt THEN 1 ELSE 0)
                    /\ Size(pg, q) <= MaxKeys + (IF q = 0 THEN 1 ELSE 0)
  BY DEF Fits
<1>2. q \in PageIds /\ q # 0
  BY <1>1
<1>3. Size(pg, q) >= Least(pg, rt, q) /\ Size(pg, q) <= MaxKeys
  BY <1>1, <1>2 DEF Fits
<1> QED
  BY <1>1, <1>2, <1>3

LEMMA BalanceDeleteDoneKeeps ==
  ASSUME Structure, BalanceDeleteDone
  PROVE  Structure' /\ Settled
<1>1. /\ pc = "balance_delete" /\ ~Balancing /\ pc' = "shrink_root"
      /\ curr' = 0 /\ path' = <<>>
      /\ pages' = pages /\ root' = root /\ space' = space
  BY DEF BalanceDeleteDone
<1>2. root # 0 /\ curr \in PageIds /\ path \in Seq(PageIds)
  BY <1>1 DEF Structure, Idle, Repairing
<1>3. PICK h : Stands(h)
  BY <1>2 DEF Structure
<1>4. /\ Sound(pages, root, space, h) /\ Fits(pages, root, curr, 0)
      /\ OnLine(Kids(pages), root, h, Append(path, curr))
  BY <1>1, <1>2, <1>3 DEF Stands, Structure, Less, More, Repairing
<1>5. Fits(pages, root, root, 0)
  <2>1. CASE curr = root
    BY <1>4, <2>1
  <2>2. CASE curr # root
    <3>1. h \in [PageIds -> Nat]
      BY <1>4 DEF Sound
    <3>2. path # <<>>
      BY <1>2, <1>4, <2>2, <3>1, ParentIs
    <3>3. /\ {root} \cup KidsIn(Kids(pages)) \subseteq PageIds /\ 0 \notin PageIds
          /\ \A q \in PageIds : Size(pages, q) \in Nat /\ Least(pages, root, q) \in Nat
          /\ MaxKeys \in Nat /\ MinKeys \in Nat
      BY <1>4, FitsOwned
    <3>4. Size(pages, curr) >= MinKeys /\ Least(pages, root, curr) = MinKeys
      <4>1. ~(Count(curr) < MinKeys)
        BY <1>1, <2>2, <3>2 DEF Balancing, Underfull
      <4> QED
        BY <1>2, <2>2, <3>3, <4>1 DEF Count, Size, Least
    <3>5. Fits(pages, root, 0, 0)
      BY <1>4, <3>3, <3>4 DEF Fits
    <3> QED
      BY <1>4, <3>5, FitsLess
  <2> QED
    BY <2>1, <2>2
<1>6. ~Repairing' /\ Less' = root /\ More' = 0 /\ root' # 0
  BY <1>1, <1>2 DEF Repairing, Less, More
<1>7. Stands(h)'
  BY <1>1, <1>4, <1>6 DEF Stands
<1>8. \E x : Stands(x)'
  BY <1>7
<1>9. Settled
  BY <1>1, SettledIs
<1> QED
  BY <1>1, <1>5, <1>6, <1>8, <1>9, EmptyIs DEF Structure

LEMMA PlaceIs ==
  ASSUME NEW j \in 1 .. Len(Parent.pointers), Parent.pointers[j] = curr,
         Len(Parent.pointers) \in Nat
  PROVE  Place \in 1 .. Len(Parent.pointers) /\ Parent.pointers[Place] = curr
<1> DEFINE s == Parent.pointers
           I == { x \in 1 .. Len(s) : s[x] = curr }
<1>1. I # {} /\ I \subseteq Nat /\ Place = Min(I)
  <2>1. Place = IF I # {} THEN Min(I) ELSE 0
    BY DEF Place, SelectInSeq
  <2>2. j \in I
    OBVIOUS
  <2> QED
    BY <2>1, <2>2
<1> HIDE DEF I
<1>2. \E m \in I : \A n \in I : m <= n
  BY <1>1, LeastIn
<1>3. Min(I) \in I
  BY <1>2 DEF Min
<1> QED
  BY <1>1, <1>3 DEF I

(* A node that is short of a key: its parent and its place under it.        *)
LEMMA ShortNode ==
  ASSUME Structure, Balancing, NEW h, Stands(h)
  PROVE  /\ root # 0 /\ curr \in PageIds /\ path \in Seq(PageIds) /\ path # <<>>
         /\ Sound(pages, root, space, h) /\ Fits(pages, root, curr, 0)
         /\ OnLine(Kids(pages), root, h, Append(path, curr))
         /\ ParentId \in PageIds /\ h[ParentId] = h[curr] + 1
         /\ Kids(pages)[ParentId] = Parent.pointers
         /\ Len(Parent.pointers) \in Nat /\ Len(Parent.pointers) >= 2
         /\ Place \in 1 .. Len(Parent.pointers) /\ Parent.pointers[Place] = curr
         /\ Size(pages, curr) = MinKeys - 1
<1> DEFINE K == Kids(pages)
<1>1. /\ pc = "balance_delete" /\ curr # root /\ Count(curr) < MinKeys /\ path # <<>>
  BY DEF Balancing, Underfull
<1>2. root # 0 /\ curr \in PageIds /\ path \in Seq(PageIds)
  BY <1>1 DEF Structure, Idle, Repairing
<1>3. /\ Sound(pages, root, space, h) /\ Fits(pages, root, curr, 0)
      /\ OnLine(K, root, h, Append(path, curr))
  BY <1>1, <1>2 DEF Stands, Structure, Less, More, Repairing
<1>4. h \in [PageIds -> Nat] /\ K \in Families /\ pages \in [PageIds -> Nodes]
  BY <1>3, KidsAre DEF Sound
<1> HIDE DEF K
<1>5. /\ ParentId \in PageIds /\ h[ParentId] = h[curr] + 1
      /\ \E j \in 1 .. Len(K[ParentId]) : K[ParentId][j] = curr
  BY <1>1, <1>2, <1>3, <1>4, ParentIs DEF ParentId
<1>6. PICK j \in 1 .. Len(K[ParentId]) : K[ParentId][j] = curr
  BY <1>5
<1>7. /\ K[ParentId] = Parent.pointers /\ ~pages[ParentId].leaf
      /\ Len(K[ParentId]) = Size(pages, ParentId) + 1
      /\ Size(pages, ParentId) \in Nat
  <2>1. ~pages[ParentId].leaf
    <3>1. Len(K[ParentId]) # 0
      BY <1>6
    <3> QED
      BY <1>4, <1>5, <3>1, KidsAre DEF K
  <2> QED
    BY <1>4, <1>5, <2>1, KidsAre DEF K, Parent
<1>8. curr \in KidsIn(K)
  BY <1>4, <1>5, <1>6, KidIs
<1>9. /\ MinKeys \in Nat \ {0} /\ Size(pages, curr) \in Nat
      /\ \A q \in PageIds : Least(pages, root, q) \in Nat
  BY <1>2, <1>3, FitsOwned
<1>10. Size(pages, curr) = MinKeys - 1
  <2>1. Size(pages, curr) >= MinKeys - 1
    BY <1>1, <1>3, <1>8 DEF Fits, Least, K
  <2> QED
    BY <1>1, <1>9, <2>1 DEF Count, Size
<1>11. Size(pages, ParentId) >= 1
  <2>1. ParentId # curr
    BY <1>2, <1>4, <1>5
  <2>2. ParentId \in {root} \cup KidsIn(K)
    BY <1>1, <1>2, <1>3, ParentInTree DEF ParentId
  <2>3. Least(pages, root, ParentId) >= 1
    BY <1>7, <1>9 DEF Least
  <2>4. Size(pages, ParentId) >= Least(pages, root, ParentId)
    BY <1>3, <1>5, <1>9, <2>1, <2>2 DEF Fits, K
  <2> QED
    BY <1>5, <1>7, <1>9, <2>3, <2>4
<1>12. Place \in 1 .. Len(Parent.pointers) /\ Parent.pointers[Place] = curr
  <2>1. j \in 1 .. Len(Parent.pointers) /\ Parent.pointers[j] = curr
    BY <1>6, <1>7
  <2>2. Len(Parent.pointers) \in Nat
    BY <1>7
  <2> QED
    BY <2>1, <2>2, PlaceIs
<1> QED
  BY <1>1, <1>2, <1>3, <1>5, <1>7, <1>10, <1>11, <1>12 DEF K

LEMMA BorrowKeeps ==
  ASSUME Structure, Balancing, NEW i \in 1 .. Len(Parent.pointers) - 1,
         NEW low, NEW high, low = Parent.pointers[i], high = Parent.pointers[i + 1],
         NEW fromHigh \in BOOLEAN,
         IF fromHigh THEN low = curr /\ CanLend(high) ELSE high = curr /\ CanLend(low),
         Borrow(low, high, i, fromHigh)
  PROVE  Structure' /\ Settled
<1> DEFINE pg2 == Lent(pages, low, high, ParentId, i, fromHigh)
           d   == IF fromHigh THEN 1 ELSE -1
           K   == Kids(pages)
           M   == Kids(pages')
<1>1. /\ pages' = pg2 /\ pc' = "shrink_root" /\ curr' = 0 /\ path' = <<>>
      /\ root' = root /\ space' = space
  BY DEF Borrow, Separator, Parent, Lent
<1>2. root # 0
  BY DEF Structure, Balancing, Idle
<1>3. PICK h : Stands(h)
  BY <1>2 DEF Structure
<1>4. /\ curr \in PageIds
      /\ Sound(pages, root, space, h) /\ Fits(pages, root, curr, 0)
      /\ ParentId \in PageIds
      /\ K[ParentId] = Parent.pointers
      /\ Len(Parent.pointers) \in Nat
      /\ Size(pages, curr) = MinKeys - 1
  BY <1>3, ShortNode
<1>5. K \in Families
  BY <1>4, KidsAre DEF Sound
<1>6. /\ i \in 1 .. Len(K[ParentId]) - 1 /\ low = K[ParentId][i] /\ high = K[ParentId][i + 1]
  BY <1>4
<1>7. low \in PageIds /\ high \in PageIds /\ low \in KidsIn(K) /\ high \in KidsIn(K)
  <2>1. i \in 1 .. Len(K[ParentId]) /\ i + 1 \in 1 .. Len(K[ParentId])
    BY <1>4
  <2> HIDE DEF K
  <2> QED
    BY <1>4, <1>5, <1>6, <2>1, KidIs
<1>8. /\ \A q \in {root} \cup KidsIn(K) : q \in PageIds /\ q # 0
      /\ \A q \in PageIds : Size(pages, q) \in Nat /\ Least(pages, root, q) \in Nat
      /\ MinKeys \in Nat \ {0} /\ MaxKeys \in Nat /\ T \in Nat
      /\ MinKeys = T - 1 /\ MaxKeys = 2 * T - 1
  BY <1>4, FitsOwned DEF K
<1>9. root \notin KidsIn(K)
  BY <1>4 DEF Sound, K
<1>10. IF fromHigh THEN Size(pages, high) > MinKeys ELSE Size(pages, low) > MinKeys
  BY DEF CanLend, Count, Size
<1>11. IF fromHigh THEN Size(pages, high) >= 2 ELSE Size(pages, low) >= 2
  BY <1>7, <1>8, <1>10
<1>12. /\ Sound(pg2, root, space, h)
       /\ KidsIn(Kids(pg2)) = KidsIn(Kids(pages))
       /\ Size(pg2, low) = Size(pages, low) + d
       /\ Size(pg2, high) = Size(pages, high) - d
       /\ \A q \in PageIds \ {low, high} : Size(pg2, q) = Size(pages, q)
       /\ \A q \in PageIds : pg2[q].leaf = pages[q].leaf
  <2>1. /\ i \in 1 .. Len(Kids(pages)[ParentId]) - 1
        /\ low = Kids(pages)[ParentId][i] /\ high = Kids(pages)[ParentId][i + 1]
    BY <1>6 DEF K
  <2>2. Sound(pages, root, space, h) /\ ParentId \in PageIds
    BY <1>4
  <2> HIDE DEF K
  <2> QED
    BY <1>11, <2>1, <2>2, BorrowIs
<1> HIDE DEF pg2
<1>13. /\ Sound(pages', root, space, h) /\ KidsIn(M) = KidsIn(K)
       /\ Size(pages', low) = Size(pages, low) + d
       /\ Size(pages', high) = Size(pages, high) - d
       /\ \A q \in PageIds \ {low, high} : Size(pages', q) = Size(pages, q)
       /\ \A q \in PageIds : pages'[q].leaf = pages[q].leaf
  BY <1>1, <1>12
<1>14. \A q \in {root} \cup KidsIn(K) :
         /\ Size(pages, q) >= Least(pages, root, q) - (IF q = curr THEN 1 ELSE 0)
         /\ Size(pages, q) <= MaxKeys
  BY <1>4, <1>8 DEF Fits, K
<1> HIDE DEF K, M
<1>15. Fits(pages', root, 0, 0)
  <2> SUFFICES ASSUME NEW q \in {root} \cup KidsIn(K)
               PROVE  /\ Size(pages', q) >= Least(pages', root, q)
                      /\ Size(pages', q) <= MaxKeys
    <3>1. KidsIn(Kids(pages')) = KidsIn(K)
      BY <1>13 DEF M
    <3>2. \A q \in {root} \cup KidsIn(K) : q # 0 /\ Least(pages', root, q) \in Nat
      BY <1>8 DEF Least
    <3> QED
      BY <1>8, <3>1, <3>2 DEF Fits
  <2>1. q \in PageIds /\ Size(pages, q) \in Nat
    BY <1>8
  <2>2. CASE q \in {low, high}
    <3>1. q # root /\ Least(pages', root, q) = MinKeys /\ Least(pages, root, q) = MinKeys
      BY <1>7, <1>9, <2>2 DEF Least
    <3>2. CASE q = curr
      <4>1. Size(pages', q) = Size(pages, q) + 1
        BY <1>8, <1>10, <1>13, <2>1, <2>2, <3>2, <1>4
      <4> QED
        BY <1>4, <1>8, <2>1, <3>1, <3>2, <4>1
    <3>3. CASE q # curr
      <4>1. Size(pages', q) = Size(pages, q) - 1 /\ Size(pages, q) > MinKeys
        BY <1>10, <1>13, <2>1, <2>2, <3>3
      <4> QED
        BY <1>8, <1>14, <2>1, <3>1, <4>1
    <3> QED
      BY <3>2, <3>3
  <2>3. CASE q \notin {low, high}
    <3>1. Size(pages', q) = Size(pages, q) /\ q # curr
      BY <1>13, <2>1, <2>3
    <3>2. Least(pages', root, q) = Least(pages, root, q) /\ Least(pages, root, q) \in Nat
      BY <1>8, <1>13, <2>1 DEF Least
    <3> QED
      BY <1>14, <3>1, <3>2
  <2> QED
    BY <2>2, <2>3
<1>16. Fits(pages', root, root, 0)
  BY <1>13, <1>15, FitsLess
<1>17. ~Repairing' /\ Less' = root /\ More' = 0 /\ root' # 0
  BY <1>1, <1>2 DEF Repairing, Less, More
<1>18. Stands(h)'
  BY <1>1, <1>13, <1>17 DEF Stands
<1>19. \E x : Stands(x)'
  BY <1>18
<1>20. Settled
  BY <1>1, <1>13, SettledIs DEF K, M
<1> QED
  BY <1>1, <1>16, <1>17, <1>19, <1>20, EmptyIs DEF Structure

LEMMA BorrowRightKeeps ==
  ASSUME Structure, BorrowRight
  PROVE  Structure' /\ Settled
<1>1. /\ Balancing /\ HasRight /\ CanLend(RightSibling)
      /\ Borrow(curr, RightSibling, Place, TRUE)
  BY DEF BorrowRight
<1>2. \E h : Stands(h)
  BY <1>1 DEF Structure, Balancing, Idle
<1>3. /\ Place \in 1 .. Len(Parent.pointers) /\ Parent.pointers[Place] = curr
      /\ Len(Parent.pointers) \in Nat
  BY <1>1, <1>2, ShortNode
<1>4. Place \in 1 .. Len(Parent.pointers) - 1
  BY <1>1, <1>3 DEF HasRight
<1>5. RightSibling = Parent.pointers[Place + 1]
  BY DEF RightSibling
<1> QED
  BY <1>1, <1>3, <1>4, <1>5, BorrowKeeps

LEMMA BorrowLeftKeeps ==
  ASSUME Structure, BorrowLeft
  PROVE  Structure' /\ Settled
<1>1. /\ Balancing /\ HasLeft /\ CanLend(LeftSibling)
      /\ Borrow(LeftSibling, curr, Place - 1, FALSE)
  BY DEF BorrowLeft
<1>2. \E h : Stands(h)
  BY <1>1 DEF Structure, Balancing, Idle
<1>3. /\ Place \in 1 .. Len(Parent.pointers) /\ Parent.pointers[Place] = curr
      /\ Len(Parent.pointers) \in Nat
  BY <1>1, <1>2, ShortNode
<1>4. Place - 1 \in 1 .. Len(Parent.pointers) - 1 /\ (Place - 1) + 1 = Place
  BY <1>1, <1>3 DEF HasLeft
<1>5. LeftSibling = Parent.pointers[Place - 1]
  BY DEF LeftSibling
<1> QED
  BY <1>1, <1>3, <1>4, <1>5, BorrowKeeps

LEMMA MergeSiblingKeeps ==
  ASSUME Structure, MergeSibling
  PROVE  Structure' /\ Settled
<1> DEFINE i     == IF HasRight THEN Place ELSE Place - 1
           left  == Parent.pointers[i]
           right == Parent.pointers[i + 1]
           up    == ParentId
           K     == Kids(pages)
           M     == Kids(pages')
<1>1. /\ Balancing
      /\ ~(HasRight /\ CanLend(RightSibling)) /\ ~(HasLeft /\ CanLend(LeftSibling))
      /\ pages' = [pages EXCEPT
                     ![left] = Merged(@, pages[right], Parent.keys[i]),
                     ![right] = Blank,
                     ![up] = Middle(RemoveAt(@.keys, i), RemoveAt(@.pointers, i + 1))]
      /\ space' = Deallocate(space, right)
      /\ curr' = up /\ path' = Front(path) /\ root' = root /\ pc' = pc
  BY DEF MergeSibling, Released
<1>2. root # 0 /\ pc = "balance_delete"
  BY <1>1 DEF Structure, Balancing, Idle
<1>3. PICK h : Stands(h)
  BY <1>2 DEF Structure
<1>4. /\ curr \in PageIds /\ path \in Seq(PageIds) /\ path # <<>>
      /\ Sound(pages, root, space, h) /\ Fits(pages, root, curr, 0)
      /\ OnLine(K, root, h, Append(path, curr))
      /\ up \in PageIds /\ h[up] = h[curr] + 1
      /\ K[up] = Parent.pointers
      /\ Len(Parent.pointers) \in Nat /\ Len(Parent.pointers) >= 2
      /\ Place \in 1 .. Len(Parent.pointers) /\ Parent.pointers[Place] = curr
      /\ Size(pages, curr) = MinKeys - 1
  BY <1>1, <1>3, ShortNode
<1>5. K \in Families /\ h \in [PageIds -> Nat] /\ pages \in [PageIds -> Nodes]
  BY <1>4, KidsAre DEF Sound
<1>6. i \in 1 .. Len(Parent.pointers) - 1
  <2>1. CASE HasRight
    BY <1>4, <2>1 DEF HasRight
  <2>2. CASE ~HasRight
    BY <1>4, <2>2 DEF HasRight
  <2> QED
    BY <2>1, <2>2
<1>7. \/ left = curr /\ ~CanLend(right)
      \/ right = curr /\ ~CanLend(left)
  <2>1. CASE HasRight
    BY <1>1, <1>4, <2>1 DEF RightSibling
  <2>2. CASE ~HasRight
    <3>1. HasLeft /\ i = Place - 1 /\ i + 1 = Place
      BY <1>4, <2>2 DEF HasRight, HasLeft
    <3> QED
      BY <1>1, <1>4, <3>1 DEF LeftSibling
  <2> QED
    BY <2>1, <2>2
<1>8. /\ i \in 1 .. Len(K[up]) - 1 /\ left = K[up][i] /\ right = K[up][i + 1]
      /\ i \in 1 .. Len(K[up]) /\ i + 1 \in 1 .. Len(K[up])
  BY <1>4, <1>6
<1> HIDE DEF K, M, i, left, right
<1>9. left \in KidsIn(K) /\ right \in KidsIn(K) /\ h[up] = h[left] + 1 /\ h[up] = h[right] + 1
  <2>1. Levels(K, h)
    BY <1>4 DEF Sound, K
  <2> QED
    BY <1>4, <1>5, <1>8, <2>1, KidIs DEF Levels
<1> DEFINE pg2 == Fused(pages, left, right, up, i)
           sp2 == Deallocate(space, right)
           g   == [h EXCEPT ![right] = 1]
<1>10. /\ Sound(pg2, root, sp2, g)
       /\ KidsIn(Kids(pg2)) = KidsIn(Kids(pages)) \ {right}
       /\ Size(pg2, left) = Size(pages, left) + Size(pages, right)
                            + (IF pages[left].leaf THEN 0 ELSE 1)
       /\ Size(pg2, up) = Size(pages, up) - 1
       /\ pg2[left].leaf = pages[left].leaf /\ ~pg2[up].leaf /\ ~pages[up].leaf
       /\ right \in PageIds \ {root, left, up}
       /\ left \in PageIds \ {root, up}
       /\ \A q \in PageIds \ {left, right, up} : pg2[q] = pages[q]
  <2>1. /\ i \in 1 .. Len(Kids(pages)[up]) - 1
        /\ left = Kids(pages)[up][i] /\ right = Kids(pages)[up][i + 1]
    BY <1>8 DEF K
  <2>2. Sound(pages, root, space, h) /\ up \in PageIds
    BY <1>4
  <2> HIDE DEF up
  <2> QED
    BY <2>1, <2>2, MergeIs
<1>11. pages' = pg2
  <2>1. /\ pages' = [pages EXCEPT
                     ![left] = Merged(pages[left], pages[right], pages[up].keys[i]),
                     ![right] = Blank,
                     ![up] = Middle(RemoveAt(pages[up].keys, i),
                                    RemoveAt(pages[up].pointers, i + 1))]
    BY <1>1, <1>4, <1>5, <1>10 DEF Parent
  <2> QED
    BY <2>1 DEF Fused
<1> HIDE DEF pg2
<1>12. /\ Sound(pages', root, space', g) /\ KidsIn(M) = KidsIn(K) \ {right}
       /\ Size(pages', left) = Size(pages, left) + Size(pages, right)
                               + (IF pages[left].leaf THEN 0 ELSE 1)
       /\ Size(pages', up) = Size(pages, up) - 1
       /\ pages'[left].leaf = pages[left].leaf /\ ~pages'[up].leaf /\ ~pages[up].leaf
       /\ \A q \in PageIds \ {left, right, up} : pages'[q] = pages[q]
  BY <1>1, <1>10, <1>11 DEF K, M
<1>13. /\ \A q \in {root} \cup KidsIn(K) : q \in PageIds /\ q # 0
       /\ \A q \in PageIds : Size(pages, q) \in Nat /\ Least(pages, root, q) \in Nat
       /\ MinKeys \in Nat \ {0} /\ MaxKeys \in Nat /\ T \in Nat
       /\ MinKeys = T - 1 /\ MaxKeys = 2 * T - 1
  BY <1>4, FitsOwned DEF K
<1>14. \A q \in {root} \cup KidsIn(K) :
         /\ Size(pages, q) >= Least(pages, root, q) - (IF q = curr THEN 1 ELSE 0)
         /\ Size(pages, q) <= MaxKeys
  <2>1. Fits(pages, root, curr, 0) /\ KidsIn(Kids(pages)) = KidsIn(K)
    BY <1>4 DEF K
  <2>2. MaxKeys \in Nat /\ \A q \in {root} \cup KidsIn(K) : q # 0
    BY <1>13
  <2> QED
    BY <2>1, <2>2 DEF Fits
<1>15. Size(pages', left) >= MinKeys /\ Size(pages', left) <= MaxKeys
  <2> DEFINE other == IF left = curr THEN right ELSE left
  <2>1. /\ other \in KidsIn(K) /\ other # curr /\ other # root
        /\ Size(pages, left) + Size(pages, right) = Size(pages, other) + Size(pages, curr)
    BY <1>7, <1>9, <1>10, <1>13
  <2>2. Size(pages, other) <= MinKeys /\ Size(pages, other) \in Nat
    BY <1>7, <1>10, <1>13, <2>1 DEF CanLend, Count, Size
  <2> HIDE DEF other
  <2>3. Size(pages, other) >= MinKeys
    <3>1. Least(pages, root, other) = MinKeys
      BY <2>1 DEF Least
    <3>2. Size(pages, other) >= Least(pages, root, other) - 0
      BY <1>14, <2>1
    <3> QED
      BY <1>13, <3>1, <3>2
  <2>4. Size(pages, left) + Size(pages, right) = 2 * T - 3
    <3>1. Size(pages, other) = T - 1
      BY <1>13, <2>2, <2>3
    <3>2. Size(pages, curr) = T - 2
      BY <1>4, <1>13
    <3> QED
      BY <1>13, <2>1, <3>1, <3>2
  <2>5. T >= 2
    BY Constants
  <2> QED
    BY <1>12, <1>13, <2>4, <2>5
<1> HIDE DEF up
<1>16. Fits(pages', root, up, 0)
  <2> SUFFICES ASSUME NEW q \in {root} \cup (KidsIn(K) \ {right})
               PROVE  /\ Size(pages', q) >= Least(pages', root, q) - (IF q = up THEN 1 ELSE 0)
                      /\ Size(pages', q) <= MaxKeys
    <3>1. KidsIn(Kids(pages')) = KidsIn(K) \ {right}
      BY <1>12 DEF M
    <3>2. \A q \in {root} \cup KidsIn(K) : q # 0
      BY <1>13
    <3> QED
      BY <1>13, <3>1, <3>2 DEF Fits
  <2>1. /\ q \in PageIds /\ Size(pages, q) \in Nat /\ q # right
        /\ q \in {root} \cup KidsIn(K)
    BY <1>10, <1>13
  <2>2. CASE q = left
    <3>1. Least(pages', root, q) = MinKeys /\ q # up
      BY <1>10, <2>2 DEF Least
    <3> QED
      BY <1>13, <1>15, <2>2, <3>1
  <2>3. CASE q # left
    <3>1. q # curr
      BY <1>7, <2>1, <2>3
    <3>2. /\ Size(pages, q) >= Least(pages, root, q) /\ Size(pages, q) <= MaxKeys
          /\ Least(pages, root, q) \in Nat
      BY <1>13, <1>14, <2>1, <3>1
    <3>3. CASE q = up
      <4>1. Least(pages', root, q) = Least(pages, root, q)
        BY <1>12, <3>3 DEF Least
      <4> QED
        BY <1>12, <1>13, <2>1, <3>2, <3>3, <4>1
    <3>4. CASE q # up
      <4>1. pages'[q] = pages[q]
        BY <1>12, <2>1, <2>3, <3>4
      <4>2. Size(pages', q) = Size(pages, q) /\ Least(pages', root, q) = Least(pages, root, q)
        BY <4>1 DEF Least, Size
      <4> QED
        BY <3>2, <3>4, <4>2
    <3> QED
      BY <3>3, <3>4
  <2> QED
    BY <2>2, <2>3
<1>17. /\ Append(Front(path), up) = path /\ Front(path) \in Seq(PageIds)
  BY <1>4, LineOf DEF up, ParentId
<1>18. g \in [PageIds -> Nat] /\ \A q \in PageIds \ {right} : g[q] = h[q]
  BY <1>5, <1>10
<1> HIDE DEF g
<1>19. OnLine(M, root, g, path)
  <2>1. h[up] \in Nat /\ h[left] \in Nat /\ h[right] \in Nat
    BY <1>4, <1>5, <1>10
  <2>2. ASSUME NEW q \in PageIds, h[q] >= h[up] PROVE g[q] = h[q]
    BY <1>9, <1>18, <2>1, <2>2
  <2>3. ASSUME NEW q \in PageIds, h[q] > h[up] PROVE M[q] = K[q]
    <3>1. q \notin {left, right, up}
      BY <1>9, <2>1, <2>3
    <3>2. pages'[q] = pages[q]
      BY <1>12, <3>1
    <3> QED
      BY <3>2 DEF M, K, Kids
  <2> QED
    BY <1>4, <1>5, <1>18, <2>2, <2>3, UpIs DEF up, ParentId
<1>20. /\ Repairing' /\ Less' = up /\ More' = 0 /\ root' # 0
       /\ curr' \in PageIds /\ path' \in Seq(PageIds) /\ pc' = "balance_delete"
  BY <1>1, <1>2, <1>4, <1>17 DEF Repairing, Less, More, up
<1>21. \E x : Stands(x)'
  <2>1. PICK x : x = g
    OBVIOUS
  <2>2. Stands(x)'
    <3>1. curr' = up /\ path' = Front(path) /\ root' = root
      BY <1>1 DEF up
    <3> QED
      BY <1>12, <1>17, <1>19, <2>1, <3>1 DEF Stands, M
  <2> QED
    BY <2>2
<1>22. root' = root
  BY <1>1
<1>23. Settled
  <2>1. /\ right \in KidsIn(Kids(pages)) \ (Fresh(space) \cup {root})
        /\ right \in PageIds /\ Spaced(space)
    BY <1>4, <1>9, <1>10 DEF Sound, K
  <2>2. IF Len(space.free_list) < FreeLimit
        THEN Fresh(space') = Fresh(space) \cup {right}
        ELSE Fresh(space') = Fresh(space)
    BY <1>1, <2>1, DeallocateIs
  <2>3. KidsIn(Kids(pages')) = KidsIn(Kids(pages)) \ {right} /\ root' = root
    BY <1>12, <1>22 DEF K, M
  <2>4. Listed(space) => Listed(space')
    BY <1>1, <2>1, DeallocateLists
  <2> QED
    BY <2>1, <2>2, <2>3, <2>4 DEF Settled, Claimed
<1> QED
  BY <1>16, <1>20, <1>21, <1>22, <1>23 DEF Structure

LEMMA ShrinkRootKeeps ==
  ASSUME Structure, ShrinkRoot
  PROVE  Structure' /\ Settled
<1> DEFINE K == Kids(pages)
           M == Kids(pages')
<1>1. /\ pc = "shrink_root" /\ pc' = "idle" /\ curr' = 0 /\ path' = <<>>
      /\ IF RootIsEmpty
         THEN /\ root' = pages[root].pointers[1]
              /\ pages' = [pages EXCEPT ![root] = Blank]
              /\ space' = Deallocate(space, root)
         ELSE pages' = pages /\ root' = root /\ space' = space
  BY DEF ShrinkRoot, Finish
<1>2. root # 0
  BY <1>1 DEF Structure, Idle
<1>3. PICK h : Stands(h)
  BY <1>2 DEF Structure
<1>4. Sound(pages, root, space, h) /\ Fits(pages, root, root, 0)
  BY <1>1, <1>2, <1>3 DEF Stands, Structure, Less, More
<1>5. /\ \A q \in {root} \cup KidsIn(K) : q \in PageIds /\ q # 0
      /\ \A q \in PageIds : Size(pages, q) \in Nat /\ Least(pages, root, q) \in Nat
      /\ MinKeys \in Nat \ {0} /\ MaxKeys \in Nat
  BY <1>4, FitsOwned DEF K
<1>6. \A q \in {root} \cup KidsIn(K) :
        /\ Size(pages, q) >= Least(pages, root, q) - (IF q = root THEN 1 ELSE 0)
        /\ Size(pages, q) <= MaxKeys
  BY <1>4, <1>5 DEF Fits, K
<1>7. pc' = "idle" => ~Repairing' /\ Less' = 0 /\ More' = 0
  BY <1>1 DEF Repairing, Less, More
<1> HIDE DEF K
<1>8. CASE RootIsEmpty
  <2> DEFINE c   == pages[root].pointers[1]
             pg2 == Topless(pages, root)
             sp2 == Deallocate(space, root)
             g   == [h EXCEPT ![root] = 1]
  <2>1. pages[root].leaf = FALSE /\ Size(pages, root) = 0
    <3>1. pages[root] \in Nodes
      BY <1>4 DEF Sound
    <3>2. pages[root].leaf \in BOOLEAN
      BY <3>1, NodeIs
    <3> QED
      BY <1>8, <3>2 DEF RootIsEmpty, Count, Size
  <2>2. /\ Sound(pg2, c, sp2, g)
        /\ KidsIn(Kids(pg2)) = KidsIn(Kids(pages)) \ {c}
        /\ c \in PageIds \ {root} /\ c \in KidsIn(Kids(pages))
        /\ \A q \in PageIds \ {root} : pg2[q] = pages[q]
    <3>1. Sound(pages, root, space, h)
      BY <1>4
    <3>2. /\ Kids(pages)[root] = pages[root].pointers
          /\ Len(Kids(pages)[root]) = 0 + 1
      BY <1>5, <2>1, <3>1, KidsAre DEF Sound
    <3>3. Len(Kids(pages)[root]) = 1 /\ c = Kids(pages)[root][1]
      BY <3>2
    <3> HIDE DEF c
    <3>4. Sound(pg2, c, sp2, g)
      BY <3>1, <3>3, ShrinkIs
    <3>5. KidsIn(Kids(pg2)) = KidsIn(Kids(pages)) \ {c}
      BY <3>1, <3>3, <3>4, ShrinkIs
    <3>6. c \in PageIds \ {root} /\ c \in KidsIn(Kids(pages))
      BY <3>1, <3>3, <3>4, ShrinkIs
    <3>7. \A q \in PageIds \ {root} : pg2[q] = pages[q]
      BY <3>1 DEF Topless, Sound
    <3> QED
      BY <3>4, <3>5, <3>6, <3>7
  <2>3. root' = c /\ pages' = pg2 /\ space' = sp2
    BY <1>1, <1>8 DEF Topless
  <2> HIDE DEF c, pg2, sp2, g
  <2>4. /\ Sound(pages', c, space', g) /\ KidsIn(M) = KidsIn(K) \ {c}
        /\ c \in PageIds \ {root} /\ c \in KidsIn(K)
        /\ \A q \in PageIds \ {root} : pages'[q] = pages[q]
    BY <2>2, <2>3 DEF K
  <2>5. Fits(pages', c, 0, 0)
    <3> SUFFICES ASSUME NEW q \in {c} \cup (KidsIn(K) \ {c})
                 PROVE  /\ Size(pages', q) >= Least(pages', c, q)
                        /\ Size(pages', q) <= MaxKeys
      <4>1. KidsIn(Kids(pages')) = KidsIn(K) \ {c}
        BY <2>4
      <4>2. \A q \in {c} \cup KidsIn(K) : q # 0 /\ Least(pages', c, q) \in Nat
        BY <1>5, <2>4 DEF Least
      <4> QED
        BY <1>5, <4>1, <4>2 DEF Fits
    <3>1. q \in KidsIn(K) /\ q \in PageIds /\ q # root
      BY <1>4, <1>5, <2>4 DEF Sound, K
    <3>2. Size(pages', q) = Size(pages, q)
      BY <2>4, <3>1 DEF Size
    <3>3. Size(pages, q) >= MinKeys /\ Size(pages, q) <= MaxKeys /\ Size(pages, q) \in Nat
      BY <1>5, <1>6, <3>1 DEF Least
    <3>4. Least(pages', c, q) \in {0, 1, MinKeys}
      BY DEF Least
    <3> QED
      BY <1>5, <3>2, <3>3, <3>4
  <2>6. \E x : Stands(x)'
    <3>1. PICK x : x = g
      OBVIOUS
    <3>2. Stands(x)'
      BY <1>1, <1>7, <2>3, <2>4, <3>1 DEF Stands
    <3> QED
      BY <3>2
  <2>7. root' # 0
    BY <1>5, <2>3, <2>4
  <2>8. Settled
    <3>1. /\ root \notin KidsIn(Kids(pages)) \cup Fresh(space) /\ root \in PageIds
          /\ Spaced(space)
      BY <1>4 DEF Sound
    <3>2. IF Len(space.free_list) < FreeLimit
          THEN Fresh(space') = Fresh(space) \cup {root}
          ELSE Fresh(space') = Fresh(space)
      BY <1>1, <1>8, <3>1, DeallocateIs
    <3>3. /\ KidsIn(Kids(pages')) = KidsIn(Kids(pages)) \ {c} /\ root' = c /\ c # 0
          /\ c \in KidsIn(Kids(pages)) /\ root # c
      BY <2>3, <2>4, <2>7 DEF K, M
    <3>4. Listed(space) => Listed(space')
      BY <1>1, <1>8, <3>1, DeallocateLists
    <3> QED
      BY <1>2, <3>1, <3>2, <3>3, <3>4 DEF Settled, Claimed
  <2> QED
    BY <1>1, <1>7, <2>3, <2>5, <2>6, <2>7, <2>8, EmptyIs DEF Structure
<1>9. CASE ~RootIsEmpty
  <2>1. pages' = pages /\ root' = root /\ space' = space
    BY <1>1, <1>9
  <2>2. Size(pages, root) >= Least(pages, root, root)
    <3>1. root \in PageIds
      BY <1>5
    <3>2. ~pages[root].leaf => Size(pages, root) # 0
      BY <1>9 DEF RootIsEmpty, Count, Size
    <3> QED
      BY <1>5, <3>1, <3>2 DEF Least
  <2>3. Fits(pages, root, 0, 0)
    BY <1>5, <1>6, <2>2 DEF Fits, K
  <2>4. Stands(h)'
    BY <1>1, <1>4, <1>7, <2>1 DEF Stands
  <2>5. \E x : Stands(x)'
    BY <2>4
  <2>6. Settled
    BY <2>1, SettledIs
  <2> QED
    BY <1>1, <1>2, <1>7, <2>1, <2>3, <2>5, <2>6, EmptyIs DEF Structure
<1> QED
  BY <1>8, <1>9

-----------------------------------------------------------------------------
(* The invariant holds, and the properties that follow from it.             *)

LEMMA StructureStands ==
  ASSUME Structure, UNCHANGED vars
  PROVE  Structure'
<1>1. /\ pages' = pages /\ root' = root /\ space' = space
      /\ pc' = pc /\ curr' = curr /\ path' = path
  BY DEF vars
<1>2. /\ Repairing' = Repairing /\ Idle' = Idle /\ Less' = Less /\ More' = More
      /\ Overfull(curr)' = Overfull(curr)
  BY <1>1 DEF Repairing, Idle, Less, More, Overfull, Count
<1>3. (\E h : Stands(h)) => (\E h : Stands(h)')
  <2> SUFFICES ASSUME NEW h, Stands(h) PROVE \E x : Stands(x)'
    OBVIOUS
  <2>1. Stands(h)'
    BY <1>1, <1>2 DEF Stands
  <2> QED
    BY <2>1
<1> QED
  BY <1>1, <1>2, <1>3 DEF Structure

LEMMA StructureNext == Structure /\ [Next]_vars => Structure' /\ Settled
<1> SUFFICES ASSUME Structure, [Next]_vars PROVE Structure' /\ Settled
  OBVIOUS
<1>1. ASSUME NEW k \in Keys, NEW r \in RidsOf[k], Insert(k, r)
      PROVE  Structure' /\ Settled
  <2>1. r \in Rids
    BY TreeAssumption
  <2>2. CASE InsertFirst(k, r)
    BY <2>1, <2>2, InsertFirstKeeps
  <2>3. CASE InsertIntoLeaf(k, r)
    BY <2>1, <2>3, InsertIntoLeafKeeps
  <2> QED
    BY <1>1, <2>2, <2>3 DEF Insert
<1>2. ASSUME NEW k \in Erasable, Erase(k) PROVE Structure' /\ Settled
  BY <1>2, EraseKeeps
<1>3. CASE Balance
  <2>1. CASE BalanceInsertDone
    BY <2>1, BalanceInsertDoneKeeps
  <2>2. CASE SplitNode
    BY <2>2, SplitNodeKeeps
  <2>3. CASE GrowTree
    BY <2>3, GrowTreeKeeps
  <2>4. CASE BorrowRight
    BY <2>4, BorrowRightKeeps
  <2>5. CASE BorrowLeft
    BY <2>5, BorrowLeftKeeps
  <2>6. CASE MergeSibling
    BY <2>6, MergeSiblingKeeps
  <2>7. CASE BalanceDeleteDone
    BY <2>7, BalanceDeleteDoneKeeps
  <2>8. CASE ShrinkRoot
    BY <2>8, ShrinkRootKeeps
  <2> QED
    BY <1>3, <2>1, <2>2, <2>3, <2>4, <2>5, <2>6, <2>7, <2>8 DEF Balance
<1>4. CASE UNCHANGED vars
  <2>1. pages' = pages /\ root' = root /\ space' = space
    BY <1>4 DEF vars
  <2> QED
    BY <1>4, <2>1, StructureStands, SettledIs
<1> QED
  BY <1>1, <1>2, <1>3, <1>4 DEF Next

(* Whatever is inserted and erased, for any t, any keys and any number of   *)
(* pages, the pages of the file hold a tree and a free list that share      *)
(* nothing, with the leaves on one level and the remembered path leading    *)
(* to the node under repair (BPlusTree.h:89-705, TablePageManager.h).       *)
THEOREM StructureCorrect == Spec => []Structure
<1>1. Structure /\ [Next]_vars => Structure'
  BY StructureNext
<1> QED
  BY StructureInit, <1>1, PTL DEF Spec

(* The tree's pages are the root and the children.                          *)
LEMMA InTreeIs ==
  ASSUME pages \in [PageIds -> Nodes]
  PROVE  /\ UNION { Children(q) : q \in Middles } = KidsIn(Kids(pages))
         /\ \A q \in Middles : /\ q \in PageIds /\ Kids(pages)[q] = pages[q].pointers
                               /\ pages[q].pointers \in Seq(PageIds)
                               /\ DOMAIN pages[q].pointers = 1 .. Len(Kids(pages)[q])
<1> DEFINE K == Kids(pages)
<1>1. K \in Families
  BY KidsAre
<1>2. ASSUME NEW q \in Middles
      PROVE  /\ q \in PageIds /\ K[q] = pages[q].pointers
             /\ pages[q].pointers \in Seq(PageIds)
             /\ DOMAIN pages[q].pointers = 1 .. Len(K[q])
  <2>1. q \in PageIds /\ ~pages[q].leaf
    BY DEF Middles
  <2>2. K[q] = pages[q].pointers
    BY <2>1, KidsAre
  <2>3. K[q] \in Seq(PageIds)
    BY <1>1, <2>1, LenIs
  <2> QED
    BY <2>1, <2>2, <2>3, LenProperties
<1>3. ASSUME NEW q \in PageIds, q \notin Middles PROVE Len(K[q]) = 0
  <2>1. pages[q].leaf
    BY <1>3 DEF Middles
  <2> QED
    BY <1>3, <2>1, KidsAre
<1> HIDE DEF K
<1>4. \A q \in Middles : Children(q) = { K[q][i] : i \in 1 .. Len(K[q]) }
  BY <1>2 DEF Children, ToSet
<1>5. UNION { Children(q) : q \in Middles } \subseteq KidsIn(K)
  <2> SUFFICES ASSUME NEW q \in Middles, NEW i \in 1 .. Len(K[q])
               PROVE  K[q][i] \in KidsIn(K)
    BY <1>4
  <2> QED
    BY <1>1, <1>2, KidIs
<1>6. KidsIn(K) \subseteq UNION { Children(q) : q \in Middles }
  <2> SUFFICES ASSUME NEW c \in KidsIn(K)
               PROVE  \E q \in Middles : c \in Children(q)
    OBVIOUS
  <2>1. PICK q \in PageIds : \E i \in 1 .. Len(K[q]) : K[q][i] = c
    BY DEF KidsIn
  <2>2. q \in Middles
    <3>1. Len(K[q]) # 0
      BY <2>1
    <3> QED
      BY <1>3, <3>1
  <2> QED
    BY <1>4, <2>1, <2>2
<1> QED
  BY <1>2, <1>5, <1>6 DEF K

LEMMA StructureOccupancy == Structure => Occupancy
<1> SUFFICES ASSUME Structure, NEW p \in InTree
             PROVE  LET low  == IF p # root THEN MinKeys
                                ELSE IF pages[p].leaf THEN 0 ELSE 1
                        less == IF <<pc, p>> \in {<<"shrink_root", root>>,
                                                  <<"balance_delete", curr>>}
                                THEN 1 ELSE 0
                        more == IF <<pc, p>> = <<"balance_insert", curr>> THEN 1 ELSE 0
                    IN  Count(p) \in low - less .. MaxKeys + more
  BY DEF Occupancy
<1>1. CASE root = 0
  <2>1. \A q \in PageIds : pages[q].leaf
    BY <1>1, BlankIs DEF Structure
  <2>2. Middles = {}
    BY <2>1 DEF Middles
  <2> QED
    BY <1>1, <2>2 DEF InTree
<1>2. CASE root # 0
  <2>1. PICK h : Stands(h)
    BY <1>2 DEF Structure
  <2>2. Sound(pages, root, space, h) /\ Fits(pages, root, Less, More)
    BY <1>2, <2>1 DEF Structure, Stands
  <2>3. /\ {root} \cup KidsIn(Kids(pages)) \subseteq PageIds /\ 0 \notin PageIds
        /\ \A q \in PageIds : Size(pages, q) \in Nat /\ Least(pages, root, q) \in Nat
        /\ MinKeys \in Nat \ {0} /\ MaxKeys \in Nat
    BY <2>2, FitsOwned
  <2>4. p \in {root} \cup KidsIn(Kids(pages)) /\ p \in PageIds /\ p # 0
    <3>1. UNION { Children(q) : q \in Middles } = KidsIn(Kids(pages))
      BY <2>2, InTreeIs DEF Sound
    <3> QED
      BY <2>3, <3>1 DEF InTree
  <2>5. /\ Size(pages, p) >= Least(pages, root, p) - (IF p = Less THEN 1 ELSE 0)
        /\ Size(pages, p) <= MaxKeys + (IF p = More THEN 1 ELSE 0)
        /\ Size(pages, p) \in Nat /\ Least(pages, root, p) \in Nat
    BY <2>2, <2>3, <2>4 DEF Fits
  <2>6. /\ p = Less <=> <<pc, p>> \in {<<"shrink_root", root>>, <<"balance_delete", curr>>}
        /\ p = More <=> <<pc, p>> = <<"balance_insert", curr>>
    BY <2>4 DEF Less, More
  <2>7. Count(p) = Size(pages, p)
    BY DEF Count, Size
  <2> QED
    BY <2>3, <2>5, <2>6, <2>7 DEF Least
<1> QED
  BY <1>1, <1>2

(* For every t and every number of pages, no step leaves a node of the tree *)
(* with more keys than its array holds, and outside of its own repair every *)
(* node has from t - 1 to 2 t - 1 keys (balance_insert, balance_delete,     *)
(* borrow_sibling, merge_sibling, shrink_root).                             *)
THEOREM OccupancyCorrect == Spec => []Occupancy
BY StructureCorrect, StructureOccupancy, PTL

LEMMA StructureOwned == Structure => PagesOwned
<1> SUFFICES ASSUME Structure PROVE PagesOwned
  OBVIOUS
<1> DEFINE Free == ToSet(space.free_list)
           File == 1 .. space.page_count - 1
           K    == Kids(pages)
<1>1. CASE root = 0
  <2>1. /\ \A q \in PageIds : pages[q].leaf
        /\ space.free_list = <<>>
    BY <1>1, BlankIs DEF Structure
  <2>2. Middles = {}
    BY <2>1 DEF Middles
  <2>3. Free = {} /\ IsInjective(<<>>)
    BY <2>1 DEF ToSet, IsInjective
  <2> QED
    BY <1>1, <2>1, <2>2, <2>3 DEF PagesOwned
<1>2. CASE root # 0
  <2>1. PICK h : Stands(h)
    BY <1>2 DEF Structure
  <2>2. Sound(pages, root, space, h)
    BY <2>1 DEF Stands
  <2>3. /\ K \in Families /\ Once(K) /\ Spaced(space)
        /\ root \in PageIds /\ root \notin Fresh(space) /\ root \notin KidsIn(K)
        /\ \A q \in Fresh(space) : q \notin KidsIn(K)
    BY <2>2, KidsAre DEF Sound
  <2>4. \A q \in Middles : /\ q \in PageIds /\ K[q] = pages[q].pointers
                           /\ DOMAIN pages[q].pointers = 1 .. Len(K[q])
    BY <2>2, InTreeIs DEF Sound
  <2>5. \A q \in PageIds : q \notin Fresh(space) => q \in File \ Free
    BY <2>3, Constants DEF Fresh, PageIds, Spaced
  <2>6. IsInjective(space.free_list) /\ Free \subseteq File
    BY <2>3 DEF Spaced
  <2> HIDE DEF Free, File, K
  <2>7. ASSUME NEW q \in Middles, NEW i \in 1 .. Len(K[q])
        PROVE  K[q][i] \in File \ (Free \cup {root})
    <3>1. K[q][i] \in PageIds /\ K[q][i] \in KidsIn(K)
      BY <2>3, <2>4, KidIs
    <3> QED
      BY <2>3, <2>5, <3>1
  <2>8. ASSUME NEW q \in Middles
        PROVE  /\ IsInjective(pages[q].pointers)
               /\ Children(q) \subseteq File \ (Free \cup {root})
    <3>1. IsInjective(pages[q].pointers)
      BY <2>3, <2>4 DEF IsInjective, Once
    <3>2. Children(q) \subseteq File \ (Free \cup {root})
      BY <2>4, <2>7 DEF Children, ToSet
    <3> QED
      BY <3>1, <3>2
  <2>9. \A p, q \in Middles : p # q => Children(p) \cap Children(q) = {}
    <3> SUFFICES ASSUME NEW p \in Middles, NEW q \in Middles, p # q
                 PROVE  Children(p) \cap Children(q) = {}
      OBVIOUS
    <3>1. /\ Children(p) = { K[p][i] : i \in 1 .. Len(K[p]) }
          /\ Children(q) = { K[q][i] : i \in 1 .. Len(K[q]) }
      BY <2>4 DEF Children, ToSet
    <3>2. \A i \in 1 .. Len(K[p]), j \in 1 .. Len(K[q]) : K[p][i] # K[q][j]
      BY <2>3, <2>4 DEF Once
    <3> QED
      BY <3>1, <3>2
  <2>10. root \in File \ Free
    BY <2>3, <2>5
  <2> QED
    BY <2>6, <2>8, <2>9, <2>10 DEF PagesOwned, Free, File
<1> QED
  BY <1>1, <1>2

(* For any number of pages and any length of the free list, a page has one  *)
(* owner: one place in the tree, or one on the free list, or none; so no    *)
(* split or root change is ever given a page that is in use                 *)
(* (allocate_new_page, release_page, TablePageManager).                     *)
THEOREM PagesOwnedCorrect == Spec => []PagesOwned
BY StructureCorrect, StructureOwned, PTL

LEMMA StructurePath == Structure => PathLeadsToNode
<1> SUFFICES ASSUME Structure, pc \in {"balance_insert", "balance_delete"}
             PROVE  LET line == Append(path, curr)
                    IN  /\ line[1] = root
                        /\ \A i \in 1 .. Len(path) :
                             line[i + 1] \in ToSet(pages[line[i]].pointers)
  BY DEF PathLeadsToNode
<1> DEFINE line == Append(path, curr)
           K    == Kids(pages)
<1>1. Repairing /\ root # 0
  BY DEF Repairing, Structure, Idle
<1>2. PICK h : Stands(h)
  BY <1>1 DEF Structure
<1>3. /\ Sound(pages, root, space, h) /\ OnLine(K, root, h, line)
      /\ path \in Seq(PageIds) /\ curr \in PageIds
  BY <1>1, <1>2 DEF Stands, Structure
<1>4. line \in Seq(PageIds) /\ Len(line) = Len(path) + 1 /\ Len(path) \in Nat
  BY <1>3, AppendProperties, LenProperties
<1> HIDE DEF line
<1>5. ASSUME NEW i \in 1 .. Len(path)
      PROVE  line[i + 1] \in ToSet(pages[line[i]].pointers)
  <2>1. i \in 1 .. Len(line) - 1 /\ i \in 1 .. Len(line)
    BY <1>4
  <2>2. line[i] \in PageIds
    BY <1>4, <2>1, ElementOfSeq
  <2>3. PICK j \in 1 .. Len(K[line[i]]) : K[line[i]][j] = line[i + 1]
    BY <1>3, <2>1 DEF OnLine
  <2>4. line[i] \in Middles
    <3>1. Len(K[line[i]]) # 0
      BY <2>3
    <3> QED
      BY <1>3, <2>2, <3>1, KidsAre DEF Middles, Sound
  <2>5. /\ K[line[i]] = pages[line[i]].pointers
        /\ DOMAIN pages[line[i]].pointers = 1 .. Len(K[line[i]])
    BY <1>3, <2>4, InTreeIs DEF Sound
  <2> QED
    BY <2>3, <2>5 DEF ToSet
<1> QED
  BY <1>3, <1>5 DEF OnLine, line

(* For trees of any height, the path remembered before the first split or   *)
(* merge leads to the node under repair after every one of them             *)
(* (find_path, balance_insert, balance_delete).                             *)
THEOREM PathCorrect == Spec => []PathLeadsToNode
BY StructureCorrect, StructurePath, PTL

LEMMA StructureBalanced == Structure => Balanced
<1> SUFFICES ASSUME Structure, root # 0 PROVE Height(root) > 0
  BY DEF Balanced
<1>1. PICK h : Stands(h)
  BY DEF Structure
<1>2. Sound(pages, root, space, h) /\ root \in PageIds
  BY <1>1 DEF Stands, Sound
<1>3. Height(root) = h[root]
  BY <1>2, HeightIs
<1>4. h[root] \in Nat /\ h[root] >= 1
  BY <1>2, LevelsOf
<1> QED
  BY <1>3, <1>4

(* For trees of any height and any t, the leaves are on one level at every  *)
(* step (split_node, grow_tree, borrow_sibling, merge_sibling, shrink_root).*)
THEOREM BalancedCorrect == Spec => []Balanced
BY StructureCorrect, StructureBalanced, PTL

LEMMA LostIs ==
  ASSUME Structure
  PROVE  /\ Lost = PageIds \ Claimed(pages, root, space)
         /\ Claimed(pages, root, space) \ Fresh(space) \subseteq InTree \cap PageIds
<1>1. CASE root = 0
  <2>1. /\ \A q \in PageIds : pages[q].leaf
        /\ space.page_count = 1 /\ space.free_list = <<>>
    BY <1>1, BlankIs DEF Structure
  <2>2. KidsIn(Kids(pages)) = {}
    <3>1. \A q \in PageIds : Len(Kids(pages)[q]) = 0
      BY <2>1, EmptyIs DEF Kids
    <3> QED
      BY <3>1 DEF KidsIn
  <2>3. Fresh(space) = PageIds
    BY <2>1 DEF Fresh, PageIds, ToSet
  <2> QED
    BY <1>1, <2>1, <2>2, <2>3 DEF Lost, Claimed
<1>2. CASE root # 0
  <2>1. PICK h : Stands(h)
    BY <1>2 DEF Structure
  <2>2. Sound(pages, root, space, h)
    BY <2>1 DEF Stands
  <2>3. InTree = {root} \cup KidsIn(Kids(pages))
    BY <1>2, <2>2, InTreeIs DEF Sound, InTree
  <2>4. {root} \cup KidsIn(Kids(pages)) \subseteq PageIds
    BY <2>2, FitsOwned
  <2>5. space.page_count \in 1 .. MaxPages + 1 /\ MaxPages \in Nat
    BY <2>2, TreeAssumption DEF Sound, Spaced
  <2> QED
    BY <1>2, <2>3, <2>4, <2>5 DEF Lost, Claimed, Fresh, PageIds
<1> QED
  BY <1>1, <1>2

(* For any number of pages and any length of the free list, a step loses at *)
(* most one page, one of the tree that it releases into the full list       *)
(* (TablePageManager.h:28-32, shrink_root, merge_sibling).                  *)
THEOREM AccountedCorrect == Spec => PagesAccounted
<1> DEFINE Kept == Structure /\ Listed(space)
           Step == Lost' # Lost =>
                     /\ Len(space.free_list) = FreeLimit
                     /\ \E p \in InTree : Lost' = Lost \cup {p}
<1>1. Init => Kept
  <2>1. Init => Listed(space)
    BY TreeAssumption, EmptyIs DEF Init, Listed
  <2> QED
    BY <2>1, StructureInit
<1>2. Kept /\ [Next]_vars => Kept'
  BY StructureNext DEF Settled
<1>3. Kept /\ Kept' /\ [Next]_vars => Step
  <2> SUFFICES ASSUME Kept, Kept', [Next]_vars, Lost' # Lost PROVE Step
    OBVIOUS
  <2> DEFINE before == Claimed(pages, root, space)
             after  == Claimed(pages, root, space)'
  <2>1. /\ Lost = PageIds \ before /\ before \ Fresh(space) \subseteq InTree \cap PageIds
        /\ Lost' = PageIds \ after
    <3>1. Structure => /\ Lost = PageIds \ before
                       /\ before \ Fresh(space) \subseteq InTree \cap PageIds
      BY LostIs
    <3>2. (Structure => Lost = PageIds \ before)'
      BY LostIs, PTL
    <3> QED
      BY <3>1, <3>2
  <2>2. /\ Listed(space) /\ ~(Len(space.free_list) < FreeLimit)
        /\ \E p \in before \ Fresh(space) : after = before \ {p}
    BY <2>1, StructureNext DEF Settled
  <2>3. Len(space.free_list) \in Nat /\ FreeLimit \in Nat
    <3>1. space.free_list \in Seq(PageIds)
      <4>1. CASE root = 0
        <5>1. space.free_list = <<>>
          BY <4>1 DEF Structure
        <5> QED
          BY <5>1, EmptyIs
      <4>2. CASE root # 0
        BY <4>2 DEF Structure, Stands, Sound, Spaced
      <4> QED
        BY <4>1, <4>2
    <3> QED
      BY <3>1, TreeAssumption, LenProperties
  <2>4. Len(space.free_list) = FreeLimit
    BY <2>2, <2>3 DEF Listed
  <2>5. PICK p \in before \ Fresh(space) : after = before \ {p}
    BY <2>2
  <2> HIDE DEF before, after
  <2>6. p \in InTree /\ p \in PageIds /\ Lost' = Lost \cup {p}
    BY <2>1, <2>5
  <2> QED
    BY <2>4, <2>6
<1>4. Spec => []Kept
  BY <1>1, <1>2, PTL DEF Spec
<1> QED
  BY <1>3, <1>4, PTL DEF Spec, PagesAccounted

=============================================================================
