---------------------------- MODULE BPlusNodeProofs ----------------------------
(*******************************************************************************)
(* Insertion in a node of the B+ tree, proved for every degree, every file and *)
(* every node: the two steps that BPlusTreeNode::insert takes at each level,   *)
(* leafInsert and entryInsert, lose no key and misroute none. A node is read   *)
(* the way get reads it, by Binds and Child; a split is seen from father by    *)
(* Halved, which takes the side of entry.key that a descent takes. The trees   *)
(* of the runs satisfy the hypotheses in every state: SearchTree, TypeOK and   *)
(* PagesAccounted of BPlusTree say so.                                         *)
(*******************************************************************************)
EXTENDS BPlusNode, FiniteSetTheorems, WellFoundedInduction, TLAPS

----------------------------------------------------------------------------
(* Searching a node *)

\* The keys of s ascend.
Sorted(s) == \A i, j \in 1 .. Len(s) : i < j => s[i] < s[j]

\* c of the keys are at most k.
AtIndex(s, k, c) ==
    /\ c \in 0 .. Len(s)
    /\ c > 0 => s[c] <= k
    /\ c < Len(s) => k < s[c + 1]

\* A set of numbers has a least one.
LEMMA LeastNumber ==
    ASSUME NEW T \in SUBSET Nat, T # {}
    PROVE  \E x \in T : \A y \in T : x <= y
<1>1. PICK x \in T : \A y \in T : ~ (<<y, x>> \in OpToRel(<, Nat))
  BY WFMin, NatLessThanWellFounded, Zenon
<1>2. ASSUME NEW y \in T, y < x PROVE FALSE
  <2>1. <<y, x>> \in Nat \X Nat
    OBVIOUS
  <2>2. <<y, x>>[1] < <<y, x>>[2]
    BY <1>2
  <2>3. <<y, x>> \in OpToRel(<, Nat)
    BY <2>1, <2>2, Zenon DEF OpToRel
  <2> QED
    BY <1>1, <2>3, Zenon
<1>3. \A y \in T : x <= y
  BY <1>2
<1> QED
  BY <1>3

\* Where the index is, in a sorted node.
LEMMA IndexIs ==
    ASSUME NEW s \in Seq(Nat), Sorted(s), NEW k \in Int, NEW c, AtIndex(s, k, c)
    PROVE  indexNodeLarger(s, k) = c
<1>1. c \in Nat /\ c <= Len(s) /\ DOMAIN s = 1 .. Len(s) /\ Len(s) \in Nat
  BY DEF AtIndex
<1>2. ASSUME NEW i \in 1 .. c PROVE i \in DOMAIN s /\ s[i] <= k
  <2>1. s[i] <= s[c] /\ s[c] \in Nat /\ s[i] \in Nat
    BY <1>1, <1>2 DEF Sorted
  <2> QED
    BY <2>1, <1>1, <1>2 DEF AtIndex
<1>3. ASSUME NEW i \in DOMAIN s, s[i] <= k PROVE i \in 1 .. c
  <2>1. CASE i > c
    <3>1. s[c + 1] <= s[i] /\ s[c + 1] \in Nat /\ s[i] \in Nat
      BY <1>1, <2>1, <1>3, SMTT(40) DEF Sorted
    <3> QED
      BY <3>1, <1>1, <1>3, <2>1 DEF AtIndex
  <2> QED
    BY <1>1, <2>1
<1>4. {i \in DOMAIN s : s[i] <= k} = 1 .. c
  BY <1>2, <1>3
<1>5. Cardinality(1 .. c) = c
  BY <1>1, FS_Interval
<1> QED
  BY <1>4, <1>5 DEF indexNodeLarger

\* indexNodeLarger counts the keys that are at most k.
LEMMA IndexAt ==
    ASSUME NEW s \in Seq(Nat), Sorted(s), NEW k \in Int
    PROVE  AtIndex(s, k, indexNodeLarger(s, k))
<1> DEFINE T == {i \in DOMAIN s : k < s[i]}
<1>1. DOMAIN s = 1 .. Len(s) /\ Len(s) \in Nat
  OBVIOUS
<1>2. CASE T = {}
  <2>1. AtIndex(s, k, Len(s))
    BY <1>1, <1>2 DEF AtIndex
  <2> QED
    BY <2>1, IndexIs
<1>3. CASE T # {}
  <2>1. T \in SUBSET Nat
    BY <1>1
  <2>2. PICK x \in T : \A y \in T : x <= y
    BY <1>3, <2>1, LeastNumber
  <2>3. x \in 1 .. Len(s) /\ k < s[x]
    BY <2>2, <1>1
  <2>4. x > 1 => x - 1 \notin T
    BY <2>2, <2>3
  <2>5. x > 1 => s[x - 1] <= k
    BY <2>3, <2>4, <1>1
  <2>6. AtIndex(s, k, x - 1)
    BY <2>3, <2>5, <1>1 DEF AtIndex
  <2> QED
    BY <2>6, IndexIs
<1> QED
  BY <1>2, <1>3

\* Where a key is, or belongs.
AtPosition(s, k, p) ==
    /\ p \in 1 .. Len(s) + 1
    /\ p > 1 => s[p - 1] < k
    /\ p <= Len(s) => k <= s[p]

\* Position is where a key is or belongs, in a sorted node.
LEMMA PositionAt ==
    ASSUME NEW s \in Seq(Nat), Sorted(s), NEW k \in Int
    PROVE  AtPosition(s, k, Position(s, k))
<1>1. {i \in DOMAIN s : s[i] < k} = {i \in DOMAIN s : s[i] <= k - 1}
  OBVIOUS
<1>2. Position(s, k) = 1 + indexNodeLarger(s, k - 1)
  BY <1>1, Zenon DEF Position, indexNodeLarger
<1> DEFINE c == indexNodeLarger(s, k - 1)
<1>3. AtIndex(s, k - 1, c)
  BY IndexAt
<1> HIDE DEF c
<1> QED
  BY <1>2, <1>3, SMTT(40) DEF AtIndex, AtPosition, c

\* There is one such position.
LEMMA PositionIs ==
    ASSUME NEW s \in Seq(Nat), Sorted(s), NEW k \in Nat, NEW p, AtPosition(s, k, p)
    PROVE  Position(s, k) = p
<1> DEFINE q == Position(s, k)
<1>1. AtPosition(s, k, q)
  BY PositionAt
<1> HIDE DEF q
<1>2. DOMAIN s = 1 .. Len(s) /\ Len(s) \in Nat /\ p \in Nat /\ q \in Nat
  BY <1>1 DEF AtPosition
<1>3. CASE p < q
  <2>1. p \in DOMAIN s /\ q - 1 \in DOMAIN s /\ s[q - 1] < k /\ k <= s[p]
    BY <1>1, <1>2, <1>3 DEF AtPosition
  <2>2. p = q - 1 \/ p < q - 1
    BY <1>2, <1>3
  <2>3. s[p] <= s[q - 1]
    <3>1. CASE p = q - 1
      BY <3>1, <2>1
    <3>2. CASE p < q - 1
      BY <3>2, <2>1, SMTT(40) DEF Sorted
    <3> QED
      BY <2>2, <3>1, <3>2
  <2> QED
    BY <2>1, <2>3
<1>4. CASE q < p
  <2>1. q \in DOMAIN s /\ p - 1 \in DOMAIN s /\ s[p - 1] < k /\ k <= s[q]
    BY <1>1, <1>2, <1>4 DEF AtPosition
  <2>2. q = p - 1 \/ q < p - 1
    BY <1>2, <1>4
  <2>3. s[q] <= s[p - 1]
    <3>1. CASE q = p - 1
      BY <3>1, <2>1
    <3>2. CASE q < p - 1
      BY <3>2, <2>1, SMTT(40) DEF Sorted
    <3> QED
      BY <2>2, <3>1, <3>2
  <2> QED
    BY <2>1, <2>3
<1> QED
  BY <1>2, <1>3, <1>4 DEF q

----------------------------------------------------------------------------
\* Sequences

\* A part of a sequence, element by element.
LEMMA SubSeqFacts ==
    ASSUME NEW s \in Seq(Nat), NEW a \in 1 .. Len(s) + 1, NEW b \in a - 1 .. Len(s)
    PROVE  /\ SubSeq(s, a, b) \in Seq(Nat)
           /\ Len(SubSeq(s, a, b)) = b - a + 1
           /\ \A i \in 1 .. b - a + 1 : SubSeq(s, a, b)[i] = s[a + i - 1]
  BY SMTT(40)

\* One sequence after another, element by element.
LEMMA ConcatFacts ==
    ASSUME NEW s \in Seq(Nat), NEW t \in Seq(Nat)
    PROVE  /\ s \o t \in Seq(Nat)
           /\ Len(s \o t) = Len(s) + Len(t)
           /\ \A i \in 1 .. Len(s) : (s \o t)[i] = s[i]
           /\ \A i \in 1 .. Len(t) : (s \o t)[Len(s) + i] = t[i]
  BY SMTT(40)

\* The same, as one formula.
LEMMA ConcatAt ==
    ASSUME NEW s \in Seq(Nat), NEW t \in Seq(Nat), NEW i \in 1 .. Len(s) + Len(t)
    PROVE  (s \o t)[i] = IF i <= Len(s) THEN s[i] ELSE t[i - Len(s)]
  OBVIOUS

\* A sequence with one element more, element by element.
LEMMA InsertAtFacts ==
    ASSUME NEW s \in Seq(Nat), NEW p \in 1 .. Len(s) + 1, NEW e \in Nat
    PROVE  /\ InsertAt(s, p, e) \in Seq(Nat)
           /\ Len(InsertAt(s, p, e)) = Len(s) + 1
           /\ InsertAt(s, p, e)[p] = e
           /\ \A i \in 1 .. Len(s) : /\ i < p => InsertAt(s, p, e)[i] = s[i]
                                     /\ i >= p => InsertAt(s, p, e)[i + 1] = s[i]
<1> DEFINE x == SubSeq(s, 1, p - 1)
           y == SubSeq(s, p, Len(s))
           z == x \o <<e>>
<1>1. Len(s) \in Nat /\ p \in Nat
  OBVIOUS
<1>2. x \in Seq(Nat) /\ Len(x) = p - 1 /\ \A i \in 1 .. p - 1 : x[i] = s[i]
  BY <1>1, SubSeqFacts
<1>3. /\ y \in Seq(Nat) /\ Len(y) = Len(s) + 1 - p
      /\ \A i \in 1 .. Len(s) + 1 - p : y[i] = s[p + i - 1]
  BY <1>1, SubSeqFacts
<1>4. InsertAt(s, p, e) = z \o y
  BY DEF InsertAt
<1> HIDE DEF x, y
<1>5. z \in Seq(Nat) /\ Len(z) = p /\ z[p] = e /\ \A i \in 1 .. p - 1 : z[i] = s[i]
  <2>1. z \in Seq(Nat) /\ Len(z) = p
    BY <1>1, <1>2
  <2>2. z[p] = e
    BY <1>1, <1>2
  <2>3. ASSUME NEW i \in 1 .. p - 1 PROVE z[i] = s[i]
    <3>1. i \in 1 .. Len(x) /\ x[i] = s[i]
      BY <1>1, <1>2
    <3>2. z[i] = x[i]
      BY <1>1, <1>2, <3>1
    <3> QED
      BY <3>1, <3>2
  <2> QED
    BY <2>1, <2>2, <2>3
<1> HIDE DEF z
<1>a. z \in Seq(Nat) /\ y \in Seq(Nat) /\ Len(z) = p /\ Len(y) = Len(s) + 1 - p
  BY <1>3, <1>5
<1>b. Len(z) + Len(y) = Len(s) + 1
  BY <1>1, <1>a
<1>6. z \o y \in Seq(Nat) /\ Len(z \o y) = Len(s) + 1
  BY <1>a, <1>b, ConcatFacts
<1>7. ASSUME NEW i \in 1 .. Len(s) + 1
      PROVE  /\ i < p => (z \o y)[i] = s[i]
             /\ i = p => (z \o y)[i] = e
             /\ i > p => (z \o y)[i] = s[i - 1]
  <2>a. i \in 1 .. Len(z) + Len(y)
    BY <1>b
  <2>b. (z \o y)[i] = IF i <= Len(z) THEN z[i] ELSE y[i - Len(z)]
    BY <1>a, <2>a, ConcatAt
  <2>1. (z \o y)[i] = IF i <= p THEN z[i] ELSE y[i - p]
    BY <1>a, <2>b
  <2>2. ASSUME i > p PROVE y[i - p] = s[i - 1]
    <3>1. i - p \in 1 .. Len(s) + 1 - p /\ p + (i - p) - 1 = i - 1
      BY <1>1, <2>2
    <3> QED
      BY <1>3, <3>1
  <2>3. ASSUME i < p PROVE z[i] = s[i]
    BY <1>5, <2>3, <1>1
  <2> QED
    BY <2>1, <2>2, <2>3, <1>5, <1>1
<1>8. ASSUME NEW i \in 1 .. Len(s)
      PROVE  /\ i < p => (z \o y)[i] = s[i]
             /\ i >= p => (z \o y)[i + 1] = s[i]
  <2>1. i \in 1 .. Len(s) + 1 /\ i + 1 \in 1 .. Len(s) + 1 /\ (i + 1) - 1 = i
    BY <1>1
  <2>2. i + 1 > p => (z \o y)[i + 1] = s[(i + 1) - 1]
    BY <2>1, <1>7, Zenon
  <2>3. i < p => (z \o y)[i] = s[i]
    BY <2>1, <1>7, Zenon
  <2>4. i >= p => i + 1 > p
    BY <1>1
  <2>5. s[(i + 1) - 1] = s[i]
    BY <2>1, Zenon
  <2> QED
    BY <2>2, <2>3, <2>4, <2>5, Zenon
<1>9. p \in 1 .. Len(s) + 1
  OBVIOUS
<1>10. (z \o y)[p] = e
  BY <1>7, <1>9, Zenon
<1> QED
  BY <1>4, <1>6, <1>8, <1>10, Zenon

\* A sequence with one element less, element by element.
LEMMA RemoveAtFacts ==
    ASSUME NEW s \in Seq(Nat), NEW p \in 1 .. Len(s)
    PROVE  /\ RemoveAt(s, p) \in Seq(Nat)
           /\ Len(RemoveAt(s, p)) = Len(s) - 1
           /\ \A i \in 1 .. Len(s) - 1 : RemoveAt(s, p)[i] = IF i < p THEN s[i] ELSE s[i + 1]
<1> DEFINE x == SubSeq(s, 1, p - 1)
           y == SubSeq(s, p + 1, Len(s))
<1>1. Len(s) \in Nat /\ p \in Nat
  OBVIOUS
<1>2. x \in Seq(Nat) /\ Len(x) = p - 1 /\ \A i \in 1 .. p - 1 : x[i] = s[i]
  BY <1>1, SubSeqFacts
<1>3. /\ y \in Seq(Nat) /\ Len(y) = Len(s) - p
      /\ \A i \in 1 .. Len(s) - p : y[i] = s[p + i]
  <2>1. p + 1 \in 1 .. Len(s) + 1 /\ Len(s) \in (p + 1) - 1 .. Len(s)
    BY <1>1
  <2>2. Len(y) = Len(s) - (p + 1) + 1 /\ \A i \in 1 .. Len(s) - (p + 1) + 1 : y[i] = s[p + 1 + i - 1]
    BY <2>1, SubSeqFacts
  <2>3. Len(s) - (p + 1) + 1 = Len(s) - p /\ \A i \in Nat : p + 1 + i - 1 = p + i
    BY <1>1
  <2>4. y \in Seq(Nat)
    BY <2>1, SubSeqFacts
  <2> HIDE DEF y
  <2> QED
    BY <2>2, <2>3, <2>4, <1>1, SMTT(40)
<1>4. RemoveAt(s, p) = x \o y
  BY DEF RemoveAt
<1> HIDE DEF x, y
<1>a. x \in Seq(Nat) /\ y \in Seq(Nat) /\ Len(x) = p - 1 /\ Len(y) = Len(s) - p
  BY <1>2, <1>3
<1>b. Len(x) + Len(y) = Len(s) - 1
  BY <1>1, <1>a
<1>6. x \o y \in Seq(Nat) /\ Len(x \o y) = Len(s) - 1
  BY <1>a, <1>b, ConcatFacts
<1>7. ASSUME NEW i \in 1 .. Len(s) - 1
      PROVE  (x \o y)[i] = IF i < p THEN s[i] ELSE s[i + 1]
  <2>a. i \in 1 .. Len(x) + Len(y)
    BY <1>b
  <2>b. (x \o y)[i] = IF i <= Len(x) THEN x[i] ELSE y[i - Len(x)]
    BY <1>a, <2>a, ConcatAt
  <2>1. (x \o y)[i] = IF i <= p - 1 THEN x[i] ELSE y[i - (p - 1)]
    BY <1>a, <2>b
  <2>2. ASSUME i >= p PROVE y[i - (p - 1)] = s[i + 1]
    <3>1. i - (p - 1) \in 1 .. Len(s) - p /\ p + (i - (p - 1)) = i + 1
      BY <1>1, <2>2
    <3> QED
      BY <1>3, <3>1
  <2>3. ASSUME i < p PROVE x[i] = s[i]
    BY <1>2, <2>3, <1>1
  <2> QED
    BY <2>1, <2>2, <2>3, <1>1
<1> QED
  BY <1>4, <1>6, <1>7

----------------------------------------------------------------------------
\* Nodes, by their keys and childs

\* The child that a descent for k goes to.
Child(ks, cs, k) == cs[1 + indexNodeLarger(ks, k)]

\* A leaf binds k to the slot c: what get, set and remove find.
Binds(ks, cs, k, c) == isExisting(ks, k) /\ c = cs[Position(ks, k)]

\* The child of a descent, from the number of keys at most k.
LEMMA ChildIs ==
    ASSUME NEW ks \in Seq(Nat), Sorted(ks), NEW cs, NEW k \in Nat, NEW c, AtIndex(ks, k, c)
    PROVE  Child(ks, cs, k) = cs[1 + c]
  BY IndexIs DEF Child

\* The same without the search: some position holds k, and c.
BoundAt(s, cs, k, c) == \E i \in 1 .. Len(s) : s[i] = k /\ c = cs[i]

\* The search of a sorted leaf finds exactly what the leaf holds.
LEMMA BindsAt ==
    ASSUME NEW s \in Seq(Nat), Sorted(s), NEW cs, NEW k \in Nat, NEW c
    PROVE  Binds(s, cs, k, c) <=> BoundAt(s, cs, k, c)
<1>1. DOMAIN s = 1 .. Len(s) /\ Len(s) \in Nat
  OBVIOUS
<1>2. ASSUME NEW i \in 1 .. Len(s), s[i] = k PROVE Position(s, k) = i
  <2>1. i > 1 => s[i - 1] < s[i]
    BY <1>1, SMTT(40) DEF Sorted
  <2>2. AtPosition(s, k, i)
    BY <1>1, <1>2, <2>1 DEF AtPosition
  <2> QED
    BY <1>1, <2>2, PositionIs
<1>3. isExisting(s, k) <=> \E i \in 1 .. Len(s) : s[i] = k
  BY <1>1, Zenon DEF isExisting, Range
<1> QED
  BY <1>2, <1>3, Zenon DEF Binds, BoundAt

----------------------------------------------------------------------------
(* A node cut in two, and a key inserted *)

\* w is the first a elements of l followed by the first b elements of r.
Joins(w, l, a, r, b) ==
    /\ \A i \in 1 .. a : w[i] = l[i]
    /\ \A i \in 1 .. b : w[a + i] = r[i]

\* The keys of l are before s, those of r are not.
Cut(l, s, r) ==
    /\ \A i \in 1 .. Len(l) : l[i] < s
    /\ \A i \in 1 .. Len(r) : s <= r[i]

\* w is the first a elements of l, one more, and the first b elements of r.
JoinsAround(w, l, a, r, b) ==
    /\ \A i \in 1 .. a : w[i] = l[i]
    /\ \A i \in 1 .. b : w[a + 1 + i] = r[i]

\* A leaf cut at s binds a key where the half on the key's side of s binds it.
LEMMA BindsCut ==
    ASSUME NEW wk \in Seq(Nat), NEW lk \in Seq(Nat), NEW rk \in Seq(Nat),
           Sorted(wk), Sorted(lk), Sorted(rk), NEW wc, NEW lc, NEW rc,
           NEW a \in Nat, NEW b \in Nat, Len(lk) = a, Len(rk) = b, Len(wk) = a + b,
           Joins(wk, lk, a, rk, b), Joins(wc, lc, a, rc, b),
           NEW s \in Nat, Cut(lk, s, rk), NEW k \in Nat, NEW c
    PROVE  /\ k < s => (Binds(lk, lc, k, c) <=> Binds(wk, wc, k, c))
           /\ ~(k < s) => (Binds(rk, rc, k, c) <=> Binds(wk, wc, k, c))
<1>2. \A i \in 1 .. a + b : i \in 1 .. a \/ i - a \in 1 .. b
  OBVIOUS
<1>3. \A i \in 1 .. a : wk[i] = lk[i] /\ wc[i] = lc[i] /\ i \in 1 .. a + b
  BY DEF Joins
<1>4. \A i \in 1 .. b : wk[a + i] = rk[i] /\ wc[a + i] = rc[i] /\ a + i \in 1 .. a + b
  BY DEF Joins
<1>5. /\ \A i \in 1 .. a : lk[i] < s
      /\ \A i \in 1 .. b : s <= rk[i]
  BY DEF Cut
<1>6. /\ Binds(lk, lc, k, c) <=> \E i \in 1 .. a : lk[i] = k /\ c = lc[i]
      /\ Binds(rk, rc, k, c) <=> \E i \in 1 .. b : rk[i] = k /\ c = rc[i]
      /\ Binds(wk, wc, k, c) <=> \E i \in 1 .. a + b : wk[i] = k /\ c = wc[i]
  <2>1. /\ Binds(lk, lc, k, c) <=> BoundAt(lk, lc, k, c)
        /\ Binds(rk, rc, k, c) <=> BoundAt(rk, rc, k, c)
        /\ Binds(wk, wc, k, c) <=> BoundAt(wk, wc, k, c)
    BY BindsAt
  <2> QED
    BY <2>1, Zenon DEF BoundAt
<1>7. ASSUME k < s PROVE Binds(lk, lc, k, c) <=> Binds(wk, wc, k, c)
  <2>1. ASSUME Binds(lk, lc, k, c) PROVE Binds(wk, wc, k, c)
    BY <2>1, <1>3, <1>6, Zenon
  <2>2. ASSUME Binds(wk, wc, k, c) PROVE Binds(lk, lc, k, c)
    <3>1. PICK i \in 1 .. a + b : wk[i] = k /\ c = wc[i]
      BY <2>2, <1>6, Zenon
    <3>2. ASSUME i - a \in 1 .. b PROVE FALSE
      <4>1. a + (i - a) = i
        OBVIOUS
      <4>2. rk[i - a] = k /\ s <= rk[i - a]
        BY <3>1, <3>2, <4>1, <1>4, <1>5
      <4> QED
        BY <4>2, <1>7
    <3> QED
      BY <3>1, <3>2, <1>2, <1>3, <1>6, Zenon
  <2> QED
    BY <2>1, <2>2
<1>8. ASSUME ~(k < s) PROVE Binds(rk, rc, k, c) <=> Binds(wk, wc, k, c)
  <2>1. ASSUME Binds(rk, rc, k, c) PROVE Binds(wk, wc, k, c)
    <3>1. PICK i \in 1 .. b : rk[i] = k /\ c = rc[i]
      BY <2>1, <1>6, Zenon
    <3>2. wk[a + i] = k /\ c = wc[a + i] /\ a + i \in 1 .. a + b
      BY <3>1, <1>4
    <3> QED
      BY <3>2, <1>6, Zenon
  <2>2. ASSUME Binds(wk, wc, k, c) PROVE Binds(rk, rc, k, c)
    <3>1. PICK i \in 1 .. a + b : wk[i] = k /\ c = wc[i]
      BY <2>2, <1>6, Zenon
    <3>2. ASSUME i \in 1 .. a PROVE FALSE
      <4>1. lk[i] = k /\ lk[i] < s
        BY <3>1, <3>2, <1>3, <1>5
      <4> QED
        BY <4>1, <1>8
    <3>3. a + (i - a) = i
      OBVIOUS
    <3>4. i - a \in 1 .. b /\ rk[i - a] = k /\ c = rc[i - a]
      BY <3>1, <3>2, <3>3, <1>2, <1>4, Zenon
    <3> QED
      BY <3>4, <1>6, Zenon
  <2> QED
    BY <2>1, <2>2
<1> QED
  BY <1>7, <1>8

\* An internal node cut at its key after the a-th leads a key where the half on
\* its side leads.
LEMMA ChildCut ==
    ASSUME NEW wk \in Seq(Nat), NEW lk \in Seq(Nat), NEW rk \in Seq(Nat),
           Sorted(wk), Sorted(lk), Sorted(rk), NEW wc, NEW lc, NEW rc,
           NEW a \in Nat, NEW b \in Nat, Len(lk) = a, Len(rk) = b, Len(wk) = a + b + 1,
           JoinsAround(wk, lk, a, rk, b),
           Joins(wc, lc, a + 1, rc, b + 1), NEW k \in Nat
    PROVE  Child(wk, wc, k) = IF k < wk[a + 1] THEN Child(lk, lc, k) ELSE Child(rk, rc, k)
<1> DEFINE i == indexNodeLarger(wk, k)
<1>1. AtIndex(wk, k, i)
  BY IndexAt
<1>2. i \in 0 .. a + b + 1 /\ (i > 0 => wk[i] <= k) /\ (i < a + b + 1 => k < wk[i + 1])
  BY <1>1 DEF AtIndex
<1>3. Child(wk, wc, k) = wc[1 + i]
  BY DEF Child
<1> HIDE DEF i
<1>4. \A u, v \in 1 .. a + b + 1 : u < v => wk[u] < wk[v]
  <2>1. DOMAIN wk = 1 .. a + b + 1
    OBVIOUS
  <2> QED
    BY <2>1, Zenon DEF Sorted
<1>5. \A u \in 1 .. a + b + 1 : wk[u] \in Nat
  OBVIOUS
<1>6. CASE k < wk[a + 1]
  <2>1. i <= a
    <3>1. CASE i > a + 1
      <4>1. wk[a + 1] < wk[i] /\ wk[i] <= k
        BY <3>1, <1>2, <1>4
      <4> QED
        BY <4>1, <1>2, <1>5, <1>6, <3>1, SMTT(40)
    <3>2. CASE i = a + 1
      BY <3>2, <1>2, <1>6, <1>5
    <3> QED
      BY <3>1, <3>2, <1>2
  <2>2. i > 0 => lk[i] <= k
    BY <2>1, <1>2 DEF JoinsAround
  <2>3. i < a => k < lk[i + 1]
    <3>1. ASSUME i < a PROVE i + 1 \in 1 .. a
      BY <3>1, <1>2
    <3> QED
      BY <3>1, <2>1, <1>2 DEF JoinsAround
  <2>4. AtIndex(lk, k, i)
    BY <2>1, <2>2, <2>3, <1>2 DEF AtIndex
  <2>5. Child(lk, lc, k) = lc[1 + i]
    BY <2>4, ChildIs
  <2>6. 1 + i \in 1 .. a + 1
    BY <2>1, <1>2
  <2>7. wc[1 + i] = lc[1 + i]
    BY <2>6 DEF Joins
  <2> QED
    BY <1>3, <1>6, <2>5, <2>7
<1>7. CASE ~(k < wk[a + 1])
  <2>1. i >= a + 1
    <3>1. CASE i < a
      <4>1. wk[i + 1] < wk[a + 1] /\ k < wk[i + 1]
        <5>1. i + 1 \in 1 .. a + b + 1 /\ a + 1 \in 1 .. a + b + 1 /\ i + 1 < a + 1
          BY <3>1, <1>2
        <5> QED
          BY <5>1, <3>1, <1>2, <1>4
      <4>2. wk[i + 1] \in Nat /\ wk[a + 1] \in Nat
        <5>1. i + 1 \in 1 .. a + b + 1 /\ a + 1 \in 1 .. a + b + 1
          BY <3>1, <1>2
        <5> QED
          BY <5>1, <1>5
      <4> HIDE DEF i
      <4> QED
        BY <4>1, <4>2, <1>7, SMTT(40)
    <3>2. CASE i = a
      BY <3>2, <1>2, <1>7, <1>5
    <3> QED
      BY <3>1, <3>2, <1>2
  <2> DEFINE j == i - (a + 1)
  <2>2. j \in 0 .. b /\ a + 1 + j = i /\ a + 1 + (j + 1) = i + 1 /\ (a + 1) + (1 + j) = 1 + i
    BY <2>1, <1>2
  <2> HIDE DEF j
  <2>3. j > 0 => rk[j] <= k
    <3>1. ASSUME j > 0 PROVE wk[a + 1 + j] = rk[j]
      <4>1. j \in 1 .. b
        BY <3>1, <2>2
      <4> QED
        BY <4>1 DEF JoinsAround
    <3>2. ASSUME j > 0 PROVE wk[i] <= k
      BY <3>2, <2>2, <1>2
    <3> QED
      BY <3>1, <3>2, <2>2
  <2>4. j < b => k < rk[j + 1]
    <3>1. ASSUME j < b PROVE wk[a + 1 + (j + 1)] = rk[j + 1]
      <4>1. j + 1 \in 1 .. b
        BY <3>1, <2>2
      <4> QED
        BY <4>1 DEF JoinsAround
    <3>2. ASSUME j < b PROVE k < wk[i + 1]
      BY <3>2, <2>2, <1>2
    <3> QED
      BY <3>1, <3>2, <2>2
  <2>5. AtIndex(rk, k, j)
    BY <2>2, <2>3, <2>4 DEF AtIndex
  <2>6. Child(rk, rc, k) = rc[1 + j]
    BY <2>5, ChildIs
  <2>7. 1 + j \in 1 .. b + 1
    BY <2>2
  <2>8. wc[(a + 1) + (1 + j)] = rc[1 + j]
    BY <2>7 DEF Joins
  <2> QED
    BY <1>3, <1>7, <2>2, <2>6, <2>8
<1> QED
  BY <1>6, <1>7

\* t is s, of length m, with e inserted at position p.
Inserted(t, s, m, p, e) ==
    /\ t[p] = e
    /\ \A i \in 1 .. m : (i < p => t[i] = s[i]) /\ (i >= p => t[i + 1] = s[i])

\* InsertAt inserts.
LEMMA InsertAtIs ==
    ASSUME NEW s \in Seq(Nat), NEW p \in 1 .. Len(s) + 1, NEW e \in Nat
    PROVE  /\ InsertAt(s, p, e) \in Seq(Nat) /\ Len(InsertAt(s, p, e)) = Len(s) + 1
           /\ Inserted(InsertAt(s, p, e), s, Len(s), p, e)
  BY InsertAtFacts, Zenon DEF Inserted

\* e belongs at position p of s.
Belongs(s, m, p, e) ==
    /\ p \in 1 .. m + 1
    /\ \A i \in 1 .. m : (i < p => s[i] < e) /\ (i >= p => e < s[i])

\* A key that a sorted node lacks belongs at its Position.
LEMMA PositionBelongs ==
    ASSUME NEW s \in Seq(Nat), Sorted(s), NEW e \in Nat, ~isExisting(s, e)
    PROVE  Belongs(s, Len(s), Position(s, e), e)
<1> DEFINE p == Position(s, e)
           m == Len(s)
<1>1. AtPosition(s, e, p)
  BY PositionAt
<1>2. \A i \in 1 .. m : s[i] # e /\ s[i] \in Nat
  BY DEF isExisting, Range
<1> HIDE DEF p
<1>3. p \in 1 .. m + 1 /\ (p > 1 => s[p - 1] < e) /\ (p <= m => e <= s[p])
  BY <1>1 DEF AtPosition
<1>4. \A i, j \in 1 .. m : i < j => s[i] < s[j]
  BY DEF Sorted
<1>5. m \in Nat
  OBVIOUS
<1> HIDE DEF m
<1>6. ASSUME NEW i \in 1 .. m, i < p PROVE s[i] < e
  <2>1. p - 1 \in 1 .. m /\ (i = p - 1 \/ i < p - 1) /\ p > 1
    BY <1>3, <1>5, <1>6
  <2>2. s[i] <= s[p - 1] /\ s[i] \in Nat /\ s[p - 1] \in Nat
    BY <2>1, <1>2, <1>4
  <2> QED
    BY <2>1, <2>2, <1>3
<1>7. ASSUME NEW i \in 1 .. m, i >= p PROVE e < s[i]
  <2>1. p \in 1 .. m /\ (i = p \/ p < i)
    BY <1>3, <1>5, <1>7
  <2>2. s[p] <= s[i] /\ s[i] \in Nat /\ s[p] \in Nat /\ s[p] # e
    BY <2>1, <1>2, <1>4
  <2> QED
    BY <2>1, <2>2, <1>3
<1>8. Belongs(s, m, p, e)
  BY <1>3, <1>6, <1>7 DEF Belongs
<1> QED
  BY <1>8 DEF p, m

\* The keys stay in order when a key is inserted where it belongs.
LEMMA InsertSorted ==
    ASSUME NEW s \in Seq(Nat), Sorted(s), NEW m \in Nat, Len(s) = m, NEW e \in Nat, NEW p,
           Belongs(s, m, p, e), NEW t \in Seq(Nat), Len(t) = m + 1, Inserted(t, s, m, p, e)
    PROVE  Sorted(t)
<1>1. p \in 1 .. m + 1 /\ p \in Nat
  BY DEF Belongs
<1>2. \A i, j \in 1 .. m : i < j => s[i] < s[j]
  BY Zenon DEF Sorted
<1>3. SUFFICES ASSUME NEW i \in 1 .. m + 1, NEW j \in 1 .. m + 1, i < j
               PROVE  t[i] < t[j]
  BY Zenon DEF Sorted
<1>4. CASE i < p
  <2>1. i \in 1 .. m
    BY <1>1, <1>4
  <2>2. t[i] = s[i] /\ s[i] < e
    BY <2>1, <1>4 DEF Inserted, Belongs
  <2>3. CASE j < p
    <3>1. j \in 1 .. m
      BY <1>1, <2>3
    <3>2. t[j] = s[j] /\ s[i] < s[j]
      BY <3>1, <2>1, <2>3, <1>2, <1>3 DEF Inserted
    <3> QED
      BY <2>2, <3>2
  <2>4. CASE j = p
    BY <2>2, <2>4 DEF Inserted
  <2>5. CASE j > p
    <3>1. j - 1 \in 1 .. m /\ j - 1 >= p /\ (j - 1) + 1 = j /\ i < j - 1
      BY <1>1, <2>5, <1>4
    <3>2. t[(j - 1) + 1] = s[j - 1] /\ s[i] < s[j - 1]
      BY <3>1, <2>1, <1>2 DEF Inserted
    <3> QED
      BY <2>2, <3>1, <3>2
  <2> QED
    BY <2>3, <2>4, <2>5, <1>1
<1>5. CASE i >= p
  <2>1. j - 1 \in 1 .. m /\ j - 1 >= p /\ (j - 1) + 1 = j
    BY <1>1, <1>3, <1>5
  <2>2. t[(j - 1) + 1] = s[j - 1] /\ e < s[j - 1]
    BY <2>1 DEF Inserted, Belongs
  <2>3. CASE i = p
    BY <2>1, <2>2, <2>3 DEF Inserted
  <2>4. CASE i > p
    <3>1. i - 1 \in 1 .. m /\ i - 1 >= p /\ (i - 1) + 1 = i /\ i - 1 < j - 1
      BY <1>1, <2>4, <1>3
    <3>2. t[(i - 1) + 1] = s[i - 1] /\ s[i - 1] < s[j - 1]
      BY <3>1, <2>1, <1>2 DEF Inserted
    <3> QED
      BY <2>1, <2>2, <3>1, <3>2
  <2> QED
    BY <2>3, <2>4, <1>1, <1>5
<1> QED
  BY <1>4, <1>5, <1>1

\* A leaf with one more key binds that key and otherwise what it bound.
LEMMA InsertBinds ==
    ASSUME NEW s \in Seq(Nat), Sorted(s), NEW m \in Nat, Len(s) = m, NEW e \in Nat, NEW p,
           Belongs(s, m, p, e), NEW t \in Seq(Nat), Len(t) = m + 1, Inserted(t, s, m, p, e),
           NEW cs, NEW v, NEW d, Inserted(d, cs, m + 1, p, v), NEW k \in Nat, NEW c
    PROVE  Binds(t, d, k, c) <=> IF k = e THEN c = v ELSE Binds(s, cs, k, c)
<1>1. p \in 1 .. m + 1 /\ p \in Nat
  BY DEF Belongs
<1>2. Sorted(t)
  BY InsertSorted
<1>3. \A i \in 1 .. m : s[i] # e
  BY DEF Belongs
<1>5. /\ Binds(s, cs, k, c) <=> BoundAt(s, cs, k, c)
      /\ Binds(t, d, k, c) <=> BoundAt(t, d, k, c)
  BY <1>2, BindsAt
<1>7. ASSUME k = e, c = v PROVE BoundAt(t, d, k, c)
  BY <1>1, <1>7 DEF BoundAt, Inserted
<1>8. ASSUME BoundAt(t, d, k, c) PROVE IF k = e THEN c = v ELSE BoundAt(s, cs, k, c)
  <2>1. PICK i \in 1 .. m + 1 : t[i] = k /\ c = d[i]
    BY <1>8 DEF BoundAt
  <2>2. CASE i < p
    <3>1. i \in 1 .. m /\ i \in 1 .. m + 1
      BY <2>2, <1>1
    <3>2. t[i] = s[i] /\ d[i] = cs[i]
      BY <2>2, <3>1 DEF Inserted
    <3> QED
      BY <2>1, <3>1, <3>2, <1>3, Zenon DEF BoundAt
  <2>3. CASE i = p
    <3>1. t[i] = e /\ d[i] = v
      BY <2>3 DEF Inserted
    <3> QED
      BY <2>1, <3>1
  <2>4. CASE i > p
    <3>1. i - 1 \in 1 .. m /\ i - 1 \in 1 .. m + 1 /\ i - 1 >= p /\ (i - 1) + 1 = i
      BY <2>4, <1>1
    <3>2. t[(i - 1) + 1] = s[i - 1] /\ d[(i - 1) + 1] = cs[i - 1]
      BY <3>1 DEF Inserted
    <3> QED
      BY <2>1, <3>1, <3>2, <1>3, Zenon DEF BoundAt
  <2> QED
    BY <2>2, <2>3, <2>4, <1>1
<1>9. ASSUME BoundAt(s, cs, k, c) PROVE k # e /\ BoundAt(t, d, k, c)
  <2>1. PICK i \in 1 .. m : s[i] = k /\ c = cs[i]
    BY <1>9 DEF BoundAt
  <2>2. CASE i < p
    <3>1. i \in 1 .. m + 1
      OBVIOUS
    <3>2. t[i] = s[i] /\ d[i] = cs[i]
      BY <2>2, <3>1 DEF Inserted
    <3> QED
      BY <2>1, <3>1, <3>2, <1>3, Zenon DEF BoundAt
  <2>3. CASE ~(i < p)
    <3>1. i + 1 \in 1 .. m + 1 /\ i >= p /\ i \in 1 .. m + 1
      BY <2>3, <1>1
    <3>2. t[i + 1] = s[i] /\ d[i + 1] = cs[i]
      BY <3>1 DEF Inserted
    <3> QED
      BY <2>1, <3>1, <3>2, <1>3, Zenon DEF BoundAt
  <2> QED
    BY <2>2, <2>3
<1> QED
  BY <1>5, <1>7, <1>8, <1>9, Zenon

\* An internal node with one more key and child leads to the child exactly the
\* keys from that key to the next.
LEMMA InsertChild ==
    ASSUME NEW s \in Seq(Nat), Sorted(s), NEW m \in Nat, Len(s) = m, NEW e \in Nat, NEW p,
           Belongs(s, m, p, e), NEW t \in Seq(Nat), Len(t) = m + 1, Inserted(t, s, m, p, e),
           NEW cs, NEW v, NEW d, Inserted(d, cs, m + 1, p + 1, v), NEW k \in Nat
    PROVE  Child(t, d, k) = IF indexNodeLarger(s, k) = p - 1 /\ e <= k THEN v ELSE Child(s, cs, k)
<1> DEFINE i == indexNodeLarger(s, k)
<1>1. p \in 1 .. m + 1 /\ p \in Nat
  BY DEF Belongs
<1>2. Sorted(t)
  BY InsertSorted
<1>7. AtIndex(s, k, i) /\ Child(s, cs, k) = cs[1 + i]
  BY IndexAt DEF Child
<1>9. SUFFICES Child(t, d, k) = IF i = p - 1 /\ e <= k THEN v ELSE Child(s, cs, k)
  OBVIOUS
<1> HIDE DEF i
<1>8. i \in 0 .. m /\ (i > 0 => s[i] <= k) /\ (i < m => k < s[i + 1])
  BY <1>7 DEF AtIndex
<1>10. CASE i < p - 1
  <2>1. i + 1 \in 1 .. m /\ i + 1 < p /\ 1 + i \in 1 .. m + 1 /\ 1 + i < p + 1 /\ i < m /\ i # p - 1
    BY <1>1, <1>8, <1>10
  <2>2. t[i + 1] = s[i + 1] /\ d[1 + i] = cs[1 + i]
    BY <2>1 DEF Inserted
  <2>3. i > 0 => t[i] = s[i]
    <3>1. i > 0 => i \in 1 .. m /\ i < p
      BY <2>1, <1>1, <1>8
    <3> QED
      BY <3>1 DEF Inserted
  <2>4. AtIndex(t, k, i)
    <3>1. i \in 0 .. m + 1
      BY <1>8
    <3>2. i > 0 => t[i] <= k
      BY <2>3, <1>8, Zenon
    <3>3. i < m + 1 => k < t[i + 1]
      BY <2>1, <2>2, <1>8, Zenon
    <3> QED
      BY <3>1, <3>2, <3>3, Zenon DEF AtIndex
  <2>5. Child(t, d, k) = d[1 + i]
    BY <2>4, <1>2, ChildIs
  <2> QED
    BY <2>1, <2>2, <2>5, <1>7
<1>11. CASE i = p - 1 /\ k < e
  <2>1. i + 1 = p /\ 1 + i = p /\ p \in 1 .. m + 1 /\ p < p + 1
    BY <1>1, <1>11
  <2>2. t[i + 1] = e /\ d[1 + i] = cs[1 + i]
    BY <2>1 DEF Inserted
  <2>3. i > 0 => t[i] = s[i]
    <3>1. i > 0 => i \in 1 .. m /\ i < p
      BY <2>1, <1>1, <1>8
    <3> QED
      BY <3>1 DEF Inserted
  <2>4. AtIndex(t, k, i)
    <3>1. i \in 0 .. m + 1
      BY <1>8
    <3>2. i > 0 => t[i] <= k
      BY <2>3, <1>8, Zenon
    <3>3. k < t[i + 1]
      BY <2>2, <1>11, Zenon
    <3> QED
      BY <3>1, <3>2, <3>3, Zenon DEF AtIndex
  <2>5. Child(t, d, k) = d[1 + i]
    BY <2>4, <1>2, ChildIs
  <2> QED
    BY <2>2, <2>5, <1>7, <1>11
<1>12. CASE i = p - 1 /\ ~(k < e)
  <2>1. t[p] = e /\ d[p + 1] = v
    BY DEF Inserted
  <2>2. ASSUME p < m + 1 PROVE t[p + 1] = s[p] /\ k < s[p]
    <3>1. p \in 1 .. m /\ p >= p /\ i < m /\ i + 1 = p
      BY <2>2, <1>1, <1>12
    <3> QED
      BY <3>1, <1>8 DEF Inserted
  <2>4. AtIndex(t, k, p)
    <3>1. p \in 0 .. m + 1 /\ e <= k
      BY <1>1, <1>12
    <3>2. t[p] <= k
      BY <2>1, <3>1, Zenon
    <3>3. p < m + 1 => k < t[p + 1]
      BY <2>2, Zenon
    <3> QED
      BY <3>1, <3>2, <3>3, Zenon DEF AtIndex
  <2>5. Child(t, d, k) = d[1 + p]
    BY <2>4, <1>2, ChildIs
  <2>6. 1 + p = p + 1
    BY <1>1
  <2> QED
    BY <2>1, <2>5, <2>6, <1>12
<1>13. CASE i > p - 1
  <2>1. i \in 1 .. m /\ i >= p /\ i > 0 /\ i + 1 \in 1 .. m + 1 /\ i # p - 1
    BY <1>1, <1>8, <1>13
  <2>2. t[i + 1] = s[i]
    BY <2>1 DEF Inserted
  <2>3. ASSUME i + 1 < m + 1 PROVE t[(i + 1) + 1] = s[i + 1] /\ k < s[i + 1]
    <3>1. i + 1 \in 1 .. m /\ i + 1 >= p /\ i < m
      BY <2>3, <2>1, <1>1
    <3> QED
      BY <3>1, <1>8 DEF Inserted
  <2>4. AtIndex(t, k, i + 1)
    <3>1. i + 1 \in 0 .. m + 1
      BY <2>1
    <3>2. t[i + 1] <= k
      BY <2>1, <2>2, <1>8, Zenon
    <3>3. i + 1 < m + 1 => k < t[(i + 1) + 1]
      BY <2>3, Zenon
    <3> QED
      BY <3>1, <3>2, <3>3, Zenon DEF AtIndex
  <2>5. Child(t, d, k) = d[1 + (i + 1)]
    BY <2>4, <1>2, ChildIs
  <2>6. 1 + i \in 1 .. m + 1 /\ 1 + i >= p + 1 /\ (1 + i) + 1 = 1 + (i + 1)
    BY <2>1, <1>1
  <2>7. d[(1 + i) + 1] = cs[1 + i]
    BY <2>6 DEF Inserted
  <2> QED
    BY <2>1, <2>5, <2>6, <2>7, <1>7, Zenon
<1>14. (e <= k <=> ~(k < e)) /\ (i < p - 1 \/ i = p - 1 \/ i > p - 1)
  BY <1>1, <1>8
<1> QED
  BY <1>14, <1>10, <1>11, <1>12, <1>13, Zenon

\* Both parts of a sorted sequence are sorted, and the first is before the
\* second.
LEMMA SortedJoins ==
    ASSUME NEW a \in Nat, NEW b \in Nat, NEW w \in Seq(Nat), Sorted(w), Len(w) = a + b,
           NEW l \in Seq(Nat), NEW r \in Seq(Nat), Len(l) = a, Len(r) = b, Joins(w, l, a, r, b)
    PROVE  Sorted(l) /\ Sorted(r) /\ \A i \in 1 .. a, j \in 1 .. b : l[i] < r[j]
<1>1. \A i, j \in 1 .. a + b : i < j => w[i] < w[j]
  BY Zenon DEF Sorted
<1>2. ASSUME NEW i \in 1 .. a, NEW j \in 1 .. a, i < j PROVE l[i] < l[j]
  <2>1. i \in 1 .. a + b /\ j \in 1 .. a + b
    OBVIOUS
  <2>2. l[i] = w[i] /\ l[j] = w[j]
    BY Zenon DEF Joins
  <2> QED
    BY <1>1, <1>2, <2>1, <2>2, Zenon
<1>3. ASSUME NEW i \in 1 .. b, NEW j \in 1 .. b, i < j PROVE r[i] < r[j]
  <2>1. a + i \in 1 .. a + b /\ a + j \in 1 .. a + b /\ a + i < a + j
    BY <1>3
  <2>2. r[i] = w[a + i] /\ r[j] = w[a + j]
    BY DEF Joins
  <2> QED
    BY <1>1, <2>1, <2>2
<1>4. ASSUME NEW i \in 1 .. a, NEW j \in 1 .. b PROVE l[i] < r[j]
  <2>1. i \in 1 .. a + b /\ a + j \in 1 .. a + b /\ i < a + j
    OBVIOUS
  <2>2. l[i] = w[i] /\ r[j] = w[a + j]
    BY DEF Joins
  <2> QED
    BY <1>1, <2>1, <2>2
<1> QED
  BY <1>2, <1>3, <1>4, Zenon DEF Sorted

\* The same with a key between the parts.
LEMMA SortedAround ==
    ASSUME NEW a \in Nat, NEW b \in Nat, NEW w \in Seq(Nat), Sorted(w), Len(w) = a + b + 1,
           NEW l \in Seq(Nat), NEW r \in Seq(Nat), Len(l) = a, Len(r) = b,
           JoinsAround(w, l, a, r, b)
    PROVE  /\ Sorted(l) /\ Sorted(r)
           /\ \A i \in 1 .. a : l[i] < w[a + 1]
           /\ \A i \in 1 .. b : w[a + 1] < r[i]
<1>1. \A i, j \in 1 .. a + b + 1 : i < j => w[i] < w[j]
  BY Zenon DEF Sorted
<1>2. ASSUME NEW i \in 1 .. a, NEW j \in 1 .. a, i < j PROVE l[i] < l[j]
  <2>1. i \in 1 .. a + b + 1 /\ j \in 1 .. a + b + 1 /\ l[i] = w[i] /\ l[j] = w[j]
    BY DEF JoinsAround
  <2> QED
    BY <1>1, <1>2, <2>1
<1>3. ASSUME NEW i \in 1 .. b, NEW j \in 1 .. b, i < j PROVE r[i] < r[j]
  <2>1. a + 1 + i \in 1 .. a + b + 1 /\ a + 1 + j \in 1 .. a + b + 1 /\ a + 1 + i < a + 1 + j
    BY <1>3
  <2>2. r[i] = w[a + 1 + i] /\ r[j] = w[a + 1 + j]
    BY DEF JoinsAround
  <2> QED
    BY <1>1, <2>1, <2>2
<1>4. ASSUME NEW i \in 1 .. a PROVE l[i] < w[a + 1]
  <2>1. i \in 1 .. a + b + 1 /\ a + 1 \in 1 .. a + b + 1 /\ i < a + 1
    OBVIOUS
  <2>2. l[i] = w[i]
    BY DEF JoinsAround
  <2> QED
    BY <1>1, <2>1, <2>2
<1>5. ASSUME NEW i \in 1 .. b PROVE w[a + 1] < r[i]
  <2>1. a + 1 + i \in 1 .. a + b + 1 /\ a + 1 \in 1 .. a + b + 1 /\ a + 1 < a + 1 + i
    OBVIOUS
  <2>2. r[i] = w[a + 1 + i]
    BY DEF JoinsAround
  <2> QED
    BY <1>1, <2>1, <2>2
<1> QED
  BY <1>2, <1>3, <1>4, <1>5, Zenon DEF Sorted

\* Two sorted sequences, one before the other.
LEMMA JoinsSorted ==
    ASSUME NEW a \in Nat, NEW b \in Nat, NEW w \in Seq(Nat), Len(w) = a + b,
           NEW l \in Seq(Nat), NEW r \in Seq(Nat), Len(l) = a, Len(r) = b, Joins(w, l, a, r, b),
           Sorted(l), Sorted(r), NEW s \in Nat, Cut(l, s, r)
    PROVE  Sorted(w)
<1>1. SUFFICES ASSUME NEW i \in 1 .. a + b, NEW j \in 1 .. a + b, i < j
               PROVE  w[i] < w[j]
  BY Zenon DEF Sorted
<1>2. CASE j <= a
  <2>1. i \in 1 .. a /\ j \in 1 .. a
    BY <1>1, <1>2
  <2>2. w[i] = l[i] /\ w[j] = l[j]
    BY <2>1 DEF Joins
  <2>3. l[i] < l[j]
    BY <2>1, <1>1, Zenon DEF Sorted
  <2> QED
    BY <2>2, <2>3
<1>3. CASE i > a
  <2>1. i - a \in 1 .. b /\ j - a \in 1 .. b /\ i - a < j - a /\ a + (i - a) = i /\ a + (j - a) = j
    BY <1>1, <1>3
  <2>2. w[a + (i - a)] = r[i - a] /\ w[a + (j - a)] = r[j - a]
    BY <2>1, Zenon DEF Joins
  <2>3. r[i - a] < r[j - a]
    BY <2>1, Zenon DEF Sorted
  <2> QED
    BY <2>1, <2>2, <2>3
<1>4. CASE i <= a /\ j > a
  <2>1. i \in 1 .. a /\ j - a \in 1 .. b /\ a + (j - a) = j
    BY <1>1, <1>4
  <2>2. w[i] = l[i] /\ w[a + (j - a)] = r[j - a]
    BY <2>1, Zenon DEF Joins
  <2>3. l[i] < s /\ s <= r[j - a]
    BY <2>1, Zenon DEF Cut
  <2>4. l[i] \in Nat /\ r[j - a] \in Nat
    BY <2>1, SMTT(40)
  <2>5. l[i] < r[j - a]
    BY <2>3, <2>4, SMTT(40)
  <2> QED
    BY <2>1, <2>2, <2>5
<1> QED
  BY <1>2, <1>3, <1>4

----------------------------------------------------------------------------
(* The file: which pages and slots an operation takes *)

\* The file as a record, with its counters and free lists.
FileFields == {"pages", "node", "value", "delNodePages", "delValues", "emptyValueNode"}
\* A file has these fields, and numbers in them.
IsFile(db) ==
    /\ FileFields \subseteq DOMAIN db
    /\ db.pages \in Nat /\ db.emptyValueNode \in Nat
    /\ db.delNodePages \in Seq(Nat) /\ db.delValues \in Seq(Nat)

\* The page of offSet is not one that the next append may take.
InUse(db, o) == o \in Nat /\ o < db.pages * ValuesPerPage /\ o \notin Range(db.delNodePages)

\* From db to d pages were only taken: at the end of the file or off the list.
Takes(db, d) == d.pages >= db.pages /\ Range(d.delNodePages) \subseteq Range(db.delNodePages)

\* Taking pages twice is taking pages.
LEMMA TakesTrans ==
    ASSUME NEW a, IsFile(a), NEW b, IsFile(b), NEW c, IsFile(c), Takes(a, b), Takes(b, c)
    PROVE  Takes(a, c)
<1>1. a.pages \in Nat /\ b.pages \in Nat /\ c.pages \in Nat /\ b.pages >= a.pages /\ c.pages >= b.pages
  BY Zenon DEF IsFile, Takes
<1>2. c.pages >= a.pages
  BY <1>1
<1> QED
  BY <1>2, Zenon DEF Takes

\* A change that touches neither counter nor list takes no page.
LEMMA SamePages ==
    ASSUME NEW db, IsFile(db), NEW d, d.pages = db.pages, d.delNodePages = db.delNodePages
    PROVE  Takes(db, d)
<1>1. db.pages \in Nat
  BY Zenon DEF IsFile
<1>2. d.pages >= db.pages
  BY <1>1
<1> QED
  BY <1>2, Zenon DEF Takes

\* A write is read back.
LEMMA WrittenHere ==
    ASSUME NEW f, NEW o, NEW x
    PROVE  Written(f, o, x)[o] = x
  BY Zenon DEF Written

\* A write changes no other place.
LEMMA WrittenElsewhere ==
    ASSUME NEW f, NEW o, NEW x, NEW q \in DOMAIN f, q # o
    PROVE  q \in DOMAIN Written(f, o, x) /\ Written(f, o, x)[q] = f[q]
  BY Zenon DEF Written

\* Only the nodes differ.
SameButNodes(d, db) ==
    /\ d.pages = db.pages /\ d.value = db.value /\ d.emptyValueNode = db.emptyValueNode
    /\ d.delNodePages = db.delNodePages /\ d.delValues = db.delValues

\* flushNodePageToFile changes the one node.
LEMMA FlushFacts ==
    ASSUME NEW db, IsFile(db), NEW n, NEW o
    PROVE  LET d == flushNodePageToFile(db, n, o)
           IN  IsFile(d) /\ d.node = Written(db.node, o, n) /\ SameButNodes(d, db) /\ Takes(db, d)
<1> DEFINE d == flushNodePageToFile(db, n, o)
           W == Written(db.node, o, n)
<1>1. FileFields \subseteq DOMAIN db
  BY DEF IsFile
<1>2. d = [db EXCEPT !.node = W]
  BY Zenon DEF flushNodePageToFile
<1> HIDE DEF W, d
<1>3. FileFields \subseteq DOMAIN d /\ d.node = W /\ SameButNodes(d, db)
  BY <1>1, <1>2 DEF FileFields, SameButNodes
<1>4. IsFile(d)
  BY <1>3, Zenon DEF IsFile, SameButNodes
<1>5. Takes(db, d)
  <2>1. d.pages = db.pages /\ d.delNodePages = db.delNodePages
    BY <1>3, Zenon DEF SameButNodes
  <2> QED
    BY <2>1, SamePages
<1> QED
  BY <1>3, <1>4, <1>5, Zenon DEF d, W

\* getNextFreeOffset gives the offset of the end of the file and makes it
\* longer.
LEMMA NextFreeFacts ==
    ASSUME NEW db, IsFile(db)
    PROVE  LET s == getNextFreeOffset(db)
           IN  /\ s.id = db.pages * ValuesPerPage /\ s.id \in Nat
               /\ IsFile(s.db) /\ s.db.node = db.node /\ Takes(db, s.db)
<1> DEFINE s == getNextFreeOffset(db)
           d == [db EXCEPT !.pages = @ + 1]
<1>1. FileFields \subseteq DOMAIN db
  BY DEF IsFile
<1>2. s = [id |-> db.pages * ValuesPerPage, db |-> d]
  BY DEF getNextFreeOffset
<1>3. db.pages \in Nat /\ ValuesPerPage \in Nat
  BY ValuesPerPageAssumption DEF IsFile
<1>4. /\ FileFields \subseteq DOMAIN d /\ d.pages = db.pages + 1 /\ d.node = db.node
      /\ d.emptyValueNode = db.emptyValueNode /\ d.delNodePages = db.delNodePages
      /\ d.delValues = db.delValues
  BY <1>1 DEF FileFields
<1> HIDE DEF d
<1>5. IsFile(d)
  <2>1. d.pages \in Nat
    BY <1>3, <1>4
  <2> QED
    BY <2>1, <1>4, Zenon DEF IsFile
<1>6. db.pages * ValuesPerPage \in Nat
  BY <1>3
<1>7. s.id = db.pages * ValuesPerPage /\ s.db = d
  BY <1>2
<1> HIDE DEF s
<1>8. Takes(db, d)
  <2>1. d.pages >= db.pages
    BY <1>3, <1>4
  <2> QED
    BY <2>1, <1>4, Zenon DEF Takes
<1> QED
  BY <1>4, <1>5, <1>6, <1>7, <1>8 DEF s

\* The last element of a list and the rest.
LEMMA LastFront ==
    ASSUME NEW s \in Seq(Nat), s # <<>>
    PROVE  /\ Last(s) \in Nat /\ Last(s) \in Range(s)
           /\ Front(s) \in Seq(Nat) /\ Range(Front(s)) \subseteq Range(s)
<1>1. DOMAIN s = 1 .. Len(s) /\ Len(s) \in Nat /\ Len(s) >= 1
  OBVIOUS
<1>2. Last(s) \in Nat /\ Last(s) \in Range(s) /\ Front(s) \in Seq(Nat)
  BY DEF Last, Front, Range
<1>3. /\ DOMAIN Front(s) \subseteq DOMAIN s
      /\ \A i \in DOMAIN Front(s) : Front(s)[i] = s[i]
  BY <1>1 DEF Front
<1>4. Range(Front(s)) \subseteq Range(s)
  BY <1>3, Zenon DEF Range
<1> QED
  BY <1>2, <1>4

\* freeNodePage gives a page that was not in use.
LEMMA FreeNodePageFacts ==
    ASSUME NEW db, IsFile(db)
    PROVE  LET s == freeNodePage(db)
           IN  /\ s.id \in Nat
               /\ IsFile(s.db) /\ s.db.node = db.node /\ Takes(db, s.db)
               /\ \A o : InUse(db, o) => o # s.id
<1> DEFINE s == freeNodePage(db)
<1>1. CASE db.delNodePages # <<>>
  <2> DEFINE l == db.delNodePages
             d == [db EXCEPT !.delNodePages = Front(l)]
  <2>1. l \in Seq(Nat) /\ FileFields \subseteq DOMAIN db
    BY DEF IsFile
  <2>2. s = [id |-> Last(l), db |-> d]
    BY <1>1 DEF freeNodePage
  <2>3. /\ Last(l) \in Nat /\ Last(l) \in Range(l) /\ Front(l) \in Seq(Nat)
        /\ Range(Front(l)) \subseteq Range(l)
    BY <1>1, <2>1, LastFront
  <2>4. /\ FileFields \subseteq DOMAIN d /\ d.pages = db.pages /\ d.node = db.node
        /\ d.emptyValueNode = db.emptyValueNode /\ d.delNodePages = Front(l)
        /\ d.delValues = db.delValues
    BY <2>1 DEF FileFields
  <2> HIDE DEF d
  <2>5. IsFile(d)
    BY <2>3, <2>4, Zenon DEF IsFile
  <2>6. s.id = Last(l) /\ s.db = d
    BY <2>2
  <2> HIDE DEF s
  <2>7. \A o : InUse(db, o) => o # s.id
    BY <2>3, <2>6, Zenon DEF InUse
  <2>8. Takes(db, d)
    <3>1. d.pages >= db.pages
      BY <2>4 DEF IsFile
    <3> QED
      BY <3>1, <2>3, <2>4, Zenon DEF Takes
  <2> QED
    BY <2>3, <2>4, <2>5, <2>6, <2>7, <2>8, Zenon DEF s
<1>2. CASE ~(db.delNodePages # <<>>)
  <2>1. s = getNextFreeOffset(db)
    BY <1>2 DEF freeNodePage
  <2>2. /\ s.id = db.pages * ValuesPerPage /\ s.id \in Nat
        /\ IsFile(s.db) /\ s.db.node = db.node /\ Takes(db, s.db)
    BY <2>1, NextFreeFacts
  <2> HIDE DEF s
  <2>3. \A o : InUse(db, o) => o # s.id
    BY <2>2 DEF InUse
  <2> QED
    BY <2>2, <2>3, Zenon DEF s
<1> QED
  BY <1>1, <1>2

\* appendNodePageToFile writes the node on a page that was not in use.
LEMMA AppendNodeFacts ==
    ASSUME NEW db, IsFile(db), NEW n
    PROVE  LET a == appendNodePageToFile(db, n)
           IN  /\ a.id \in Nat
               /\ IsFile(a.db) /\ a.db.node = Written(db.node, a.id, n) /\ Takes(db, a.db)
               /\ \A o : InUse(db, o) => o # a.id
<1> DEFINE s == freeNodePage(db)
           a == appendNodePageToFile(db, n)
<1>1. /\ s.id \in Nat /\ IsFile(s.db) /\ s.db.node = db.node /\ Takes(db, s.db)
      /\ \A o : InUse(db, o) => o # s.id
  BY FreeNodePageFacts
<1>2. a = [id |-> s.id, db |-> flushNodePageToFile(s.db, n, s.id)]
  BY DEF appendNodePageToFile, writtenNode
<1> HIDE DEF s, a
<1>3. a.id = s.id /\ a.db = flushNodePageToFile(s.db, n, s.id)
  BY <1>2
<1>4. IsFile(a.db) /\ a.db.node = Written(s.db.node, s.id, n) /\ Takes(s.db, a.db)
  BY <1>1, <1>3, FlushFacts
<1>5. Takes(db, a.db)
  BY <1>1, <1>4, TakesTrans
<1> QED
  BY <1>1, <1>3, <1>4, <1>5, Zenon DEF a

\* A value slot is taken without touching the nodes.
LEMMA TakenFacts ==
    ASSUME NEW s, NEW i \in Nat, NEW d, IsFile(d), s = [id |-> i, db |-> d]
    PROVE  /\ takenValueSlot(s).id = i
           /\ IsFile(takenValueSlot(s).db) /\ takenValueSlot(s).db.node = d.node
           /\ Takes(d, takenValueSlot(s).db)
<1> DEFINE e == [d EXCEPT !.emptyValueNode = i]
<1>1. FileFields \subseteq DOMAIN d
  BY DEF IsFile
<1>2. takenValueSlot(s) = [s EXCEPT !.db = [s.db EXCEPT !.emptyValueNode = s.id]]
  BY DEF takenValueSlot
<1>3. s.db = d /\ s.id = i
  OBVIOUS
<1>4. takenValueSlot(s) = [id |-> i, db |-> e]
  BY <1>2, <1>3
<1>5. /\ FileFields \subseteq DOMAIN e /\ e.pages = d.pages /\ e.node = d.node
      /\ e.emptyValueNode = i /\ e.delNodePages = d.delNodePages
      /\ e.delValues = d.delValues
  BY <1>1 DEF FileFields
<1> HIDE DEF e
<1>6. IsFile(e)
  BY <1>5, Zenon DEF IsFile
<1>7. Takes(d, e)
  BY <1>5, SamePages
<1> QED
  BY <1>4, <1>5, <1>6, <1>7

\* calculateNextEmtyValueNode finds a slot without touching the nodes.
LEMMA NextValueFacts ==
    ASSUME NEW db, IsFile(db)
    PROVE  LET s == calculateNextEmtyValueNode(db)
           IN  s.id \in Nat /\ IsFile(s.db) /\ s.db.node = db.node /\ Takes(db, s.db)
<1> DEFINE v == db.emptyValueNode
           f == getNextFreeOffset(db)
           g == [id |-> v + 1, db |-> db]
           s == calculateNextEmtyValueNode(db)
<1>1. v \in Nat /\ v + 1 \in Nat
  BY DEF IsFile
<1>2. f.id \in Nat /\ IsFile(f.db) /\ f.db.node = db.node /\ Takes(db, f.db)
  BY NextFreeFacts
<1>3. f = [id |-> f.id, db |-> f.db]
  BY DEF getNextFreeOffset
<1>4. s = takenValueSlot(f) \/ s = takenValueSlot(g)
  BY DEF calculateNextEmtyValueNode
<1> HIDE DEF f
<1>5. CASE s = takenValueSlot(f)
  <2>1. /\ takenValueSlot(f).id = f.id
        /\ IsFile(takenValueSlot(f).db) /\ takenValueSlot(f).db.node = f.db.node
        /\ Takes(f.db, takenValueSlot(f).db)
    BY <1>2, <1>3, TakenFacts, Zenon
  <2>2. Takes(db, takenValueSlot(f).db)
    BY <2>1, <1>2, TakesTrans
  <2> QED
    BY <1>5, <1>2, <2>1, <2>2, Zenon
<1>6. CASE s = takenValueSlot(g)
  <2>1. /\ takenValueSlot(g).id = v + 1
        /\ IsFile(takenValueSlot(g).db) /\ takenValueSlot(g).db.node = db.node
        /\ Takes(db, takenValueSlot(g).db)
    BY <1>1, TakenFacts, Zenon
  <2> QED
    BY <1>6, <1>1, <2>1
<1> QED
  BY <1>4, <1>5, <1>6

\* freeValueSlot finds a slot without touching the nodes.
LEMMA FreeValueFacts ==
    ASSUME NEW db, IsFile(db)
    PROVE  LET s == freeValueSlot(db)
           IN  s.id \in Nat /\ IsFile(s.db) /\ s.db.node = db.node /\ Takes(db, s.db)
<1> DEFINE s == freeValueSlot(db)
<1>1. CASE db.delValues # <<>>
  <2> DEFINE l == db.delValues
             d == [db EXCEPT !.delValues = Front(l)]
  <2>1. l \in Seq(Nat) /\ FileFields \subseteq DOMAIN db
    BY DEF IsFile
  <2>2. s = [id |-> Last(l), db |-> d]
    BY <1>1 DEF freeValueSlot
  <2>3. Last(l) \in Nat /\ Front(l) \in Seq(Nat)
    BY <1>1, <2>1, LastFront
  <2>4. /\ FileFields \subseteq DOMAIN d /\ d.pages = db.pages /\ d.node = db.node
        /\ d.emptyValueNode = db.emptyValueNode /\ d.delNodePages = db.delNodePages
        /\ d.delValues = Front(l)
    BY <2>1 DEF FileFields
  <2> HIDE DEF d
  <2>5. IsFile(d)
    BY <2>3, <2>4, Zenon DEF IsFile
  <2>6. s.id = Last(l) /\ s.db = d
    BY <2>2
  <2> HIDE DEF s
  <2>7. Takes(db, d)
    BY <2>4, SamePages
  <2> QED
    BY <2>3, <2>4, <2>5, <2>6, <2>7, Zenon DEF s
<1>2. CASE ~(db.delValues # <<>>)
  <2>1. s = calculateNextEmtyValueNode(db)
    BY <1>2 DEF freeValueSlot
  <2> QED
    BY <2>1, NextValueFacts, Zenon
<1> QED
  BY <1>1, <1>2

\* insertNewValueToFile stores the value in the slot it returns and touches no
\* node.
LEMMA NewValueFacts ==
    ASSUME NEW db, IsFile(db), NEW value
    PROVE  LET s == insertNewValueToFile(db, value)
           IN  /\ s.id \in Nat /\ IsFile(s.db) /\ s.db.node = db.node /\ Takes(db, s.db)
               /\ s.db.value[s.id] = value
<1> DEFINE f == freeValueSlot(db)
           s == insertNewValueToFile(db, value)
           W == Written(f.db.value, f.id, value)
           d == [f.db EXCEPT !.value = W]
<1>1. f.id \in Nat /\ IsFile(f.db) /\ f.db.node = db.node /\ Takes(db, f.db)
  BY FreeValueFacts
<1>2. s = [id |-> f.id, db |-> d]
  BY DEF insertNewValueToFile, writtenValue, updateValueToFile
<1> HIDE DEF f
<1>3. W[f.id] = value
  BY WrittenHere
<1> HIDE DEF W
<1>4. FileFields \subseteq DOMAIN f.db
  BY <1>1 DEF IsFile
<1>5. /\ FileFields \subseteq DOMAIN d /\ d.pages = f.db.pages /\ d.node = f.db.node
      /\ d.emptyValueNode = f.db.emptyValueNode /\ d.delNodePages = f.db.delNodePages
      /\ d.delValues = f.db.delValues /\ d.value = W
  BY <1>4 DEF FileFields
<1> HIDE DEF d
<1>6. IsFile(d)
  BY <1>1, <1>5, Zenon DEF IsFile
<1>7. s.id = f.id /\ s.db = d
  BY <1>2
<1> HIDE DEF s
<1>8. Takes(f.db, d)
  BY <1>1, <1>5, SamePages
<1>9. Takes(db, d)
  BY <1>1, <1>6, <1>8, TakesTrans
<1> QED
  BY <1>1, <1>3, <1>5, <1>6, <1>7, <1>9, Zenon DEF s

----------------------------------------------------------------------------
(* leafInsert *)

\* t is s with e inserted at position p.
Grows(s, e, p, t) ==
    /\ s \in Seq(Nat) /\ Sorted(s) /\ e \in Nat /\ Belongs(s, Len(s), p, e)
    /\ t \in Seq(Nat) /\ Len(t) = Len(s) + 1 /\ Inserted(t, s, Len(s), p, e)

\* InsertBinds for a sequence that grows.
LEMMA GrowsBinds ==
    ASSUME NEW s, NEW e, NEW p, NEW t, Grows(s, e, p, t),
           NEW cs, Len(cs) = Len(s) + 1, NEW v, NEW d, Inserted(d, cs, Len(cs), p, v),
           NEW k \in Nat, NEW c
    PROVE  Binds(t, d, k, c) <=> IF k = e THEN c = v ELSE Binds(s, cs, k, c)
<1> DEFINE m == Len(s)
<1>1. /\ s \in Seq(Nat) /\ Sorted(s) /\ e \in Nat /\ Belongs(s, m, p, e)
      /\ t \in Seq(Nat) /\ Len(t) = m + 1 /\ Inserted(t, s, m, p, e) /\ Len(s) = m
  BY Zenon DEF Grows
<1>2. m \in Nat
  BY <1>1
<1>3. Inserted(d, cs, m + 1, p, v)
  OBVIOUS
<1> HIDE DEF m
<1> QED
  BY <1>1, <1>2, <1>3, InsertBinds

\* InsertChild for a sequence that grows.
LEMMA GrowsChild ==
    ASSUME NEW s, NEW e, NEW p, NEW t, Grows(s, e, p, t), NEW q, q = p + 1,
           NEW cs, Len(cs) = Len(s) + 1, NEW v, NEW d, Inserted(d, cs, Len(cs), q, v),
           NEW k \in Nat
    PROVE  Child(t, d, k) = IF indexNodeLarger(s, k) = p - 1 /\ e <= k THEN v ELSE Child(s, cs, k)
<1> DEFINE m == Len(s)
<1>1. /\ s \in Seq(Nat) /\ Sorted(s) /\ e \in Nat /\ Belongs(s, m, p, e)
      /\ t \in Seq(Nat) /\ Len(t) = m + 1 /\ Inserted(t, s, m, p, e) /\ Len(s) = m
  BY Zenon DEF Grows
<1>2. m \in Nat
  BY <1>1
<1>3. Inserted(d, cs, m + 1, p + 1, v)
  OBVIOUS
<1> HIDE DEF m
<1> QED
  BY <1>1, <1>2, <1>3, InsertChild, SMTT(40)

\* A node with its keys in order.
IsNode(n, flag) ==
    /\ n.flag = flag
    /\ n.keys \in Seq(Nat) /\ n.childs \in Seq(Nat)
    /\ Len(n.childs) = Len(n.keys) + 1
    /\ Sorted(n.keys)

\* The leaf n binds k to the slot c.
NodeBinds(n, k, c) == Binds(n.keys, n.childs, k, c)
\* The child of n that a descent for k goes to.
NodeChild(n, k) == Child(n.keys, n.childs, k)

\* The fields of a node.
LEMMA NodeFields ==
    ASSUME NEW flag, NEW ks, NEW cs
    PROVE  /\ Node(flag, ks, cs).flag = flag
           /\ Node(flag, ks, cs).keys = ks
           /\ Node(flag, ks, cs).childs = cs
  BY DEF Node

\* A node with one more key and child: what insertLeft makes of it.
LEMMA InsertLeftFacts ==
    ASSUME NEW db, IsFile(db), NEW o, NEW n, NEW value, NEW key \in Nat
    PROVE  LET r == insertLeft(db, o, n, key, value)
               p == Position(n.keys, key)
           IN  \E v \in Nat :
                 /\ r.this = Node(n.flag, InsertAt(n.keys, p, key), InsertAt(n.childs, p, v))
                 /\ r.db.value[v] = value
                 /\ IsFile(r.db) /\ r.db.node = Written(db.node, o, r.this) /\ Takes(db, r.db)
<1> DEFINE s == insertNewValueToFile(db, value)
           p == Position(n.keys, key)
           r == insertLeft(db, o, n, key, value)
           t == Node(n.flag, InsertAt(n.keys, p, key), InsertAt(n.childs, p, s.id))
<1>1. /\ s.id \in Nat /\ IsFile(s.db) /\ s.db.node = db.node /\ s.db.value[s.id] = value
      /\ Takes(db, s.db)
  BY NewValueFacts
<1>2. r = [this |-> t, db |-> flushNodePageToFile(s.db, t, o)]
  BY DEF insertLeft, insertLeftSlot, Flushed
<1> HIDE DEF s
<1>3. r.this = t /\ r.db = flushNodePageToFile(s.db, t, o)
  BY <1>2
<1> HIDE DEF r, t
<1>4. /\ IsFile(r.db) /\ r.db.node = Written(s.db.node, o, t) /\ SameButNodes(r.db, s.db)
      /\ Takes(s.db, r.db)
  BY <1>1, <1>3, FlushFacts
<1>7. Takes(db, r.db)
  BY <1>1, <1>4, TakesTrans
<1>5. r.db.value = s.db.value
  BY <1>4 DEF SameButNodes
<1>6. /\ r.this = Node(n.flag, InsertAt(n.keys, p, key), InsertAt(n.childs, p, s.id))
      /\ r.db.value[s.id] = value
      /\ IsFile(r.db) /\ r.db.node = Written(db.node, o, r.this) /\ Takes(db, r.db)
  BY <1>1, <1>3, <1>4, <1>5, <1>7, Zenon DEF t
<1> QED
  BY <1>1, <1>6, Zenon DEF r

\* The node w is n with key bound to v.
Gains(w, n, key, v) ==
    /\ IsNode(w, n.flag) /\ Len(w.keys) = Len(n.keys) + 1
    /\ \E p : /\ Grows(n.keys, key, p, w.keys)
              /\ Inserted(w.childs, n.childs, Len(n.childs), p, v)

\* A node that InsertAt gives a new key and child gains them.
LEMMA InsertGains ==
    ASSUME NEW n, IsNode(n, n.flag), NEW key \in Nat, ~isExisting(n.keys, key), NEW v \in Nat
    PROVE  LET p == Position(n.keys, key)
               w == Node(n.flag, InsertAt(n.keys, p, key), InsertAt(n.childs, p, v))
           IN  /\ Gains(w, n, key, v)
               /\ w.keys = InsertAt(n.keys, p, key) /\ w.childs = InsertAt(n.childs, p, v)
<1> DEFINE p == Position(n.keys, key)
           ks == n.keys
           cs == n.childs
           m == Len(ks)
           t == InsertAt(ks, p, key)
           d == InsertAt(cs, p, v)
           w == Node(n.flag, t, d)
<1>1. ks \in Seq(Nat) /\ cs \in Seq(Nat) /\ Len(cs) = m + 1 /\ Sorted(ks) /\ m \in Nat
  BY DEF IsNode
<1>2. ~isExisting(ks, key)
  OBVIOUS
<1>3. w.flag = n.flag /\ w.keys = t /\ w.childs = d
  BY NodeFields
<1>4. SUFFICES Gains(w, n, key, v)
  BY <1>3, Zenon
<1> HIDE DEF w, ks, cs
<1>5. Belongs(ks, m, p, key)
  BY <1>1, <1>2, PositionBelongs, Zenon DEF ks
<1> HIDE DEF p
<1>6. p \in 1 .. m + 1 /\ p \in 1 .. Len(cs) + 1
  BY <1>1, <1>5 DEF Belongs
<1>7. t \in Seq(Nat) /\ Len(t) = m + 1 /\ Inserted(t, ks, m, p, key)
  BY <1>1, <1>6, InsertAtIs
<1>8. d \in Seq(Nat) /\ Len(d) = Len(cs) + 1 /\ Inserted(d, cs, Len(cs), p, v)
  BY <1>1, <1>6, InsertAtIs
<1> HIDE DEF t, d, m
<1>9. Sorted(t)
  BY <1>1, <1>5, <1>7, InsertSorted DEF m
<1>10. IsNode(w, n.flag) /\ Len(w.keys) = m + 1
  BY <1>1, <1>3, <1>7, <1>8, <1>9, Zenon DEF IsNode
<1>11. Grows(ks, key, p, t)
  BY <1>1, <1>5, <1>7, Zenon DEF Grows, m
<1>12. Grows(ks, key, p, w.keys) /\ Inserted(w.childs, cs, Len(cs), p, v)
  BY <1>3, <1>8, <1>11, Zenon
<1> QED
  BY <1>10, <1>12, Zenon DEF Gains, ks, cs, m

\* A leaf that gained a key binds it, and otherwise what it bound.
LEMMA GainsBinds ==
    ASSUME NEW n, IsNode(n, n.flag), NEW key \in Nat, NEW v, NEW w, Gains(w, n, key, v),
           NEW k \in Nat, NEW c
    PROVE  NodeBinds(w, k, c) <=> IF k = key THEN c = v ELSE NodeBinds(n, k, c)
<1> DEFINE ks == n.keys
           cs == n.childs
           t == w.keys
           d == w.childs
<1>1. PICK p : Grows(ks, key, p, t) /\ Inserted(d, cs, Len(cs), p, v)
  BY Zenon DEF Gains
<1>2. Len(cs) = Len(ks) + 1
  BY DEF IsNode
<1>3. SUFFICES Binds(t, d, k, c) <=> IF k = key THEN c = v ELSE Binds(ks, cs, k, c)
  BY Zenon DEF NodeBinds
<1> HIDE DEF ks, cs, t, d
<1> QED
  BY <1>1, <1>2, GrowsBinds

\* The leaf w is the leaf l followed by the leaf r.
LeafJoin(w, l, r) ==
    /\ Len(w.keys) = Len(l.keys) + Len(r.keys)
    /\ Joins(w.keys, l.keys, Len(l.keys), r.keys, Len(r.keys))
    /\ Joins(w.childs, l.childs, Len(l.keys), r.childs, Len(r.keys))

\* Of two leaves cut at s, the one on a key's side of s binds it as the two in
\* a row do.
LEMMA LeafJoinBinds ==
    ASSUME NEW w, NEW l, NEW r, IsNode(w, LEAF_NODE), IsNode(l, LEAF_NODE),
           IsNode(r, LEAF_NODE),
           NEW s \in Nat, LeafJoin(w, l, r), Cut(l.keys, s, r.keys), NEW k \in Nat, NEW c
    PROVE  NodeBinds(IF k < s THEN l ELSE r, k, c) <=> NodeBinds(w, k, c)
<1> DEFINE a == Len(l.keys)
           b == Len(r.keys)
           wk == w.keys
           lk == l.keys
           rk == r.keys
           wc == w.childs
           lc == l.childs
           rc == r.childs
<1>1. /\ wk \in Seq(Nat) /\ Sorted(wk)
      /\ lk \in Seq(Nat) /\ Sorted(lk) /\ a \in Nat /\ Len(lk) = a
      /\ rk \in Seq(Nat) /\ Sorted(rk) /\ b \in Nat /\ Len(rk) = b
  BY SMTT(40) DEF IsNode
<1>2. Len(wk) = a + b /\ Joins(wk, lk, a, rk, b) /\ Joins(wc, lc, a, rc, b) /\ Cut(lk, s, rk)
  BY Zenon DEF LeafJoin
<1>3. SUFFICES /\ k < s => (Binds(lk, lc, k, c) <=> Binds(wk, wc, k, c))
               /\ ~(k < s) => (Binds(rk, rc, k, c) <=> Binds(wk, wc, k, c))
  BY Zenon DEF NodeBinds
<1> HIDE DEF a, b, wk, lk, rk, wc, lc, rc
<1> QED
  BY <1>1, <1>2, BindsCut

\* A sequence is its first elements followed by the others.
LEMMA SubSeqCut ==
    ASSUME NEW s \in Seq(Nat), NEW a \in Nat, NEW b \in Nat, Len(s) = a + b
    PROVE  LET l == SubSeq(s, 1, a)
               r == SubSeq(s, a + 1, a + b)
           IN  /\ l \in Seq(Nat) /\ Len(l) = a /\ r \in Seq(Nat) /\ Len(r) = b
               /\ Joins(s, l, a, r, b)
<1> DEFINE l == SubSeq(s, 1, a)
           r == SubSeq(s, a + 1, a + b)
<1>1. 1 \in 1 .. Len(s) + 1 /\ a \in 1 - 1 .. Len(s) /\ a - 1 + 1 = a
  OBVIOUS
<1>2. l \in Seq(Nat) /\ Len(l) = a - 1 + 1 /\ \A i \in 1 .. a - 1 + 1 : l[i] = s[1 + i - 1]
  BY <1>1, SubSeqFacts
<1>3. a + 1 \in 1 .. Len(s) + 1 /\ a + b \in a + 1 - 1 .. Len(s) /\ a + b - (a + 1) + 1 = b
  OBVIOUS
<1>4. /\ r \in Seq(Nat) /\ Len(r) = a + b - (a + 1) + 1
      /\ \A i \in 1 .. a + b - (a + 1) + 1 : r[i] = s[a + 1 + i - 1]
  BY <1>3, SubSeqFacts
<1> HIDE DEF l, r
<1>5. ASSUME NEW i \in 1 .. a PROVE s[i] = l[i]
  <2>1. 1 + i - 1 = i /\ i \in 1 .. a - 1 + 1
    BY <1>1
  <2> QED
    BY <1>2, <2>1
<1>6. ASSUME NEW i \in 1 .. b PROVE s[a + i] = r[i]
  <2>1. a + 1 + i - 1 = a + i /\ i \in 1 .. a + b - (a + 1) + 1
    BY <1>3
  <2> QED
    BY <1>4, <2>1
<1>7. Joins(s, l, a, r, b)
  BY <1>5, <1>6 DEF Joins
<1> QED
  BY <1>1, <1>2, <1>3, <1>4, <1>7 DEF l, r

\* The halves a full leaf is cut into.
LowerLeaf(n) == Node(LEAF_NODE, SubSeq(n.keys, 1, maxDegree),
                     Append(SubSeq(n.childs, 1, maxDegree), Null))

\* What insertAndSplitLeaf cuts a full leaf into.
LEMMA LeafHalves ==
    ASSUME NEW n, IsNode(n, LEAF_NODE), Size(n) = 2 * maxDegree - 1
    PROVE  LET l == LowerLeaf(n)
               r == copyPartOfNode(n, maxDegree)
           IN  /\ IsNode(l, LEAF_NODE) /\ Len(l.keys) = maxDegree
               /\ IsNode(r, LEAF_NODE) /\ Len(r.keys) = maxDegree - 1
               /\ LeafJoin(n, l, r)
<1> DEFINE l == LowerLeaf(n)
           r == copyPartOfNode(n, maxDegree)
           ks == n.keys
           cs == n.childs
           a == maxDegree
           b == maxDegree - 1
           lk == SubSeq(ks, 1, a)
           rk == SubSeq(ks, a + 1, a + b)
           lc == SubSeq(cs, 1, a)
           rc == SubSeq(cs, a + 1, a + (b + 1))
<1>1. a \in Nat /\ b \in Nat /\ b + 1 \in Nat /\ a + b = 2 * maxDegree - 1 /\ (a + b) + 1 = a + (b + 1)
      /\ b + 1 = maxDegree
  BY MaxDegreeAssumption
<1>2. /\ ks \in Seq(Nat) /\ cs \in Seq(Nat) /\ Len(cs) = Len(ks) + 1
      /\ Sorted(ks) /\ n.flag = LEAF_NODE
  BY Zenon DEF IsNode
<1>3. Len(ks) = a + b /\ Len(cs) = a + (b + 1)
  BY <1>1, <1>2, Zenon DEF Size
<1>4. l.flag = LEAF_NODE /\ l.keys = lk /\ l.childs = Append(lc, Null)
  <2> DEFINE x == Append(lc, Null)
  <2>1. l = Node(LEAF_NODE, lk, x)
    BY Zenon DEF LowerLeaf
  <2> HIDE DEF l, lk, x
  <2>2. l.flag = LEAF_NODE /\ l.keys = lk /\ l.childs = x
    BY <2>1, NodeFields
  <2> QED
    BY <2>2, Zenon DEF x
<1>5. r.flag = LEAF_NODE /\ r.keys = rk /\ r.childs = rc
  <2>1. r = Node(n.flag, SubSeq(n.keys, maxDegree + 1, Size(n)), SubSeq(n.childs, maxDegree + 1, Size(n) + 1))
    BY Zenon DEF copyPartOfNode
  <2>2. Size(n) = a + b /\ Size(n) + 1 = a + (b + 1)
    BY <1>1, Zenon
  <2>3. r = Node(LEAF_NODE, rk, rc)
    BY <2>1, <2>2, <1>2, Zenon
  <2> HIDE DEF r, rk, rc
  <2> QED
    BY <2>3, NodeFields
<1> HIDE DEF l, r, ks, cs, a, b
<1>6. /\ lk \in Seq(Nat) /\ Len(lk) = a /\ rk \in Seq(Nat) /\ Len(rk) = b
      /\ Joins(ks, lk, a, rk, b)
  BY <1>1, <1>2, <1>3, SubSeqCut
<1>7. /\ lc \in Seq(Nat) /\ Len(lc) = a /\ rc \in Seq(Nat) /\ Len(rc) = b + 1
      /\ Joins(cs, lc, a, rc, b + 1)
  BY <1>1, <1>2, <1>3, SubSeqCut
<1> DEFINE ld == Append(lc, Null)
<1> HIDE DEF lk, rk, lc, rc
<1>8. ld \in Seq(Nat) /\ Len(ld) = a + 1 /\ \A i \in 1 .. a : ld[i] = lc[i]
  BY <1>7, <1>1 DEF Null
<1> HIDE DEF ld
<1>9. Joins(cs, ld, a, rc, b)
  <2>1. 1 .. b \subseteq 1 .. b + 1
    BY <1>1
  <2> QED
    BY <2>1, <1>7, <1>8, Zenon DEF Joins
<1>10. Sorted(lk) /\ Sorted(rk)
  BY <1>1, <1>2, <1>3, <1>6, SortedJoins, Zenon
<1>11. IsNode(l, LEAF_NODE) /\ Len(l.keys) = maxDegree
  BY <1>4, <1>6, <1>8, <1>10, Zenon DEF IsNode, ld, a
<1>12. IsNode(r, LEAF_NODE) /\ Len(r.keys) = b
  BY <1>5, <1>6, <1>7, <1>10, Zenon DEF IsNode
<1>13. LeafJoin(n, l, r)
  BY <1>3, <1>4, <1>5, <1>6, <1>9, Zenon DEF LeafJoin, ks, cs, ld
<1> QED
  BY <1>11, <1>12, <1>13, Zenon DEF l, r, b

\* isExisting, by position.
LEMMA ExistsAt ==
    ASSUME NEW s \in Seq(Nat), NEW e
    PROVE  isExisting(s, e) <=> \E i \in 1 .. Len(s) : s[i] = e
<1>1. DOMAIN s = 1 .. Len(s)
  OBVIOUS
<1> QED
  BY <1>1, Zenon DEF isExisting, Range

\* One of the halves l and r, cut at s, gained the key and became u or w.
HalfGains(l, u, s, r, w, key, v) ==
    \/ Gains(u, l, key, v) /\ w = r /\ key < s
    \/ u = l /\ Gains(w, r, key, v) /\ s <= key

\* A split leaf of which one half gained a key binds that key, and otherwise
\* what it bound.
LEMMA SplitBinds ==
    ASSUME NEW n, NEW l, NEW r, IsNode(n, LEAF_NODE), IsNode(l, LEAF_NODE),
           IsNode(r, LEAF_NODE),
           LeafJoin(n, l, r), NEW s \in Nat, Cut(l.keys, s, r.keys), NEW key \in Nat, NEW v,
           NEW u, NEW w, HalfGains(l, u, s, r, w, key, v), NEW k \in Nat, NEW c
    PROVE  NodeBinds(IF k < s THEN u ELSE w, k, c) <=> IF k = key THEN c = v ELSE NodeBinds(n, k, c)
<1>1. /\ k < s => (NodeBinds(l, k, c) <=> NodeBinds(n, k, c))
      /\ ~(k < s) => (NodeBinds(r, k, c) <=> NodeBinds(n, k, c))
  <2>1. NodeBinds(IF k < s THEN l ELSE r, k, c) <=> NodeBinds(n, k, c)
    BY LeafJoinBinds
  <2> QED
    BY <2>1, Zenon
<1>2. l.flag = LEAF_NODE /\ r.flag = LEAF_NODE
  BY Zenon DEF IsNode
<1>3. CASE Gains(u, l, key, v) /\ w = r /\ key < s
  <2>1. NodeBinds(u, k, c) <=> IF k = key THEN c = v ELSE NodeBinds(l, k, c)
    BY <1>2, <1>3, GainsBinds
  <2>2. ~(k < s) => k # key
    BY <1>3
  <2> QED
    BY <1>1, <1>3, <2>1, <2>2, Zenon
<1>4. CASE u = l /\ Gains(w, r, key, v) /\ s <= key
  <2>1. NodeBinds(w, k, c) <=> IF k = key THEN c = v ELSE NodeBinds(r, k, c)
    BY <1>2, <1>4, GainsBinds
  <2>2. k < s => k # key
    BY <1>4
  <2> QED
    BY <1>1, <1>4, <2>1, <2>2, Zenon
<1> QED
  BY <1>3, <1>4, Zenon DEF HalfGains

\* What the writes of the two halves leave on file.
LEMMA HalvesFacts ==
    ASSUME NEW d, IsFile(d), NEW o, NEW y, y # o, NEW l, NEW r
    PROVE  LET h == Halves(d, o, l, y, r)
           IN  /\ h.this = l /\ h.right = r /\ h.y = y
               /\ IsFile(h.db) /\ h.db.value = d.value /\ Takes(d, h.db)
               /\ h.db.node[o] = l /\ h.db.node[y] = r
               /\ \A q \in DOMAIN d.node \ {o, y} :
                    q \in DOMAIN h.db.node /\ h.db.node[q] = d.node[q]
<1> DEFINE h == Halves(d, o, l, y, r)
           e == flushNodePageToFile(d, r, y)
           f == flushNodePageToFile(e, l, o)
           A == Written(d.node, y, r)
           B == Written(A, o, l)
<1>1. h.this = l /\ h.right = r /\ h.y = y /\ h.db = f
  BY DEF Halves
<1>2. IsFile(e) /\ e.node = A /\ SameButNodes(e, d) /\ Takes(d, e)
  BY FlushFacts
<1> HIDE DEF e
<1>3. IsFile(f) /\ f.node = Written(e.node, o, l) /\ SameButNodes(f, e) /\ Takes(e, f)
  BY <1>2, FlushFacts
<1> HIDE DEF f, h
<1>4. f.node = B /\ f.value = d.value
  BY <1>2, <1>3, Zenon DEF SameButNodes
<1>5. A[y] = r /\ y \in DOMAIN A
  BY Zenon DEF Written
<1>6. \A q \in DOMAIN d.node : q # y => q \in DOMAIN A /\ A[q] = d.node[q]
  BY Zenon DEF Written
<1> HIDE DEF A
<1>7. B[o] = l /\ \A q \in DOMAIN A : q # o => q \in DOMAIN B /\ B[q] = A[q]
  BY Zenon DEF Written
<1> HIDE DEF B
<1>8. B[y] = r /\ \A q \in DOMAIN d.node \ {o, y} : q \in DOMAIN B /\ B[q] = d.node[q]
  BY <1>5, <1>6, <1>7, Zenon
<1>9. Takes(d, f)
  BY <1>2, <1>3, TakesTrans
<1> QED
  BY <1>1, <1>3, <1>4, <1>7, <1>8, <1>9, Zenon DEF h

\* Where a descent that reached the node ends up after the insertion: in the
\* node, or in the page that was split off it.
Halved(r, k) == IF r.entry.split /\ r.entry.key <= k THEN r.db.node[r.entry.value] ELSE r.this

\* The file d, after an operation on the page offSet of db, still holds every
\* other page in use as it was.
Others(db, offSet, d) ==
    /\ IsFile(d) /\ Takes(db, d)
    /\ \A o \in DOMAIN db.node : InUse(db, o) /\ o # offSet =>
         o \in DOMAIN d.node /\ d.node[o] = db.node[o]

\* What leafInsert promises.
LeafInserted(db, offSet, n, key, value, r) ==
    /\ \A k \in Nat : \A c : k # key => (NodeBinds(Halved(r, k), k, c) <=> NodeBinds(n, k, c))
    /\ \E c : NodeBinds(Halved(r, key), key, c) /\ r.db.value[c] = value
    /\ IsNode(r.this, LEAF_NODE) /\ r.this = r.db.node[offSet]
    /\ Size(r.this) <= 2 * maxDegree - 1
    /\ Size(n) >= maxDegree - 1 => Size(r.this) >= maxDegree - 1
    /\ r.entry.split =>
         LET right == r.db.node[r.entry.value]
         IN  /\ IsNode(right, LEAF_NODE) /\ Size(right) \in maxDegree - 1 .. 2 * maxDegree - 1
             /\ r.entry.key \in Nat /\ Cut(r.this.keys, r.entry.key, right.keys)
             /\ r.entry.value \in Nat /\ ~InUse(db, r.entry.value)
    /\ Others(db, offSet, r.db)

\* leafInsert of a key the leaf has already.
LEMMA LeafUpdate ==
    ASSUME NEW db, IsFile(db), NEW offSet \in DOMAIN db.node, NEW n, n = db.node[offSet],
           IsNode(n, LEAF_NODE), Size(n) <= 2 * maxDegree - 1, NEW key \in Nat, NEW value,
           isExisting(n.keys, key)
    PROVE  LeafInserted(db, offSet, n, key, value, leafInsert(db, offSet, n, key, value))
<1> DEFINE r == leafInsert(db, offSet, n, key, value)
           c == n.childs[Position(n.keys, key)]
           d == updateValueToFile(db, value, c)
<1>1. r = [entry |-> NoEntry, this |-> n, db |-> d]
  BY DEF leafInsert
<1>2. r.entry = NoEntry /\ r.this = n /\ r.db = d
  BY <1>1
<1>3. ~r.entry.split
  BY <1>2 DEF NoEntry
<1>4. d.node = db.node /\ d.value = Written(db.value, c, value) /\ IsFile(d) /\ Takes(db, d)
  <2>1. FileFields \subseteq DOMAIN db
    BY DEF IsFile
  <2> DEFINE W == Written(db.value, c, value)
  <2>2. d = [db EXCEPT !.value = W]
    BY DEF updateValueToFile
  <2> HIDE DEF W, d
  <2>3. /\ FileFields \subseteq DOMAIN d /\ d.pages = db.pages /\ d.node = db.node /\ d.value = W
        /\ d.emptyValueNode = db.emptyValueNode /\ d.delNodePages = db.delNodePages
        /\ d.delValues = db.delValues
    BY <2>1, <2>2 DEF FileFields
  <2>4. IsFile(d)
    BY <2>3, Zenon DEF IsFile
  <2>5. Takes(db, d)
    BY <2>3, SamePages
  <2> QED
    BY <2>3, <2>4, <2>5, Zenon DEF W
<1>6. NodeBinds(n, key, c)
  BY DEF NodeBinds, Binds
<1> HIDE DEF r, c, d
<1>5. d.value[c] = value
  <2>1. Written(db.value, c, value)[c] = value
    BY WrittenHere
  <2> QED
    BY <2>1, <1>4
<1>7. \A k : Halved(r, k) = n
  BY <1>2, <1>3, Zenon DEF Halved
<1>8. r.this = r.db.node[offSet]
  BY <1>2, <1>4, Zenon
<1>10. Others(db, offSet, r.db)
  BY <1>2, <1>4, Zenon DEF Others
<1>9. LeafInserted(db, offSet, n, key, value, r)
  BY <1>2, <1>3, <1>4, <1>5, <1>6, <1>7, <1>8, <1>10, Zenon DEF LeafInserted
<1> QED
  BY <1>9 DEF r

\* leafInsert of a new key in a leaf with room for it.
LEMMA LeafRoom ==
    ASSUME NEW db, IsFile(db), NEW offSet \in DOMAIN db.node, NEW n, n = db.node[offSet],
           IsNode(n, LEAF_NODE), Size(n) < 2 * maxDegree - 1, NEW key \in Nat, NEW value,
           ~isExisting(n.keys, key)
    PROVE  LeafInserted(db, offSet, n, key, value, leafInsert(db, offSet, n, key, value))
<1> DEFINE r == leafInsert(db, offSet, n, key, value)
           i == insertLeft(db, offSet, n, key, value)
           p == Position(n.keys, key)
<1>1. r = [entry |-> NoEntry, this |-> i.this, db |-> i.db]
  BY DEF leafInsert, Unsplit
<1>2. PICK v \in Nat :
        /\ i.this = Node(n.flag, InsertAt(n.keys, p, key), InsertAt(n.childs, p, v))
        /\ i.db.value[v] = value
        /\ IsFile(i.db) /\ i.db.node = Written(db.node, offSet, i.this) /\ Takes(db, i.db)
  BY InsertLeftFacts
<1>3. n.flag = LEAF_NODE /\ IsNode(n, n.flag)
  BY Zenon DEF IsNode
<1>4. Gains(i.this, n, key, v)
  BY <1>2, <1>3, InsertGains
<1> HIDE DEF i, p
<1>5. r.entry = NoEntry /\ r.this = i.this /\ r.db = i.db
  BY <1>1
<1> HIDE DEF r
<1>6. ~r.entry.split
  BY <1>5 DEF NoEntry
<1>7. IsNode(r.this, LEAF_NODE) /\ Size(r.this) = Size(n) + 1
  BY <1>3, <1>4, <1>5, Zenon DEF Gains, Size
<1>8. Size(n) \in Nat
  BY DEF IsNode, Size
<1>9. Size(r.this) <= 2 * maxDegree - 1 /\ (Size(n) >= maxDegree - 1 => Size(r.this) >= maxDegree - 1)
  BY <1>7, <1>8, MaxDegreeAssumption
<1>10. \A k : Halved(r, k) = i.this
  BY <1>5, <1>6, Zenon DEF Halved
<1>11. \A k \in Nat : \A c : NodeBinds(i.this, k, c) <=> IF k = key THEN c = v ELSE NodeBinds(n, k, c)
  BY <1>3, <1>4, GainsBinds
<1>12. r.this = r.db.node[offSet]
  <2>1. Written(db.node, offSet, i.this)[offSet] = i.this
    BY WrittenHere
  <2> QED
    BY <2>1, <1>2, <1>5
<1>13. Others(db, offSet, r.db)
  <2> DEFINE W == Written(db.node, offSet, i.this)
  <2>1. \A o \in DOMAIN db.node : o # offSet => o \in DOMAIN W /\ W[o] = db.node[o]
    BY WrittenElsewhere
  <2> HIDE DEF W
  <2>2. r.db.node = W /\ IsFile(r.db) /\ Takes(db, r.db)
    BY <1>2, <1>5, Zenon DEF W
  <2> QED
    BY <2>1, <2>2, Zenon DEF Others
<1>14. \A k \in Nat : \A c : k # key => (NodeBinds(Halved(r, k), k, c) <=> NodeBinds(n, k, c))
  BY <1>10, <1>11, Zenon
<1>15. NodeBinds(Halved(r, key), key, v) /\ r.db.value[v] = value
  BY <1>2, <1>5, <1>10, <1>11, Zenon
<1>16. LeafInserted(db, offSet, n, key, value, r)
  BY <1>6, <1>7, <1>9, <1>12, <1>13, <1>14, <1>15, Zenon DEF LeafInserted
<1> QED
  BY <1>16 DEF r

\* The key handed to father when the new key went to the left half: the first
\* of the right half.
LEMMA SplitKeyLeft ==
    ASSUME NEW a \in Nat, NEW b \in Nat, a > 0, b > 0, NEW l \in Seq(Nat), NEW r \in Seq(Nat),
           Len(l) = a, Len(r) = b, Sorted(l), Sorted(r), \A i \in 1 .. a,
           j \in 1 .. b : l[i] < r[j],
           NEW key \in Nat, key < l[a]
    PROVE  r[1] \in Nat /\ Cut(l, r[1], r) /\ key < r[1]
<1>1. 1 \in 1 .. b /\ a \in 1 .. a
  OBVIOUS
<1>2. r[1] \in Nat /\ l[a] \in Nat /\ l[a] < r[1]
  BY <1>1
<1>3. \A i \in 1 .. a : l[i] < r[1]
  BY <1>1
<1>4. ASSUME NEW j \in 1 .. b PROVE r[1] <= r[j]
  <2>1. CASE j = 1
    BY <2>1, <1>2
  <2>2. CASE j > 1
    <3>1. r[1] < r[j]
      BY <2>2, <1>1 DEF Sorted
    <3>2. r[j] \in Nat
      OBVIOUS
    <3> QED
      BY <3>1, <3>2, <1>2
  <2> QED
    BY <2>1, <2>2
<1>5. Cut(l, r[1], r)
  BY <1>3, <1>4, Zenon DEF Cut
<1> QED
  BY <1>2, <1>5

\* The key handed to father when the new key went to the right half: the first
\* of the half with the key in it.
LEMMA SplitKeyRight ==
    ASSUME NEW a \in Nat, NEW b \in Nat, a > 0, b > 0, NEW l \in Seq(Nat), NEW r \in Seq(Nat),
           Len(l) = a, Len(r) = b, Sorted(l), Sorted(r), \A i \in 1 .. a,
           j \in 1 .. b : l[i] < r[j],
           NEW key \in Nat, l[a] < key, NEW p, NEW t, Grows(r, key, p, t)
    PROVE  t[1] \in Nat /\ Cut(l, t[1], r) /\ Cut(l, t[1], t) /\ t[1] <= key
<1>1. 1 \in 1 .. b /\ a \in 1 .. a /\ 1 \in 1 .. b + 1
  OBVIOUS
<1>2. /\ Belongs(r, b, p, key) /\ t \in Seq(Nat) /\ Len(t) = b + 1 /\ Inserted(t, r, b, p, key)
  BY Zenon DEF Grows
<1>3. Sorted(t)
  BY <1>2, InsertSorted
<1>4. p \in 1 .. b + 1
  BY <1>2 DEF Belongs
<1>5. ASSUME NEW i \in 1 .. a PROVE l[i] < key
  <2>1. l[i] \in Nat /\ l[a] \in Nat
    BY <1>1
  <2>2. i < a => l[i] < l[a]
    BY <1>1 DEF Sorted
  <2>3. i < a \/ i = a
    OBVIOUS
  <2>4. CASE i < a
    BY <2>1, <2>2, <2>4
  <2> QED
    BY <2>3, <2>4
<1>6. t[1] = key \/ t[1] = r[1]
  <2>1. CASE p = 1
    BY <2>1, <1>2 DEF Inserted
  <2>2. CASE p > 1
    BY <2>2, <1>1, <1>2 DEF Inserted
  <2> QED
    BY <2>1, <2>2, <1>4
<1>7. \A i \in 1 .. a : l[i] < t[1]
  <2>1. CASE t[1] = key
    BY <2>1, <1>5
  <2>2. CASE t[1] = r[1]
    BY <2>2, <1>1
  <2> QED
    BY <1>6, <2>1, <2>2, Zenon
<1>8. t[1] \in Nat
  BY <1>1, <1>2
<1>9. ASSUME NEW j \in 1 .. b + 1 PROVE t[1] <= t[j]
  <2>1. CASE j = 1
    BY <2>1, <1>8
  <2>2. CASE j > 1
    <3>1. t[1] < t[j]
      BY <2>2, <1>1, <1>2, <1>3, Zenon DEF Sorted
    <3>2. t[j] \in Nat
      BY <1>2, SMTT(40)
    <3> QED
      BY <3>1, <3>2, <1>8
  <2> QED
    BY <2>1, <2>2
<1>10. t[1] <= key
  <2>1. t[p] = key
    BY <1>2 DEF Inserted
  <2> QED
    BY <2>1, <1>4, <1>9
<1>11. ASSUME NEW j \in 1 .. b PROVE t[1] <= r[j]
  <2>1. CASE j < p
    <3>1. t[j] = r[j] /\ j \in 1 .. b + 1
      BY <2>1, <1>2 DEF Inserted
    <3> QED
      BY <3>1, <1>9
  <2>2. CASE ~(j < p)
    <3>1. j >= p /\ j + 1 \in 1 .. b + 1
      BY <2>2, <1>4
    <3>2. t[j + 1] = r[j]
      BY <3>1, <1>2 DEF Inserted
    <3> QED
      BY <3>1, <3>2, <1>9
  <2> QED
    BY <2>1, <2>2
<1>12. Cut(l, t[1], r)
  BY <1>7, <1>11, Zenon DEF Cut
<1>13. Cut(l, t[1], t)
  BY <1>2, <1>7, <1>9, Zenon DEF Cut
<1> QED
  BY <1>8, <1>10, <1>12, <1>13

\* A smaller key may join the left half.
LEMMA GrowsCut ==
    ASSUME NEW l \in Seq(Nat), NEW r, NEW s \in Nat, Cut(l, s, r), NEW key \in Nat, key < s,
           NEW p, NEW t, Grows(l, key, p, t)
    PROVE  Cut(t, s, r)
<1> DEFINE m == Len(l)
<1>1. /\ Belongs(l, m, p, key) /\ Len(t) = m + 1 /\ Inserted(t, l, m, p, key)
  BY Zenon DEF Grows
<1>2. \A i \in 1 .. m : l[i] < s
  BY Zenon DEF Cut
<1>3. m \in Nat
  OBVIOUS
<1> HIDE DEF m
<1>4. p \in 1 .. m + 1
  BY <1>1 DEF Belongs
<1>5. ASSUME NEW i \in 1 .. m + 1 PROVE t[i] < s
  <2>1. CASE i < p
    <3>1. i \in 1 .. m
      BY <2>1, <1>3, <1>4
    <3>2. t[i] = l[i]
      BY <2>1, <3>1, <1>1 DEF Inserted
    <3> QED
      BY <3>1, <3>2, <1>2
  <2>2. CASE i = p
    BY <2>2, <1>1 DEF Inserted
  <2>3. CASE i > p
    <3>1. i - 1 \in 1 .. m /\ i - 1 >= p /\ (i - 1) + 1 = i
      BY <2>3, <1>3, <1>4
    <3>2. t[(i - 1) + 1] = l[i - 1]
      BY <3>1, <1>1 DEF Inserted
    <3> QED
      BY <3>1, <3>2, <1>2
  <2> QED
    BY <2>1, <2>2, <2>3, <1>3, <1>4
<1> QED
  BY <1>1, <1>5, Zenon DEF Cut

\* A key the leaf lacks is in neither half.
LEMMA NotInHalves ==
    ASSUME NEW w \in Seq(Nat), NEW l \in Seq(Nat), NEW r \in Seq(Nat), NEW a \in Nat,
           NEW b \in Nat,
           Len(l) = a, Len(r) = b, Len(w) = a + b, Joins(w, l, a, r, b), NEW e,
           ~isExisting(w, e)
    PROVE  ~isExisting(l, e) /\ ~isExisting(r, e)
<1>1. \A i \in 1 .. a + b : w[i] # e
  BY ExistsAt
<1>2. \A i \in 1 .. a : l[i] # e
  <2>1. \A i \in 1 .. a : i \in 1 .. a + b
    OBVIOUS
  <2> QED
    BY <1>1, <2>1, Zenon DEF Joins
<1>3. \A i \in 1 .. b : r[i] # e
  <2>1. \A i \in 1 .. b : a + i \in 1 .. a + b
    OBVIOUS
  <2> QED
    BY <1>1, <2>1, Zenon DEF Joins
<1> QED
  BY <1>2, <1>3, ExistsAt

\* What remains to show of a split: u and w are the new halves.
LEMMA SplitInserted ==
    ASSUME NEW db, IsFile(db), NEW offSet \in DOMAIN db.node, InUse(db, offSet),
           NEW n, IsNode(n, LEAF_NODE), NEW key \in Nat, NEW value, NEW v \in Nat,
           NEW y \in Nat, ~InUse(db, y), NEW d, IsFile(d), Takes(db, d),
           \A q \in DOMAIN db.node : q \notin {offSet, y} => q \in DOMAIN d.node /\ d.node[q] = db.node[q],
           d.value[v] = value, NEW u, NEW w, IsNode(u, LEAF_NODE), IsNode(w, LEAF_NODE),
           Size(u) \in maxDegree .. maxDegree + 1, Size(w) \in maxDegree - 1 .. maxDegree,
           NEW s \in Nat, s = w.keys[1], Cut(u.keys, s, w.keys),
           \A k \in Nat : \A c : NodeBinds(IF k < s THEN u ELSE w, k, c)
                               <=> IF k = key THEN c = v ELSE NodeBinds(n, k, c)
    PROVE  LeafInserted(db, offSet, n, key, value, leafEntry(Halves(d, offSet, u, y, w)))
<1> DEFINE h == Halves(d, offSet, u, y, w)
           r == leafEntry(h)
<1>1. y # offSet
  OBVIOUS
<1>2. /\ h.this = u /\ h.right = w /\ h.y = y
      /\ IsFile(h.db) /\ h.db.value = d.value /\ Takes(d, h.db)
      /\ h.db.node[offSet] = u /\ h.db.node[y] = w
      /\ \A q \in DOMAIN d.node \ {offSet, y} : q \in DOMAIN h.db.node /\ h.db.node[q] = d.node[q]
  BY <1>1, HalvesFacts
<1> HIDE DEF h
<1>3. r = [entry |-> Entry(h.right.keys[1], h.y), this |-> h.this, db |-> h.db]
  BY Zenon DEF leafEntry, SplitAt
<1>4. r = [entry |-> Entry(s, y), this |-> u, db |-> h.db]
  BY <1>2, <1>3
<1> HIDE DEF r
<1>5. r.entry.split /\ r.entry.key = s /\ r.entry.value = y /\ r.this = u /\ r.db = h.db
  BY <1>4 DEF Entry
<1>6. ASSUME NEW k \in Nat PROVE Halved(r, k) = IF k < s THEN u ELSE w
  <2>1. s <= k <=> ~(k < s)
    OBVIOUS
  <2>2. Halved(r, k) = IF s <= k THEN w ELSE u
    BY <1>2, <1>5, Zenon DEF Halved
  <2> QED
    BY <2>1, <2>2, Zenon
<1>7. \A k \in Nat : \A c : k # key => (NodeBinds(Halved(r, k), k, c) <=> NodeBinds(n, k, c))
  BY <1>6, Zenon
<1>8. NodeBinds(Halved(r, key), key, v) /\ r.db.value[v] = value
  BY <1>2, <1>5, <1>6, Zenon
<1>9. /\ Size(u) <= 2 * maxDegree - 1 /\ Size(u) >= maxDegree - 1
      /\ Size(w) \in maxDegree - 1 .. 2 * maxDegree - 1
  BY MaxDegreeAssumption
<1>10. IsNode(r.this, LEAF_NODE) /\ r.this = r.db.node[offSet] /\ r.db.node[r.entry.value] = w
  BY <1>2, <1>5, Zenon
<1>11. Others(db, offSet, r.db)
  <2>1. ASSUME NEW o \in DOMAIN db.node, InUse(db, o), o # offSet
        PROVE  o \in DOMAIN r.db.node /\ r.db.node[o] = db.node[o]
    <3>1. o \notin {offSet, y}
      BY <2>1
    <3> QED
      BY <3>1, <1>2, <1>5, Zenon
  <2>2. IsFile(r.db) /\ Takes(db, r.db)
    BY <1>2, <1>5, TakesTrans
  <2> QED
    BY <2>1, <2>2, Zenon DEF Others
<1>12. LeafInserted(db, offSet, n, key, value, r)
  BY <1>5, <1>7, <1>8, <1>9, <1>10, <1>11, Zenon DEF LeafInserted
<1> QED
  BY <1>12 DEF r, h

\* leafInsert of a new key in a full leaf.
LEMMA LeafSplit ==
    ASSUME NEW db, IsFile(db), NEW offSet \in DOMAIN db.node, InUse(db, offSet),
           NEW n, IsNode(n, LEAF_NODE), Size(n) = 2 * maxDegree - 1, NEW key \in Nat, NEW value,
           ~isExisting(n.keys, key)
    PROVE  LeafInserted(db, offSet, n, key, value, insertAndSplitLeaf(db, offSet, n, key, value))
<1> DEFINE page == appendNodePageToFile(db, EmptyNode(LEAF_NODE))
           y == page.id
           l == LowerLeaf(n)
           r == copyPartOfNode(n, maxDegree)
           lk == l.keys
           rk == r.keys
           a == maxDegree
           b == maxDegree - 1
           insL == insertLeft(page.db, offSet, l, key, value)
           insR == insertLeft(page.db, y, r, key, value)
<1>1. /\ y \in Nat /\ IsFile(page.db) /\ page.db.node = Written(db.node, y, EmptyNode(LEAF_NODE))
      /\ \A o : InUse(db, o) => o # y
      /\ Takes(db, page.db)
  BY AppendNodeFacts
<1>2. insertAndSplitLeaf(db, offSet, n, key, value)
        = leafEntry(IF lk[maxDegree] > key
                    THEN Halves(insL.db, offSet, insL.this, y, r)
                    ELSE Halves(insR.db, offSet, l, y, insR.this))
  BY Zenon DEF insertAndSplitLeaf, splitLeaf, IntoLeft, IntoRight, LowerLeaf
<1>3. /\ IsNode(l, LEAF_NODE) /\ Len(lk) = a /\ IsNode(r, LEAF_NODE) /\ Len(rk) = b
      /\ LeafJoin(n, l, r)
  BY LeafHalves
<1> HIDE DEF page, l, r
<1>4. y # offSet /\ ~InUse(db, y)
  BY <1>1
<1>5. \A q \in DOMAIN db.node : q # y => q \in DOMAIN page.db.node /\ page.db.node[q] = db.node[q]
  BY <1>1, WrittenElsewhere
<1>6. a \in Nat /\ b \in Nat /\ a > 0 /\ b > 0 /\ a + 1 \in Nat /\ b + 1 = a
  BY MaxDegreeAssumption
<1>7. /\ lk \in Seq(Nat) /\ rk \in Seq(Nat) /\ Sorted(lk) /\ Sorted(rk)
      /\ n.keys \in Seq(Nat) /\ Sorted(n.keys) /\ l.flag = LEAF_NODE /\ r.flag = LEAF_NODE
  BY <1>3, Zenon DEF IsNode
<1>8. Len(n.keys) = a + b /\ Joins(n.keys, lk, a, rk, b)
  BY <1>3, Zenon DEF LeafJoin
<1> HIDE DEF lk, rk, a, b
<1>9. ~isExisting(lk, key) /\ ~isExisting(rk, key)
  BY <1>3, <1>6, <1>7, <1>8, NotInHalves
<1>10. \A i \in 1 .. a, j \in 1 .. b : lk[i] < rk[j]
  BY <1>3, <1>6, <1>7, <1>8, SortedJoins
<1>11. lk[a] \in Nat /\ lk[a] # key
  <2>1. a \in 1 .. Len(lk)
    BY <1>3, <1>6
  <2> QED
    BY <2>1, <1>7, <1>9, ExistsAt
<1>12. CASE lk[a] > key
  <2>1. rk[1] \in Nat /\ Cut(lk, rk[1], rk) /\ key < rk[1]
    <3>1. key < lk[a]
      BY <1>11, <1>12
    <3> QED
      BY <3>1, <1>3, <1>6, <1>7, <1>10, SplitKeyLeft
  <2> DEFINE p == Position(l.keys, key)
             s == rk[1]
             u == insL.this
             d == insL.db
  <2>2. PICK v \in Nat :
          /\ u = Node(l.flag, InsertAt(l.keys, p, key), InsertAt(l.childs, p, v))
          /\ d.value[v] = value
          /\ IsFile(d) /\ d.node = Written(page.db.node, offSet, u) /\ Takes(page.db, d)
    BY <1>1, InsertLeftFacts
  <2>3. Gains(u, l, key, v)
    <3>1. IsNode(l, l.flag) /\ ~isExisting(l.keys, key)
      BY <1>3, <1>7, <1>9, Zenon DEF lk
    <3> QED
      BY <2>2, <3>1, InsertGains
  <2> HIDE DEF insL, u, d
  <2>4. IsNode(u, LEAF_NODE) /\ Size(u) = a + 1 /\ \E q : Grows(lk, key, q, u.keys)
    BY <2>3, <1>3, <1>7, Zenon DEF Gains, Size, lk
  <2>5. Cut(u.keys, s, rk)
    BY <2>1, <2>4, <1>7, GrowsCut
  <2>6. \A k \in Nat : \A c : NodeBinds(IF k < s THEN u ELSE r, k, c)
                            <=> IF k = key THEN c = v ELSE NodeBinds(n, k, c)
    <3>1. Cut(l.keys, s, r.keys)
      BY <2>1, Zenon DEF lk, rk
    <3> HIDE DEF s
    <3>2. s \in Nat /\ key < s
      BY <2>1 DEF s
    <3>3. HalfGains(l, u, s, r, r, key, v)
      BY <2>3, <3>2, Zenon DEF HalfGains
    <3> QED
      BY <3>1, <3>2, <3>3, <1>3, SplitBinds
  <2>7. \A q \in DOMAIN db.node : q \notin {offSet, y} => q \in DOMAIN d.node /\ d.node[q] = db.node[q]
    <3>1. \A q \in DOMAIN page.db.node : q # offSet => q \in DOMAIN d.node /\ d.node[q] = page.db.node[q]
      BY <2>2, WrittenElsewhere
    <3> QED
      BY <3>1, <1>5, Zenon
  <2>8. Size(u) \in maxDegree .. maxDegree + 1 /\ Size(r) \in maxDegree - 1 .. maxDegree
    BY <2>4, <1>3, <1>6 DEF Size, rk, a, b
  <2>9. s = r.keys[1] /\ s \in Nat /\ Cut(u.keys, s, r.keys)
    BY <2>1, <2>5, Zenon DEF rk
  <2> HIDE DEF s
  <2>12. Takes(db, d)
    BY <1>1, <2>2, TakesTrans
  <2>10. LeafInserted(db, offSet, n, key, value, leafEntry(Halves(d, offSet, u, y, r)))
    BY <1>1, <1>3, <1>4, <2>2, <2>4, <2>6, <2>7, <2>8, <2>9, <2>12, SplitInserted, ZenonT(40)
  <2>11. insertAndSplitLeaf(db, offSet, n, key, value) = leafEntry(Halves(d, offSet, u, y, r))
    BY <1>2, <1>12, Zenon DEF u, d, a
  <2> QED
    BY <2>10, <2>11, Zenon
<1>13. CASE ~(lk[a] > key)
  <2> DEFINE p == Position(r.keys, key)
             u == insR.this
             d == insR.db
             s == u.keys[1]
  <2>2. PICK v \in Nat :
          /\ u = Node(r.flag, InsertAt(r.keys, p, key), InsertAt(r.childs, p, v))
          /\ d.value[v] = value
          /\ IsFile(d) /\ d.node = Written(page.db.node, y, u) /\ Takes(page.db, d)
    BY <1>1, InsertLeftFacts
  <2>3. Gains(u, r, key, v)
    <3>1. IsNode(r, r.flag) /\ ~isExisting(r.keys, key)
      BY <1>3, <1>7, <1>9, Zenon DEF rk
    <3> QED
      BY <2>2, <3>1, InsertGains
  <2> HIDE DEF insR, u, d
  <2>4. IsNode(u, LEAF_NODE) /\ Size(u) = b + 1 /\ \E q : Grows(rk, key, q, u.keys)
    BY <2>3, <1>3, <1>7, Zenon DEF Gains, Size, rk
  <2>5. s \in Nat /\ Cut(lk, s, rk) /\ Cut(lk, s, u.keys) /\ s <= key
    <3>1. lk[a] < key
      BY <1>11, <1>13
    <3>2. PICK q : Grows(rk, key, q, u.keys)
      BY <2>4
    <3> QED
      BY <3>1, <3>2, <1>3, <1>6, <1>7, <1>10, SplitKeyRight
  <2> HIDE DEF s
  <2>6. \A k \in Nat : \A c : NodeBinds(IF k < s THEN l ELSE u, k, c)
                            <=> IF k = key THEN c = v ELSE NodeBinds(n, k, c)
    <3>1. Cut(l.keys, s, r.keys) /\ s \in Nat /\ s <= key
      BY <2>5, Zenon DEF lk, rk
    <3>2. HalfGains(l, l, s, r, u, key, v)
      BY <2>3, <3>1, Zenon DEF HalfGains
    <3> QED
      BY <3>1, <3>2, <1>3, SplitBinds
  <2>7. \A q \in DOMAIN db.node : q \notin {offSet, y} => q \in DOMAIN d.node /\ d.node[q] = db.node[q]
    <3>1. \A q \in DOMAIN page.db.node : q # y => q \in DOMAIN d.node /\ d.node[q] = page.db.node[q]
      BY <2>2, WrittenElsewhere
    <3> QED
      BY <3>1, <1>5, Zenon
  <2>8. Size(l) \in maxDegree .. maxDegree + 1 /\ Size(u) \in maxDegree - 1 .. maxDegree
    BY <2>4, <1>3, <1>6 DEF Size, lk, a, b
  <2>9. s = u.keys[1] /\ s \in Nat /\ Cut(l.keys, s, u.keys)
    BY <2>5, Zenon DEF lk, s
  <2>12. Takes(db, d)
    BY <1>1, <2>2, TakesTrans
  <2>10. LeafInserted(db, offSet, n, key, value, leafEntry(Halves(d, offSet, l, y, u)))
    BY <1>1, <1>3, <1>4, <2>2, <2>4, <2>6, <2>7, <2>8, <2>9, <2>12, SplitInserted, ZenonT(40)
  <2>11. insertAndSplitLeaf(db, offSet, n, key, value) = leafEntry(Halves(d, offSet, l, y, u))
    BY <1>2, <1>13, Zenon DEF u, d, a
  <2> QED
    BY <2>10, <2>11, Zenon
<1> QED
  BY <1>12, <1>13

\* leafInsert (BPlusTreeNode.cpp), for every degree and every leaf that is no
\* fuller than a page: whether it rewrites the value, finds room or splits the
\* leaf, every other key stays bound to its slot, in this leaf or in the one split
\* off on the side of entry.key where a descent for the key goes; key is bound to a
\* slot with the value; no half is too small or too large; the keys of the halves
\* lie on either side of entry.key; and the page split off was not in use, so that
\* every other page in use is as it was.
THEOREM LeafInsertion ==
    ASSUME NEW db, IsFile(db), NEW offSet \in DOMAIN db.node, InUse(db, offSet),
           IsNode(db.node[offSet], LEAF_NODE), Size(db.node[offSet]) <= 2 * maxDegree - 1,
           NEW key \in Nat, NEW value
    PROVE  LET n == db.node[offSet]
           IN  LeafInserted(db, offSet, n, key, value, leafInsert(db, offSet, n, key, value))
<1> DEFINE n == db.node[offSet]
<1>1. IsNode(n, LEAF_NODE) /\ Size(n) <= 2 * maxDegree - 1 /\ n = db.node[offSet] /\ Size(n) \in Nat
  BY DEF IsNode, Size
<1> HIDE DEF n
<1>2. CASE isExisting(n.keys, key)
  BY <1>1, <1>2, LeafUpdate DEF n
<1>3. CASE ~isExisting(n.keys, key) /\ Size(n) < 2 * maxDegree - 1
  BY <1>1, <1>3, LeafRoom DEF n
<1>4. CASE ~isExisting(n.keys, key) /\ ~(Size(n) < 2 * maxDegree - 1)
  <2>1. Size(n) = 2 * maxDegree - 1
    BY <1>1, <1>4, MaxDegreeAssumption
  <2>2. leafInsert(db, offSet, n, key, value) = insertAndSplitLeaf(db, offSet, n, key, value)
    BY <1>4, Zenon DEF leafInsert
  <2>3. LeafInserted(db, offSet, n, key, value, insertAndSplitLeaf(db, offSet, n, key, value))
    BY <2>1, <1>1, <1>4, LeafSplit
  <2> QED
    BY <2>2, <2>3, Zenon DEF n
<1> QED
  BY <1>2, <1>3, <1>4

----------------------------------------------------------------------------
(* entryInsert *)

\* No key of ks separates k from e, which is before it: a descent for k goes
\* where e is inserted, to its right.
Beside(ks, e, k) == e <= k /\ \A i \in 1 .. Len(ks) : ~(e < ks[i] /\ ks[i] <= k)

\* Beside, in terms of the index that a descent computes.
LEMMA BesideIndex ==
    ASSUME NEW s \in Seq(Nat), Sorted(s), NEW e \in Nat, NEW p, Belongs(s, Len(s), p, e),
           NEW k \in Nat
    PROVE  (indexNodeLarger(s, k) = p - 1 /\ e <= k) <=> Beside(s, e, k)
<1> DEFINE i == indexNodeLarger(s, k)
           m == Len(s)
<1>1. AtIndex(s, k, i)
  BY IndexAt
<1> HIDE DEF i
<1>2. i \in 0 .. m /\ (i > 0 => s[i] <= k) /\ (i < m => k < s[i + 1])
  BY <1>1 DEF AtIndex
<1>3. m \in Nat /\ \A j \in 1 .. m : s[j] \in Nat
  OBVIOUS
<1>4. p \in 1 .. m + 1 /\ \A j \in 1 .. m : (j < p => s[j] < e) /\ (j >= p => e < s[j])
  BY Zenon DEF Belongs
<1>5. \A u, v \in 1 .. m : u < v => s[u] < s[v]
  BY Zenon DEF Sorted
<1>6. Beside(s, e, k) <=> e <= k /\ \A j \in 1 .. m : ~(e < s[j] /\ s[j] <= k)
  BY Zenon DEF Beside
<1>7. SUFFICES (i = p - 1 /\ e <= k) <=> Beside(s, e, k)
  BY DEF i
<1> HIDE DEF m
<1>8. ASSUME i = p - 1, e <= k, NEW j \in 1 .. m, e < s[j], s[j] <= k PROVE FALSE
  <2>1. j >= p
    BY <1>8, <1>3, <1>4
  <2>2. i < m /\ i + 1 = p /\ p \in 1 .. m
    BY <2>1, <1>3, <1>4, <1>8
  <2>3. k < s[p] /\ s[p] \in Nat /\ s[j] \in Nat
    BY <2>2, <1>2, <1>3
  <2>4. p < j => s[p] < s[j]
    BY <2>2, <1>5
  <2>5. p = j \/ p < j
    BY <2>1, <2>2
  <2> QED
    BY <2>3, <2>4, <2>5, <1>8
<1>9. ASSUME Beside(s, e, k) PROVE i = p - 1
  <2>1. e <= k /\ \A j \in 1 .. m : ~(e < s[j] /\ s[j] <= k)
    BY <1>6, <1>9
  <2>2. CASE i > p - 1
    <3>1. i \in 1 .. m /\ i >= p /\ i > 0
      BY <2>2, <1>2, <1>3, <1>4
    <3>2. s[i] <= k /\ e < s[i]
      BY <3>1, <1>2, <1>4
    <3> QED
      BY <2>1, <3>1, <3>2, Zenon
  <2>3. CASE i < p - 1
    <3>1. i + 1 \in 1 .. m /\ i + 1 < p /\ i < m
      BY <2>3, <1>2, <1>3, <1>4
    <3>2. k < s[i + 1] /\ s[i + 1] < e /\ s[i + 1] \in Nat
      BY <3>1, <1>2, <1>3, <1>4
    <3> QED
      BY <2>1, <3>2
  <2>4. i \in Nat /\ p \in Nat
    BY <1>2, <1>3, <1>4
  <2> QED
    BY <2>2, <2>3, <2>4
<1> QED
  BY <1>6, <1>8, <1>9, Zenon

\* Where an internal node with one more key and child leads.
LEMMA GrowsRoute ==
    ASSUME NEW s, NEW e, NEW p, NEW t, Grows(s, e, p, t), NEW q, q = p + 1,
           NEW cs, Len(cs) = Len(s) + 1, NEW v, NEW d, Inserted(d, cs, Len(cs), q, v),
           NEW k \in Nat
    PROVE  Child(t, d, k) = IF Beside(s, e, k) THEN v ELSE Child(s, cs, k)
<1>1. Child(t, d, k) = IF indexNodeLarger(s, k) = p - 1 /\ e <= k THEN v ELSE Child(s, cs, k)
  BY GrowsChild
<1>2. s \in Seq(Nat) /\ Sorted(s) /\ e \in Nat /\ Belongs(s, Len(s), p, e)
  BY Zenon DEF Grows
<1>3. (indexNodeLarger(s, k) = p - 1 /\ e <= k) <=> Beside(s, e, k)
  BY <1>2, BesideIndex
<1> QED
  BY <1>1, <1>3, Zenon

\* The internal node w is n with key, and v to the right of it.
GainsRight(w, n, key, v) ==
    /\ IsNode(w, n.flag) /\ Len(w.keys) = Len(n.keys) + 1
    /\ \E p, q : /\ Grows(n.keys, key, p, w.keys) /\ q = p + 1
                 /\ Inserted(w.childs, n.childs, Len(n.childs), q, v)

\* The same for nodes.
LEMMA GainsRoute ==
    ASSUME NEW n, IsNode(n, n.flag), NEW key \in Nat, NEW v, NEW w, GainsRight(w, n, key, v),
           NEW k \in Nat
    PROVE  NodeChild(w, k) = IF Beside(n.keys, key, k) THEN v ELSE NodeChild(n, k)
<1> DEFINE ks == n.keys
           cs == n.childs
           t == w.keys
           d == w.childs
<1>1. PICK p, q : Grows(ks, key, p, t) /\ q = p + 1 /\ Inserted(d, cs, Len(cs), q, v)
  BY Zenon DEF GainsRight
<1>2. Len(cs) = Len(ks) + 1
  BY DEF IsNode
<1>3. SUFFICES Child(t, d, k) = IF Beside(ks, key, k) THEN v ELSE Child(ks, cs, k)
  BY Zenon DEF NodeChild
<1> HIDE DEF ks, cs, t, d
<1> QED
  BY <1>1, <1>2, GrowsRoute

\* What insertRight makes of a node.
LEMMA InsertRightFacts ==
    ASSUME NEW db, IsFile(db), NEW o, NEW n, IsNode(n, n.flag), NEW key \in Nat,
           ~isExisting(n.keys, key), NEW v \in Nat
    PROVE  LET r == insertRight(db, o, n, key, v)
           IN  /\ GainsRight(r.this, n, key, v)
               /\ IsFile(r.db) /\ r.db.node = Written(db.node, o, r.this) /\ Takes(db, r.db)
<1> DEFINE r == insertRight(db, o, n, key, v)
           p == Position(n.keys, key)
           ks == n.keys
           cs == n.childs
           m == Len(ks)
           t == InsertAt(ks, p, key)
           d == InsertAt(cs, p + 1, v)
           w == Node(n.flag, t, d)
<1>0. r = [this |-> w, db |-> flushNodePageToFile(db, w, o)]
  BY DEF insertRight, Flushed
<1>1. ks \in Seq(Nat) /\ cs \in Seq(Nat) /\ Len(cs) = m + 1 /\ Sorted(ks) /\ m \in Nat
  BY DEF IsNode
<1>2. ~isExisting(ks, key)
  OBVIOUS
<1>3. w.flag = n.flag /\ w.keys = t /\ w.childs = d
  BY NodeFields
<1> HIDE DEF w, ks, cs
<1>4. r.this = w /\ r.db = flushNodePageToFile(db, w, o)
  BY <1>0
<1> HIDE DEF r
<1>5. Belongs(ks, m, p, key)
  BY <1>1, <1>2, PositionBelongs, Zenon DEF ks
<1> HIDE DEF p
<1>6. p \in 1 .. m + 1 /\ p + 1 \in 1 .. Len(cs) + 1
  BY <1>1, <1>5 DEF Belongs
<1>7. t \in Seq(Nat) /\ Len(t) = m + 1 /\ Inserted(t, ks, m, p, key)
  BY <1>1, <1>6, InsertAtIs
<1>8. d \in Seq(Nat) /\ Len(d) = Len(cs) + 1 /\ Inserted(d, cs, Len(cs), p + 1, v)
  BY <1>1, <1>6, InsertAtIs
<1> HIDE DEF t, d, m
<1>9. Sorted(t)
  BY <1>1, <1>5, <1>7, InsertSorted DEF m
<1>10. IsNode(w, n.flag) /\ Len(w.keys) = m + 1
  BY <1>1, <1>3, <1>7, <1>8, <1>9, Zenon DEF IsNode
<1>11. Grows(ks, key, p, t)
  BY <1>1, <1>5, <1>7, Zenon DEF Grows, m
<1>12. Grows(ks, key, p, w.keys) /\ Inserted(w.childs, cs, Len(cs), p + 1, v)
  BY <1>3, <1>8, <1>11, Zenon
<1>13. GainsRight(w, n, key, v)
  BY <1>10, <1>12, Zenon DEF GainsRight, ks, cs, m
<1>14. IsFile(r.db) /\ r.db.node = Written(db.node, o, w) /\ Takes(db, r.db)
  BY <1>4, FlushFacts
<1> QED
  BY <1>4, <1>13, <1>14, Zenon DEF r

\* The internal node w is l, the key s and r.
ItnJoin(w, l, s, r) ==
    /\ Len(w.keys) = Len(l.keys) + Len(r.keys) + 1
    /\ JoinsAround(w.keys, l.keys, Len(l.keys), r.keys, Len(r.keys))
    /\ s = w.keys[Len(l.keys) + 1]
    /\ Joins(w.childs, l.childs, Len(l.keys) + 1, r.childs, Len(r.keys) + 1)

\* Of two internal nodes with s between them, the one on a key's side of s
\* leads it as the two in a row do.
LEMMA ItnJoinChild ==
    ASSUME NEW w, NEW l, NEW r, IsNode(w, INTERNAL_NODE), IsNode(l, INTERNAL_NODE),
           IsNode(r, INTERNAL_NODE), NEW s, ItnJoin(w, l, s, r), NEW k \in Nat
    PROVE  NodeChild(w, k) = IF k < s THEN NodeChild(l, k) ELSE NodeChild(r, k)
<1> DEFINE a == Len(l.keys)
           b == Len(r.keys)
           wk == w.keys
           lk == l.keys
           rk == r.keys
           wc == w.childs
           lc == l.childs
           rc == r.childs
<1>1. /\ wk \in Seq(Nat) /\ Sorted(wk)
      /\ lk \in Seq(Nat) /\ Sorted(lk) /\ a \in Nat /\ Len(lk) = a
      /\ rk \in Seq(Nat) /\ Sorted(rk) /\ b \in Nat /\ Len(rk) = b
  BY DEF IsNode
<1>2. /\ Len(wk) = a + b + 1 /\ JoinsAround(wk, lk, a, rk, b) /\ Joins(wc, lc, a + 1, rc, b + 1)
      /\ s = wk[a + 1]
  BY Zenon DEF ItnJoin
<1>3. SUFFICES Child(wk, wc, k) = IF k < s THEN Child(lk, lc, k) ELSE Child(rk, rc, k)
  BY Zenon DEF NodeChild
<1> HIDE DEF a, b, wk, lk, rk, wc, lc, rc
<1> QED
  BY <1>1, <1>2, ChildCut

\* A sequence is its first elements, one more, and the others.
LEMMA SubSeqAround ==
    ASSUME NEW s \in Seq(Nat), NEW a \in Nat, NEW b \in Nat, Len(s) = a + b + 1
    PROVE  LET l == SubSeq(s, 1, a)
               r == SubSeq(s, a + 2, a + b + 1)
           IN  /\ l \in Seq(Nat) /\ Len(l) = a /\ r \in Seq(Nat) /\ Len(r) = b
               /\ JoinsAround(s, l, a, r, b)
<1> DEFINE l == SubSeq(s, 1, a)
           r == SubSeq(s, a + 2, a + b + 1)
<1>1. 1 \in 1 .. Len(s) + 1 /\ a \in 1 - 1 .. Len(s) /\ a - 1 + 1 = a
  OBVIOUS
<1>2. l \in Seq(Nat) /\ Len(l) = a - 1 + 1 /\ \A i \in 1 .. a - 1 + 1 : l[i] = s[1 + i - 1]
  BY <1>1, SubSeqFacts
<1>3. a + 2 \in 1 .. Len(s) + 1 /\ a + b + 1 \in a + 2 - 1 .. Len(s) /\ (a + b + 1) - (a + 2) + 1 = b
  OBVIOUS
<1>4. /\ r \in Seq(Nat) /\ Len(r) = (a + b + 1) - (a + 2) + 1
      /\ \A i \in 1 .. (a + b + 1) - (a + 2) + 1 : r[i] = s[a + 2 + i - 1]
  <2> DEFINE x == a + 2
             y == a + b + 1
  <2>1. x \in 1 .. Len(s) + 1 /\ y \in x - 1 .. Len(s)
    BY <1>3
  <2>2. SUFFICES /\ SubSeq(s, x, y) \in Seq(Nat) /\ Len(SubSeq(s, x, y)) = y - x + 1
                 /\ \A i \in 1 .. y - x + 1 : SubSeq(s, x, y)[i] = s[x + i - 1]
    BY Zenon
  <2> HIDE DEF x, y
  <2> QED
    BY <2>1, SubSeqFacts
<1> HIDE DEF l, r
<1>5. ASSUME NEW i \in 1 .. a PROVE s[i] = l[i]
  <2>1. 1 + i - 1 = i /\ i \in 1 .. a - 1 + 1
    BY <1>1
  <2> QED
    BY <1>2, <2>1
<1>6. ASSUME NEW i \in 1 .. b PROVE s[a + 1 + i] = r[i]
  <2>1. a + 2 + i - 1 = a + 1 + i /\ i \in 1 .. (a + b + 1) - (a + 2) + 1
    BY <1>3
  <2> QED
    BY <1>4, <2>1
<1>7. JoinsAround(s, l, a, r, b)
  BY <1>5, <1>6 DEF JoinsAround
<1> QED
  BY <1>1, <1>2, <1>3, <1>4, <1>7 DEF l, r

\* The lower half of a full internal node.
LowerItn(n) == Node(INTERNAL_NODE, SubSeq(n.keys, 1, maxDegree - 1), SubSeq(n.childs, 1, maxDegree))

\* The keys of l are before s, those of r after it.
Apart(l, s, r) ==
    /\ \A i \in 1 .. Len(l) : l[i] < s
    /\ \A i \in 1 .. Len(r) : s < r[i]

\* What insertAndSplitInternal cuts a full internal node into; the key between
\* goes to father.
LEMMA ItnHalves ==
    ASSUME NEW n, IsNode(n, INTERNAL_NODE), Size(n) = 2 * maxDegree - 1
    PROVE  LET l == LowerItn(n)
               r == copyPartOfNode(n, maxDegree)
               s == n.keys[maxDegree]
           IN  /\ IsNode(l, INTERNAL_NODE) /\ Len(l.keys) = maxDegree - 1
               /\ IsNode(r, INTERNAL_NODE) /\ Len(r.keys) = maxDegree - 1
               /\ ItnJoin(n, l, s, r) /\ s \in Nat /\ Apart(l.keys, s, r.keys)
<1> DEFINE l == LowerItn(n)
           r == copyPartOfNode(n, maxDegree)
           s == n.keys[maxDegree]
           ks == n.keys
           cs == n.childs
           a == maxDegree - 1
           lk == SubSeq(ks, 1, a)
           rk == SubSeq(ks, a + 2, a + a + 1)
           lc == SubSeq(cs, 1, a + 1)
           rc == SubSeq(cs, (a + 1) + 1, (a + 1) + (a + 1))
<1>1. /\ a \in Nat /\ a + 1 \in Nat /\ a + a + 1 = 2 * maxDegree - 1 /\ a + 1 = maxDegree
      /\ (a + 1) + (a + 1) = (2 * maxDegree - 1) + 1 /\ a + 2 = maxDegree + 1 /\ (a + 1) + 1 = maxDegree + 1
  BY MaxDegreeAssumption
<1>2. /\ ks \in Seq(Nat) /\ cs \in Seq(Nat) /\ Len(cs) = Len(ks) + 1
      /\ Sorted(ks) /\ n.flag = INTERNAL_NODE
  BY Zenon DEF IsNode
<1>3. Len(ks) = a + a + 1 /\ Len(cs) = (a + 1) + (a + 1)
  BY <1>1, <1>2, Zenon DEF Size
<1>4. l.flag = INTERNAL_NODE /\ l.keys = lk /\ l.childs = lc
  <2>1. l = Node(INTERNAL_NODE, lk, lc)
    BY <1>1, Zenon DEF LowerItn
  <2> HIDE DEF l, lk, lc
  <2> QED
    BY <2>1, NodeFields
<1>5. r.flag = INTERNAL_NODE /\ r.keys = rk /\ r.childs = rc
  <2>1. r = Node(n.flag, SubSeq(n.keys, maxDegree + 1, Size(n)), SubSeq(n.childs, maxDegree + 1, Size(n) + 1))
    BY Zenon DEF copyPartOfNode
  <2>2. Size(n) = a + a + 1 /\ Size(n) + 1 = (a + 1) + (a + 1)
    BY <1>1, Zenon
  <2>3. r = Node(INTERNAL_NODE, rk, rc)
    BY <2>1, <2>2, <1>1, <1>2, Zenon
  <2> HIDE DEF r, rk, rc
  <2> QED
    BY <2>3, NodeFields
<1>14. s = ks[a + 1]
  BY <1>1, Zenon
<1> HIDE DEF l, r, ks, cs, a, s
<1>6. /\ lk \in Seq(Nat) /\ Len(lk) = a /\ rk \in Seq(Nat) /\ Len(rk) = a
      /\ JoinsAround(ks, lk, a, rk, a)
  BY <1>1, <1>2, <1>3, SubSeqAround
<1>7. /\ lc \in Seq(Nat) /\ Len(lc) = a + 1 /\ rc \in Seq(Nat) /\ Len(rc) = a + 1
      /\ Joins(cs, lc, a + 1, rc, a + 1)
  <2> DEFINE m == a + 1
  <2>1. m \in Nat /\ Len(cs) = m + m
    BY <1>1, <1>3
  <2>2. SUFFICES LET x == SubSeq(cs, 1, m)
                     y == SubSeq(cs, m + 1, m + m)
                 IN  /\ x \in Seq(Nat) /\ Len(x) = m /\ y \in Seq(Nat) /\ Len(y) = m
                     /\ Joins(cs, x, m, y, m)
    BY Zenon
  <2> HIDE DEF m
  <2> QED
    BY <2>1, <1>2, SubSeqCut
<1> HIDE DEF lk, rk, lc, rc
<1>8. /\ Sorted(lk) /\ Sorted(rk)
      /\ \A i \in 1 .. a : lk[i] < ks[a + 1]
      /\ \A i \in 1 .. a : ks[a + 1] < rk[i]
  BY <1>1, <1>2, <1>3, <1>6, SortedAround
<1>9. Apart(lk, s, rk)
  BY <1>6, <1>8, <1>14, Zenon DEF Apart
<1>10. s \in Nat
  <2>1. a + 1 \in 1 .. Len(ks)
    BY <1>1, <1>3
  <2> QED
    BY <2>1, <1>2, <1>14, SMTT(40)
<1>11. IsNode(l, INTERNAL_NODE) /\ Len(l.keys) = a
  BY <1>4, <1>6, <1>7, <1>8, Zenon DEF IsNode
<1>12. IsNode(r, INTERNAL_NODE) /\ Len(r.keys) = a
  BY <1>5, <1>6, <1>7, <1>8, Zenon DEF IsNode
<1>13. ItnJoin(n, l, s, r)
  BY <1>3, <1>4, <1>5, <1>6, <1>7, <1>14, Zenon DEF ItnJoin, ks, cs
<1>15. Apart(l.keys, s, r.keys)
  BY <1>4, <1>5, <1>9, Zenon
<1> QED
  BY <1>10, <1>11, <1>12, <1>13, <1>15, Zenon DEF l, r, a, s

\* One of the halves l and r, apart at s, gained the key and became u or w.
HalfGainsRight(l, u, s, r, w, key, v) ==
    \/ GainsRight(u, l, key, v) /\ w = r /\ key < s
    \/ u = l /\ GainsRight(w, r, key, v) /\ s < key

\* Below the cut, where a key leads depends on the lower half only.
LEMMA BesideLower ==
    ASSUME NEW w \in Seq(Nat), NEW l \in Seq(Nat), NEW r \in Seq(Nat), NEW a \in Nat,
           NEW b \in Nat,
           Len(l) = a, Len(r) = b, Len(w) = a + b + 1, JoinsAround(w, l, a, r, b),
           NEW s \in Nat,
           s = w[a + 1], Apart(l, s, r), NEW e \in Nat, NEW k \in Nat, k < s
    PROVE  Beside(w, e, k) <=> Beside(l, e, k)
<1>1. ASSUME NEW i \in 1 .. a PROVE i \in 1 .. a + b + 1 /\ w[i] = l[i]
  BY DEF JoinsAround
<1>2. ASSUME NEW i \in 1 .. a + b + 1 PROVE i \in 1 .. a \/ ~(w[i] <= k)
  <2>1. CASE i = a + 1
    BY <2>1
  <2>2. CASE i > a + 1
    <3>1. i - (a + 1) \in 1 .. b /\ a + 1 + (i - (a + 1)) = i
      BY <2>2
    <3>2. w[i] = r[i - (a + 1)] /\ s < r[i - (a + 1)]
      BY <3>1, Zenon DEF JoinsAround, Apart
    <3>3. r[i - (a + 1)] \in Nat
      BY <3>1, SMTT(40)
    <3> QED
      BY <3>2, <3>3, SMTT(40)
  <2> QED
    BY <2>1, <2>2
<1> QED
  BY <1>1, <1>2, Zenon DEF Beside

\* An entry above the cut changes only the upper half.
LEMMA BesideUpper ==
    ASSUME NEW w \in Seq(Nat), NEW l \in Seq(Nat), NEW r \in Seq(Nat), NEW a \in Nat,
           NEW b \in Nat,
           Len(l) = a, Len(r) = b, Len(w) = a + b + 1, JoinsAround(w, l, a, r, b),
           NEW s \in Nat,
           s = w[a + 1], Apart(l, s, r), NEW e \in Nat, s < e, NEW k \in Nat
    PROVE  Beside(w, e, k) <=> Beside(r, e, k)
<1>1. ASSUME NEW i \in 1 .. b PROVE a + 1 + i \in 1 .. a + b + 1 /\ w[a + 1 + i] = r[i]
  BY DEF JoinsAround
<1>2. ASSUME NEW i \in 1 .. a + b + 1
      PROVE  ~(e < w[i]) \/ \E j \in 1 .. b : w[i] = r[j]
  <2>1. CASE i = a + 1
    BY <2>1
  <2>2. CASE i > a + 1
    <3>1. i - (a + 1) \in 1 .. b /\ a + 1 + (i - (a + 1)) = i
      BY <2>2
    <3> QED
      BY <3>1, <1>1, Zenon
  <2>3. CASE i < a + 1
    <3>1. i \in 1 .. a
      BY <2>3
    <3>2. w[i] = l[i] /\ l[i] < s
      BY <3>1, Zenon DEF JoinsAround, Apart
    <3>3. l[i] \in Nat
      BY <3>1, SMTT(40)
    <3> QED
      BY <3>2, <3>3, SMTT(40)
  <2> QED
    BY <2>1, <2>2, <2>3
<1> QED
  BY <1>1, <1>2, Zenon DEF Beside

\* A split internal node of which one half gained an entry leads where it led,
\* or to the entry.
LEMMA SplitRoute ==
    ASSUME NEW n, NEW l, NEW r, IsNode(n, INTERNAL_NODE), IsNode(l, INTERNAL_NODE),
           IsNode(r, INTERNAL_NODE), NEW s \in Nat, ItnJoin(n, l, s, r),
           Apart(l.keys, s, r.keys),
           NEW key \in Nat, NEW v, NEW u, NEW w, HalfGainsRight(l, u, s, r, w, key, v),
           NEW k \in Nat
    PROVE  NodeChild(IF k < s THEN u ELSE w, k)
             = IF Beside(n.keys, key, k) THEN v ELSE NodeChild(n, k)
<1>1. NodeChild(n, k) = IF k < s THEN NodeChild(l, k) ELSE NodeChild(r, k)
  BY ItnJoinChild
<1>2. l.flag = INTERNAL_NODE /\ r.flag = INTERNAL_NODE
  BY Zenon DEF IsNode
<1> DEFINE nk == n.keys
           lk == l.keys
           rk == r.keys
           a == Len(lk)
           b == Len(rk)
<1>3. nk \in Seq(Nat) /\ lk \in Seq(Nat) /\ rk \in Seq(Nat) /\ a \in Nat /\ b \in Nat
  BY SMTT(40) DEF IsNode
<1>4. Len(nk) = a + b + 1 /\ JoinsAround(nk, lk, a, rk, b) /\ s = nk[a + 1] /\ Apart(lk, s, rk)
  BY Zenon DEF ItnJoin
<1>10. a + 1 \in 1 .. Len(nk)
  <2> HIDE DEF nk, lk, rk, a, b
  <2> QED
    BY <1>3, <1>4
<1>5. k < s => (Beside(nk, key, k) <=> Beside(lk, key, k))
  <2> HIDE DEF nk, lk, rk
  <2> QED
    BY <1>3, <1>4, BesideLower
<1>6. ASSUME s < key PROVE Beside(nk, key, k) <=> Beside(rk, key, k)
  <2>1. a = Len(lk) /\ b = Len(rk)
    OBVIOUS
  <2> HIDE DEF nk, lk, rk, a, b
  <2> QED
    BY <1>3, <1>4, <1>6, <2>1, BesideUpper, ZenonT(40)
<1> HIDE DEF a, b
<1>7. CASE GainsRight(u, l, key, v) /\ w = r /\ key < s
  <2>1. NodeChild(u, k) = IF Beside(l.keys, key, k) THEN v ELSE NodeChild(l, k)
    BY <1>2, <1>7, GainsRoute
  <2>2. ~(k < s) => ~Beside(nk, key, k)
    <3>1. ~(k < s) => s <= k
      OBVIOUS
    <3> QED
      BY <3>1, <1>4, <1>7, <1>10, Zenon DEF Beside
  <2> QED
    BY <1>1, <1>5, <1>7, <2>1, <2>2, Zenon
<1>8. CASE u = l /\ GainsRight(w, r, key, v) /\ s < key
  <2>1. NodeChild(w, k) = IF Beside(r.keys, key, k) THEN v ELSE NodeChild(r, k)
    BY <1>2, <1>8, GainsRoute
  <2>2. k < s => ~Beside(nk, key, k)
    <3>1. k < s => ~(key <= k)
      BY <1>8
    <3> QED
      BY <3>1, Zenon DEF Beside
  <2> QED
    BY <1>1, <1>6, <1>8, <2>1, <2>2, Zenon
<1> QED
  BY <1>7, <1>8, Zenon DEF HalfGainsRight

\* An element of a sequence that grew is the new one or an old one.
LEMMA GrowsElement ==
    ASSUME NEW l, NEW e, NEW p, NEW t, Grows(l, e, p, t), NEW i \in 1 .. Len(t)
    PROVE  t[i] = e \/ \E j \in 1 .. Len(l) : t[i] = l[j]
<1> DEFINE m == Len(l)
<1>1. l \in Seq(Nat) /\ Belongs(l, m, p, e) /\ Len(t) = m + 1 /\ Inserted(t, l, m, p, e)
  BY Zenon DEF Grows
<1>2. m \in Nat
  BY <1>1
<1> HIDE DEF m
<1>3. p \in 1 .. m + 1 /\ i \in 1 .. m + 1
  BY <1>1 DEF Belongs
<1>4. SUFFICES t[i] = e \/ \E j \in 1 .. m : t[i] = l[j]
  BY Zenon DEF m
<1>5. CASE i < p
  <2>1. i \in 1 .. m
    BY <1>2, <1>3, <1>5
  <2>2. t[i] = l[i]
    BY <2>1, <1>1, <1>5 DEF Inserted
  <2> QED
    BY <2>1, <2>2, Zenon
<1>6. CASE i = p
  BY <1>1, <1>6, Zenon DEF Inserted
<1>7. CASE i > p
  <2>1. i - 1 \in 1 .. m /\ i - 1 >= p /\ (i - 1) + 1 = i
    BY <1>2, <1>3, <1>7
  <2>2. t[(i - 1) + 1] = l[i - 1]
    BY <2>1, <1>1 DEF Inserted
  <2> QED
    BY <2>1, <2>2, Zenon
<1> QED
  BY <1>3, <1>5, <1>6, <1>7

\* A key on its side of s may join the node there.
LEMMA GrowsApart ==
    ASSUME NEW l, NEW s, NEW r, Apart(l, s, r), NEW e, NEW p, NEW t
    PROVE  /\ Grows(l, e, p, t) /\ e < s => Apart(t, s, r)
           /\ Grows(r, e, p, t) /\ s < e => Apart(l, s, t)
<1>1. \A i \in 1 .. Len(l) : l[i] < s
  BY Zenon DEF Apart
<1>2. \A i \in 1 .. Len(r) : s < r[i]
  BY Zenon DEF Apart
<1>3. ASSUME Grows(l, e, p, t), e < s, NEW i \in 1 .. Len(t) PROVE t[i] < s
  <2>1. t[i] = e \/ \E j \in 1 .. Len(l) : t[i] = l[j]
    BY <1>3, GrowsElement
  <2> QED
    BY <2>1, <1>1, <1>3, Zenon
<1>4. ASSUME Grows(r, e, p, t), s < e, NEW i \in 1 .. Len(t) PROVE s < t[i]
  <2>1. t[i] = e \/ \E j \in 1 .. Len(r) : t[i] = r[j]
    BY <1>4, GrowsElement
  <2> QED
    BY <2>1, <1>2, <1>4, Zenon
<1> QED
  BY <1>1, <1>2, <1>3, <1>4, Zenon DEF Apart

\* What entryInsert promises.
EntryInserted(db, offSet, n, key, v, r) ==
    /\ \A k \in Nat : NodeChild(Halved(r, k), k) = IF Beside(n.keys, key, k) THEN v ELSE NodeChild(n, k)
    /\ IsNode(r.this, INTERNAL_NODE) /\ r.this = r.db.node[offSet]
    /\ Size(r.this) <= 2 * maxDegree - 1
    /\ Size(n) >= maxDegree - 1 => Size(r.this) >= maxDegree - 1
    /\ r.entry.split =>
         LET right == r.db.node[r.entry.value]
         IN  /\ IsNode(right, INTERNAL_NODE) /\ Size(right) \in maxDegree - 1 .. 2 * maxDegree - 1
             /\ r.entry.key \in Nat /\ Apart(r.this.keys, r.entry.key, right.keys)
             /\ r.entry.value \in Nat /\ ~InUse(db, r.entry.value)
    /\ Others(db, offSet, r.db)

\* entryInsert in a node with room.
LEMMA EntryRoom ==
    ASSUME NEW db, IsFile(db), NEW offSet, NEW n, IsNode(n, INTERNAL_NODE),
           Size(n) < 2 * maxDegree - 1, NEW key \in Nat, ~isExisting(n.keys, key), NEW v \in Nat
    PROVE  EntryInserted(db, offSet, n, key, v, Unsplit(insertRight(db, offSet, n, key, v)))
<1> DEFINE i == insertRight(db, offSet, n, key, v)
           r == Unsplit(i)
<1>1. n.flag = INTERNAL_NODE /\ IsNode(n, n.flag)
  BY Zenon DEF IsNode
<1>2. /\ GainsRight(i.this, n, key, v)
      /\ IsFile(i.db) /\ i.db.node = Written(db.node, offSet, i.this) /\ Takes(db, i.db)
  BY <1>1, InsertRightFacts
<1> HIDE DEF i
<1>3. r.entry = NoEntry /\ r.this = i.this /\ r.db = i.db
  BY DEF Unsplit
<1> HIDE DEF r
<1>4. ~r.entry.split
  BY <1>3 DEF NoEntry
<1>5. \A k : Halved(r, k) = i.this
  BY <1>3, <1>4, Zenon DEF Halved
<1>6. \A k \in Nat : NodeChild(i.this, k) = IF Beside(n.keys, key, k) THEN v ELSE NodeChild(n, k)
  BY <1>1, <1>2, GainsRoute
<1>7. IsNode(r.this, INTERNAL_NODE) /\ Size(r.this) = Size(n) + 1
  BY <1>1, <1>2, <1>3, Zenon DEF GainsRight, Size
<1>8. Size(n) \in Nat
  BY DEF IsNode, Size
<1>9. Size(r.this) <= 2 * maxDegree - 1 /\ (Size(n) >= maxDegree - 1 => Size(r.this) >= maxDegree - 1)
  BY <1>7, <1>8, MaxDegreeAssumption
<1>10. r.this = r.db.node[offSet]
  <2>1. Written(db.node, offSet, i.this)[offSet] = i.this
    BY WrittenHere
  <2> QED
    BY <2>1, <1>2, <1>3, Zenon
<1>11. Others(db, offSet, r.db)
  <2> DEFINE W == Written(db.node, offSet, i.this)
  <2>1. \A o \in DOMAIN db.node : o # offSet => o \in DOMAIN W /\ W[o] = db.node[o]
    BY WrittenElsewhere
  <2> HIDE DEF W
  <2>2. r.db.node = W /\ IsFile(r.db) /\ Takes(db, r.db)
    BY <1>2, <1>3, Zenon DEF W
  <2> QED
    BY <2>1, <2>2, Zenon DEF Others
<1>12. EntryInserted(db, offSet, n, key, v, r)
  BY <1>4, <1>5, <1>6, <1>7, <1>9, <1>10, <1>11, Zenon DEF EntryInserted
<1> QED
  BY <1>12 DEF r, i

\* The halves u and w that a split leaves, with s between them.
SplitItn(n, u, s, w, key, v) ==
    /\ IsNode(u, INTERNAL_NODE) /\ Size(u) \in maxDegree - 1 .. maxDegree
    /\ IsNode(w, INTERNAL_NODE) /\ Size(w) \in maxDegree - 1 .. maxDegree
    /\ s \in Nat /\ Apart(u.keys, s, w.keys)
    /\ \A k \in Nat : NodeChild(IF k < s THEN u ELSE w, k)
                        = IF Beside(n.keys, key, k) THEN v ELSE NodeChild(n, k)

\* What remains to show of a split: u and w are the new halves.
LEMMA EntryHalves ==
    ASSUME NEW db, NEW offSet, InUse(db, offSet), IsFile(db), NEW n, NEW key, NEW v,
           NEW y \in Nat, ~InUse(db, y), NEW d, IsFile(d), Takes(db, d),
           \A q \in DOMAIN db.node : q \notin {offSet, y} => q \in DOMAIN d.node /\ d.node[q] = db.node[q],
           NEW u, NEW w, NEW s, SplitItn(n, u, s, w, key, v)
    PROVE  EntryInserted(db, offSet, n, key, v, SplitAt(Halves(d, offSet, u, y, w), s))
<1> DEFINE h == Halves(d, offSet, u, y, w)
           r == SplitAt(h, s)
<1>1. y # offSet
  OBVIOUS
<1>2. /\ h.this = u /\ h.right = w /\ h.y = y
      /\ IsFile(h.db) /\ h.db.value = d.value /\ Takes(d, h.db)
      /\ h.db.node[offSet] = u /\ h.db.node[y] = w
      /\ \A q \in DOMAIN d.node \ {offSet, y} : q \in DOMAIN h.db.node /\ h.db.node[q] = d.node[q]
  BY <1>1, HalvesFacts
<1> HIDE DEF h
<1>3. r = [entry |-> Entry(s, h.y), this |-> h.this, db |-> h.db]
  BY Zenon DEF SplitAt
<1> HIDE DEF r
<1>5. r.entry.split /\ r.entry.key = s /\ r.entry.value = y /\ r.this = u /\ r.db = h.db
  BY <1>2, <1>3 DEF Entry
<1>6. ASSUME NEW k \in Nat PROVE Halved(r, k) = IF k < s THEN u ELSE w
  <2>1. s <= k <=> ~(k < s)
    BY DEF SplitItn
  <2>2. Halved(r, k) = IF s <= k THEN w ELSE u
    BY <1>2, <1>5, Zenon DEF Halved
  <2> QED
    BY <2>1, <2>2, Zenon
<1>7. \A k \in Nat : NodeChild(Halved(r, k), k) = IF Beside(n.keys, key, k) THEN v ELSE NodeChild(n, k)
  BY <1>6, Zenon DEF SplitItn
<1>9. /\ Size(u) <= 2 * maxDegree - 1 /\ Size(u) >= maxDegree - 1
      /\ Size(w) \in maxDegree - 1 .. 2 * maxDegree - 1
  BY MaxDegreeAssumption DEF SplitItn
<1>10. IsNode(r.this, INTERNAL_NODE) /\ r.this = r.db.node[offSet] /\ r.db.node[r.entry.value] = w
  BY <1>2, <1>5, Zenon DEF SplitItn
<1>11. Others(db, offSet, r.db)
  <2>1. ASSUME NEW o \in DOMAIN db.node, InUse(db, o), o # offSet
        PROVE  o \in DOMAIN r.db.node /\ r.db.node[o] = db.node[o]
    <3>1. o \notin {offSet, y}
      BY <2>1
    <3> QED
      BY <3>1, <1>2, <1>5, Zenon
  <2>2. IsFile(r.db) /\ Takes(db, r.db)
    BY <1>2, <1>5, TakesTrans
  <2> QED
    BY <2>1, <2>2, Zenon DEF Others
<1>12. EntryInserted(db, offSet, n, key, v, r)
  BY <1>5, <1>7, <1>9, <1>10, <1>11, Zenon DEF EntryInserted, SplitItn
<1> QED
  BY <1>12 DEF r, h

\* A key that an internal node lacks is in neither half and is not the key
\* between.
LEMMA NotInItnHalves ==
    ASSUME NEW n, NEW l, NEW r, IsNode(n, INTERNAL_NODE), IsNode(l, INTERNAL_NODE),
           IsNode(r, INTERNAL_NODE), NEW s, ItnJoin(n, l, s, r), NEW e, ~isExisting(n.keys, e)
    PROVE  ~isExisting(l.keys, e) /\ ~isExisting(r.keys, e) /\ s # e
<1> DEFINE nk == n.keys
           lk == l.keys
           rk == r.keys
           a == Len(lk)
           b == Len(rk)
<1>1. nk \in Seq(Nat) /\ lk \in Seq(Nat) /\ rk \in Seq(Nat) /\ a \in Nat /\ b \in Nat
  BY DEF IsNode
<1>2. Len(nk) = a + b + 1 /\ JoinsAround(nk, lk, a, rk, b) /\ s = nk[a + 1]
  BY Zenon DEF ItnJoin
<1>3. ~isExisting(nk, e)
  OBVIOUS
<1>4. SUFFICES ~isExisting(lk, e) /\ ~isExisting(rk, e) /\ s # e
  OBVIOUS
<1>5. a = Len(lk) /\ b = Len(rk)
  OBVIOUS
<1> HIDE DEF nk, lk, rk, a, b
<1>6. \A i \in 1 .. a + b + 1 : nk[i] # e
  BY <1>1, <1>2, <1>3, ExistsAt
<1>7. \A i \in 1 .. a : lk[i] # e
  <2>1. \A i \in 1 .. a : i \in 1 .. a + b + 1
    BY <1>1
  <2> QED
    BY <1>2, <1>6, <2>1, Zenon DEF JoinsAround
<1>8. \A i \in 1 .. b : rk[i] # e
  <2>1. \A i \in 1 .. b : a + 1 + i \in 1 .. a + b + 1
    BY <1>1
  <2> QED
    BY <1>2, <1>6, <2>1, Zenon DEF JoinsAround
<1>9. s # e
  <2>1. a + 1 \in 1 .. a + b + 1
    BY <1>1
  <2> QED
    BY <2>1, <1>2, <1>6, Zenon
<1> QED
  BY <1>1, <1>5, <1>7, <1>8, <1>9, ExistsAt

\* entryInsert in a full node.
LEMMA EntrySplit ==
    ASSUME NEW db, IsFile(db), NEW offSet \in DOMAIN db.node, InUse(db, offSet),
           NEW n, IsNode(n, INTERNAL_NODE), Size(n) = 2 * maxDegree - 1, NEW key \in Nat,
           ~isExisting(n.keys, key), NEW v \in Nat
    PROVE  EntryInserted(db, offSet, n, key, v, insertAndSplitInternal(db, offSet, n, key, v))
<1> DEFINE page == appendNodePageToFile(db, EmptyNode(INTERNAL_NODE))
           y == page.id
           l == LowerItn(n)
           r == copyPartOfNode(n, maxDegree)
           s == n.keys[maxDegree]
           insL == insertRight(page.db, offSet, l, key, v)
           insR == insertRight(page.db, y, r, key, v)
<1>1. /\ y \in Nat /\ IsFile(page.db) /\ page.db.node = Written(db.node, y, EmptyNode(INTERNAL_NODE))
      /\ \A o : InUse(db, o) => o # y
      /\ Takes(db, page.db)
  BY AppendNodeFacts
<1>2. insertAndSplitInternal(db, offSet, n, key, v)
        = SplitAt(IF s > key
                  THEN Halves(insL.db, offSet, insL.this, y, r)
                  ELSE Halves(insR.db, offSet, l, y, insR.this), s)
  BY Zenon DEF insertAndSplitInternal, splitInternal, IntoLeft, IntoRight, LowerItn
<1>3. /\ IsNode(l, INTERNAL_NODE) /\ Len(l.keys) = maxDegree - 1
      /\ IsNode(r, INTERNAL_NODE) /\ Len(r.keys) = maxDegree - 1
      /\ ItnJoin(n, l, s, r) /\ s \in Nat /\ Apart(l.keys, s, r.keys)
  BY ItnHalves
<1> HIDE DEF page, l, r, s
<1>4. y # offSet /\ ~InUse(db, y)
  BY <1>1
<1>5. \A q \in DOMAIN db.node : q # y => q \in DOMAIN page.db.node /\ page.db.node[q] = db.node[q]
  BY <1>1, WrittenElsewhere
<1>6. ~isExisting(l.keys, key) /\ ~isExisting(r.keys, key) /\ s # key
  BY <1>3, NotInItnHalves
<1>7. /\ l.flag = INTERNAL_NODE /\ r.flag = INTERNAL_NODE /\ IsNode(l, l.flag) /\ IsNode(r, r.flag)
  BY <1>3, Zenon DEF IsNode
<1>8. (maxDegree - 1) + 1 = maxDegree /\ maxDegree \in maxDegree - 1 .. maxDegree
      /\ maxDegree - 1 \in maxDegree - 1 .. maxDegree
  BY MaxDegreeAssumption
<1>9. CASE s > key
  <2> DEFINE u == insL.this
             d == insL.db
  <2>1. /\ GainsRight(u, l, key, v)
        /\ IsFile(d) /\ d.node = Written(page.db.node, offSet, u) /\ Takes(page.db, d)
    BY <1>1, <1>6, <1>7, InsertRightFacts
  <2>2. key < s
    BY <1>3, <1>9
  <2> HIDE DEF insL, u, d
  <2>3. IsNode(u, INTERNAL_NODE) /\ Size(u) = maxDegree /\ \E p : Grows(l.keys, key, p, u.keys)
    BY <2>1, <1>3, <1>7, <1>8, Zenon DEF GainsRight, Size
  <2>4. Apart(u.keys, s, r.keys)
    BY <2>2, <2>3, <1>3, GrowsApart
  <2>5. \A k \in Nat : NodeChild(IF k < s THEN u ELSE r, k)
                         = IF Beside(n.keys, key, k) THEN v ELSE NodeChild(n, k)
    <3>1. HalfGainsRight(l, u, s, r, r, key, v)
      BY <2>1, <2>2, Zenon DEF HalfGainsRight
    <3> QED
      BY <3>1, <1>3, SplitRoute
  <2>6. SplitItn(n, u, s, r, key, v)
    BY <1>3, <1>8, <2>3, <2>4, <2>5, Zenon DEF SplitItn, Size
  <2>7. \A q \in DOMAIN db.node : q \notin {offSet, y} => q \in DOMAIN d.node /\ d.node[q] = db.node[q]
    <3>1. \A q \in DOMAIN page.db.node : q # offSet => q \in DOMAIN d.node /\ d.node[q] = page.db.node[q]
      BY <2>1, WrittenElsewhere
    <3> QED
      BY <3>1, <1>5, Zenon
  <2>8. Takes(db, d)
    BY <1>1, <2>1, TakesTrans
  <2>9. EntryInserted(db, offSet, n, key, v, SplitAt(Halves(d, offSet, u, y, r), s))
    BY <1>1, <1>4, <2>1, <2>6, <2>7, <2>8, EntryHalves
  <2> QED
    BY <2>9, <1>2, <1>9, Zenon DEF u, d
<1>10. CASE ~(s > key)
  <2> DEFINE w == insR.this
             d == insR.db
  <2>1. /\ GainsRight(w, r, key, v)
        /\ IsFile(d) /\ d.node = Written(page.db.node, y, w) /\ Takes(page.db, d)
    BY <1>1, <1>6, <1>7, InsertRightFacts
  <2>2. s < key
    BY <1>3, <1>6, <1>10
  <2> HIDE DEF insR, w, d
  <2>3. IsNode(w, INTERNAL_NODE) /\ Size(w) = maxDegree /\ \E p : Grows(r.keys, key, p, w.keys)
    BY <2>1, <1>3, <1>7, <1>8, Zenon DEF GainsRight, Size
  <2>4. Apart(l.keys, s, w.keys)
    BY <2>2, <2>3, <1>3, GrowsApart
  <2>5. \A k \in Nat : NodeChild(IF k < s THEN l ELSE w, k)
                         = IF Beside(n.keys, key, k) THEN v ELSE NodeChild(n, k)
    <3>1. HalfGainsRight(l, l, s, r, w, key, v)
      BY <2>1, <2>2, Zenon DEF HalfGainsRight
    <3> QED
      BY <3>1, <1>3, SplitRoute
  <2>6. SplitItn(n, l, s, w, key, v)
    BY <1>3, <1>8, <2>3, <2>4, <2>5, Zenon DEF SplitItn, Size
  <2>7. \A q \in DOMAIN db.node : q \notin {offSet, y} => q \in DOMAIN d.node /\ d.node[q] = db.node[q]
    <3>1. \A q \in DOMAIN page.db.node : q # y => q \in DOMAIN d.node /\ d.node[q] = page.db.node[q]
      BY <2>1, WrittenElsewhere
    <3> QED
      BY <3>1, <1>5, Zenon
  <2>8. Takes(db, d)
    BY <1>1, <2>1, TakesTrans
  <2>9. EntryInserted(db, offSet, n, key, v, SplitAt(Halves(d, offSet, l, y, w), s))
    BY <1>1, <1>4, <2>1, <2>6, <2>7, <2>8, EntryHalves
  <2> QED
    BY <2>9, <1>2, <1>10, Zenon DEF w, d
<1> QED
  BY <1>9, <1>10

\* entryInsert (BPlusTreeNode.cpp, internalInsert after the child returned an
\* entry), for every degree and every internal node that is no fuller than a page:
\* a descent goes to the new child exactly when no old key separates it from the
\* entry's key, and otherwise where it went, in this node or in the one split off
\* on the key's side of entry.key; the key handed up separates the halves; sizes
\* and pages as for a leaf.
THEOREM EntryInsertion ==
    ASSUME NEW db, IsFile(db), NEW offSet \in DOMAIN db.node, InUse(db, offSet),
           NEW n, IsNode(n, INTERNAL_NODE), Size(n) <= 2 * maxDegree - 1,
           NEW key \in Nat, ~isExisting(n.keys, key), NEW v \in Nat
    PROVE  EntryInserted(db, offSet, n, key, v, entryInsert(db, offSet, n, Entry(key, v)))
<1>1. Size(n) \in Nat
  BY DEF IsNode, Size
<1> DEFINE e == Entry(key, v)
<1>2. e.split /\ e.key = key /\ e.value = v
  BY DEF Entry
<1> HIDE DEF e
<1>3. SUFFICES EntryInserted(db, offSet, n, key, v, entryInsert(db, offSet, n, e))
  BY Zenon DEF e
<1>4. CASE Size(n) = 2 * maxDegree - 1
  <2>1. entryInsert(db, offSet, n, e) = insertAndSplitInternal(db, offSet, n, key, v)
    BY <1>2, <1>4, Zenon DEF entryInsert
  <2>2. EntryInserted(db, offSet, n, key, v, insertAndSplitInternal(db, offSet, n, key, v))
    BY <1>4, EntrySplit
  <2> QED
    BY <2>1, <2>2, Zenon
<1>5. CASE Size(n) # 2 * maxDegree - 1
  <2>1. entryInsert(db, offSet, n, e) = Unsplit(insertRight(db, offSet, n, key, v))
    BY <1>2, <1>5, Zenon DEF entryInsert
  <2>2. Size(n) < 2 * maxDegree - 1
    BY <1>1, <1>5, MaxDegreeAssumption
  <2>3. EntryInserted(db, offSet, n, key, v, Unsplit(insertRight(db, offSet, n, key, v)))
    BY <2>2, EntryRoom
  <2> QED
    BY <2>1, <2>3, Zenon
<1> QED
  BY <1>4, <1>5, Zenon

============================================================================
