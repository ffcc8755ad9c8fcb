---------------------------- MODULE BPlusRemovalProofs ----------------------------
(*******************************************************************************)
(* Removal from a node of the B+ tree, proved for every degree, every father   *)
(* and every child of it: leafRemove and internalRemove, with the four swaps   *)
(* and four merges that redistribute keys between siblings. What is preserved  *)
(* is what a search reads below father (Preserved): father and its children    *)
(* before and after are compared as two levels of a tree, by the slot a leaf   *)
(* binds a key to, or the child an internal node sends it to.                  *)
(*******************************************************************************)
EXTENDS BPlusNodeProofs

----------------------------------------------------------------------------
(* Two neighbours below a father: the key between them, replaced or dropped *)

\* RemoveAt is the inverse of an insertion.
LEMMA RemoveAtIs ==
    ASSUME NEW s \in Seq(Nat), NEW m \in Nat, Len(s) = m + 1, NEW p \in 1 .. m + 1
    PROVE  /\ RemoveAt(s, p) \in Seq(Nat) /\ Len(RemoveAt(s, p)) = m
           /\ Inserted(s, RemoveAt(s, p), m, p, s[p])
<1> DEFINE t == RemoveAt(s, p)
<1>1. p \in 1 .. Len(s) /\ Len(s) - 1 = m
  OBVIOUS
<1>2. t \in Seq(Nat) /\ Len(t) = m /\ \A i \in 1 .. m : t[i] = IF i < p THEN s[i] ELSE s[i + 1]
  BY <1>1, RemoveAtFacts
<1> HIDE DEF t
<1>3. ASSUME NEW i \in 1 .. m PROVE (i < p => s[i] = t[i]) /\ (i >= p => s[i + 1] = t[i])
  BY <1>2
<1>4. Inserted(s, t, m, p, s[p])
  BY <1>3, Zenon DEF Inserted
<1> QED
  BY <1>2, <1>4 DEF t

\* A sorted sequence is itself without a key, grown by that key.
LEMMA RemoveGrows ==
    ASSUME NEW s \in Seq(Nat), Sorted(s), NEW m \in Nat, Len(s) = m + 1, NEW p \in 1 .. m + 1
    PROVE  Sorted(RemoveAt(s, p)) /\ Grows(RemoveAt(s, p), s[p], p, s)
<1> DEFINE t == RemoveAt(s, p)
<1>1. t \in Seq(Nat) /\ Len(t) = m /\ Inserted(s, t, m, p, s[p])
  BY RemoveAtIs
<1> HIDE DEF t
<1>2. \A i \in 1 .. m : (i < p => s[i] = t[i]) /\ (i >= p => s[i + 1] = t[i])
  BY <1>1, Zenon DEF Inserted
<1>3. \A i, j \in 1 .. m + 1 : i < j => s[i] < s[j]
  BY Zenon DEF Sorted
<1>4. ASSUME NEW i \in 1 .. m PROVE (i < p => t[i] < s[p]) /\ (i >= p => s[p] < t[i])
  <2>1. i \in 1 .. m + 1 /\ i + 1 \in 1 .. m + 1
    OBVIOUS
  <2>2. CASE i < p
    BY <1>2, <1>3, <2>1, <2>2
  <2>3. CASE i >= p
    <3>1. p < i + 1
      BY <2>3
    <3>2. s[p] < s[i + 1]
      BY <3>1, <2>1, <1>3
    <3> QED
      BY <3>2, <1>2, <2>3
  <2> QED
    BY <2>2, <2>3
<1>5. Belongs(t, m, p, s[p])
  BY <1>4, Zenon DEF Belongs
<1>6. ASSUME NEW i \in 1 .. m, NEW j \in 1 .. m, i < j PROVE t[i] < t[j]
  <2>1. i \in 1 .. m + 1 /\ i + 1 \in 1 .. m + 1 /\ j \in 1 .. m + 1 /\ j + 1 \in 1 .. m + 1
    OBVIOUS
  <2>2. CASE j < p
    <3>1. i < p /\ s[i] < s[j]
      BY <2>1, <2>2, <1>3, <1>6
    <3> QED
      BY <3>1, <2>2, <1>2
  <2>3. CASE i >= p
    <3>1. i + 1 < j + 1 /\ j >= p
      BY <2>3, <1>6
    <3>2. s[i + 1] < s[j + 1]
      BY <3>1, <2>1, <1>3
    <3> QED
      BY <3>1, <3>2, <2>3, <1>2
  <2>4. CASE i < p /\ j >= p
    <3>1. i < j + 1
      BY <1>6
    <3>2. s[i] < s[j + 1]
      BY <3>1, <2>1, <1>3
    <3> QED
      BY <3>2, <2>4, <1>2
  <2> QED
    BY <2>2, <2>3, <2>4
<1>7. Sorted(t)
  BY <1>1, <1>6, Zenon DEF Sorted
<1>8. s[p] \in Nat
  OBVIOUS
<1> QED
  BY <1>1, <1>5, <1>7, <1>8, Zenon DEF Grows, t

----------------------------------------------------------------------------

\* The key k lies where the j-th child of a node with the keys ks is.
In(ks, j, k) == indexNodeLarger(ks, k) = j - 1

\* A node with the two children L and R, cut at s, at position j ...
Twin(f, ks, cs, j, L, s, R) ==
    \A k \in Nat : NodeChild(f, k) = IF In(ks, j, k) THEN IF k < s THEN L ELSE R ELSE Child(ks, cs, k)

\* ... and one with a single child X there.
Lone(f, ks, cs, j, X) ==
    \A k \in Nat : NodeChild(f, k) = IF In(ks, j, k) THEN X ELSE Child(ks, cs, k)

\* No other way leads to L or to R.
Clear(ks, cs, j, L, R) ==
    L # R /\ \A k \in Nat : ~In(ks, j, k) => Child(ks, cs, k) \notin {L, R}

\* No child occurs twice.
Distinct(cs) == \A i, j \in 1 .. Len(cs) : i # j => cs[i] # cs[j]

\* What is left of an internal node f without its j-th key and the child to the
\* right of it.
RestKeys(f, j) == RemoveAt(f.keys, j)
RestChilds(f, j) == RemoveAt(f.childs, j + 1)

\* An internal node with m + 1 keys, and the position of one of them.
KeyAt(f, m, j) ==
    /\ IsNode(f, INTERNAL_NODE) /\ Distinct(f.childs) /\ m \in Nat /\ Len(f.keys) = m + 1
    /\ j \in 1 .. m + 1

\* An internal node without its j-th key, and how the node grows from that.
LEMMA RestFacts ==
    ASSUME NEW f, NEW m, NEW j, KeyAt(f, m, j)
    PROVE  LET ks == RestKeys(f, j)
               cs == RestChilds(f, j)
           IN  /\ ks \in Seq(Nat) /\ Len(ks) = m /\ Sorted(ks) /\ Grows(ks, f.keys[j], j, f.keys)
               /\ cs \in Seq(Nat) /\ Len(cs) = m + 1
               /\ Inserted(f.childs, cs, m + 1, j + 1, f.childs[j + 1])
<1>0. /\ IsNode(f, INTERNAL_NODE) /\ Distinct(f.childs) /\ m \in Nat /\ Len(f.keys) = m + 1
      /\ j \in 1 .. m + 1
  BY Zenon DEF KeyAt
<1> USE <1>0
<1> DEFINE fk == f.keys
           fc == f.childs
           q == j + 1
<1>1. fk \in Seq(Nat) /\ Sorted(fk) /\ Len(fk) = m + 1 /\ fc \in Seq(Nat) /\ Len(fc) = (m + 1) + 1
  BY DEF IsNode
<1>2. q \in 1 .. (m + 1) + 1 /\ m + 1 \in Nat
  OBVIOUS
<1>3. SUFFICES /\ RemoveAt(fk, j) \in Seq(Nat) /\ Len(RemoveAt(fk, j)) = m /\ Sorted(RemoveAt(fk, j))
               /\ Grows(RemoveAt(fk, j), fk[j], j, fk)
               /\ RemoveAt(fc, q) \in Seq(Nat) /\ Len(RemoveAt(fc, q)) = m + 1
               /\ Inserted(fc, RemoveAt(fc, q), m + 1, q, fc[q])
  BY Zenon DEF RestKeys, RestChilds
<1> HIDE DEF fk, fc, q
<1>4. RemoveAt(fk, j) \in Seq(Nat) /\ Len(RemoveAt(fk, j)) = m
  BY <1>1, RemoveAtIs
<1>5. Sorted(RemoveAt(fk, j)) /\ Grows(RemoveAt(fk, j), fk[j], j, fk)
  BY <1>1, RemoveGrows
<1> DEFINE e == m + 1
<1>6. e \in Nat /\ Len(fc) = e + 1 /\ q \in 1 .. e + 1
  BY <1>1, <1>2
<1> HIDE DEF e
<1>7. RemoveAt(fc, q) \in Seq(Nat) /\ Len(RemoveAt(fc, q)) = e /\ Inserted(fc, RemoveAt(fc, q), e, q, fc[q])
  BY <1>1, <1>6, RemoveAtIs
<1> QED
  BY <1>4, <1>5, <1>7, Zenon DEF e

\* The childs fc are cs with one more after the j-th.
RestOf(fc, cs, m, j) ==
    /\ m \in Nat /\ j \in 1 .. m + 1 /\ Len(fc) = m + 2 /\ Distinct(fc)
    /\ Inserted(fc, cs, m + 1, j + 1, fc[j + 1])

\* The children of a node other than the j-th and the one after it are the
\* children of the rest other than the j-th.
LEMMA RestChild ==
    ASSUME NEW fc, NEW cs, NEW m, NEW j, RestOf(fc, cs, m, j)
    PROVE  /\ cs[j] = fc[j]
           /\ \A i \in 1 .. m + 1 : i # j => cs[i] \notin {fc[j], fc[j + 1]}
           /\ fc[j] # fc[j + 1]
<1>0. /\ m \in Nat /\ j \in 1 .. m + 1 /\ Len(fc) = m + 2 /\ Distinct(fc)
      /\ Inserted(fc, cs, m + 1, j + 1, fc[j + 1])
  BY Zenon DEF RestOf
<1>1. \A i \in 1 .. m + 1 : (i < j + 1 => fc[i] = cs[i]) /\ (i >= j + 1 => fc[i + 1] = cs[i])
  BY <1>0 DEF Inserted
<1>2. \A a, b \in 1 .. m + 2 : a # b => fc[a] # fc[b]
  BY <1>0, Zenon DEF Distinct
<1>3. j \in 1 .. m + 2 /\ j + 1 \in 1 .. m + 2 /\ j < j + 1 /\ j # j + 1 /\ j \in 1 .. m + 1
  BY <1>0
<1>4. ASSUME NEW i \in 1 .. m + 1, i # j PROVE cs[i] \notin {fc[j], fc[j + 1]}
  <2>1. i \in 1 .. m + 2 /\ i + 1 \in 1 .. m + 2
    BY <1>0
  <2>2. CASE i < j + 1
    <3>1. cs[i] = fc[i] /\ i # j + 1
      BY <1>0, <1>1, <2>2
    <3>2. fc[i] # fc[j] /\ fc[i] # fc[j + 1]
      BY <3>1, <2>1, <1>2, <1>3, <1>4, Zenon
    <3> QED
      BY <3>1, <3>2, Zenon
  <2>3. CASE i >= j + 1
    <3>1. cs[i] = fc[i + 1] /\ i + 1 # j + 1 /\ i + 1 # j
      BY <1>0, <1>1, <2>3
    <3>2. fc[i + 1] # fc[j] /\ fc[i + 1] # fc[j + 1]
      BY <3>1, <2>1, <1>2, <1>3, Zenon
    <3> QED
      BY <3>1, <3>2, Zenon
  <2> QED
    BY <2>2, <2>3, <1>0
<1> QED
  BY <1>1, <1>2, <1>3, <1>4

\* A key and a child after the j-th make two children of one.
LEMMA TwinChild ==
    ASSUME NEW t, NEW d, NEW ks, NEW cs, NEW j, NEW q, q = j + 1, NEW L, NEW s, NEW R,
           Grows(ks, s, j, t), Len(cs) = Len(ks) + 1, Inserted(d, cs, Len(cs), q, R), cs[j] = L,
           NEW k \in Nat
    PROVE  Child(t, d, k) = IF In(ks, j, k) THEN IF k < s THEN L ELSE R ELSE Child(ks, cs, k)
<1>3. Child(t, d, k) = IF indexNodeLarger(ks, k) = j - 1 /\ s <= k THEN R ELSE Child(ks, cs, k)
  BY GrowsChild
<1>1. s \in Nat /\ Belongs(ks, Len(ks), j, s) /\ ks \in Seq(Nat)
  BY Zenon DEF Grows
<1>2. j \in Nat
  BY <1>1 DEF Belongs
<1>4. s <= k <=> ~(k < s)
  BY <1>1
<1>5. In(ks, j, k) => Child(ks, cs, k) = L
  <2> DEFINE x == indexNodeLarger(ks, k)
  <2>1. In(ks, j, k) <=> x = j - 1
    BY Zenon DEF In
  <2>2. Child(ks, cs, k) = cs[1 + x]
    BY Zenon DEF Child
  <2> HIDE DEF x
  <2>3. x = j - 1 => 1 + x = j
    BY <1>2
  <2> QED
    BY <2>1, <2>2, <2>3, Zenon
<1> QED
  BY <1>3, <1>4, <1>5, Zenon DEF In

\* The same for a node.
LEMMA TwinGrows ==
    ASSUME NEW f, NEW ks, NEW cs, NEW j, NEW q, q = j + 1, NEW L, NEW s, NEW R,
           Grows(ks, s, j, f.keys), Len(cs) = Len(ks) + 1,
           Inserted(f.childs, cs, Len(cs), q, R),
           cs[j] = L
    PROVE  Twin(f, ks, cs, j, L, s, R)
<1> DEFINE t == f.keys
           d == f.childs
<1>1. Grows(ks, s, j, t) /\ Inserted(d, cs, Len(cs), q, R)
  OBVIOUS
<1>2. \A k : NodeChild(f, k) = Child(t, d, k)
  BY Zenon DEF NodeChild
<1> HIDE DEF t, d
<1>3. \A k \in Nat :
        Child(t, d, k) = IF In(ks, j, k) THEN IF k < s THEN L ELSE R ELSE Child(ks, cs, k)
  BY <1>1, TwinChild
<1> QED
  BY <1>2, <1>3, Zenon DEF Twin

\* The two children are reached no other way.
LEMMA ClearRest ==
    ASSUME NEW m \in Nat, NEW j \in 1 .. m + 1, NEW ks \in Seq(Nat), Len(ks) = m, Sorted(ks),
           NEW cs,
           NEW L, NEW R, \A i \in 1 .. m + 1 : i # j => cs[i] \notin {L, R}, L # R
    PROVE  Clear(ks, cs, j, L, R)
<1> SUFFICES ASSUME NEW k \in Nat, ~In(ks, j, k) PROVE Child(ks, cs, k) \notin {L, R}
  BY Zenon DEF Clear
<1> DEFINE x == indexNodeLarger(ks, k)
<1>1. AtIndex(ks, k, x)
  BY IndexAt
<1>2. Child(ks, cs, k) = cs[1 + x]
  BY Zenon DEF Child
<1>3. ~(x = j - 1)
  BY Zenon DEF In
<1> HIDE DEF x
<1>4. 1 + x \in 1 .. m + 1 /\ 1 + x # j
  BY <1>1, <1>3 DEF AtIndex
<1> QED
  BY <1>2, <1>4, Zenon

\* The two children on either side of the j-th key of f.
LEMMA TwinOf ==
    ASSUME NEW f, NEW m, NEW j, KeyAt(f, m, j)
    PROVE  LET ks == RestKeys(f, j)
               cs == RestChilds(f, j)
           IN  /\ Twin(f, ks, cs, j, f.childs[j], f.keys[j], f.childs[j + 1])
               /\ Clear(ks, cs, j, f.childs[j], f.childs[j + 1])
               /\ ks \in Seq(Nat) /\ Len(ks) = m /\ Sorted(ks) /\ Grows(ks, f.keys[j], j, f.keys)
<1>0. /\ IsNode(f, INTERNAL_NODE) /\ Distinct(f.childs) /\ m \in Nat /\ Len(f.keys) = m + 1
      /\ j \in 1 .. m + 1
  BY Zenon DEF KeyAt
<1> USE <1>0
<1> DEFINE ks == RestKeys(f, j)
           cs == RestChilds(f, j)
           fc == f.childs
           L == fc[j]
           R == fc[j + 1]
           s == f.keys[j]
<1>1. /\ ks \in Seq(Nat) /\ Len(ks) = m /\ Sorted(ks) /\ Grows(ks, s, j, f.keys)
      /\ cs \in Seq(Nat) /\ Len(cs) = m + 1
      /\ Inserted(fc, cs, m + 1, j + 1, R)
  BY RestFacts
<1>2. fc \in Seq(Nat) /\ Len(fc) = m + 2 /\ Distinct(fc) /\ s \in Nat
  BY DEF IsNode
<1> HIDE DEF ks, cs, fc, s
<1>8. RestOf(fc, cs, m, j)
  BY <1>1, <1>2, Zenon DEF RestOf
<1>3. cs[j] = L /\ (\A i \in 1 .. m + 1 : i # j => cs[i] \notin {L, R}) /\ L # R
  BY <1>8, RestChild
<1> HIDE DEF L, R
<1>4. Clear(ks, cs, j, L, R)
  BY <1>1, <1>3, ClearRest
<1>5. j \in Nat
  OBVIOUS
<1>7. Len(cs) = Len(ks) + 1 /\ Inserted(f.childs, cs, Len(cs), j + 1, R)
  BY <1>1, Zenon DEF fc
<1>6. Twin(f, ks, cs, j, L, s, R)
  BY <1>1, <1>2, <1>3, <1>5, <1>7, TwinGrows
<1> QED
  BY <1>1, <1>4, <1>6, Zenon DEF ks, cs, fc, s, L, R

\* The key between them is replaced.
LEMMA TwinSwap ==
    ASSUME NEW f, NEW m, NEW j, KeyAt(f, m, j), NEW z \in Nat, Belongs(RestKeys(f, j), m, j, z),
           NEW g, g.flag = INTERNAL_NODE, g.keys = [f.keys EXCEPT ![j] = z], g.childs = f.childs
    PROVE  LET ks == RestKeys(f, j)
               cs == RestChilds(f, j)
           IN  /\ IsNode(g, INTERNAL_NODE) /\ Grows(ks, z, j, g.keys) /\ Len(g.keys) = m + 1
               /\ Twin(g, ks, cs, j, f.childs[j], z, f.childs[j + 1])
<1>0. /\ IsNode(f, INTERNAL_NODE) /\ Distinct(f.childs) /\ m \in Nat /\ Len(f.keys) = m + 1
      /\ j \in 1 .. m + 1
  BY Zenon DEF KeyAt
<1> USE <1>0
<1> DEFINE ks == RestKeys(f, j)
           cs == RestChilds(f, j)
           fc == f.childs
           fk == f.keys
           gk == g.keys
           L == fc[j]
           R == fc[j + 1]
           s == fk[j]
<1>1. /\ ks \in Seq(Nat) /\ Len(ks) = m /\ Sorted(ks) /\ Grows(ks, s, j, fk)
      /\ cs \in Seq(Nat) /\ Len(cs) = m + 1
      /\ Inserted(fc, cs, m + 1, j + 1, R)
  BY RestFacts
<1>2. /\ fc \in Seq(Nat) /\ Len(fc) = m + 2 /\ Distinct(fc)
      /\ fk \in Seq(Nat) /\ Len(fk) = m + 1
  BY DEF IsNode
<1>3. gk = [fk EXCEPT ![j] = z] /\ Belongs(ks, m, j, z)
  OBVIOUS
<1> HIDE DEF ks, cs, fc, fk, gk
<1>15. RestOf(fc, cs, m, j)
  BY <1>1, <1>2, Zenon DEF RestOf
<1>4. cs[j] = L
  BY <1>15, RestChild
<1>5. Inserted(fk, ks, m, j, s)
  BY <1>1, Zenon DEF Grows
<1>6. /\ gk \in Seq(Nat) /\ Len(gk) = m + 1 /\ gk[j] = z
      /\ \A i \in 1 .. m + 1 : i # j => gk[i] = fk[i]
  BY <1>2, <1>3
<1>7. ASSUME NEW i \in 1 .. m PROVE (i < j => gk[i] = ks[i]) /\ (i >= j => gk[i + 1] = ks[i])
  <2>1. (i < j => fk[i] = ks[i]) /\ (i >= j => fk[i + 1] = ks[i])
    BY <1>5, Zenon DEF Inserted
  <2>2. i \in 1 .. m + 1 /\ i + 1 \in 1 .. m + 1 /\ (i < j => i # j) /\ (i >= j => i + 1 # j)
    OBVIOUS
  <2> QED
    BY <2>1, <2>2, <1>6, Zenon
<1>8. Inserted(gk, ks, m, j, z)
  BY <1>6, <1>7, Zenon DEF Inserted
<1>9. Sorted(gk)
  BY <1>1, <1>3, <1>6, <1>8, InsertSorted
<1>10. Grows(ks, z, j, gk)
  BY <1>1, <1>3, <1>6, <1>8, Zenon DEF Grows
<1>11. IsNode(g, INTERNAL_NODE)
  <2>1. (m + 1) + 1 = m + 2
    OBVIOUS
  <2>2. g.keys = gk /\ g.childs = fc
    BY Zenon DEF gk, fc
  <2> QED
    BY <2>1, <2>2, <1>2, <1>6, <1>9, Zenon DEF IsNode
<1> HIDE DEF L, R
<1>14. j \in Nat
  OBVIOUS
<1>12. /\ Len(cs) = Len(ks) + 1 /\ Inserted(g.childs, cs, Len(cs), j + 1, R)
       /\ Grows(ks, z, j, g.keys)
  BY <1>1, <1>10, Zenon DEF fc, gk
<1>13. Twin(g, ks, cs, j, L, z, R)
  BY <1>4, <1>12, <1>14, TwinGrows
<1> QED
  BY <1>6, <1>11, <1>12, <1>13, Zenon DEF ks, cs, fc, L, R, gk

\* A node as the code keeps it: these fields and no others.
Stored(n) == n = Node(n.flag, n.keys, n.childs)

\* g is f without its j-th key and the child there, and has X at position j.
Dropped(g, f, j, X) ==
    /\ g.flag = f.flag /\ g.keys = RemoveAt(f.keys, j)
    /\ g.childs = [RemoveAt(f.childs, j) EXCEPT ![j] = X] /\ Stored(g)

\* The key between them goes, and one of the two with it.
LEMMA LoneDrop ==
    ASSUME NEW f, NEW m, NEW j, KeyAt(f, m, j), NEW X \in {f.childs[j], f.childs[j + 1]},
           NEW g, Dropped(g, f, j, X)
    PROVE  LET ks == RestKeys(f, j)
               cs == RestChilds(f, j)
           IN  /\ IsNode(g, INTERNAL_NODE) /\ Len(g.keys) = m /\ Lone(g, ks, cs, j, X)
               /\ \A i \in 1 .. m + 1 : g.childs[i] = IF i = j THEN X ELSE cs[i]
<1>0. /\ IsNode(f, INTERNAL_NODE) /\ Distinct(f.childs) /\ m \in Nat /\ Len(f.keys) = m + 1
      /\ j \in 1 .. m + 1
  BY Zenon DEF KeyAt
<1> USE <1>0
<1> DEFINE ks == RestKeys(f, j)
           cs == RestChilds(f, j)
           fc == f.childs
           gc == g.childs
           D == RemoveAt(fc, j)
           L == fc[j]
           R == fc[j + 1]
<1>1. /\ ks \in Seq(Nat) /\ Len(ks) = m /\ Sorted(ks)
      /\ cs \in Seq(Nat) /\ Len(cs) = m + 1
      /\ Inserted(fc, cs, m + 1, j + 1, R)
  BY RestFacts
<1>2. fc \in Seq(Nat) /\ Len(fc) = m + 2 /\ L \in Nat /\ R \in Nat
  <2>1. fc \in Seq(Nat) /\ Len(fc) = (m + 1) + 1
    BY Zenon DEF IsNode
  <2>2. j \in 1 .. (m + 1) + 1 /\ j + 1 \in 1 .. (m + 1) + 1 /\ (m + 1) + 1 = m + 2
    BY <1>0
  <2> HIDE DEF fc
  <2> QED
    BY <2>1, <2>2
<1>3. g.keys = ks /\ gc = [D EXCEPT ![j] = X] /\ X \in {L, R}
  <2>1. /\ g.keys = RemoveAt(f.keys, j) /\ g.childs = [RemoveAt(f.childs, j) EXCEPT ![j] = X]
    BY DEF Dropped
  <2> QED
    BY <2>1, Zenon DEF RestKeys
<1>12. g.flag = INTERNAL_NODE
  BY Zenon DEF Dropped, IsNode
<1> HIDE DEF ks, cs, fc, gc, L, R
<1>4. D \in Seq(Nat) /\ Len(D) = m + 1 /\ Inserted(fc, D, m + 1, j, fc[j])
  <2> DEFINE e == m + 1
  <2>1. e \in Nat /\ Len(fc) = e + 1 /\ j \in 1 .. e + 1
    BY <1>2
  <2> HIDE DEF e
  <2>2. D \in Seq(Nat) /\ Len(D) = e /\ Inserted(fc, D, e, j, fc[j])
    BY <1>2, <2>1, RemoveAtIs
  <2> QED
    BY <2>2, Zenon DEF e
<1> HIDE DEF D
<1>5. X \in Nat
  BY <1>2, <1>3
<1>6. gc \in Seq(Nat) /\ Len(gc) = m + 1 /\ gc[j] = X /\ \A i \in 1 .. m + 1 : i # j => gc[i] = D[i]
  BY <1>3, <1>4, <1>5
<1>7. ASSUME NEW i \in 1 .. m + 1, i # j PROVE gc[i] = cs[i]
  <2>1. (i < j + 1 => fc[i] = cs[i]) /\ (i >= j + 1 => fc[i + 1] = cs[i])
    BY <1>1, Zenon DEF Inserted
  <2>2. (i < j => fc[i] = D[i]) /\ (i >= j => fc[i + 1] = D[i])
    BY <1>4, Zenon DEF Inserted
  <2>3. (i < j /\ i < j + 1) \/ (i >= j /\ i >= j + 1)
    BY <1>7
  <2> QED
    BY <2>1, <2>2, <2>3, <1>6, <1>7, Zenon
<1>8. ASSUME NEW k \in Nat
      PROVE  NodeChild(g, k) = IF In(ks, j, k) THEN X ELSE Child(ks, cs, k)
  <2> DEFINE x == indexNodeLarger(ks, k)
  <2>1. AtIndex(ks, k, x)
    BY <1>1, IndexAt
  <2>2. Child(ks, cs, k) = cs[1 + x] /\ NodeChild(g, k) = gc[1 + x] /\ (In(ks, j, k) <=> x = j - 1)
    BY <1>3, Zenon DEF Child, NodeChild, In, gc
  <2> HIDE DEF x
  <2>3. 1 + x \in 1 .. m + 1 /\ (x = j - 1 <=> 1 + x = j)
    BY <2>1, <1>1 DEF AtIndex
  <2> QED
    BY <2>2, <2>3, <1>6, <1>7, Zenon
<1>9. Lone(g, ks, cs, j, X)
  BY <1>8, Zenon DEF Lone
<1>10. IsNode(g, INTERNAL_NODE) /\ Len(g.keys) = m
  BY <1>1, <1>3, <1>6, <1>12, Zenon DEF IsNode, gc
<1>11. \A i \in 1 .. m + 1 : g.childs[i] = IF i = j THEN X ELSE cs[i]
  BY <1>6, <1>7, Zenon DEF gc
<1> QED
  BY <1>9, <1>10, <1>11, Zenon DEF ks, cs

----------------------------------------------------------------------------
(* Families: father and children *)

\* o is a child of f.
Kid(f, o) == \E i \in 1 .. Len(f.childs) : o = f.childs[i]

\* Every key of the child o of f is one that leads to o; the keys of internal
\* nodes are not keys of their father.
Routed(f, o, n) ==
    \A k \in Nat : isExisting(n.keys, k) =>
      NodeChild(f, k) = o /\ (n.flag = INTERNAL_NODE => ~isExisting(f.keys, k))

\* A node f and its children on file.
Family(f, nodes, flag) ==
    /\ IsNode(f, INTERNAL_NODE) /\ Distinct(f.childs)
    /\ \A o : Kid(f, o) => o \in DOMAIN nodes /\ IsNode(nodes[o], flag) /\ Routed(f, o, nodes[o])

\* The children L and R of f on either side of the key s, its j-th.
Pair(f, nodes, flag, ks, cs, j, L, s, R) ==
    /\ Family(f, nodes, flag) /\ Kid(f, L) /\ Kid(f, R)
    /\ Grows(ks, s, j, f.keys) /\ Twin(f, ks, cs, j, L, s, R) /\ Clear(ks, cs, j, L, R)

\* A descent goes to a child.
LEMMA KidOf ==
    ASSUME NEW f, IsNode(f, INTERNAL_NODE), NEW k \in Nat
    PROVE  Kid(f, NodeChild(f, k))
<1> DEFINE ks == f.keys
           cs == f.childs
           x == indexNodeLarger(ks, k)
<1>1. ks \in Seq(Nat) /\ Sorted(ks) /\ Len(cs) = Len(ks) + 1
  BY DEF IsNode
<1>2. NodeChild(f, k) = cs[1 + x]
  BY Zenon DEF NodeChild, Child
<1>3. SUFFICES \E i \in 1 .. Len(cs) : cs[1 + x] = cs[i]
  BY <1>2, Zenon DEF Kid
<1> HIDE DEF ks, cs
<1>4. AtIndex(ks, k, x)
  BY <1>1, IndexAt
<1> HIDE DEF x
<1>5. 1 + x \in 1 .. Len(cs)
  BY <1>1, <1>4 DEF AtIndex
<1> QED
  BY <1>5, Zenon

\* A key that belongs at j lies where the j-th child is, and is not a key of
\* the rest.
LEMMA BelongsIn ==
    ASSUME NEW ks, NEW s, NEW j, NEW t, Grows(ks, s, j, t)
    PROVE  In(ks, j, s) /\ ~isExisting(ks, s)
<1> DEFINE m == Len(ks)
<1>1. ks \in Seq(Nat) /\ Sorted(ks) /\ s \in Nat /\ Belongs(ks, m, j, s)
  BY Zenon DEF Grows
<1>2. m \in Nat /\ m = Len(ks)
  BY <1>1
<1> HIDE DEF m
<1>3. j \in 1 .. m + 1 /\ \A i \in 1 .. m : (i < j => ks[i] < s) /\ (i >= j => s < ks[i])
  BY <1>1, Zenon DEF Belongs
<1>4. \A i \in 1 .. m : ks[i] \in Nat
  BY <1>1, <1>2
<1>5. AtIndex(ks, s, j - 1)
  <2>1. j - 1 \in 0 .. m /\ (j - 1) + 1 = j
    BY <1>2, <1>3
  <2>2. j - 1 > 0 => ks[j - 1] <= s
    <3>1. j - 1 > 0 => j - 1 \in 1 .. m /\ j - 1 < j
      BY <2>1, <1>2
    <3> QED
      BY <3>1, <1>1, <1>3, <1>4
  <2>3. j - 1 < m => s < ks[(j - 1) + 1]
    <3>1. j - 1 < m => j \in 1 .. m
      BY <1>2, <1>3
    <3> QED
      BY <2>1, <3>1, <1>3
  <2> QED
    BY <2>1, <2>2, <2>3, <1>2, Zenon DEF AtIndex
<1>6. indexNodeLarger(ks, s) = j - 1
  <2> DEFINE x == j - 1
  <2>1. AtIndex(ks, s, x)
    BY <1>5
  <2> HIDE DEF x
  <2>2. indexNodeLarger(ks, s) = x
    BY <2>1, <1>1, IndexIs
  <2> QED
    BY <2>2 DEF x
<1>7. ASSUME isExisting(ks, s) PROVE FALSE
  <2>1. PICK i \in 1 .. m : ks[i] = s
    BY <1>1, <1>2, <1>7, ExistsAt
  <2> QED
    BY <2>1, <1>1, <1>3
<1> QED
  BY <1>6, <1>7, Zenon DEF In

\* Of two keys where the j-th child is, the greater may separate two children
\* there.
LEMMA InBelongs ==
    ASSUME NEW ks \in Seq(Nat), Sorted(ks), NEW m \in Nat, Len(ks) = m, NEW j \in 1 .. m + 1,
           NEW y \in Nat, NEW z \in Nat, y < z, In(ks, j, y), In(ks, j, z)
    PROVE  Belongs(ks, m, j, z)
<1>1. AtIndex(ks, y, j - 1)
  <2>1. AtIndex(ks, y, indexNodeLarger(ks, y))
    BY IndexAt
  <2> QED
    BY <2>1, Zenon DEF In
<1>2. AtIndex(ks, z, j - 1)
  <2>1. AtIndex(ks, z, indexNodeLarger(ks, z))
    BY IndexAt
  <2> QED
    BY <2>1, Zenon DEF In
<1>3. \A a, b \in 1 .. m : a < b => ks[a] < ks[b]
  BY Zenon DEF Sorted
<1>4. \A i \in 1 .. m : ks[i] \in Nat
  OBVIOUS
<1>5. ASSUME NEW i \in 1 .. m, i < j PROVE ks[i] < z
  <2>1. j - 1 \in 1 .. m /\ j - 1 > 0
    BY <1>5
  <2>2. ks[j - 1] <= y
    BY <2>1, <1>1, Zenon DEF AtIndex
  <2>3. i = j - 1 \/ i < j - 1
    BY <1>5
  <2>4. i < j - 1 => ks[i] < ks[j - 1]
    BY <2>1, <1>3
  <2>5. ks[i] \in Nat /\ ks[j - 1] \in Nat
    BY <2>1, <1>4
  <2> QED
    BY <2>2, <2>3, <2>4, <2>5
<1>6. ASSUME NEW i \in 1 .. m, i >= j PROVE z < ks[i]
  <2>1. j \in 1 .. m /\ j - 1 < m /\ (j - 1) + 1 = j
    BY <1>6
  <2>2. z < ks[j]
    <3>1. z < ks[(j - 1) + 1]
      BY <2>1, <1>2, Zenon DEF AtIndex
    <3> QED
      BY <2>1, <3>1
  <2>3. i = j \/ j < i
    BY <1>6
  <2>4. j < i => ks[j] < ks[i]
    BY <2>1, <1>3
  <2>5. ks[i] \in Nat /\ ks[j] \in Nat
    BY <2>1, <1>4
  <2> QED
    BY <2>2, <2>3, <2>4, <2>5
<1> QED
  BY <1>5, <1>6, Zenon DEF Belongs

\* The keys of a sequence that grew.
LEMMA GrowsExisting ==
    ASSUME NEW ks, NEW e, NEW p, NEW t, Grows(ks, e, p, t), NEW k
    PROVE  isExisting(t, k) <=> k = e \/ isExisting(ks, k)
<1> DEFINE m == Len(ks)
<1>1. /\ ks \in Seq(Nat) /\ Belongs(ks, m, p, e) /\ t \in Seq(Nat) /\ Len(t) = m + 1
      /\ Inserted(t, ks, m, p, e)
  BY Zenon DEF Grows
<1>2. m \in Nat /\ m = Len(ks)
  BY <1>1
<1>3. isExisting(t, k) <=> \E i \in 1 .. Len(t) : t[i] = k
  BY <1>1, ExistsAt
<1>4. isExisting(ks, k) <=> \E i \in 1 .. Len(ks) : ks[i] = k
  BY <1>1, ExistsAt
<1>5. isExisting(t, k) => k = e \/ isExisting(ks, k)
  <2>1. \A i \in 1 .. Len(t) : t[i] = e \/ \E q \in 1 .. Len(ks) : t[i] = ks[q]
    BY GrowsElement
  <2> QED
    BY <2>1, <1>3, <1>4, Zenon
<1> HIDE DEF m
<1>6. p \in 1 .. m + 1
  BY <1>1 DEF Belongs
<1>7. k = e => isExisting(t, k)
  <2>1. t[p] = e
    BY <1>1, Zenon DEF Inserted
  <2> QED
    BY <2>1, <1>1, <1>3, <1>6, Zenon
<1>8. ASSUME NEW i \in 1 .. m PROVE \E q \in 1 .. m + 1 : t[q] = ks[i]
  <2>1. i \in 1 .. m + 1 /\ i + 1 \in 1 .. m + 1 /\ (i < p \/ i >= p)
    BY <1>2, <1>6
  <2> QED
    BY <2>1, <1>1, Zenon DEF Inserted
<1>9. isExisting(ks, k) => isExisting(t, k)
  BY <1>1, <1>2, <1>3, <1>4, <1>8, Zenon
<1> QED
  BY <1>5, <1>7, <1>9, Zenon

\* What the keys of two neighbours, and the key between them, have in common.
LEMMA PairIn ==
    ASSUME NEW f, NEW nodes, NEW flag, NEW ks, NEW cs, NEW j, NEW L, NEW s, NEW R,
           Pair(f, nodes, flag, ks, cs, j, L, s, R), NEW k \in Nat
    PROVE  /\ isExisting(nodes[L].keys, k) => In(ks, j, k) /\ k < s
           /\ isExisting(nodes[R].keys, k) => In(ks, j, k) /\ ~(k < s)
           /\ (flag = INTERNAL_NODE /\ isExisting(nodes[R].keys, k)) => k # s
<1>1. Routed(f, L, nodes[L]) /\ Routed(f, R, nodes[R]) /\ nodes[R].flag = flag
  BY Zenon DEF Pair, Family, IsNode
<1>2. NodeChild(f, k) = IF In(ks, j, k) THEN IF k < s THEN L ELSE R ELSE Child(ks, cs, k)
  BY Zenon DEF Pair, Twin
<1>3. L # R /\ (~In(ks, j, k) => Child(ks, cs, k) \notin {L, R})
  BY Zenon DEF Pair, Clear
<1>4. isExisting(nodes[L].keys, k) => NodeChild(f, k) = L
  BY <1>1, Zenon DEF Routed
<1>5. isExisting(nodes[R].keys, k) => NodeChild(f, k) = R /\ (flag = INTERNAL_NODE => ~isExisting(f.keys, k))
  BY <1>1, Zenon DEF Routed
<1>6. isExisting(f.keys, s)
  <2>1. Grows(ks, s, j, f.keys)
    BY Zenon DEF Pair
  <2> QED
    BY <2>1, GrowsExisting
<1> QED
  BY <1>2, <1>3, <1>4, <1>5, <1>6, Zenon

\* The key between two children cuts their keys.
LEMMA PairCut ==
    ASSUME NEW f, NEW nodes, NEW flag, NEW ks, NEW cs, NEW j, NEW L, NEW s, NEW R,
           Pair(f, nodes, flag, ks, cs, j, L, s, R)
    PROVE  /\ s \in Nat /\ Cut(nodes[L].keys, s, nodes[R].keys)
           /\ flag = INTERNAL_NODE => Apart(nodes[L].keys, s, nodes[R].keys)
<1> DEFINE lk == nodes[L].keys
           rk == nodes[R].keys
<1>1. lk \in Seq(Nat) /\ rk \in Seq(Nat)
  BY Zenon DEF Pair, Family, IsNode
<1>2. s \in Nat
  BY Zenon DEF Pair, Grows
<1>3. \A k \in Nat : /\ isExisting(lk, k) => k < s
                     /\ isExisting(rk, k) => ~(k < s)
                     /\ (flag = INTERNAL_NODE /\ isExisting(rk, k)) => k # s
  BY PairIn
<1> HIDE DEF lk, rk
<1>4. ASSUME NEW i \in 1 .. Len(lk) PROVE lk[i] \in Nat /\ isExisting(lk, lk[i])
  BY <1>1, ExistsAt
<1>5. ASSUME NEW i \in 1 .. Len(rk) PROVE rk[i] \in Nat /\ isExisting(rk, rk[i])
  BY <1>1, ExistsAt
<1>6. ASSUME NEW i \in 1 .. Len(lk) PROVE lk[i] < s
  BY <1>3, <1>4
<1>7. ASSUME NEW i \in 1 .. Len(rk) PROVE s <= rk[i] /\ (flag = INTERNAL_NODE => s < rk[i])
  <2>1. rk[i] \in Nat /\ ~(rk[i] < s) /\ (flag = INTERNAL_NODE => rk[i] # s)
    BY <1>3, <1>5, Zenon
  <2> QED
    BY <2>1, <1>2
<1> QED
  BY <1>2, <1>6, <1>7, Zenon DEF Cut, Apart, lk, rk

\* The other children of f are as they were.
Elsewhere(f, nodes, M, L, R) ==
    \A o : Kid(f, o) /\ o \notin {L, R} => o \in DOMAIN M /\ M[o] = nodes[o]

\* k is a key of the neighbours l and r, or of internal ones the key between.
Holds(l, s, r, flag, k) ==
    isExisting(l.keys, k) \/ isExisting(r.keys, k) \/ (flag = INTERNAL_NODE /\ k = s)

\* The two children were replaced, and the key between them by z ...
SwapOf(f, nodes, flag, ks, cs, j, L, s, R, g, z, M) ==
    /\ IsNode(g, INTERNAL_NODE) /\ g.childs = f.childs
    /\ Grows(ks, z, j, g.keys) /\ Twin(g, ks, cs, j, L, z, R)
    /\ Elsewhere(f, nodes, M, L, R)
    /\ L \in DOMAIN M /\ R \in DOMAIN M /\ IsNode(M[L], flag) /\ IsNode(M[R], flag)
    /\ \A k \in Nat : Holds(M[L], z, M[R], flag, k) => Holds(nodes[L], s, nodes[R], flag, k)
    /\ Cut(M[L].keys, z, M[R].keys)
    /\ flag = INTERNAL_NODE => Apart(M[L].keys, z, M[R].keys)

\* ... or became one, on the page X.
MergeOf(f, nodes, flag, ks, cs, j, L, s, R, g, X, M) ==
    /\ IsNode(g, INTERNAL_NODE) /\ g.keys = ks /\ Distinct(g.childs)
    /\ X \in {L, R} /\ Lone(g, ks, cs, j, X)
    /\ \A o : Kid(g, o) => o = X \/ (Kid(f, o) /\ o \notin {L, R})
    /\ Elsewhere(f, nodes, M, L, R)
    /\ X \in DOMAIN M /\ IsNode(M[X], flag)
    /\ \A k \in Nat : isExisting(M[X].keys, k) => Holds(nodes[L], s, nodes[R], flag, k)

\* What the two hold lies where they are.
LEMMA HoldsIn ==
    ASSUME NEW f, NEW nodes, NEW flag, NEW ks, NEW cs, NEW j, NEW L, NEW s, NEW R,
           Pair(f, nodes, flag, ks, cs, j, L, s, R), NEW k \in Nat,
           Holds(nodes[L], s, nodes[R], flag, k)
    PROVE  In(ks, j, k) /\ (flag = INTERNAL_NODE => ~isExisting(ks, k))
<1>1. Grows(ks, s, j, f.keys)
  BY Zenon DEF Pair
<1>2. In(ks, j, s) /\ ~isExisting(ks, s)
  BY <1>1, BelongsIn
<1>3. isExisting(ks, k) => isExisting(f.keys, k)
  BY <1>1, GrowsExisting
<1>4. isExisting(nodes[L].keys, k) \/ isExisting(nodes[R].keys, k) => In(ks, j, k)
  BY PairIn
<1>5. /\ Routed(f, L, nodes[L]) /\ Routed(f, R, nodes[R])
      /\ nodes[L].flag = flag /\ nodes[R].flag = flag
  BY Zenon DEF Pair, Family, IsNode
<1>6. isExisting(nodes[L].keys, k) \/ isExisting(nodes[R].keys, k) =>
        (flag = INTERNAL_NODE => ~isExisting(f.keys, k))
  BY <1>5, Zenon DEF Routed
<1> QED
  BY <1>2, <1>3, <1>4, <1>6, Zenon DEF Holds

\* On which side of a cut a key is.
LEMMA CutAt ==
    ASSUME NEW lk \in Seq(Nat), NEW rk \in Seq(Nat), NEW z \in Nat, NEW k \in Nat
    PROVE  /\ Cut(lk, z, rk) /\ isExisting(lk, k) => k < z
           /\ Cut(lk, z, rk) /\ isExisting(rk, k) => ~(k < z)
           /\ Apart(lk, z, rk) /\ isExisting(rk, k) => k # z
<1>1. isExisting(lk, k) => \E i \in 1 .. Len(lk) : lk[i] = k
  BY ExistsAt
<1>2. isExisting(rk, k) => \E i \in 1 .. Len(rk) : rk[i] = k
  BY ExistsAt
<1>3. (z <= k => ~(k < z)) /\ (z < k => k # z)
  OBVIOUS
<1> QED
  BY <1>1, <1>2, <1>3, Zenon DEF Cut, Apart

\* A key that leads to another child than L and R still does.
LEMMA OutKept ==
    ASSUME NEW f, NEW nodes, NEW flag, NEW ks, NEW cs, NEW j, NEW L, NEW s, NEW R,
           Pair(f, nodes, flag, ks, cs, j, L, s, R), NEW k \in Nat
    PROVE  /\ NodeChild(f, k) \notin {L, R} => ~In(ks, j, k)
           /\ ~In(ks, j, k) => NodeChild(f, k) = Child(ks, cs, k) /\ NodeChild(f, k) \notin {L, R}
           /\ Kid(f, NodeChild(f, k)) /\ NodeChild(f, k) \in DOMAIN nodes
<1>1. NodeChild(f, k) = IF In(ks, j, k) THEN IF k < s THEN L ELSE R ELSE Child(ks, cs, k)
  BY Zenon DEF Pair, Twin
<1>2. ~In(ks, j, k) => Child(ks, cs, k) \notin {L, R}
  BY Zenon DEF Pair, Clear
<1>3. IsNode(f, INTERNAL_NODE)
  BY Zenon DEF Pair, Family
<1>4. Kid(f, NodeChild(f, k))
  BY <1>3, KidOf
<1>5. NodeChild(f, k) \in DOMAIN nodes
  BY <1>4, Zenon DEF Pair, Family
<1> QED
  BY <1>1, <1>2, <1>4, <1>5, Zenon

\* A swap leaves a family.
LEMMA FamilySwap ==
    ASSUME NEW f, NEW nodes, NEW flag, NEW ks, NEW cs, NEW j, NEW L, NEW s, NEW R,
           Pair(f, nodes, flag, ks, cs, j, L, s, R), NEW g, NEW z, NEW M,
           SwapOf(f, nodes, flag, ks, cs, j, L, s, R, g, z, M)
    PROVE  Family(g, M, flag)
<1>1. /\ IsNode(g, INTERNAL_NODE) /\ g.childs = f.childs
      /\ Grows(ks, z, j, g.keys) /\ Twin(g, ks, cs, j, L, z, R)
      /\ L \in DOMAIN M /\ R \in DOMAIN M /\ IsNode(M[L], flag) /\ IsNode(M[R], flag)
      /\ Cut(M[L].keys, z, M[R].keys)
  BY Zenon DEF SwapOf
<1>2. Distinct(g.childs)
  BY <1>1, Zenon DEF Pair, Family
<1>3. \A k \in Nat : Holds(M[L], z, M[R], flag, k) => Holds(nodes[L], s, nodes[R], flag, k)
  BY Zenon DEF SwapOf
<1>4. \A k \in Nat : Holds(M[L], z, M[R], flag, k) =>
        In(ks, j, k) /\ (flag = INTERNAL_NODE => ~isExisting(ks, k))
  BY <1>3, HoldsIn
<1>5. \A k \in Nat :
        NodeChild(g, k) = IF In(ks, j, k) THEN IF k < z THEN L ELSE R ELSE Child(ks, cs, k)
  BY <1>1, Zenon DEF Twin
<1>6. \A k : isExisting(g.keys, k) <=> k = z \/ isExisting(ks, k)
  BY <1>1, GrowsExisting
<1>7. z \in Nat
  BY <1>1, Zenon DEF Grows
<1>8. M[L].keys \in Seq(Nat) /\ M[R].keys \in Seq(Nat) /\ M[L].flag = flag /\ M[R].flag = flag
  BY <1>1, Zenon DEF IsNode
<1>9. flag = INTERNAL_NODE => Apart(M[L].keys, z, M[R].keys)
  BY Zenon DEF SwapOf
<1>10. ASSUME NEW k \in Nat
       PROVE  /\ isExisting(M[L].keys, k) => k < z
              /\ isExisting(M[R].keys, k) => ~(k < z)
              /\ (flag = INTERNAL_NODE /\ isExisting(M[R].keys, k)) => k # z
  <2> DEFINE lk == M[L].keys
             rk == M[R].keys
  <2>1. lk \in Seq(Nat) /\ rk \in Seq(Nat) /\ Cut(lk, z, rk) /\ (flag = INTERNAL_NODE => Apart(lk, z, rk))
    BY <1>1, <1>8, <1>9, Zenon
  <2>2. SUFFICES /\ isExisting(lk, k) => k < z
                 /\ isExisting(rk, k) => ~(k < z)
                 /\ (flag = INTERNAL_NODE /\ isExisting(rk, k)) => k # z
    BY Zenon
  <2> HIDE DEF lk, rk
  <2> QED
    BY <2>1, <1>7, CutAt
<1>11. \A k \in Nat : k < z => k # z
  BY <1>7
<1>12. Routed(g, L, M[L])
  BY <1>4, <1>5, <1>6, <1>8, <1>10, <1>11, Zenon DEF Routed, Holds
<1>13. Routed(g, R, M[R])
  BY <1>4, <1>5, <1>6, <1>8, <1>10, Zenon DEF Routed, Holds
<1>14. ASSUME NEW o, Kid(f, o), o \notin {L, R}
       PROVE  o \in DOMAIN M /\ IsNode(M[o], flag) /\ Routed(g, o, M[o])
  <2>1. o \in DOMAIN M /\ M[o] = nodes[o]
    BY <1>14, Zenon DEF SwapOf, Elsewhere
  <2>2. IsNode(nodes[o], flag) /\ Routed(f, o, nodes[o]) /\ nodes[o].flag = flag
    BY <1>14, Zenon DEF Pair, Family, IsNode
  <2>3. ASSUME NEW k \in Nat, isExisting(nodes[o].keys, k)
        PROVE  NodeChild(g, k) = o /\ (flag = INTERNAL_NODE => ~isExisting(g.keys, k))
    <3>1. NodeChild(f, k) = o /\ (flag = INTERNAL_NODE => ~isExisting(f.keys, k))
      BY <2>2, <2>3, Zenon DEF Routed
    <3>2. /\ NodeChild(f, k) \notin {L, R} => ~In(ks, j, k)
          /\ ~In(ks, j, k) => NodeChild(f, k) = Child(ks, cs, k)
      BY OutKept
    <3>3. ~In(ks, j, k) /\ Child(ks, cs, k) = o
      BY <3>1, <3>2, <1>14, Zenon
    <3>4. isExisting(ks, k) => isExisting(f.keys, k)
      <4>1. Grows(ks, s, j, f.keys)
        BY Zenon DEF Pair
      <4> QED
        BY <4>1, GrowsExisting
    <3>5. flag = INTERNAL_NODE => k # z
      BY <3>3, <1>4, Zenon DEF Holds
    <3> QED
      BY <3>1, <3>3, <3>4, <3>5, <1>5, <1>6, Zenon
  <2>4. Routed(g, o, M[o])
    BY <2>1, <2>2, <2>3, Zenon DEF Routed
  <2> QED
    BY <2>1, <2>2, <2>4, Zenon
<1>15. \A o : Kid(g, o) => Kid(f, o)
  BY <1>1, Zenon DEF Kid
<1> QED
  BY <1>1, <1>2, <1>12, <1>13, <1>14, <1>15, Zenon DEF Family

\* A merge leaves a family.
LEMMA FamilyMerge ==
    ASSUME NEW f, NEW nodes, NEW flag, NEW ks, NEW cs, NEW j, NEW L, NEW s, NEW R,
           Pair(f, nodes, flag, ks, cs, j, L, s, R), NEW g, NEW X, NEW M,
           MergeOf(f, nodes, flag, ks, cs, j, L, s, R, g, X, M)
    PROVE  Family(g, M, flag)
<1>1. /\ IsNode(g, INTERNAL_NODE) /\ g.keys = ks /\ Distinct(g.childs)
      /\ X \in DOMAIN M /\ IsNode(M[X], flag)
  BY Zenon DEF MergeOf
<1>2. \A k \in Nat : NodeChild(g, k) = IF In(ks, j, k) THEN X ELSE Child(ks, cs, k)
  BY Zenon DEF MergeOf, Lone
<1>3. \A k \in Nat : isExisting(M[X].keys, k) => Holds(nodes[L], s, nodes[R], flag, k)
  BY Zenon DEF MergeOf
<1>4. \A k \in Nat : isExisting(M[X].keys, k) =>
        In(ks, j, k) /\ (flag = INTERNAL_NODE => ~isExisting(ks, k))
  BY <1>3, HoldsIn
<1>5. M[X].flag = flag
  BY <1>1, Zenon DEF IsNode
<1>6. Routed(g, X, M[X])
  BY <1>1, <1>2, <1>4, <1>5, Zenon DEF Routed
<1>7. ASSUME NEW o, Kid(f, o), o \notin {L, R}
      PROVE  o \in DOMAIN M /\ IsNode(M[o], flag) /\ Routed(g, o, M[o])
  <2>1. o \in DOMAIN M /\ M[o] = nodes[o]
    BY <1>7, Zenon DEF MergeOf, Elsewhere
  <2>2. IsNode(nodes[o], flag) /\ Routed(f, o, nodes[o]) /\ nodes[o].flag = flag
    BY <1>7, Zenon DEF Pair, Family, IsNode
  <2>3. ASSUME NEW k \in Nat, isExisting(nodes[o].keys, k)
        PROVE  NodeChild(g, k) = o /\ (flag = INTERNAL_NODE => ~isExisting(g.keys, k))
    <3>1. NodeChild(f, k) = o /\ (flag = INTERNAL_NODE => ~isExisting(f.keys, k))
      BY <2>2, <2>3, Zenon DEF Routed
    <3>2. /\ NodeChild(f, k) \notin {L, R} => ~In(ks, j, k)
          /\ ~In(ks, j, k) => NodeChild(f, k) = Child(ks, cs, k)
      BY OutKept
    <3>3. ~In(ks, j, k) /\ Child(ks, cs, k) = o
      BY <3>1, <3>2, <1>7, Zenon
    <3>4. isExisting(ks, k) => isExisting(f.keys, k)
      <4>1. Grows(ks, s, j, f.keys)
        BY Zenon DEF Pair
      <4> QED
        BY <4>1, GrowsExisting
    <3> QED
      BY <3>1, <3>3, <3>4, <1>1, <1>2, Zenon
  <2>4. Routed(g, o, M[o])
    BY <2>1, <2>2, <2>3, Zenon DEF Routed
  <2> QED
    BY <2>1, <2>2, <2>4, Zenon
<1>8. \A o : Kid(g, o) => o = X \/ (Kid(f, o) /\ o \notin {L, R})
  BY Zenon DEF MergeOf
<1> QED
  BY <1>1, <1>6, <1>7, <1>8, Zenon DEF Family

----------------------------------------------------------------------------

\* The child that a search for k reads after f, what it binds k to if it is a
\* leaf, and where the search goes on if it is not.
Found(f, nodes, k) == nodes[NodeChild(f, k)]
Bound(f, nodes, k, c) == NodeBinds(Found(f, nodes, k), k, c)
Onward(f, nodes, k) == NodeChild(Found(f, nodes, k), k)

\* What a search for a key reads after f and after g.
LEMMA PairFound ==
    ASSUME NEW f, NEW nodes, NEW flag, NEW ks, NEW cs, NEW j, NEW L, NEW s, NEW R,
           Pair(f, nodes, flag, ks, cs, j, L, s, R), NEW M, Elsewhere(f, nodes, M, L, R),
           NEW k \in Nat
    PROVE  /\ In(ks, j, k) => Found(f, nodes, k) = IF k < s THEN nodes[L] ELSE nodes[R]
           /\ ~In(ks, j, k) => Found(f, nodes, k) = M[Child(ks, cs, k)]
<1>1. NodeChild(f, k) = IF In(ks, j, k) THEN IF k < s THEN L ELSE R ELSE Child(ks, cs, k)
  BY Zenon DEF Pair, Twin
<1>2. /\ ~In(ks, j, k) => NodeChild(f, k) = Child(ks, cs, k) /\ NodeChild(f, k) \notin {L, R}
      /\ Kid(f, NodeChild(f, k))
  BY OutKept
<1> QED
  BY <1>1, <1>2, Zenon DEF Found, Elsewhere

\* What a search reads after a swap.
LEMMA SwapFound ==
    ASSUME NEW f, NEW nodes, NEW flag, NEW ks, NEW cs, NEW j, NEW L, NEW s, NEW R, NEW g, NEW z,
           NEW M,
           SwapOf(f, nodes, flag, ks, cs, j, L, s, R, g, z, M), NEW k \in Nat
    PROVE  Found(g, M, k) = IF In(ks, j, k) THEN IF k < z THEN M[L] ELSE M[R] ELSE M[Child(ks, cs, k)]
<1>1. NodeChild(g, k) = IF In(ks, j, k) THEN IF k < z THEN L ELSE R ELSE Child(ks, cs, k)
  BY Zenon DEF SwapOf, Twin
<1> QED
  BY <1>1, Zenon DEF Found

\* What a search reads after a merge.
LEMMA MergeFound ==
    ASSUME NEW f, NEW nodes, NEW flag, NEW ks, NEW cs, NEW j, NEW L, NEW s, NEW R, NEW g, NEW X,
           NEW M,
           MergeOf(f, nodes, flag, ks, cs, j, L, s, R, g, X, M), NEW k \in Nat
    PROVE  Found(g, M, k) = IF In(ks, j, k) THEN M[X] ELSE M[Child(ks, cs, k)]
<1>1. NodeChild(g, k) = IF In(ks, j, k) THEN X ELSE Child(ks, cs, k)
  BY Zenon DEF MergeOf, Lone
<1> QED
  BY <1>1, Zenon DEF Found

----------------------------------------------------------------------------
(* Swaps and merges of two neighbours *)

\* Two leaves that were cut elsewhere, or became one, bind what they bound.
LEMMA SwapBinds ==
    ASSUME NEW f, NEW nodes, NEW ks, NEW cs, NEW j, NEW L, NEW s, NEW R,
           Pair(f, nodes, LEAF_NODE, ks, cs, j, L, s, R), NEW g, NEW z, NEW M,
           SwapOf(f, nodes, LEAF_NODE, ks, cs, j, L, s, R, g, z, M),
           NEW w, IsNode(w, LEAF_NODE), LeafJoin(w, nodes[L], nodes[R]),
           LeafJoin(w, M[L], M[R]),
           NEW k \in Nat, NEW c
    PROVE  Bound(g, M, k, c) <=> Bound(f, nodes, k, c)
<1>1. Found(g, M, k) = IF In(ks, j, k) THEN IF k < z THEN M[L] ELSE M[R] ELSE M[Child(ks, cs, k)]
  BY SwapFound
<1>2. Elsewhere(f, nodes, M, L, R)
  BY Zenon DEF SwapOf
<1>3. /\ In(ks, j, k) => Found(f, nodes, k) = IF k < s THEN nodes[L] ELSE nodes[R]
      /\ ~In(ks, j, k) => Found(f, nodes, k) = M[Child(ks, cs, k)]
  BY <1>2, PairFound
<1> DEFINE l == nodes[L]
           r == nodes[R]
           u == M[L]
           v == M[R]
<1>4. NodeBinds(IF k < s THEN l ELSE r, k, c) <=> NodeBinds(w, k, c)
  <2>1. IsNode(l, LEAF_NODE) /\ IsNode(r, LEAF_NODE)
    BY Zenon DEF Pair, Family
  <2>2. s \in Nat /\ Cut(l.keys, s, r.keys)
    BY PairCut
  <2>3. LeafJoin(w, l, r)
    OBVIOUS
  <2> HIDE DEF l, r
  <2> QED
    BY <2>1, <2>2, <2>3, LeafJoinBinds
<1>5. NodeBinds(IF k < z THEN u ELSE v, k, c) <=> NodeBinds(w, k, c)
  <2>1. IsNode(u, LEAF_NODE) /\ IsNode(v, LEAF_NODE) /\ Cut(u.keys, z, v.keys)
    BY Zenon DEF SwapOf
  <2>2. z \in Nat
    BY Zenon DEF SwapOf, Grows
  <2>3. LeafJoin(w, u, v)
    OBVIOUS
  <2> HIDE DEF u, v
  <2> QED
    BY <2>1, <2>2, <2>3, LeafJoinBinds
<1> QED
  BY <1>1, <1>3, <1>4, <1>5, Zenon DEF Bound

\* The same for a merge of two leaves.
LEMMA MergeBinds ==
    ASSUME NEW f, NEW nodes, NEW ks, NEW cs, NEW j, NEW L, NEW s, NEW R,
           Pair(f, nodes, LEAF_NODE, ks, cs, j, L, s, R), NEW g, NEW X, NEW M,
           MergeOf(f, nodes, LEAF_NODE, ks, cs, j, L, s, R, g, X, M),
           LeafJoin(M[X], nodes[L], nodes[R]), NEW k \in Nat, NEW c
    PROVE  Bound(g, M, k, c) <=> Bound(f, nodes, k, c)
<1>1. Found(g, M, k) = IF In(ks, j, k) THEN M[X] ELSE M[Child(ks, cs, k)]
  BY MergeFound
<1>2. Elsewhere(f, nodes, M, L, R)
  BY Zenon DEF MergeOf
<1>3. /\ In(ks, j, k) => Found(f, nodes, k) = IF k < s THEN nodes[L] ELSE nodes[R]
      /\ ~In(ks, j, k) => Found(f, nodes, k) = M[Child(ks, cs, k)]
  BY <1>2, PairFound
<1> DEFINE l == nodes[L]
           r == nodes[R]
           w == M[X]
<1>4. NodeBinds(IF k < s THEN l ELSE r, k, c) <=> NodeBinds(w, k, c)
  <2>1. IsNode(l, LEAF_NODE) /\ IsNode(r, LEAF_NODE) /\ IsNode(w, LEAF_NODE)
    BY Zenon DEF Pair, Family, MergeOf
  <2>2. s \in Nat /\ Cut(l.keys, s, r.keys)
    BY PairCut
  <2>3. LeafJoin(w, l, r)
    OBVIOUS
  <2> HIDE DEF l, r, w
  <2> QED
    BY <2>1, <2>2, <2>3, LeafJoinBinds
<1> QED
  BY <1>1, <1>3, <1>4, Zenon DEF Bound

\* Two internal nodes that were cut elsewhere, or became one, lead where they led.
LEMMA SwapRoutes ==
    ASSUME NEW f, NEW nodes, NEW ks, NEW cs, NEW j, NEW L, NEW s, NEW R,
           Pair(f, nodes, INTERNAL_NODE, ks, cs, j, L, s, R), NEW g, NEW z, NEW M,
           SwapOf(f, nodes, INTERNAL_NODE, ks, cs, j, L, s, R, g, z, M),
           NEW w, IsNode(w, INTERNAL_NODE), ItnJoin(w, nodes[L], s, nodes[R]),
           ItnJoin(w, M[L], z, M[R]), NEW k \in Nat
    PROVE  Onward(g, M, k) = Onward(f, nodes, k)
<1>1. Found(g, M, k) = IF In(ks, j, k) THEN IF k < z THEN M[L] ELSE M[R] ELSE M[Child(ks, cs, k)]
  BY SwapFound
<1>2. Elsewhere(f, nodes, M, L, R)
  BY Zenon DEF SwapOf
<1>3. /\ In(ks, j, k) => Found(f, nodes, k) = IF k < s THEN nodes[L] ELSE nodes[R]
      /\ ~In(ks, j, k) => Found(f, nodes, k) = M[Child(ks, cs, k)]
  BY <1>2, PairFound
<1> DEFINE l == nodes[L]
           r == nodes[R]
           u == M[L]
           v == M[R]
<1>4. NodeChild(w, k) = IF k < s THEN NodeChild(l, k) ELSE NodeChild(r, k)
  <2>1. IsNode(l, INTERNAL_NODE) /\ IsNode(r, INTERNAL_NODE)
    BY Zenon DEF Pair, Family
  <2>2. ItnJoin(w, l, s, r)
    OBVIOUS
  <2> HIDE DEF l, r
  <2> QED
    BY <2>1, <2>2, ItnJoinChild
<1>5. NodeChild(w, k) = IF k < z THEN NodeChild(u, k) ELSE NodeChild(v, k)
  <2>1. IsNode(u, INTERNAL_NODE) /\ IsNode(v, INTERNAL_NODE)
    BY Zenon DEF SwapOf
  <2>2. ItnJoin(w, u, z, v)
    OBVIOUS
  <2> HIDE DEF u, v
  <2> QED
    BY <2>1, <2>2, ItnJoinChild
<1> QED
  BY <1>1, <1>3, <1>4, <1>5, Zenon DEF Onward

\* The same for a merge of two internal nodes.
LEMMA MergeRoutes ==
    ASSUME NEW f, NEW nodes, NEW ks, NEW cs, NEW j, NEW L, NEW s, NEW R,
           Pair(f, nodes, INTERNAL_NODE, ks, cs, j, L, s, R), NEW g, NEW X, NEW M,
           MergeOf(f, nodes, INTERNAL_NODE, ks, cs, j, L, s, R, g, X, M),
           ItnJoin(M[X], nodes[L], s, nodes[R]), NEW k \in Nat
    PROVE  Onward(g, M, k) = Onward(f, nodes, k)
<1>1. Found(g, M, k) = IF In(ks, j, k) THEN M[X] ELSE M[Child(ks, cs, k)]
  BY MergeFound
<1>2. Elsewhere(f, nodes, M, L, R)
  BY Zenon DEF MergeOf
<1>3. /\ In(ks, j, k) => Found(f, nodes, k) = IF k < s THEN nodes[L] ELSE nodes[R]
      /\ ~In(ks, j, k) => Found(f, nodes, k) = M[Child(ks, cs, k)]
  BY <1>2, PairFound
<1> DEFINE l == nodes[L]
           r == nodes[R]
           w == M[X]
<1>4. NodeChild(w, k) = IF k < s THEN NodeChild(l, k) ELSE NodeChild(r, k)
  <2>1. IsNode(l, INTERNAL_NODE) /\ IsNode(r, INTERNAL_NODE) /\ IsNode(w, INTERNAL_NODE)
    BY Zenon DEF Pair, Family, MergeOf
  <2>2. ItnJoin(w, l, s, r)
    OBVIOUS
  <2> HIDE DEF l, r, w
  <2> QED
    BY <2>1, <2>2, ItnJoinChild
<1> QED
  BY <1>1, <1>3, <1>4, Zenon DEF Onward

----------------------------------------------------------------------------
(* One element over the cut, to the left or to the right. *)

\* The first element of r moves to the end of l.
ShiftLeft(l, a, r, d, u, v) ==
    /\ \A i \in 1 .. a : u[i] = l[i]
    /\ u[a + 1] = r[1]
    /\ \A i \in 1 .. d : v[i] = r[i + 1]

\* The last element of l moves to the front of r.
ShiftRight(l, d, r, b, u, v) ==
    /\ \A i \in 1 .. d : u[i] = l[i]
    /\ v[1] = l[d + 1]
    /\ \A i \in 1 .. b : v[i + 1] = r[i]

\* The sequence in a row does not change when an element moves to the left
\* part.
LEMMA JoinsLeft ==
    ASSUME NEW w, NEW l, NEW r, NEW u, NEW v, NEW a \in Nat, NEW d \in Nat,
           Joins(w, l, a, r, d + 1), ShiftLeft(l, a, r, d, u, v)
    PROVE  Joins(w, u, a + 1, v, d)
<1>1. (\A i \in 1 .. a : w[i] = l[i]) /\ \A i \in 1 .. d + 1 : w[a + i] = r[i]
  BY Zenon DEF Joins
<1>2. (\A i \in 1 .. a : u[i] = l[i]) /\ u[a + 1] = r[1] /\ \A i \in 1 .. d : v[i] = r[i + 1]
  BY Zenon DEF ShiftLeft
<1>3. ASSUME NEW i \in 1 .. a + 1 PROVE w[i] = u[i]
  <2>1. i \in 1 .. a \/ i = a + 1
    OBVIOUS
  <2>2. 1 \in 1 .. d + 1
    OBVIOUS
  <2> QED
    BY <2>1, <2>2, <1>1, <1>2, Zenon
<1>4. ASSUME NEW i \in 1 .. d PROVE w[a + 1 + i] = v[i]
  <2>1. i + 1 \in 1 .. d + 1 /\ a + (i + 1) = a + 1 + i
    OBVIOUS
  <2>2. w[a + (i + 1)] = r[i + 1]
    BY <2>1, <1>1, Zenon
  <2> QED
    BY <2>1, <2>2, <1>2, Zenon
<1> QED
  BY <1>3, <1>4, Zenon DEF Joins

\* Nor when one moves to the right part.
LEMMA JoinsRight ==
    ASSUME NEW w, NEW l, NEW r, NEW u, NEW v, NEW d \in Nat, NEW b \in Nat,
           Joins(w, l, d + 1, r, b), ShiftRight(l, d, r, b, u, v)
    PROVE  Joins(w, u, d, v, b + 1)
<1>1. (\A i \in 1 .. d + 1 : w[i] = l[i]) /\ \A i \in 1 .. b : w[d + 1 + i] = r[i]
  BY Zenon DEF Joins
<1>2. (\A i \in 1 .. d : u[i] = l[i]) /\ v[1] = l[d + 1] /\ \A i \in 1 .. b : v[i + 1] = r[i]
  BY Zenon DEF ShiftRight
<1>3. ASSUME NEW i \in 1 .. d PROVE w[i] = u[i]
  <2>1. i \in 1 .. d + 1
    OBVIOUS
  <2> QED
    BY <2>1, <1>1, <1>2, Zenon
<1>4. ASSUME NEW i \in 1 .. b + 1 PROVE w[d + i] = v[i]
  <2>1. CASE i = 1
    <3>1. d + 1 \in 1 .. d + 1
      OBVIOUS
    <3> QED
      BY <2>1, <3>1, <1>1, <1>2, Zenon
  <2>2. CASE i # 1
    <3>1. i - 1 \in 1 .. b /\ d + 1 + (i - 1) = d + i /\ (i - 1) + 1 = i
      BY <2>2
    <3>2. w[d + 1 + (i - 1)] = r[i - 1] /\ v[(i - 1) + 1] = r[i - 1]
      BY <3>1, <1>1, <1>2, Zenon
    <3> QED
      BY <3>1, <3>2
  <2> QED
    BY <2>1, <2>2, Zenon
<1> QED
  BY <1>3, <1>4, Zenon DEF Joins

\* The same with a key between that is exchanged.
AroundShiftLeft(w, l, a, r, d, u, v) ==
    /\ \A i \in 1 .. a : u[i] = l[i]
    /\ u[a + 1] = w[a + 1]
    /\ \A i \in 1 .. d : v[i] = r[i + 1]

AroundShiftRight(w, l, d, r, b, u, v) ==
    /\ \A i \in 1 .. d : u[i] = l[i]
    /\ v[1] = w[(d + 1) + 1]
    /\ \A i \in 1 .. b : v[i + 1] = r[i]

\* The same to the left with the key between exchanged.
LEMMA AroundLeft ==
    ASSUME NEW w, NEW l, NEW r, NEW u, NEW v, NEW a \in Nat, NEW d \in Nat,
           NEW e, e = d + 1, JoinsAround(w, l, a, r, e), AroundShiftLeft(w, l, a, r, d, u, v)
    PROVE  JoinsAround(w, u, a + 1, v, d) /\ w[(a + 1) + 1] = r[1]
<1>0. /\ \A i \in 1 .. a : u[i] = l[i]
      /\ u[a + 1] = w[a + 1]
      /\ \A i \in 1 .. d : v[i] = r[i + 1]
  BY Zenon DEF AroundShiftLeft
<1>1. (\A i \in 1 .. a : w[i] = l[i]) /\ \A i \in 1 .. d + 1 : w[a + 1 + i] = r[i]
  BY Zenon DEF JoinsAround
<1>2. ASSUME NEW i \in 1 .. a + 1 PROVE w[i] = u[i]
  <2>1. i \in 1 .. a \/ i = a + 1
    OBVIOUS
  <2> QED
    BY <2>1, <1>0, <1>1, Zenon
<1>3. ASSUME NEW i \in 1 .. d PROVE w[(a + 1) + 1 + i] = v[i]
  <2>1. i + 1 \in 1 .. d + 1 /\ a + 1 + (i + 1) = (a + 1) + 1 + i
    OBVIOUS
  <2>2. w[a + 1 + (i + 1)] = r[i + 1]
    BY <2>1, <1>1, Zenon
  <2> QED
    BY <2>1, <2>2, <1>0, Zenon
<1>4. w[(a + 1) + 1] = r[1]
  <2>1. 1 \in 1 .. d + 1
    OBVIOUS
  <2> QED
    BY <2>1, <1>1, Zenon
<1> QED
  BY <1>2, <1>3, <1>4, Zenon DEF JoinsAround

\* And to the right.
LEMMA AroundRight ==
    ASSUME NEW w, NEW l, NEW r, NEW u, NEW v, NEW d \in Nat, NEW b \in Nat,
           NEW e, e = d + 1, JoinsAround(w, l, e, r, b), AroundShiftRight(w, l, d, r, b, u, v)
    PROVE  JoinsAround(w, u, d, v, b + 1) /\ w[d + 1] = l[d + 1]
<1>0. /\ \A i \in 1 .. d : u[i] = l[i]
      /\ v[1] = w[(d + 1) + 1]
      /\ \A i \in 1 .. b : v[i + 1] = r[i]
  BY Zenon DEF AroundShiftRight
<1>1. (\A i \in 1 .. d + 1 : w[i] = l[i]) /\ \A i \in 1 .. b : w[(d + 1) + 1 + i] = r[i]
  BY Zenon DEF JoinsAround
<1>2. ASSUME NEW i \in 1 .. d PROVE w[i] = u[i]
  <2>1. i \in 1 .. d + 1
    OBVIOUS
  <2> QED
    BY <2>1, <1>0, <1>1, Zenon
<1>3. ASSUME NEW i \in 1 .. b + 1 PROVE w[d + 1 + i] = v[i]
  <2>1. CASE i = 1
    BY <2>1, <1>0, Zenon
  <2>2. CASE i # 1
    <3>1. i - 1 \in 1 .. b /\ (d + 1) + 1 + (i - 1) = d + 1 + i /\ (i - 1) + 1 = i
      BY <2>2
    <3>2. w[(d + 1) + 1 + (i - 1)] = r[i - 1] /\ v[(i - 1) + 1] = r[i - 1]
      BY <3>1, <1>0, <1>1, Zenon
    <3> QED
      BY <3>1, <3>2
  <2> QED
    BY <2>1, <2>2, Zenon
<1>4. w[d + 1] = l[d + 1]
  <2>1. d + 1 \in 1 .. d + 1
    OBVIOUS
  <2> QED
    BY <2>1, <1>1, Zenon
<1> QED
  BY <1>2, <1>3, <1>4, Zenon DEF JoinsAround

\* A sequence without its first element.
LEMMA TailSeq ==
    ASSUME NEW s \in Seq(Nat), NEW d \in Nat, Len(s) = d + 1
    PROVE  /\ Tail(s) \in Seq(Nat) /\ Len(Tail(s)) = d /\ \A i \in 1 .. d : Tail(s)[i] = s[i + 1]
           /\ Head(s) = s[1] /\ s[1] \in Nat
  OBVIOUS

\* t is s, of length a, with e at the end, or at the front.
Appended(t, s, a, e) ==
    t \in Seq(Nat) /\ Len(t) = a + 1 /\ t[a + 1] = e /\ \A i \in 1 .. a : t[i] = s[i]
Consed(t, s, b, e) ==
    t \in Seq(Nat) /\ Len(t) = b + 1 /\ t[1] = e /\ \A i \in 1 .. b : t[i + 1] = s[i]

\* A sequence with an element at its end.
LEMMA AppendSeq ==
    ASSUME NEW s \in Seq(Nat), NEW e \in Nat
    PROVE  Appended(Append(s, e), s, Len(s), e)
  BY DEF Appended

\* A sequence without its last element.
LEMMA FrontSeq ==
    ASSUME NEW s \in Seq(Nat), NEW d \in Nat, Len(s) = d + 1
    PROVE  /\ Front(s) \in Seq(Nat) /\ Len(Front(s)) = d /\ \A i \in 1 .. d : Front(s)[i] = s[i]
           /\ Last(s) = s[d + 1] /\ s[d + 1] \in Nat
  BY DEF Front, Last

\* A sequence with an element at its front.
LEMMA ConsSeq ==
    ASSUME NEW s \in Seq(Nat), NEW e \in Nat
    PROVE  Consed(<<e>> \o s, s, Len(s), e)
<1> DEFINE t == <<e>>
           b == Len(s)
<1>6. b \in Nat /\ Len(s) = b
  OBVIOUS
<1>1. t \in Seq(Nat) /\ Len(t) = 1 /\ t[1] = e
  OBVIOUS
<1> HIDE DEF t
<1> DEFINE x == t \o s
<1>2. /\ x \in Seq(Nat) /\ Len(x) = Len(t) + Len(s)
      /\ \A i \in 1 .. Len(t) : x[i] = t[i]
      /\ \A i \in 1 .. Len(s) : x[Len(t) + i] = s[i]
  BY <1>1, ConcatFacts
<1> HIDE DEF x
<1>3. x[1] = e
  BY <1>1, <1>2
<1> HIDE DEF b
<1>4. ASSUME NEW i \in 1 .. b PROVE x[i + 1] = s[i]
  <2>1. Len(t) + i = i + 1
    BY <1>1, <1>6
  <2>2. x[Len(t) + i] = s[i]
    BY <1>2, <1>6, Zenon
  <2> QED
    BY <2>1, <2>2, Zenon
<1>5. Len(x) = b + 1
  BY <1>1, <1>2, <1>6
<1>7. Consed(x, s, b, e)
  BY <1>2, <1>3, <1>4, <1>5, Zenon DEF Consed
<1> QED
  BY <1>7, Zenon DEF t, x, b

\* The elements of two sequences in a row.
LEMMA JoinExisting ==
    ASSUME NEW w \in Seq(Nat), NEW l \in Seq(Nat), NEW r \in Seq(Nat), NEW a \in Nat,
           NEW b \in Nat,
           Len(l) = a, Len(r) = b, Len(w) = a + b, Joins(w, l, a, r, b), NEW k
    PROVE  isExisting(w, k) <=> isExisting(l, k) \/ isExisting(r, k)
<1>1. isExisting(w, k) <=> \E i \in 1 .. a + b : w[i] = k
  BY ExistsAt
<1>2. isExisting(l, k) <=> \E i \in 1 .. a : l[i] = k
  BY ExistsAt
<1>3. isExisting(r, k) <=> \E i \in 1 .. b : r[i] = k
  BY ExistsAt
<1>4. ASSUME NEW i \in 1 .. a + b PROVE i \in 1 .. a \/ \E q \in 1 .. b : i = a + q
  <2>1. CASE i <= a
    BY <2>1
  <2>2. CASE i > a
    <3>1. i - a \in 1 .. b /\ i = a + (i - a)
      BY <2>2
    <3> QED
      BY <3>1, Zenon
  <2> QED
    BY <2>1, <2>2
<1>5. (\A i \in 1 .. a : i \in 1 .. a + b) /\ \A i \in 1 .. b : a + i \in 1 .. a + b
  OBVIOUS
<1>6. (\A i \in 1 .. a : w[i] = l[i]) /\ \A i \in 1 .. b : w[a + i] = r[i]
  BY Zenon DEF Joins
<1>7. isExisting(w, k) => isExisting(l, k) \/ isExisting(r, k)
  <2>1. SUFFICES ASSUME NEW i \in 1 .. a + b, w[i] = k
                 PROVE  isExisting(l, k) \/ isExisting(r, k)
    BY <1>1, Zenon
  <2>2. CASE i \in 1 .. a
    BY <2>1, <2>2, <1>2, <1>6, Zenon
  <2>3. CASE \E q \in 1 .. b : i = a + q
    BY <2>1, <2>3, <1>3, <1>6, Zenon
  <2> QED
    BY <2>2, <2>3, <1>4, Zenon
<1>8. isExisting(l, k) => isExisting(w, k)
  BY <1>1, <1>2, <1>5, <1>6, Zenon
<1>9. isExisting(r, k) => isExisting(w, k)
  BY <1>1, <1>3, <1>5, <1>6, Zenon
<1> QED
  BY <1>7, <1>8, <1>9, Zenon

\* The elements of two sequences and one between.
LEMMA AroundExisting ==
    ASSUME NEW w \in Seq(Nat), NEW l \in Seq(Nat), NEW r \in Seq(Nat), NEW a \in Nat,
           NEW b \in Nat,
           Len(l) = a, Len(r) = b, Len(w) = a + b + 1, JoinsAround(w, l, a, r, b), NEW k
    PROVE  isExisting(w, k) <=> isExisting(l, k) \/ isExisting(r, k) \/ k = w[a + 1]
<1>1. isExisting(w, k) <=> \E i \in 1 .. a + b + 1 : w[i] = k
  BY ExistsAt
<1>2. isExisting(l, k) <=> \E i \in 1 .. a : l[i] = k
  BY ExistsAt
<1>3. isExisting(r, k) <=> \E i \in 1 .. b : r[i] = k
  BY ExistsAt
<1>4. ASSUME NEW i \in 1 .. a + b + 1 PROVE i \in 1 .. a \/ i = a + 1 \/ \E q \in 1 .. b : i = a + 1 + q
  <2>1. CASE i <= a
    BY <2>1
  <2>2. CASE i > a + 1
    <3>1. i - (a + 1) \in 1 .. b /\ i = a + 1 + (i - (a + 1))
      BY <2>2
    <3> QED
      BY <3>1, Zenon
  <2> QED
    BY <2>1, <2>2
<1>5. /\ \A i \in 1 .. a : i \in 1 .. a + b + 1
      /\ \A i \in 1 .. b : a + 1 + i \in 1 .. a + b + 1
      /\ a + 1 \in 1 .. a + b + 1
  OBVIOUS
<1>6. (\A i \in 1 .. a : w[i] = l[i]) /\ \A i \in 1 .. b : w[a + 1 + i] = r[i]
  BY Zenon DEF JoinsAround
<1>7. isExisting(w, k) => isExisting(l, k) \/ isExisting(r, k) \/ k = w[a + 1]
  <2>1. SUFFICES ASSUME NEW i \in 1 .. a + b + 1, w[i] = k
                 PROVE  isExisting(l, k) \/ isExisting(r, k) \/ k = w[a + 1]
    BY <1>1, Zenon
  <2>2. CASE i \in 1 .. a
    BY <2>1, <2>2, <1>2, <1>6, Zenon
  <2>3. CASE \E q \in 1 .. b : i = a + 1 + q
    BY <2>1, <2>3, <1>3, <1>6, Zenon
  <2>4. CASE i = a + 1
    BY <2>1, <2>4, Zenon
  <2> QED
    BY <2>2, <2>3, <2>4, <1>4, Zenon
<1>8. isExisting(l, k) => isExisting(w, k)
  BY <1>1, <1>2, <1>5, <1>6, Zenon
<1>9. isExisting(r, k) => isExisting(w, k)
  BY <1>1, <1>3, <1>5, <1>6, Zenon
<1>10. k = w[a + 1] => isExisting(w, k)
  BY <1>1, <1>5, Zenon
<1> QED
  BY <1>7, <1>8, <1>9, <1>10, Zenon

\* The keys of two leaves in a row.
LEMMA LeafJoinHolds ==
    ASSUME NEW w, NEW l, NEW r, IsNode(w, LEAF_NODE), IsNode(l, LEAF_NODE),
           IsNode(r, LEAF_NODE),
           LeafJoin(w, l, r), NEW k
    PROVE  isExisting(w.keys, k) <=> isExisting(l.keys, k) \/ isExisting(r.keys, k)
<1> DEFINE wk == w.keys
           lk == l.keys
           rk == r.keys
           a == Len(lk)
           b == Len(rk)
<1>1. wk \in Seq(Nat) /\ lk \in Seq(Nat) /\ rk \in Seq(Nat) /\ a \in Nat /\ b \in Nat
  BY DEF IsNode
<1>2. Len(lk) = a /\ Len(rk) = b /\ Len(wk) = a + b /\ Joins(wk, lk, a, rk, b)
  BY Zenon DEF LeafJoin
<1>3. SUFFICES isExisting(wk, k) <=> isExisting(lk, k) \/ isExisting(rk, k)
  BY Zenon
<1> HIDE DEF wk, lk, rk, a, b
<1> QED
  BY <1>1, <1>2, JoinExisting

\* The keys of two internal nodes and the key between.
LEMMA ItnJoinHolds ==
    ASSUME NEW w, NEW l, NEW s, NEW r, IsNode(w, INTERNAL_NODE), IsNode(l, INTERNAL_NODE),
           IsNode(r, INTERNAL_NODE), ItnJoin(w, l, s, r), NEW k
    PROVE  isExisting(w.keys, k) <=> isExisting(l.keys, k) \/ isExisting(r.keys, k) \/ k = s
<1> DEFINE wk == w.keys
           lk == l.keys
           rk == r.keys
           a == Len(lk)
           b == Len(rk)
<1>1. wk \in Seq(Nat) /\ lk \in Seq(Nat) /\ rk \in Seq(Nat) /\ a \in Nat /\ b \in Nat
  BY DEF IsNode
<1>2. /\ Len(lk) = a /\ Len(rk) = b /\ Len(wk) = a + b + 1 /\ JoinsAround(wk, lk, a, rk, b)
      /\ s = wk[a + 1]
  BY Zenon DEF ItnJoin
<1>3. SUFFICES isExisting(wk, k) <=> isExisting(lk, k) \/ isExisting(rk, k) \/ k = s
  BY Zenon
<1> HIDE DEF wk, lk, rk, a, b
<1> QED
  BY <1>1, <1>2, AroundExisting

\* The first key of the right part is a cut.
LEMMA FirstCut ==
    ASSUME NEW u \in Seq(Nat), NEW v \in Seq(Nat), Sorted(v), Len(v) >= 1,
           \A i \in 1 .. Len(u), q \in 1 .. Len(v) : u[i] < v[q]
    PROVE  v[1] \in Nat /\ Cut(u, v[1], v)
<1>1. 1 \in 1 .. Len(v)
  OBVIOUS
<1>2. v[1] \in Nat
  BY <1>1
<1>3. ASSUME NEW q \in 1 .. Len(v) PROVE v[1] <= v[q]
  <2>1. v[q] \in Nat
    OBVIOUS
  <2>2. q = 1 \/ v[1] < v[q]
    BY <1>1 DEF Sorted
  <2> QED
    BY <2>1, <2>2, <1>2
<1> QED
  BY <1>1, <1>2, <1>3, Zenon DEF Cut

\* A leaf cut into two leaves: the first key of the right one is the cut.
LEMMA LeafCut ==
    ASSUME NEW w, NEW u, NEW v, NEW a \in Nat, NEW b \in Nat, b >= 1, IsNode(w, LEAF_NODE),
           u.flag = LEAF_NODE, u.keys \in Seq(Nat), u.childs \in Seq(Nat), Len(u.keys) = a,
           Len(u.childs) = a + 1, v.flag = LEAF_NODE, v.keys \in Seq(Nat),
           v.childs \in Seq(Nat),
           Len(v.keys) = b, Len(v.childs) = b + 1, Len(w.keys) = a + b,
           Joins(w.keys, u.keys, a, v.keys, b), Joins(w.childs, u.childs, a, v.childs, b)
    PROVE  /\ IsNode(u, LEAF_NODE) /\ IsNode(v, LEAF_NODE) /\ LeafJoin(w, u, v)
           /\ v.keys[1] \in Nat /\ Cut(u.keys, v.keys[1], v.keys)
<1> DEFINE wk == w.keys
           uk == u.keys
           vk == v.keys
<1>1. wk \in Seq(Nat) /\ Sorted(wk) /\ Len(wk) = a + b
  BY Zenon DEF IsNode
<1>2. uk \in Seq(Nat) /\ Len(uk) = a /\ vk \in Seq(Nat) /\ Len(vk) = b /\ Joins(wk, uk, a, vk, b)
  OBVIOUS
<1>3. Sorted(uk) /\ Sorted(vk) /\ \A i \in 1 .. Len(uk), q \in 1 .. Len(vk) : uk[i] < vk[q]
  <2> HIDE DEF wk, uk, vk
  <2> QED
    BY <1>1, <1>2, SortedJoins
<1>4. vk[1] \in Nat /\ Cut(uk, vk[1], vk)
  <2> HIDE DEF wk, uk, vk
  <2> QED
    BY <1>2, <1>3, FirstCut
<1>5. IsNode(u, LEAF_NODE) /\ IsNode(v, LEAF_NODE)
  BY <1>3, Zenon DEF IsNode
<1>6. LeafJoin(w, u, v)
  BY Zenon DEF LeafJoin
<1> QED
  BY <1>4, <1>5, <1>6, Zenon

\* Two leaves as one: what leftMergeLeaf and rightMergeLeaf make of them.
JoinedLeaf(l, r) ==
    Node(LEAF_NODE, l.keys \o r.keys, SubSeq(l.childs, 1, Size(l)) \o r.childs)

\* Two leaves cut at s make one leaf.
LEMMA LeafJoined ==
    ASSUME NEW l, NEW r, IsNode(l, LEAF_NODE), IsNode(r, LEAF_NODE), NEW s \in Nat,
           Cut(l.keys, s, r.keys)
    PROVE  LET w == JoinedLeaf(l, r)
           IN  IsNode(w, LEAF_NODE) /\ LeafJoin(w, l, r) /\ Size(w) = Size(l) + Size(r)
<1> DEFINE w == JoinedLeaf(l, r)
           lk == l.keys
           rk == r.keys
           lc == l.childs
           rc == r.childs
           a == Len(lk)
           b == Len(rk)
           h == SubSeq(lc, 1, a)
           wk == lk \o rk
           wc == h \o rc
<1>1. /\ lk \in Seq(Nat) /\ rk \in Seq(Nat) /\ Sorted(lk) /\ Sorted(rk) /\ a \in Nat /\ b \in Nat
      /\ lc \in Seq(Nat) /\ rc \in Seq(Nat) /\ Len(lc) = a + 1 /\ Len(rc) = b + 1
      /\ Len(lk) = a /\ Len(rk) = b /\ Cut(lk, s, rk)
  BY DEF IsNode
<1>2. w.flag = LEAF_NODE /\ w.keys = wk /\ w.childs = wc
  <2>1. w = Node(LEAF_NODE, wk, wc)
    BY Zenon DEF JoinedLeaf, Size
  <2> HIDE DEF w, wk, wc
  <2> QED
    BY <2>1, NodeFields
<1>13. Size(l) = a /\ Size(r) = b
  BY Zenon DEF Size
<1> HIDE DEF w, lk, rk, lc, rc, a, b
<1>3. wk \in Seq(Nat) /\ Len(wk) = a + b /\ Joins(wk, lk, a, rk, b)
  <2>1. /\ wk \in Seq(Nat) /\ Len(wk) = Len(lk) + Len(rk)
        /\ \A i \in 1 .. Len(lk) : wk[i] = lk[i]
        /\ \A i \in 1 .. Len(rk) : wk[Len(lk) + i] = rk[i]
    BY <1>1, ConcatFacts
  <2> HIDE DEF wk
  <2> QED
    BY <2>1, <1>1, Zenon DEF Joins
<1>4. h \in Seq(Nat) /\ Len(h) = a /\ \A i \in 1 .. a : h[i] = lc[i]
  <2>1. /\ h \in Seq(Nat) /\ Len(h) = a - 1 + 1
        /\ \A i \in 1 .. a - 1 + 1 : h[i] = lc[1 + i - 1]
    <3>1. 1 \in 1 .. Len(lc) + 1 /\ a \in 1 - 1 .. Len(lc)
      BY <1>1
    <3> QED
      BY <3>1, <1>1, SubSeqFacts
  <2> HIDE DEF h
  <2>2. a - 1 + 1 = a
    BY <1>1
  <2>3. ASSUME NEW i \in 1 .. a PROVE h[i] = lc[i]
    <3>1. 1 + i - 1 = i /\ i \in 1 .. a - 1 + 1
      BY <2>2
    <3> QED
      BY <2>1, <3>1
  <2> QED
    BY <2>1, <2>2, <2>3, Zenon
<1> HIDE DEF h
<1>5. wc \in Seq(Nat) /\ Len(wc) = a + (b + 1) /\ Joins(wc, lc, a, rc, b)
  <2>1. /\ wc \in Seq(Nat) /\ Len(wc) = Len(h) + Len(rc)
        /\ \A i \in 1 .. Len(h) : wc[i] = h[i]
        /\ \A i \in 1 .. Len(rc) : wc[Len(h) + i] = rc[i]
    BY <1>1, <1>4, ConcatFacts
  <2> HIDE DEF wc
  <2>2. \A i \in 1 .. b : i \in 1 .. b + 1
    BY <1>1
  <2> QED
    BY <2>1, <2>2, <1>1, <1>4, Zenon DEF Joins
<1> HIDE DEF wk, wc
<1>6. Sorted(wk)
  BY <1>1, <1>3, JoinsSorted
<1>7. a + (b + 1) = (a + b) + 1
  BY <1>1
<1>8. IsNode(w, LEAF_NODE)
  BY <1>2, <1>3, <1>5, <1>6, <1>7, Zenon DEF IsNode
<1>9. LeafJoin(w, l, r)
  BY <1>1, <1>2, <1>3, <1>5, Zenon DEF LeafJoin, lk, rk, lc, rc
<1>10. Size(w) = Size(l) + Size(r)
  BY <1>2, <1>3, <1>13, Zenon DEF Size
<1> QED
  BY <1>8, <1>9, <1>10, Zenon DEF w

\* The new left leaf u and right leaf v, cut at z, hold what was in w.
LeafPair(w, u, z, v) ==
    /\ IsNode(u, LEAF_NODE) /\ IsNode(v, LEAF_NODE) /\ LeafJoin(w, u, v)
    /\ z \in Nat /\ Cut(u.keys, z, v.keys) /\ isExisting(v.keys, z)

\* The left leaf with the first key of the right one, and the page y after it;
\* the right leaf without it.
LeafLeftU(l, r, y) ==
    Node(LEAF_NODE, Append(l.keys, Head(r.keys)),
         SubSeq(l.childs, 1, Size(l)) \o <<Head(r.childs), y>>)
LeafLeftV(r) == Node(LEAF_NODE, Tail(r.keys), Tail(r.childs))

\* swapCounterClockWiseLeaf: the first key of r moves to the end of l.
LEMMA LeafLeft ==
    ASSUME NEW w, NEW l, NEW r, IsNode(w, LEAF_NODE), IsNode(l, LEAF_NODE),
           IsNode(r, LEAF_NODE),
           LeafJoin(w, l, r), NEW d \in Nat, d >= 1, Size(r) = d + 1, NEW y \in Nat
    PROVE  LET u == LeafLeftU(l, r, y)
               v == LeafLeftV(r)
               z == Head(v.keys)
           IN  /\ LeafPair(w, u, z, v)
               /\ Size(u) = Size(l) + 1 /\ Size(v) = d
               /\ isExisting(r.keys, r.keys[1]) /\ isExisting(r.keys, z) /\ r.keys[1] < z
<1> DEFINE u == LeafLeftU(l, r, y)
           v == LeafLeftV(r)
           lk == l.keys
           rk == r.keys
           lc == l.childs
           rc == r.childs
           a == Len(lk)
           h == SubSeq(lc, 1, a)
           uk == Append(lk, Head(rk))
           uc == h \o <<Head(rc), y>>
           vk == Tail(rk)
           vc == Tail(rc)
           wk == w.keys
           wc == w.childs
<1>1. /\ lk \in Seq(Nat) /\ rk \in Seq(Nat) /\ Sorted(rk) /\ a \in Nat
      /\ lc \in Seq(Nat) /\ rc \in Seq(Nat) /\ Len(lc) = a + 1 /\ Len(rc) = (d + 1) + 1
      /\ Len(lk) = a /\ Len(rk) = d + 1
  BY DEF IsNode, Size
<1>2. u.flag = LEAF_NODE /\ u.keys = uk /\ u.childs = uc
  <2>1. u = Node(LEAF_NODE, uk, uc)
    BY Zenon DEF LeafLeftU, Size
  <2> HIDE DEF u, uk, uc
  <2> QED
    BY <2>1, NodeFields
<1>3. v.flag = LEAF_NODE /\ v.keys = vk /\ v.childs = vc
  <2>1. v = Node(LEAF_NODE, vk, vc)
    BY Zenon DEF LeafLeftV
  <2> HIDE DEF v, vk, vc
  <2> QED
    BY <2>1, NodeFields
<1>4. Len(wk) = a + (d + 1) /\ Joins(wk, lk, a, rk, d + 1) /\ Joins(wc, lc, a, rc, d + 1)
  BY <1>1, Zenon DEF LeafJoin
<1>5. Size(l) = a
  BY Zenon DEF Size
<1> HIDE DEF u, v, lk, rk, lc, rc, a, wk, wc
<1>6. vk \in Seq(Nat) /\ Len(vk) = d /\ (\A i \in 1 .. d : vk[i] = rk[i + 1]) /\ Head(rk) = rk[1] /\ rk[1] \in Nat
  BY <1>1, TailSeq
<1>7. /\ vc \in Seq(Nat) /\ Len(vc) = d + 1 /\ (\A i \in 1 .. d + 1 : vc[i] = rc[i + 1])
      /\ Head(rc) = rc[1] /\ rc[1] \in Nat
  <2> DEFINE e == d + 1
  <2>1. e \in Nat /\ Len(rc) = e + 1
    BY <1>1
  <2> HIDE DEF e
  <2>2. /\ vc \in Seq(Nat) /\ Len(vc) = e /\ (\A i \in 1 .. e : vc[i] = rc[i + 1])
        /\ Head(rc) = rc[1] /\ rc[1] \in Nat
    BY <1>1, <2>1, TailSeq
  <2> QED
    BY <2>2, Zenon DEF e
<1>8. uk \in Seq(Nat) /\ Len(uk) = a + 1 /\ uk[a + 1] = rk[1] /\ \A i \in 1 .. a : uk[i] = lk[i]
  <2> DEFINE q == Head(rk)
  <2>1. q \in Nat /\ q = rk[1] /\ uk = Append(lk, q)
    BY <1>6
  <2> HIDE DEF q, uk
  <2>2. Appended(Append(lk, q), lk, Len(lk), q)
    BY <2>1, <1>1, AppendSeq
  <2> QED
    BY <2>1, <2>2, <1>1, Zenon DEF Appended
<1>9. h \in Seq(Nat) /\ Len(h) = a /\ \A i \in 1 .. a : h[i] = lc[i]
  <2>1. /\ h \in Seq(Nat) /\ Len(h) = a - 1 + 1
        /\ \A i \in 1 .. a - 1 + 1 : h[i] = lc[1 + i - 1]
    <3>1. 1 \in 1 .. Len(lc) + 1 /\ a \in 1 - 1 .. Len(lc)
      BY <1>1
    <3> QED
      BY <3>1, <1>1, SubSeqFacts
  <2> HIDE DEF h
  <2>2. a - 1 + 1 = a
    BY <1>1
  <2>3. ASSUME NEW i \in 1 .. a PROVE h[i] = lc[i]
    <3>1. 1 + i - 1 = i /\ i \in 1 .. a - 1 + 1
      BY <2>2
    <3> QED
      BY <2>1, <3>1
  <2> QED
    BY <2>1, <2>2, <2>3, Zenon
<1> HIDE DEF h
<1>10. uc \in Seq(Nat) /\ Len(uc) = (a + 1) + 1 /\ uc[a + 1] = rc[1] /\ \A i \in 1 .. a : uc[i] = lc[i]
  <2> DEFINE t == <<Head(rc), y>>
  <2>1. t \in Seq(Nat) /\ Len(t) = 2 /\ t[1] = rc[1]
    BY <1>7
  <2>2. uc = h \o t
    OBVIOUS
  <2> HIDE DEF t, uc
  <2>3. /\ uc \in Seq(Nat) /\ Len(uc) = Len(h) + Len(t)
        /\ \A i \in 1 .. Len(h) : uc[i] = h[i]
        /\ \A i \in 1 .. Len(t) : uc[Len(h) + i] = t[i]
    BY <2>1, <2>2, <1>9, ConcatFacts, ZenonT(40)
  <2>4. Len(uc) = (a + 1) + 1 /\ 1 \in 1 .. Len(t)
    BY <2>1, <2>3, <1>1, <1>9
  <2>5. uc[a + 1] = rc[1]
    BY <2>1, <2>3, <2>4, <1>9, Zenon
  <2> QED
    BY <2>3, <2>4, <2>5, <1>9, Zenon
<1> HIDE DEF uk, uc, vk, vc
<1>11. ShiftLeft(lk, a, rk, d, uk, vk)
  BY <1>6, <1>8, Zenon DEF ShiftLeft
<1>12. ShiftLeft(lc, a, rc, d, uc, vc)
  <2>1. \A i \in 1 .. d : i \in 1 .. d + 1
    OBVIOUS
  <2> QED
    BY <2>1, <1>7, <1>10, Zenon DEF ShiftLeft
<1>13. Joins(wk, uk, a + 1, vk, d) /\ Joins(wc, uc, a + 1, vc, d)
  BY <1>1, <1>4, <1>11, <1>12, JoinsLeft
<1>14. a + (d + 1) = (a + 1) + d /\ a + 1 \in Nat
  BY <1>1
<1>15. /\ IsNode(u, LEAF_NODE) /\ IsNode(v, LEAF_NODE) /\ LeafJoin(w, u, v)
       /\ v.keys[1] \in Nat /\ Cut(u.keys, v.keys[1], v.keys)
  <2> DEFINE e == a + 1
  <2>1. /\ u.flag = LEAF_NODE /\ u.keys \in Seq(Nat) /\ u.childs \in Seq(Nat) /\ Len(u.keys) = e
        /\ Len(u.childs) = e + 1 /\ v.flag = LEAF_NODE /\ v.keys \in Seq(Nat)
        /\ v.childs \in Seq(Nat) /\ Len(v.keys) = d /\ Len(v.childs) = d + 1
        /\ Len(w.keys) = e + d /\ e \in Nat
        /\ Joins(w.keys, u.keys, e, v.keys, d) /\ Joins(w.childs, u.childs, e, v.childs, d)
    BY <1>2, <1>3, <1>4, <1>6, <1>7, <1>8, <1>10, <1>13, <1>14, Zenon DEF wk, wc
  <2> HIDE DEF e
  <2> QED
    BY <2>1, LeafCut
<1>16. Head(v.keys) = vk[1] /\ 1 \in 1 .. d /\ v.keys = vk
  BY <1>3, <1>6
<1>17. vk[1] = rk[2] /\ rk[1] < rk[2] /\ 1 \in 1 .. Len(rk) /\ 2 \in 1 .. Len(rk)
  BY <1>1, <1>6 DEF Sorted
<1>18. isExisting(rk, rk[1]) /\ isExisting(rk, rk[2]) /\ isExisting(vk, vk[1])
  BY <1>1, <1>6, <1>16, <1>17, ExistsAt
<1>19. LeafPair(w, u, Head(v.keys), v)
  BY <1>15, <1>16, <1>18, Zenon DEF LeafPair
<1>20. Size(u) = Size(l) + 1 /\ Size(v) = d
  BY <1>2, <1>3, <1>5, <1>6, <1>8, Zenon DEF Size
<1> QED
  BY <1>16, <1>17, <1>18, <1>19, <1>20, Zenon DEF u, v, rk

\* The left leaf without its last key; the right leaf with it.
LeafRightU(l) == Node(LEAF_NODE, Front(l.keys), RemoveAt(l.childs, Size(l)))
LeafRightV(l, r) ==
    Node(LEAF_NODE, <<Last(l.keys)>> \o r.keys, <<l.childs[Size(l)]>> \o r.childs)

\* swapClockWiseLeaf: the last key of l moves to the front of r.
LEMMA LeafRight ==
    ASSUME NEW w, NEW l, NEW r, IsNode(w, LEAF_NODE), IsNode(l, LEAF_NODE),
           IsNode(r, LEAF_NODE),
           LeafJoin(w, l, r), NEW d \in Nat, d >= 1, Size(l) = d + 1
    PROVE  LET u == LeafRightU(l)
               v == LeafRightV(l, r)
               z == Last(l.keys)
           IN  /\ LeafPair(w, u, z, v)
               /\ Size(u) = d /\ Size(v) = Size(r) + 1
               /\ isExisting(l.keys, l.keys[1]) /\ isExisting(l.keys, z) /\ l.keys[1] < z
<1> DEFINE u == LeafRightU(l)
           v == LeafRightV(l, r)
           lk == l.keys
           rk == r.keys
           lc == l.childs
           rc == r.childs
           b == Len(rk)
           uk == Front(lk)
           uc == RemoveAt(lc, d + 1)
           vk == <<Last(lk)>> \o rk
           vc == <<lc[d + 1]>> \o rc
           wk == w.keys
           wc == w.childs
<1>1. /\ lk \in Seq(Nat) /\ rk \in Seq(Nat) /\ Sorted(lk) /\ b \in Nat
      /\ lc \in Seq(Nat) /\ rc \in Seq(Nat) /\ Len(lc) = (d + 1) + 1 /\ Len(rc) = b + 1
      /\ Len(lk) = d + 1 /\ Len(rk) = b
  BY DEF IsNode, Size
<1>2. u.flag = LEAF_NODE /\ u.keys = uk /\ u.childs = uc
  <2>1. u = Node(LEAF_NODE, uk, uc)
    BY Zenon DEF LeafRightU
  <2> HIDE DEF u, uk, uc
  <2> QED
    BY <2>1, NodeFields
<1>3. v.flag = LEAF_NODE /\ v.keys = vk /\ v.childs = vc
  <2>1. v = Node(LEAF_NODE, vk, vc)
    BY Zenon DEF LeafRightV
  <2> HIDE DEF v, vk, vc
  <2> QED
    BY <2>1, NodeFields
<1>4. Len(wk) = (d + 1) + b /\ Joins(wk, lk, d + 1, rk, b) /\ Joins(wc, lc, d + 1, rc, b)
  BY <1>1, Zenon DEF LeafJoin
<1>5. Size(r) = b
  BY Zenon DEF Size
<1> HIDE DEF u, v, lk, rk, lc, rc, b, wk, wc
<1>6. uk \in Seq(Nat) /\ Len(uk) = d /\ (\A i \in 1 .. d : uk[i] = lk[i]) /\ Last(lk) = lk[d + 1] /\ lk[d + 1] \in Nat
  BY <1>1, FrontSeq
<1>7. uc \in Seq(Nat) /\ Len(uc) = d + 1 /\ \A i \in 1 .. d : uc[i] = lc[i]
  <2> DEFINE e == d + 1
  <2>1. e \in Nat /\ Len(lc) = e + 1 /\ e \in 1 .. e + 1
    BY <1>1
  <2>2. uc = RemoveAt(lc, e)
    OBVIOUS
  <2>3. \A i \in 1 .. d : i \in 1 .. e /\ i < e
    OBVIOUS
  <2> HIDE DEF e, uc
  <2>4. uc \in Seq(Nat) /\ Len(uc) = e /\ Inserted(lc, uc, e, e, lc[e])
    BY <2>1, <2>2, <1>1, RemoveAtIs
  <2>5. \A i \in 1 .. d : uc[i] = lc[i]
    BY <2>3, <2>4, Zenon DEF Inserted
  <2> QED
    BY <2>4, <2>5, Zenon DEF e
<1>8. vk \in Seq(Nat) /\ Len(vk) = b + 1 /\ vk[1] = lk[d + 1] /\ \A i \in 1 .. b : vk[i + 1] = rk[i]
  <2> DEFINE q == Last(lk)
  <2>1. q \in Nat /\ q = lk[d + 1] /\ vk = <<q>> \o rk
    BY <1>6
  <2> HIDE DEF q, vk
  <2>2. Consed(<<q>> \o rk, rk, Len(rk), q)
    BY <2>1, <1>1, ConsSeq
  <2> QED
    BY <2>1, <2>2, <1>1, Zenon DEF Consed
<1>9. /\ vc \in Seq(Nat) /\ Len(vc) = (b + 1) + 1 /\ vc[1] = lc[d + 1]
      /\ \A i \in 1 .. b + 1 : vc[i + 1] = rc[i]
  <2> DEFINE q == lc[d + 1]
             e == b + 1
  <2>1. q \in Nat /\ vc = <<q>> \o rc /\ e \in Nat /\ Len(rc) = e
    BY <1>1
  <2> HIDE DEF q, e, vc
  <2>2. Consed(<<q>> \o rc, rc, Len(rc), q)
    BY <2>1, <1>1, ConsSeq
  <2> QED
    BY <2>1, <2>2, Zenon DEF Consed, q, e
<1> HIDE DEF uk, uc, vk, vc
<1>11. ShiftRight(lk, d, rk, b, uk, vk)
  BY <1>6, <1>8, Zenon DEF ShiftRight
<1>12. ShiftRight(lc, d, rc, b, uc, vc)
  <2>1. \A i \in 1 .. b : i \in 1 .. b + 1
    BY <1>1
  <2> QED
    BY <2>1, <1>7, <1>9, Zenon DEF ShiftRight
<1>13. Joins(wk, uk, d, vk, b + 1) /\ Joins(wc, uc, d, vc, b + 1)
  BY <1>1, <1>4, <1>11, <1>12, JoinsRight
<1>14. (d + 1) + b = d + (b + 1) /\ b + 1 \in Nat /\ b + 1 >= 1
  BY <1>1
<1>15. /\ IsNode(u, LEAF_NODE) /\ IsNode(v, LEAF_NODE) /\ LeafJoin(w, u, v)
       /\ v.keys[1] \in Nat /\ Cut(u.keys, v.keys[1], v.keys)
  <2> DEFINE e == b + 1
  <2>1. /\ u.flag = LEAF_NODE /\ u.keys \in Seq(Nat) /\ u.childs \in Seq(Nat) /\ Len(u.keys) = d
        /\ Len(u.childs) = d + 1 /\ v.flag = LEAF_NODE /\ v.keys \in Seq(Nat)
        /\ v.childs \in Seq(Nat) /\ Len(v.keys) = e /\ Len(v.childs) = e + 1
        /\ Len(w.keys) = d + e /\ e \in Nat /\ e >= 1
        /\ Joins(w.keys, u.keys, d, v.keys, e) /\ Joins(w.childs, u.childs, d, v.childs, e)
    BY <1>2, <1>3, <1>4, <1>6, <1>7, <1>8, <1>9, <1>13, <1>14, Zenon DEF wk, wc
  <2> HIDE DEF e
  <2> QED
    BY <2>1, LeafCut
<1>16. Last(lk) = vk[1] /\ v.keys = vk /\ 1 \in 1 .. Len(vk)
  BY <1>1, <1>3, <1>6, <1>8
<1>17. lk[1] < lk[d + 1] /\ 1 \in 1 .. Len(lk) /\ d + 1 \in 1 .. Len(lk)
  BY <1>1 DEF Sorted
<1>18. isExisting(lk, lk[1]) /\ isExisting(lk, lk[d + 1]) /\ isExisting(vk, vk[1])
  BY <1>1, <1>8, <1>16, <1>17, ExistsAt
<1>19. LeafPair(w, u, Last(lk), v)
  BY <1>15, <1>16, <1>18, Zenon DEF LeafPair
<1>20. Size(u) = d /\ Size(v) = Size(r) + 1
  BY <1>2, <1>3, <1>5, <1>6, <1>8, Zenon DEF Size
<1>21. isExisting(lk, Last(lk)) /\ lk[1] < Last(lk)
  BY <1>6, <1>17, <1>18, Zenon
<1> QED
  BY <1>18, <1>19, <1>20, <1>21, Zenon DEF u, v, lk

\* Two internal nodes and the key between them as one.
JoinedItn(l, s, r) ==
    Node(INTERNAL_NODE, l.keys \o <<s>> \o r.keys, l.childs \o r.childs)

\* Two internal nodes apart at s make one.
LEMMA ItnJoined ==
    ASSUME NEW l, NEW r, IsNode(l, INTERNAL_NODE), IsNode(r, INTERNAL_NODE), NEW s \in Nat,
           Apart(l.keys, s, r.keys)
    PROVE  LET w == JoinedItn(l, s, r)
           IN  IsNode(w, INTERNAL_NODE) /\ ItnJoin(w, l, s, r) /\ Size(w) = Size(l) + Size(r) + 1
<1> DEFINE w == JoinedItn(l, s, r)
           lk == l.keys
           rk == r.keys
           lc == l.childs
           rc == r.childs
           a == Len(lk)
           b == Len(rk)
           m == <<s>>
           t == lk \o m
           wk == t \o rk
           wc == lc \o rc
<1>1. /\ lk \in Seq(Nat) /\ rk \in Seq(Nat) /\ Sorted(lk) /\ Sorted(rk) /\ a \in Nat /\ b \in Nat
      /\ lc \in Seq(Nat) /\ rc \in Seq(Nat) /\ Len(lc) = a + 1 /\ Len(rc) = b + 1
      /\ Len(lk) = a /\ Len(rk) = b /\ Apart(lk, s, rk)
  BY DEF IsNode
<1>2. w.flag = INTERNAL_NODE /\ w.keys = wk /\ w.childs = wc
  <2>1. w = Node(INTERNAL_NODE, wk, wc)
    BY Zenon DEF JoinedItn
  <2> HIDE DEF w, wk, wc
  <2> QED
    BY <2>1, NodeFields
<1>3. Size(l) = a /\ Size(r) = b
  BY Zenon DEF Size
<1>4. m \in Seq(Nat) /\ Len(m) = 1 /\ m[1] = s /\ Sorted(m)
  BY DEF Sorted
<1> HIDE DEF w, lk, rk, lc, rc, a, b, m
<1>5. t \in Seq(Nat) /\ Len(t) = a + 1 /\ Joins(t, lk, a, m, 1)
  <2>1. /\ t \in Seq(Nat) /\ Len(t) = Len(lk) + Len(m)
        /\ \A i \in 1 .. Len(lk) : t[i] = lk[i]
        /\ \A i \in 1 .. Len(m) : t[Len(lk) + i] = m[i]
    BY <1>1, <1>4, ConcatFacts
  <2> HIDE DEF t
  <2> QED
    BY <2>1, <1>1, <1>4, Zenon DEF Joins
<1> HIDE DEF t
<1>6. wk \in Seq(Nat) /\ Len(wk) = (a + 1) + b /\ Joins(wk, t, a + 1, rk, b)
  <2>1. /\ wk \in Seq(Nat) /\ Len(wk) = Len(t) + Len(rk)
        /\ \A i \in 1 .. Len(t) : wk[i] = t[i]
        /\ \A i \in 1 .. Len(rk) : wk[Len(t) + i] = rk[i]
    BY <1>1, <1>5, ConcatFacts
  <2> HIDE DEF wk
  <2> QED
    BY <2>1, <1>1, <1>5, Zenon DEF Joins
<1>7. wc \in Seq(Nat) /\ Len(wc) = (a + 1) + (b + 1) /\ Joins(wc, lc, a + 1, rc, b + 1)
  <2>1. /\ wc \in Seq(Nat) /\ Len(wc) = Len(lc) + Len(rc)
        /\ \A i \in 1 .. Len(lc) : wc[i] = lc[i]
        /\ \A i \in 1 .. Len(rc) : wc[Len(lc) + i] = rc[i]
    BY <1>1, ConcatFacts
  <2> HIDE DEF wc
  <2> QED
    BY <2>1, <1>1, Zenon DEF Joins
<1> HIDE DEF wk, wc
<1>8. (\A i \in 1 .. a : t[i] = lk[i]) /\ t[a + 1] = s
  <2>1. 1 \in 1 .. 1
    OBVIOUS
  <2> QED
    BY <2>1, <1>4, <1>5, Zenon DEF Joins
<1>9. \A i \in 1 .. a + 1 : t[i] < s + 1
  <2>1. SUFFICES ASSUME NEW i \in 1 .. a + 1 PROVE t[i] < s + 1
    OBVIOUS
  <2>2. i \in 1 .. a \/ i = a + 1
    BY <1>1
  <2>3. i \in 1 .. a => lk[i] < s /\ lk[i] \in Nat
    BY <1>1, SMTT(40) DEF Apart
  <2> QED
    BY <2>2, <2>3, <1>8
<1>10. Sorted(t)
  <2>1. (\A i \in 1 .. Len(lk) : lk[i] < s) /\ \A i \in 1 .. Len(m) : s <= m[i]
    <3>1. \A i \in 1 .. Len(m) : i = 1
      BY <1>4
    <3>2. s <= m[1]
      BY <1>4
    <3> QED
      BY <3>1, <3>2, <1>1, Zenon DEF Apart
  <2>2. Cut(lk, s, m)
    BY <2>1, Zenon DEF Cut
  <2>3. 1 \in Nat
    OBVIOUS
  <2> DEFINE e == 1
  <2>4. e \in Nat /\ Len(m) = e /\ Len(t) = a + e /\ Joins(t, lk, a, m, e)
    BY <1>4, <1>5
  <2> HIDE DEF e
  <2> QED
    BY <2>2, <2>4, <1>1, <1>4, <1>5, JoinsSorted
<1>11. Sorted(wk)
  <2> DEFINE c == s + 1
             e == a + 1
  <2>1. c \in Nat /\ e \in Nat /\ Len(t) = e /\ Len(wk) = e + b /\ Joins(wk, t, e, rk, b)
    BY <1>1, <1>5, <1>6
  <2>2. \A i \in 1 .. Len(rk) : c <= rk[i]
    <3>1. SUFFICES ASSUME NEW i \in 1 .. Len(rk) PROVE c <= rk[i]
      OBVIOUS
    <3>2. s < rk[i] /\ rk[i] \in Nat
      BY <1>1, SMTT(40) DEF Apart
    <3> QED
      BY <3>2
  <2>3. Cut(t, c, rk)
    BY <2>2, <1>5, <1>9, Zenon DEF Cut
  <2> HIDE DEF c, e
  <2> QED
    BY <2>1, <2>3, <1>1, <1>5, <1>6, <1>10, JoinsSorted
<1>12. (a + 1) + b = a + b + 1 /\ (a + 1) + (b + 1) = (a + b + 1) + 1
  BY <1>1
<1>13. JoinsAround(wk, lk, a, rk, b) /\ wk[a + 1] = s
  <2>1. (\A i \in 1 .. a : i \in 1 .. a + 1) /\ a + 1 \in 1 .. a + 1
    BY <1>1
  <2> QED
    BY <2>1, <1>6, <1>8, Zenon DEF JoinsAround, Joins
<1>14. IsNode(w, INTERNAL_NODE)
  BY <1>2, <1>6, <1>7, <1>11, <1>12, Zenon DEF IsNode
<1>15. ItnJoin(w, l, s, r)
  BY <1>1, <1>2, <1>6, <1>7, <1>12, <1>13, Zenon DEF ItnJoin, lk, rk, lc, rc
<1>16. Size(w) = Size(l) + Size(r) + 1
  BY <1>2, <1>3, <1>6, <1>12, Zenon DEF Size
<1> QED
  BY <1>14, <1>15, <1>16, Zenon DEF w

\* The new left node u and right node v, with z between them, are w.
ItnPair(w, u, z, v) ==
    /\ IsNode(u, INTERNAL_NODE) /\ IsNode(v, INTERNAL_NODE) /\ ItnJoin(w, u, z, v)
    /\ z \in Nat /\ Cut(u.keys, z, v.keys) /\ Apart(u.keys, z, v.keys)

\* An internal node cut at one of its keys.
LEMMA ItnCut ==
    ASSUME NEW w, NEW u, NEW v, NEW a \in Nat, NEW b \in Nat, IsNode(w, INTERNAL_NODE),
           u.flag = INTERNAL_NODE, u.keys \in Seq(Nat), u.childs \in Seq(Nat), Len(u.keys) = a,
           Len(u.childs) = a + 1, v.flag = INTERNAL_NODE, v.keys \in Seq(Nat),
           v.childs \in Seq(Nat),
           Len(v.keys) = b, Len(v.childs) = b + 1, Len(w.keys) = a + b + 1,
           JoinsAround(w.keys, u.keys, a, v.keys, b),
           Joins(w.childs, u.childs, a + 1, v.childs, b + 1)
    PROVE  ItnPair(w, u, w.keys[a + 1], v)
<1> DEFINE wk == w.keys
           uk == u.keys
           vk == v.keys
           z == wk[a + 1]
<1>1. wk \in Seq(Nat) /\ Sorted(wk) /\ Len(wk) = a + b + 1
  BY Zenon DEF IsNode
<1>2. uk \in Seq(Nat) /\ Len(uk) = a /\ vk \in Seq(Nat) /\ Len(vk) = b /\ JoinsAround(wk, uk, a, vk, b)
  OBVIOUS
<1>3. /\ Sorted(uk) /\ Sorted(vk)
      /\ \A i \in 1 .. a : uk[i] < z
      /\ \A i \in 1 .. b : z < vk[i]
  <2> HIDE DEF wk, uk, vk
  <2> QED
    BY <1>1, <1>2, SortedAround
<1>4. z \in Nat
  <2>1. a + 1 \in 1 .. Len(wk)
    BY <1>1
  <2> HIDE DEF wk
  <2> QED
    BY <2>1, <1>1, SMTT(40)
<1>5. \A i \in 1 .. b : z <= vk[i]
  <2> HIDE DEF wk, uk, vk, z
  <2>1. ASSUME NEW i \in 1 .. b PROVE z <= vk[i]
    <3>1. vk[i] \in Nat
      BY <1>2, SMTT(40)
    <3>2. z < vk[i]
      BY <1>3, Zenon
    <3> QED
      BY <3>1, <3>2, <1>4
  <2> QED
    BY <2>1, Zenon
<1>6. Cut(uk, z, vk) /\ Apart(uk, z, vk)
  BY <1>2, <1>3, <1>5, Zenon DEF Cut, Apart
<1>7. IsNode(u, INTERNAL_NODE) /\ IsNode(v, INTERNAL_NODE)
  BY <1>3, Zenon DEF IsNode
<1>8. ItnJoin(w, u, z, v)
  BY Zenon DEF ItnJoin
<1> QED
  BY <1>4, <1>6, <1>7, <1>8, Zenon DEF ItnPair

\* The left internal node with the key s and the first child of the right one;
\* the right one without.
ItnLeftU(l, s, r) == Node(INTERNAL_NODE, Append(l.keys, s), Append(l.childs, Head(r.childs)))
ItnLeftV(r) == Node(INTERNAL_NODE, Tail(r.keys), Tail(r.childs))

\* swapCounterClockWiseItn: the key between moves down to l, the first of r up
\* in its place.
LEMMA ItnLeft ==
    ASSUME NEW w, NEW l, NEW s \in Nat, NEW r, IsNode(w, INTERNAL_NODE),
           IsNode(l, INTERNAL_NODE),
           IsNode(r, INTERNAL_NODE), ItnJoin(w, l, s, r), NEW d \in Nat, Size(r) = d + 1
    PROVE  LET u == ItnLeftU(l, s, r)
               v == ItnLeftV(r)
               z == Head(r.keys)
           IN  /\ ItnPair(w, u, z, v)
               /\ Size(u) = Size(l) + 1 /\ Size(v) = d /\ isExisting(r.keys, z)
<1> DEFINE u == ItnLeftU(l, s, r)
           v == ItnLeftV(r)
           lk == l.keys
           rk == r.keys
           lc == l.childs
           rc == r.childs
           a == Len(lk)
           q == Head(rc)
           uk == Append(lk, s)
           uc == Append(lc, q)
           vk == Tail(rk)
           vc == Tail(rc)
           wk == w.keys
           wc == w.childs
<1>1. /\ lk \in Seq(Nat) /\ rk \in Seq(Nat) /\ a \in Nat
      /\ lc \in Seq(Nat) /\ rc \in Seq(Nat) /\ Len(lc) = a + 1 /\ Len(rc) = (d + 1) + 1
      /\ Len(lk) = a /\ Len(rk) = d + 1
  BY DEF IsNode, Size
<1>2. u.flag = INTERNAL_NODE /\ u.keys = uk /\ u.childs = uc
  <2>1. u = Node(INTERNAL_NODE, uk, uc)
    BY Zenon DEF ItnLeftU
  <2> HIDE DEF u, uk, uc
  <2> QED
    BY <2>1, NodeFields
<1>3. v.flag = INTERNAL_NODE /\ v.keys = vk /\ v.childs = vc
  <2>1. v = Node(INTERNAL_NODE, vk, vc)
    BY Zenon DEF ItnLeftV
  <2> HIDE DEF v, vk, vc
  <2> QED
    BY <2>1, NodeFields
<1>4. /\ Len(wk) = a + (d + 1) + 1 /\ JoinsAround(wk, lk, a, rk, d + 1) /\ s = wk[a + 1]
      /\ Joins(wc, lc, a + 1, rc, (d + 1) + 1)
  BY <1>1, Zenon DEF ItnJoin
<1>5. Size(l) = a
  BY Zenon DEF Size
<1> HIDE DEF u, v, lk, rk, lc, rc, a, wk, wc
<1>6. vk \in Seq(Nat) /\ Len(vk) = d /\ (\A i \in 1 .. d : vk[i] = rk[i + 1]) /\ Head(rk) = rk[1] /\ rk[1] \in Nat
  BY <1>1, TailSeq
<1>7. /\ vc \in Seq(Nat) /\ Len(vc) = d + 1 /\ (\A i \in 1 .. d + 1 : vc[i] = rc[i + 1])
      /\ q = rc[1] /\ rc[1] \in Nat
  <2> DEFINE e == d + 1
  <2>1. e \in Nat /\ Len(rc) = e + 1
    BY <1>1
  <2> HIDE DEF e
  <2>2. /\ vc \in Seq(Nat) /\ Len(vc) = e /\ (\A i \in 1 .. e : vc[i] = rc[i + 1])
        /\ Head(rc) = rc[1] /\ rc[1] \in Nat
    BY <1>1, <2>1, TailSeq
  <2> QED
    BY <2>2, Zenon DEF e
<1>8. uk \in Seq(Nat) /\ Len(uk) = a + 1 /\ uk[a + 1] = s /\ \A i \in 1 .. a : uk[i] = lk[i]
  <2>1. Appended(uk, lk, Len(lk), s)
    BY <1>1, AppendSeq
  <2> HIDE DEF uk
  <2> QED
    BY <2>1, <1>1, Zenon DEF Appended
<1> HIDE DEF q
<1>9. uc \in Seq(Nat) /\ Len(uc) = (a + 1) + 1 /\ uc[(a + 1) + 1] = rc[1] /\ \A i \in 1 .. a + 1 : uc[i] = lc[i]
  <2>1. Appended(uc, lc, Len(lc), q)
    BY <1>1, <1>7, AppendSeq
  <2> HIDE DEF uc
  <2> QED
    BY <2>1, <1>1, <1>7, Zenon DEF Appended
<1> HIDE DEF uk, uc, vk, vc
<1>10. JoinsAround(wk, uk, a + 1, vk, d) /\ wk[(a + 1) + 1] = rk[1]
  <2> DEFINE e == d + 1
  <2>1. JoinsAround(wk, lk, a, rk, e) /\ e = d + 1 /\ a \in Nat
    BY <1>1, <1>4, Zenon
  <2>2. AroundShiftLeft(wk, lk, a, rk, d, uk, vk)
    BY <1>4, <1>6, <1>8, Zenon DEF AroundShiftLeft
  <2> HIDE DEF e
  <2> QED
    BY <2>1, <2>2, AroundLeft
<1>11. Joins(wc, uc, (a + 1) + 1, vc, d + 1)
  <2> DEFINE e == a + 1
             g == d + 1
  <2>1. e \in Nat /\ g \in Nat /\ Joins(wc, lc, e, rc, g + 1)
    BY <1>1, <1>4
  <2>2. ShiftLeft(lc, e, rc, g, uc, vc)
    BY <1>7, <1>9, Zenon DEF ShiftLeft
  <2> HIDE DEF e, g
  <2>3. Joins(wc, uc, e + 1, vc, g)
    BY <2>1, <2>2, JoinsLeft
  <2> QED
    BY <2>3, Zenon DEF e, g
<1>12. a + (d + 1) + 1 = (a + 1) + d + 1 /\ a + 1 \in Nat
  BY <1>1
<1>13. ItnPair(w, u, w.keys[(a + 1) + 1], v)
  <2> DEFINE e == a + 1
  <2>1. /\ u.flag = INTERNAL_NODE /\ u.keys \in Seq(Nat) /\ u.childs \in Seq(Nat) /\ Len(u.keys) = e
        /\ Len(u.childs) = e + 1 /\ v.flag = INTERNAL_NODE /\ v.keys \in Seq(Nat)
        /\ v.childs \in Seq(Nat) /\ Len(v.keys) = d /\ Len(v.childs) = d + 1
        /\ Len(w.keys) = e + d + 1 /\ e \in Nat
        /\ JoinsAround(w.keys, u.keys, e, v.keys, d) /\ Joins(w.childs, u.childs, e + 1, v.childs, d + 1)
    BY <1>2, <1>3, <1>4, <1>6, <1>7, <1>8, <1>9, <1>10, <1>11, <1>12, Zenon DEF wk, wc
  <2>2. SUFFICES ItnPair(w, u, w.keys[e + 1], v)
    BY Zenon
  <2> HIDE DEF e
  <2> QED
    BY <2>1, ItnCut
<1>14. ItnPair(w, u, Head(rk), v)
  BY <1>6, <1>10, <1>13, Zenon DEF wk
<1>15. Size(u) = Size(l) + 1 /\ Size(v) = d
  BY <1>2, <1>3, <1>5, <1>6, <1>8, Zenon DEF Size
<1>16. isExisting(rk, Head(rk))
  <2>1. 1 \in 1 .. Len(rk)
    BY <1>1
  <2> QED
    BY <2>1, <1>1, <1>6, ExistsAt
<1> QED
  BY <1>14, <1>15, <1>16, Zenon DEF u, v, rk

\* The left internal node without its last key and child; the right one with s
\* and that child.
ItnRightU(l) == Node(INTERNAL_NODE, Front(l.keys), Front(l.childs))
ItnRightV(l, s, r) == Node(INTERNAL_NODE, <<s>> \o r.keys, <<Last(l.childs)>> \o r.childs)

\* swapClockWiseItn: the key between moves down to r, the last of l up in its
\* place.
LEMMA ItnRight ==
    ASSUME NEW w, NEW l, NEW s \in Nat, NEW r, IsNode(w, INTERNAL_NODE),
           IsNode(l, INTERNAL_NODE),
           IsNode(r, INTERNAL_NODE), ItnJoin(w, l, s, r), NEW d \in Nat, d >= 1, Size(l) = d + 1
    PROVE  LET u == ItnRightU(l)
               v == ItnRightV(l, s, r)
               z == Last(l.keys)
           IN  /\ ItnPair(w, u, z, v)
               /\ Size(u) = d /\ Size(v) = Size(r) + 1
               /\ isExisting(l.keys, l.keys[1]) /\ isExisting(l.keys, z) /\ l.keys[1] < z
<1> DEFINE u == ItnRightU(l)
           v == ItnRightV(l, s, r)
           lk == l.keys
           rk == r.keys
           lc == l.childs
           rc == r.childs
           b == Len(rk)
           q == Last(lc)
           uk == Front(lk)
           uc == Front(lc)
           vk == <<s>> \o rk
           vc == <<q>> \o rc
           wk == w.keys
           wc == w.childs
<1>1. /\ lk \in Seq(Nat) /\ rk \in Seq(Nat) /\ Sorted(lk) /\ b \in Nat
      /\ lc \in Seq(Nat) /\ rc \in Seq(Nat) /\ Len(lc) = (d + 1) + 1 /\ Len(rc) = b + 1
      /\ Len(lk) = d + 1 /\ Len(rk) = b
  BY DEF IsNode, Size
<1>2. u.flag = INTERNAL_NODE /\ u.keys = uk /\ u.childs = uc
  <2>1. u = Node(INTERNAL_NODE, uk, uc)
    BY Zenon DEF ItnRightU
  <2> HIDE DEF u, uk, uc
  <2> QED
    BY <2>1, NodeFields
<1>3. v.flag = INTERNAL_NODE /\ v.keys = vk /\ v.childs = vc
  <2>1. v = Node(INTERNAL_NODE, vk, vc)
    BY Zenon DEF ItnRightV
  <2> HIDE DEF v, vk, vc
  <2> QED
    BY <2>1, NodeFields
<1>4. /\ Len(wk) = (d + 1) + b + 1 /\ JoinsAround(wk, lk, d + 1, rk, b) /\ s = wk[(d + 1) + 1]
      /\ Joins(wc, lc, (d + 1) + 1, rc, b + 1)
  BY <1>1, Zenon DEF ItnJoin
<1>5. Size(r) = b
  BY Zenon DEF Size
<1> HIDE DEF u, v, lk, rk, lc, rc, b, wk, wc
<1>6. uk \in Seq(Nat) /\ Len(uk) = d /\ (\A i \in 1 .. d : uk[i] = lk[i]) /\ Last(lk) = lk[d + 1] /\ lk[d + 1] \in Nat
  BY <1>1, FrontSeq
<1>7. /\ uc \in Seq(Nat) /\ Len(uc) = d + 1 /\ (\A i \in 1 .. d + 1 : uc[i] = lc[i])
      /\ q = lc[(d + 1) + 1] /\ q \in Nat
  <2> DEFINE e == d + 1
  <2>1. e \in Nat /\ Len(lc) = e + 1
    BY <1>1
  <2> HIDE DEF e
  <2>2. /\ uc \in Seq(Nat) /\ Len(uc) = e /\ (\A i \in 1 .. e : uc[i] = lc[i])
        /\ Last(lc) = lc[e + 1] /\ lc[e + 1] \in Nat
    BY <1>1, <2>1, FrontSeq
  <2> QED
    BY <2>2, Zenon DEF e
<1> HIDE DEF q
<1>8. vk \in Seq(Nat) /\ Len(vk) = b + 1 /\ vk[1] = s /\ \A i \in 1 .. b : vk[i + 1] = rk[i]
  <2>1. Consed(vk, rk, Len(rk), s)
    BY <1>1, ConsSeq
  <2> HIDE DEF vk
  <2> QED
    BY <2>1, <1>1, Zenon DEF Consed
<1>9. vc \in Seq(Nat) /\ Len(vc) = (b + 1) + 1 /\ vc[1] = q /\ \A i \in 1 .. b + 1 : vc[i + 1] = rc[i]
  <2>1. Consed(vc, rc, Len(rc), q)
    BY <1>1, <1>7, ConsSeq
  <2> HIDE DEF vc
  <2> QED
    BY <2>1, <1>1, Zenon DEF Consed
<1> HIDE DEF uk, uc, vk, vc
<1>10. JoinsAround(wk, uk, d, vk, b + 1) /\ wk[d + 1] = lk[d + 1]
  <2> DEFINE e == d + 1
  <2>1. JoinsAround(wk, lk, e, rk, b) /\ e = d + 1 /\ b \in Nat
    BY <1>1, <1>4, Zenon
  <2>2. AroundShiftRight(wk, lk, d, rk, b, uk, vk)
    BY <1>4, <1>6, <1>8, Zenon DEF AroundShiftRight
  <2> HIDE DEF e
  <2> QED
    BY <2>1, <2>2, AroundRight
<1>11. Joins(wc, uc, d + 1, vc, (b + 1) + 1)
  <2> DEFINE e == d + 1
             g == b + 1
  <2>1. e \in Nat /\ g \in Nat /\ Joins(wc, lc, e + 1, rc, g)
    BY <1>1, <1>4
  <2>2. ShiftRight(lc, e, rc, g, uc, vc)
    BY <1>7, <1>9, Zenon DEF ShiftRight
  <2> HIDE DEF e, g
  <2>3. Joins(wc, uc, e, vc, g + 1)
    BY <2>1, <2>2, JoinsRight
  <2> QED
    BY <2>3, Zenon DEF e, g
<1>12. (d + 1) + b + 1 = d + (b + 1) + 1 /\ b + 1 \in Nat
  BY <1>1
<1>13. ItnPair(w, u, w.keys[d + 1], v)
  <2> DEFINE e == b + 1
  <2>1. /\ u.flag = INTERNAL_NODE /\ u.keys \in Seq(Nat) /\ u.childs \in Seq(Nat) /\ Len(u.keys) = d
        /\ Len(u.childs) = d + 1 /\ v.flag = INTERNAL_NODE /\ v.keys \in Seq(Nat)
        /\ v.childs \in Seq(Nat) /\ Len(v.keys) = e /\ Len(v.childs) = e + 1
        /\ Len(w.keys) = d + e + 1 /\ e \in Nat
        /\ JoinsAround(w.keys, u.keys, d, v.keys, e) /\ Joins(w.childs, u.childs, d + 1, v.childs, e + 1)
    BY <1>2, <1>3, <1>4, <1>6, <1>7, <1>8, <1>9, <1>10, <1>11, <1>12, Zenon DEF wk, wc
  <2> HIDE DEF e
  <2> QED
    BY <2>1, ItnCut
<1>14. ItnPair(w, u, Last(lk), v)
  BY <1>6, <1>10, <1>13, Zenon DEF wk
<1>15. Size(u) = d /\ Size(v) = Size(r) + 1
  BY <1>2, <1>3, <1>5, <1>6, <1>8, Zenon DEF Size
<1>16. lk[1] < lk[d + 1] /\ 1 \in 1 .. Len(lk) /\ d + 1 \in 1 .. Len(lk)
  BY <1>1 DEF Sorted
<1>17. isExisting(lk, lk[1]) /\ isExisting(lk, lk[d + 1])
  BY <1>1, <1>16, ExistsAt
<1>18. isExisting(lk, Last(lk)) /\ lk[1] < Last(lk)
  BY <1>6, <1>16, <1>17, Zenon
<1> QED
  BY <1>14, <1>15, <1>17, <1>18, Zenon DEF u, v, lk

----------------------------------------------------------------------------
(* Swaps and merges below father *)

\* Node makes a node with these fields and no others.
LEMMA StoredNode ==
    ASSUME NEW flag, NEW ks, NEW cs
    PROVE  Stored(Node(flag, ks, cs))
<1> DEFINE n == Node(flag, ks, cs)
<1>1. n.flag = flag /\ n.keys = ks /\ n.childs = cs
  BY NodeFields
<1>2. n = Node(flag, ks, cs)
  OBVIOUS
<1> HIDE DEF n
<1> QED
  BY <1>1, <1>2, Zenon DEF Stored, n

\* g is f with z for its j-th key.
KeyReplaced(g, f, j, z) == g = [f EXCEPT !.keys[j] = z]

\* The fields of a node with a key replaced.
LEMMA ExceptKey ==
    ASSUME NEW f, Stored(f), NEW j, NEW z, NEW g, KeyReplaced(g, f, j, z)
    PROVE  /\ g.flag = f.flag /\ g.keys = [f.keys EXCEPT ![j] = z] /\ g.childs = f.childs
           /\ Stored(g)
<1> DEFINE a == f.flag
           b == f.keys
           c == f.childs
           e == [b EXCEPT ![j] = z]
<1>1. f = [flag |-> a, keys |-> b, childs |-> c]
  BY DEF Stored, Node
<1>2. g = [f EXCEPT !.keys = e]
  BY DEF KeyReplaced
<1> HIDE DEF a, b, c, e
<1>3. [f EXCEPT !.keys = e] = [flag |-> a, keys |-> e, childs |-> c]
  BY <1>1
<1>4. g = Node(a, e, c)
  BY <1>2, <1>3, Zenon DEF Node
<1>5. g.flag = a /\ g.keys = e /\ g.childs = c /\ Stored(g)
  BY ONLY <1>4, NodeFields, StoredNode
<1> QED
  BY <1>4, <1>5, Zenon DEF a, b, c, e

\* The fields of what dropFromFather leaves.
LEMMA DroppedFields ==
    ASSUME NEW db, NEW f, NEW j, NEW X
    PROVE  LET g == dropFromFather(db, f, j, X)
           IN  /\ g.flag = f.flag /\ g.keys = RemoveAt(f.keys, j)
               /\ g.childs = [RemoveAt(f.childs, j) EXCEPT ![j] = X]
               /\ Stored(g)
<1> DEFINE a == f.flag
           b == RemoveAt(f.keys, j)
           c == RemoveAt(f.childs, j)
           h == removeLeft(db, f, j).this
           g == [h EXCEPT !.childs[j] = X]
           e == [c EXCEPT ![j] = X]
<1>1. h = Node(a, b, c)
  BY DEF removeLeft
<1> HIDE DEF h, a, b, c, e
<1>2. h.childs = c
  BY <1>1, NodeFields
<1>3. g = [h EXCEPT !.childs = e]
  BY <1>2 DEF e
<1>4. [h EXCEPT !.childs = e] = [flag |-> a, keys |-> b, childs |-> e]
  BY <1>1 DEF Node
<1>5. g = Node(a, b, e)
  BY <1>3, <1>4, Zenon DEF Node
<1>6. dropFromFather(db, f, j, X) = g
  BY Zenon DEF dropFromFather, h
<1> HIDE DEF g
<1>7. g.flag = a /\ g.keys = b /\ g.childs = e /\ Stored(g)
  BY <1>5, NodeFields, StoredNode
<1> QED
  BY <1>6, <1>7, Zenon DEF a, b, c, e

\* The children on either side of a key are a pair.
LEMMA Neighbours ==
    ASSUME NEW f, NEW N, NEW flag, Family(f, N, flag), NEW m, NEW j, KeyAt(f, m, j)
    PROVE  /\ Pair(f, N, flag, RestKeys(f, j), RestChilds(f, j), j, f.childs[j], f.keys[j], f.childs[j + 1])
           /\ RestKeys(f, j) \in Seq(Nat) /\ Len(RestKeys(f, j)) = m /\ Sorted(RestKeys(f, j))
           /\ f.childs[j] \in Nat /\ f.childs[j + 1] \in Nat /\ f.keys[j] \in Nat
<1>0. /\ IsNode(f, INTERNAL_NODE) /\ Distinct(f.childs) /\ m \in Nat /\ Len(f.keys) = m + 1
      /\ j \in 1 .. m + 1
  BY Zenon DEF KeyAt
<1> USE <1>0
<1>1. IsNode(f, INTERNAL_NODE) /\ Distinct(f.childs)
  BY Zenon DEF Family
<1>2. /\ Twin(f, RestKeys(f, j), RestChilds(f, j), j, f.childs[j], f.keys[j], f.childs[j + 1])
      /\ Clear(RestKeys(f, j), RestChilds(f, j), j, f.childs[j], f.childs[j + 1])
      /\ RestKeys(f, j) \in Seq(Nat) /\ Len(RestKeys(f, j)) = m /\ Sorted(RestKeys(f, j))
      /\ Grows(RestKeys(f, j), f.keys[j], j, f.keys)
  BY <1>1, TwinOf
<1>4. j \in 1 .. Len(f.childs) /\ j + 1 \in 1 .. Len(f.childs)
  BY <1>1 DEF IsNode
<1>5. Kid(f, f.childs[j]) /\ Kid(f, f.childs[j + 1])
  BY <1>4, Zenon DEF Kid
<1>6. f.childs \in Seq(Nat) /\ f.keys \in Seq(Nat)
  BY <1>1, Zenon DEF IsNode
<1>7. f.childs[j] \in Nat /\ f.childs[j + 1] \in Nat
  <2> DEFINE c == f.childs
  <2> HIDE DEF c
  <2>1. c \in Seq(Nat) /\ j \in 1 .. Len(c) /\ j + 1 \in 1 .. Len(c)
    BY <1>4, <1>6, Zenon DEF c
  <2>2. c[j] \in Nat /\ c[j + 1] \in Nat
    BY <2>1
  <2> QED
    BY <2>2, Zenon DEF c
<1>8. f.keys[j] \in Nat
  <2> DEFINE c == f.keys
  <2>1. c \in Seq(Nat) /\ j \in 1 .. Len(c)
    BY <1>6, Zenon
  <2> HIDE DEF c
  <2>2. c[j] \in Nat
    BY <2>1
  <2> QED
    BY <2>2, Zenon DEF c
<1> QED
  BY <1>2, <1>5, <1>7, <1>8, Zenon DEF Pair

\* The page L holds u, the page R holds v, every other child of f is as it was.
Holding(f, N, M, L, u, R, v) ==
    L \in DOMAIN M /\ M[L] = u /\ R \in DOMAIN M /\ M[R] = v /\ Elsewhere(f, N, M, L, R)

\* Keys and values did not move between families: a search from g finds in the
\* children M what it found from f in the children N.
Preserved(f, N, flag, g, M) ==
    /\ Family(g, M, flag) /\ Stored(g)
    /\ flag = LEAF_NODE => \A k \in Nat : \A c : Bound(g, M, k, c) <=> Bound(f, N, k, c)
    /\ flag = INTERNAL_NODE => \A k \in Nat : Onward(g, M, k) = Onward(f, N, k)

\* Two keys of the pair, y < z: z may come between them.
Among(f, N, flag, j, y) ==
    y \in Nat /\ Holds(N[f.childs[j]], f.keys[j], N[f.childs[j + 1]], flag, y)

\* Of two keys of a pair the greater may separate it.
LEMMA AmongIn ==
    ASSUME NEW f, NEW N, NEW flag, Family(f, N, flag), NEW m, NEW j, KeyAt(f, m, j), NEW y,
           NEW z, Among(f, N, flag, j, y), Among(f, N, flag, j, z), y < z
    PROVE  Belongs(RestKeys(f, j), m, j, z)
<1>0. /\ IsNode(f, INTERNAL_NODE) /\ Distinct(f.childs) /\ m \in Nat /\ Len(f.keys) = m + 1
      /\ j \in 1 .. m + 1
  BY Zenon DEF KeyAt
<1> USE <1>0
<1> DEFINE ks == RestKeys(f, j)
           cs == RestChilds(f, j)
           L == f.childs[j]
           R == f.childs[j + 1]
           s == f.keys[j]
<1>1. Pair(f, N, flag, ks, cs, j, L, s, R) /\ ks \in Seq(Nat) /\ Len(ks) = m /\ Sorted(ks)
  BY Neighbours
<1>2. y \in Nat /\ z \in Nat /\ Holds(N[L], s, N[R], flag, y) /\ Holds(N[L], s, N[R], flag, z)
  BY Zenon DEF Among
<1> HIDE DEF ks, cs, L, R, s
<1>3. In(ks, j, y)
  BY <1>1, <1>2, HoldsIn
<1>4. In(ks, j, z)
  BY <1>1, <1>2, HoldsIn
<1>5. Belongs(ks, m, j, z)
  BY <1>1, <1>2, <1>3, <1>4, InBelongs
<1> QED
  BY <1>5, Zenon DEF ks

\* The pair u, v with z between them holds no key that the family's pair did not.
Within(f, N, flag, j, u, z, v) ==
    /\ IsNode(u, flag) /\ IsNode(v, flag) /\ Cut(u.keys, z, v.keys)
    /\ flag = INTERNAL_NODE => Apart(u.keys, z, v.keys)
    /\ \A k \in Nat : Holds(u, z, v, flag, k) => Holds(N[f.childs[j]], f.keys[j], N[f.childs[j + 1]], flag, k)

\* A replaced key and two rewritten children make a swap.
LEMMA SwapMade ==
    ASSUME NEW f, NEW N, NEW flag, Family(f, N, flag), Stored(f), NEW m, NEW j, KeyAt(f, m, j),
           NEW z \in Nat, Belongs(RestKeys(f, j), m, j, z),
           NEW M, NEW u, NEW v, Holding(f, N, M, f.childs[j], u, f.childs[j + 1], v),
           Within(f, N, flag, j, u, z, v), NEW g, KeyReplaced(g, f, j, z)
    PROVE  /\ SwapOf(f, N, flag, RestKeys(f, j), RestChilds(f, j), j, f.childs[j], f.keys[j],
                     f.childs[j + 1], g, z, M)
           /\ Stored(g)
<1>0. /\ IsNode(f, INTERNAL_NODE) /\ Distinct(f.childs) /\ m \in Nat /\ Len(f.keys) = m + 1
      /\ j \in 1 .. m + 1
  BY Zenon DEF KeyAt
<1> USE <1>0
<1> DEFINE ks == RestKeys(f, j)
           cs == RestChilds(f, j)
           L == f.childs[j]
           R == f.childs[j + 1]
           s == f.keys[j]
<1>1. IsNode(f, INTERNAL_NODE) /\ Distinct(f.childs) /\ f.flag = INTERNAL_NODE
  BY Zenon DEF Family, IsNode
<1>2. /\ g.flag = INTERNAL_NODE /\ g.keys = [f.keys EXCEPT ![j] = z] /\ g.childs = f.childs /\ Stored(g)
  <2>1. g.flag = f.flag /\ g.keys = [f.keys EXCEPT ![j] = z] /\ g.childs = f.childs /\ Stored(g)
    BY ExceptKey, Zenon
  <2> QED
    BY <1>1, <2>1, Zenon
<1>3. IsNode(g, INTERNAL_NODE) /\ Grows(ks, z, j, g.keys) /\ Twin(g, ks, cs, j, L, z, R)
  BY <1>1, <1>2, TwinSwap
<1>4. L \in DOMAIN M /\ M[L] = u /\ R \in DOMAIN M /\ M[R] = v /\ Elsewhere(f, N, M, L, R)
  BY Zenon DEF Holding
<1>5. /\ IsNode(u, flag) /\ IsNode(v, flag) /\ Cut(u.keys, z, v.keys)
      /\ flag = INTERNAL_NODE => Apart(u.keys, z, v.keys)
      /\ \A k \in Nat : Holds(u, z, v, flag, k) => Holds(N[L], s, N[R], flag, k)
  BY Zenon DEF Within
<1> HIDE DEF ks, cs, L, R, s
<1>6. SwapOf(f, N, flag, ks, cs, j, L, s, R, g, z, M)
  BY <1>2, <1>3, <1>4, <1>5, Zenon DEF SwapOf
<1> QED
  BY <1>2, <1>6, Zenon DEF ks, cs, L, R, s

\* A search finds after a swap of leaves what it found before.
LEMMA LeafSwapped ==
    ASSUME NEW f, NEW N, Family(f, N, LEAF_NODE), Stored(f), NEW m, NEW j, KeyAt(f, m, j),
           NEW w, IsNode(w, LEAF_NODE),
           LeafJoin(w, N[f.childs[j]], N[f.childs[j + 1]]), NEW u, NEW z, NEW v,
           LeafPair(w, u, z, v),
           NEW y, Among(f, N, LEAF_NODE, j, y), y < z, Among(f, N, LEAF_NODE, j, z),
           NEW M, Holding(f, N, M, f.childs[j], u, f.childs[j + 1], v), NEW g,
           KeyReplaced(g, f, j, z)
    PROVE  Preserved(f, N, LEAF_NODE, g, M)
<1> DEFINE ks == RestKeys(f, j)
           cs == RestChilds(f, j)
           L == f.childs[j]
           R == f.childs[j + 1]
           s == f.keys[j]
<1>1. Belongs(ks, m, j, z)
  BY AmongIn
<1>2. Pair(f, N, LEAF_NODE, ks, cs, j, L, s, R)
  BY Neighbours
<1>3. /\ IsNode(u, LEAF_NODE) /\ IsNode(v, LEAF_NODE) /\ LeafJoin(w, u, v)
      /\ z \in Nat /\ Cut(u.keys, z, v.keys) /\ LEAF_NODE # INTERNAL_NODE
  BY DEF LeafPair, LEAF_NODE, INTERNAL_NODE
<1>4. IsNode(N[L], LEAF_NODE) /\ IsNode(N[R], LEAF_NODE)
  BY <1>2, Zenon DEF Pair, Family
<1>5. \A k : isExisting(w.keys, k) <=> isExisting(N[L].keys, k) \/ isExisting(N[R].keys, k)
  <2> HIDE DEF L, R
  <2> QED
    BY <1>4, LeafJoinHolds DEF L, R
<1>6. \A k : isExisting(w.keys, k) <=> isExisting(u.keys, k) \/ isExisting(v.keys, k)
  BY <1>3, LeafJoinHolds
<1>7. Within(f, N, LEAF_NODE, j, u, z, v)
  BY <1>3, <1>5, <1>6, Zenon DEF Within, Holds
<1>8. SwapOf(f, N, LEAF_NODE, ks, cs, j, L, s, R, g, z, M) /\ Stored(g)
  BY <1>1, <1>3, <1>7, SwapMade
<1>9. M[L] = u /\ M[R] = v
  BY Zenon DEF Holding
<1> HIDE DEF ks, cs, L, R, s
<1>10. Family(g, M, LEAF_NODE)
  BY <1>2, <1>8, FamilySwap
<1>11. LeafJoin(w, N[L], N[R]) /\ LeafJoin(w, M[L], M[R])
  BY <1>3, <1>9, Zenon DEF L, R
<1>12. \A k \in Nat : \A c : Bound(g, M, k, c) <=> Bound(f, N, k, c)
  BY <1>2, <1>8, <1>11, SwapBinds
<1> QED
  BY <1>3, <1>8, <1>10, <1>12, Zenon DEF Preserved

\* A search goes on after a swap of internal nodes where it went on before.
LEMMA ItnSwapped ==
    ASSUME NEW f, NEW N, Family(f, N, INTERNAL_NODE), Stored(f), NEW m, NEW j, KeyAt(f, m, j),
           NEW w, IsNode(w, INTERNAL_NODE),
           ItnJoin(w, N[f.childs[j]], f.keys[j], N[f.childs[j + 1]]), NEW u, NEW z, NEW v,
           ItnPair(w, u, z, v),
           NEW y, Among(f, N, INTERNAL_NODE, j, y), y < z, Among(f, N, INTERNAL_NODE, j, z),
           NEW M, Holding(f, N, M, f.childs[j], u, f.childs[j + 1], v), NEW g,
           KeyReplaced(g, f, j, z)
    PROVE  Preserved(f, N, INTERNAL_NODE, g, M)
<1> DEFINE ks == RestKeys(f, j)
           cs == RestChilds(f, j)
           L == f.childs[j]
           R == f.childs[j + 1]
           s == f.keys[j]
<1>1. Belongs(ks, m, j, z)
  BY AmongIn
<1>2. Pair(f, N, INTERNAL_NODE, ks, cs, j, L, s, R)
  BY Neighbours
<1>3. /\ IsNode(u, INTERNAL_NODE) /\ IsNode(v, INTERNAL_NODE) /\ ItnJoin(w, u, z, v)
      /\ z \in Nat /\ Cut(u.keys, z, v.keys) /\ Apart(u.keys, z, v.keys) /\ LEAF_NODE # INTERNAL_NODE
  BY DEF ItnPair, LEAF_NODE, INTERNAL_NODE
<1>4. IsNode(N[L], INTERNAL_NODE) /\ IsNode(N[R], INTERNAL_NODE)
  BY <1>2, Zenon DEF Pair, Family
<1>5. \A k : isExisting(w.keys, k) <=> isExisting(N[L].keys, k) \/ isExisting(N[R].keys, k) \/ k = s
  <2>1. ItnJoin(w, N[L], s, N[R])
    BY Zenon
  <2> HIDE DEF L, R, s
  <2> QED
    BY <1>4, <2>1, ItnJoinHolds
<1>6. \A k : isExisting(w.keys, k) <=> isExisting(u.keys, k) \/ isExisting(v.keys, k) \/ k = z
  BY <1>3, ItnJoinHolds
<1>7. Within(f, N, INTERNAL_NODE, j, u, z, v)
  BY <1>3, <1>5, <1>6, Zenon DEF Within, Holds
<1>8. SwapOf(f, N, INTERNAL_NODE, ks, cs, j, L, s, R, g, z, M) /\ Stored(g)
  BY <1>1, <1>3, <1>7, SwapMade
<1>9. M[L] = u /\ M[R] = v
  BY Zenon DEF Holding
<1> HIDE DEF ks, cs, L, R, s
<1>10. Family(g, M, INTERNAL_NODE)
  BY <1>2, <1>8, FamilySwap
<1>11. ItnJoin(w, N[L], s, N[R]) /\ ItnJoin(w, M[L], z, M[R])
  BY <1>3, <1>9, Zenon DEF L, R, s
<1>12. \A k \in Nat : Onward(g, M, k) = Onward(f, N, k)
  BY <1>2, <1>8, <1>11, SwapRoutes
<1> QED
  BY <1>3, <1>8, <1>10, <1>12, Zenon DEF Preserved

----------------------------------------------------------------------------

\* A sequence without one of two neighbours, with one of the two in their place.
OneLess(gc, fc, m, j, X) ==
    /\ m \in Nat /\ j \in 1 .. m + 1 /\ Len(gc) = m + 1 /\ Len(fc) = m + 2 /\ Distinct(fc)
    /\ X \in {fc[j], fc[j + 1]}
    /\ \A i \in 1 .. m + 1 : /\ i < j => gc[i] = fc[i]
                             /\ i = j => gc[i] = X
                             /\ i > j => gc[i] = fc[i + 1]

\* The others stay distinct.
LEMMA OneLessDistinct ==
    ASSUME NEW gc, NEW fc, NEW m, NEW j, NEW X, OneLess(gc, fc, m, j, X)
    PROVE  Distinct(gc)
<1>1. /\ m \in Nat /\ j \in 1 .. m + 1 /\ Len(gc) = m + 1 /\ Len(fc) = m + 2
      /\ X \in {fc[j], fc[j + 1]}
      /\ \A i \in 1 .. m + 1 : /\ i < j => gc[i] = fc[i]
                               /\ i = j => gc[i] = X
                               /\ i > j => gc[i] = fc[i + 1]
  BY Zenon DEF OneLess
<1>2. \A a, b \in 1 .. m + 2 : a # b => fc[a] # fc[b]
  BY <1>1, Zenon DEF OneLess, Distinct
<1>3. PICK p \in {j, j + 1} : X = fc[p]
  BY <1>1
<1> DEFINE q(i) == IF i < j THEN i ELSE IF i = j THEN p ELSE i + 1
<1>4. ASSUME NEW i \in 1 .. m + 1 PROVE q(i) \in 1 .. m + 2 /\ gc[i] = fc[q(i)]
  <2>1. CASE i < j
    BY <2>1, <1>1
  <2>2. CASE i = j
    BY <2>2, <1>1, <1>3
  <2>3. CASE i > j
    BY <2>3, <1>1
  <2> QED
    BY <2>1, <2>2, <2>3, <1>1
<1>5. ASSUME NEW a \in 1 .. m + 1, NEW b \in 1 .. m + 1, a # b PROVE gc[a] # gc[b]
  <2>1. q(a) # q(b)
    BY <1>1, <1>3, <1>5
  <2>2. q(a) \in 1 .. m + 2 /\ q(b) \in 1 .. m + 2 /\ gc[a] = fc[q(a)] /\ gc[b] = fc[q(b)]
    BY <1>4
  <2> HIDE DEF q
  <2> QED
    BY <2>1, <2>2, <1>2, Zenon
<1> QED
  BY <1>1, <1>5, Zenon DEF Distinct

\* o is an element of s.
Member(s, o) == \E i \in 1 .. Len(s) : o = s[i]

\* Exactly one child leaves: the one of the two that is not X.
LEMMA OneLessIn ==
    ASSUME NEW gc, NEW fc, NEW m, NEW j, NEW X, OneLess(gc, fc, m, j, X), NEW o
    PROVE  Member(gc, o) <=> o = X \/ (Member(fc, o) /\ o \notin {fc[j], fc[j + 1]})
<1>1. /\ m \in Nat /\ j \in 1 .. m + 1 /\ Len(gc) = m + 1 /\ Len(fc) = m + 2
      /\ X \in {fc[j], fc[j + 1]}
      /\ \A i \in 1 .. m + 1 : /\ i < j => gc[i] = fc[i]
                               /\ i = j => gc[i] = X
                               /\ i > j => gc[i] = fc[i + 1]
  BY Zenon DEF OneLess
<1>2. \A a, b \in 1 .. m + 2 : a # b => fc[a] # fc[b]
  BY <1>1, Zenon DEF OneLess, Distinct
<1>3. j \in 1 .. m + 2 /\ j + 1 \in 1 .. m + 2
  BY <1>1
<1>4. ASSUME NEW i \in 1 .. m + 1, o = gc[i], o # X
      PROVE  (\E a \in 1 .. m + 2 : o = fc[a]) /\ o \notin {fc[j], fc[j + 1]}
  <2>1. i < j \/ i > j
    BY <1>1, <1>4
  <2>2. CASE i < j
    <3>1. i \in 1 .. m + 2 /\ i # j /\ i # j + 1 /\ o = fc[i]
      BY <2>2, <1>1, <1>4
    <3> QED
      BY <3>1, <1>2, <1>3, Zenon
  <2>3. CASE i > j
    <3>1. i + 1 \in 1 .. m + 2 /\ i + 1 # j /\ i + 1 # j + 1 /\ o = fc[i + 1]
      BY <2>3, <1>1, <1>4
    <3> QED
      BY <3>1, <1>2, <1>3, Zenon
  <2> QED
    BY <2>1, <2>2, <2>3, Zenon
<1>5. \E i \in 1 .. m + 1 : X = gc[i]
  BY <1>1, Zenon
<1>6. ASSUME NEW a \in 1 .. m + 2, o = fc[a], o \notin {fc[j], fc[j + 1]}
      PROVE  \E i \in 1 .. m + 1 : o = gc[i]
  <2>1. a # j /\ a # j + 1
    BY <1>6, Zenon
  <2>2. CASE a < j
    <3>1. a \in 1 .. m + 1 /\ o = gc[a]
      BY <2>2, <1>1, <1>6
    <3> QED
      BY <3>1, Zenon
  <2>3. CASE a > j
    <3>1. a - 1 \in 1 .. m + 1 /\ a - 1 > j /\ (a - 1) + 1 = a
      BY <2>1, <2>3, <1>1
    <3>2. gc[a - 1] = fc[(a - 1) + 1]
      BY <3>1, <1>1, Zenon
    <3> QED
      BY <3>1, <3>2, <1>6, Zenon
  <2>4. a < j \/ a > j
    BY <2>1, <1>1
  <2> QED
    BY <2>2, <2>3, <2>4, Zenon
<1> QED
  BY <1>1, <1>4, <1>5, <1>6, Zenon DEF Member

\* The children of g are those of f but the one of the j-th and the next that is not X.
KidsLeft(g, f, j, X) ==
    \A o : Kid(g, o) <=> o = X \/ (Kid(f, o) /\ o \notin {f.childs[j], f.childs[j + 1]})

\* What dropFromFather leaves of an internal node.
LEMMA DropFacts ==
    ASSUME NEW f, NEW m, NEW j, KeyAt(f, m, j), NEW X \in {f.childs[j], f.childs[j + 1]}, NEW g,
           Dropped(g, f, j, X)
    PROVE  /\ IsNode(g, INTERNAL_NODE) /\ Len(g.keys) = m
           /\ Lone(g, RestKeys(f, j), RestChilds(f, j), j, X)
           /\ g.keys = RestKeys(f, j) /\ Distinct(g.childs) /\ KidsLeft(g, f, j, X)
<1>0. /\ IsNode(f, INTERNAL_NODE) /\ Distinct(f.childs) /\ m \in Nat /\ Len(f.keys) = m + 1
      /\ j \in 1 .. m + 1
  BY Zenon DEF KeyAt
<1> USE <1>0
<1> DEFINE ks == RestKeys(f, j)
           cs == RestChilds(f, j)
           fc == f.childs
           gc == g.childs
<1>1. f.flag = INTERNAL_NODE /\ fc \in Seq(Nat) /\ Len(fc) = (m + 1) + 1
  BY Zenon DEF IsNode
<1>3. /\ IsNode(g, INTERNAL_NODE) /\ Len(g.keys) = m /\ Lone(g, ks, cs, j, X)
      /\ \A i \in 1 .. m + 1 : g.childs[i] = IF i = j THEN X ELSE cs[i]
  BY LoneDrop, SMTT(40)
<1>4. g.keys = ks
  BY Zenon DEF RestKeys, Dropped
<1>5. Inserted(fc, cs, m + 1, j + 1, fc[j + 1])
  BY RestFacts
<1>6. Len(gc) = m + 1
  BY <1>3, Zenon DEF IsNode
<1>7. \A i \in 1 .. m + 1 : gc[i] = IF i = j THEN X ELSE cs[i]
  BY <1>3, Zenon
<1> HIDE DEF gc, fc, cs, ks
<1>8. \A i \in 1 .. m + 1 : (i < j + 1 => fc[i] = cs[i]) /\ (i >= j + 1 => fc[i + 1] = cs[i])
  BY <1>5, Zenon DEF Inserted
<1>9. ASSUME NEW i \in 1 .. m + 1
      PROVE  /\ i < j => gc[i] = fc[i]
             /\ i = j => gc[i] = X
             /\ i > j => gc[i] = fc[i + 1]
  <2>1. i < j => i < j + 1 /\ i # j
    OBVIOUS
  <2>2. i > j => i >= j + 1 /\ i # j
    OBVIOUS
  <2> QED
    BY <2>1, <2>2, <1>7, <1>8, Zenon
<1>10. OneLess(gc, fc, m, j, X)
  <2>1. Len(fc) = m + 2
    BY <1>1
  <2>2. Distinct(fc) /\ X \in {fc[j], fc[j + 1]}
    BY Zenon DEF fc
  <2> QED
    BY <2>1, <2>2, <1>6, <1>9, Zenon DEF OneLess
<1>11. Distinct(gc)
  BY <1>10, OneLessDistinct
<1>12. KidsLeft(g, f, j, X)
  <2>1. \A o : Member(gc, o) <=> o = X \/ (Member(fc, o) /\ o \notin {fc[j], fc[j + 1]})
    BY <1>10, OneLessIn
  <2>2. \A o : (Kid(g, o) <=> Member(gc, o)) /\ (Kid(f, o) <=> Member(fc, o))
    BY Zenon DEF Kid, Member, gc, fc
  <2> QED
    BY <2>1, <2>2, Zenon DEF KidsLeft, fc
<1> QED
  BY <1>3, <1>4, <1>11, <1>12, Zenon DEF ks, cs, gc

\* A dropped key and a rewritten child make a merge.
LEMMA MergeMade ==
    ASSUME NEW f, NEW N, NEW flag, Family(f, N, flag), NEW m, NEW j, KeyAt(f, m, j),
           NEW X \in {f.childs[j], f.childs[j + 1]}, NEW g, Dropped(g, f, j, X),
           NEW M, X \in DOMAIN M, IsNode(M[X], flag),
           Elsewhere(f, N, M, f.childs[j], f.childs[j + 1]),
           \A k \in Nat : isExisting(M[X].keys, k) =>
             Holds(N[f.childs[j]], f.keys[j], N[f.childs[j + 1]], flag, k)
    PROVE  MergeOf(f, N, flag, RestKeys(f, j), RestChilds(f, j), j, f.childs[j], f.keys[j],
                   f.childs[j + 1], g, X, M)
<1> DEFINE ks == RestKeys(f, j)
           cs == RestChilds(f, j)
           L == f.childs[j]
           R == f.childs[j + 1]
           s == f.keys[j]
<1>1. IsNode(f, INTERNAL_NODE) /\ Distinct(f.childs)
  BY Zenon DEF Family
<1>2. /\ IsNode(g, INTERNAL_NODE) /\ g.keys = ks /\ Distinct(g.childs) /\ Lone(g, ks, cs, j, X)
      /\ KidsLeft(g, f, j, X)
  BY <1>1, DropFacts
<1>3. \A o : Kid(g, o) => o = X \/ (Kid(f, o) /\ o \notin {L, R})
  BY <1>2, Zenon DEF KidsLeft
<1>4. /\ X \in {L, R} /\ Elsewhere(f, N, M, L, R)
      /\ \A k \in Nat : isExisting(M[X].keys, k) => Holds(N[L], s, N[R], flag, k)
  BY Zenon
<1> HIDE DEF ks, cs, L, R, s
<1>5. MergeOf(f, N, flag, ks, cs, j, L, s, R, g, X, M)
  BY <1>2, <1>3, <1>4, Zenon DEF MergeOf
<1> QED
  BY <1>5, Zenon DEF ks, cs, L, R, s

\* A search finds after a merge of leaves what it found before.
LEMMA LeafMerged ==
    ASSUME NEW f, NEW N, Family(f, N, LEAF_NODE), NEW m, NEW j, KeyAt(f, m, j),
           NEW X \in {f.childs[j], f.childs[j + 1]}, NEW g, Dropped(g, f, j, X),
           NEW M, X \in DOMAIN M, Elsewhere(f, N, M, f.childs[j], f.childs[j + 1]),
           M[X] = JoinedLeaf(N[f.childs[j]], N[f.childs[j + 1]])
    PROVE  Preserved(f, N, LEAF_NODE, g, M)
<1> DEFINE ks == RestKeys(f, j)
           cs == RestChilds(f, j)
           L == f.childs[j]
           R == f.childs[j + 1]
           s == f.keys[j]
           w == JoinedLeaf(N[L], N[R])
<1>1. Pair(f, N, LEAF_NODE, ks, cs, j, L, s, R)
  BY Neighbours
<1>2. IsNode(N[L], LEAF_NODE) /\ IsNode(N[R], LEAF_NODE) /\ LEAF_NODE # INTERNAL_NODE
  <2>1. IsNode(N[L], LEAF_NODE) /\ IsNode(N[R], LEAF_NODE)
    BY <1>1, Zenon DEF Pair, Family
  <2> QED
    BY <2>1 DEF LEAF_NODE, INTERNAL_NODE
<1>3. s \in Nat /\ Cut(N[L].keys, s, N[R].keys)
  <2> HIDE DEF ks, cs, L, R, s
  <2> QED
    BY <1>1, PairCut
<1>4. IsNode(w, LEAF_NODE) /\ LeafJoin(w, N[L], N[R])
  <2> HIDE DEF L, R, s
  <2> QED
    BY <1>2, <1>3, LeafJoined
<1>5. M[X] = w
  BY Zenon
<1> HIDE DEF w
<1>6. \A k : isExisting(w.keys, k) <=> isExisting(N[L].keys, k) \/ isExisting(N[R].keys, k)
  <2> HIDE DEF L, R, s
  <2> QED
    BY <1>2, <1>4, LeafJoinHolds
<1>7. \A k \in Nat : isExisting(M[X].keys, k) => Holds(N[L], s, N[R], LEAF_NODE, k)
  BY <1>5, <1>6, Zenon DEF Holds
<1>8. IsNode(M[X], LEAF_NODE) /\ LeafJoin(M[X], N[L], N[R])
  BY <1>4, <1>5, Zenon
<1>9. MergeOf(f, N, LEAF_NODE, ks, cs, j, L, s, R, g, X, M)
  BY <1>7, <1>8, MergeMade
<1> HIDE DEF ks, cs, L, R, s
<1>10. Family(g, M, LEAF_NODE)
  BY <1>1, <1>9, FamilyMerge
<1>11. \A k \in Nat : \A c : Bound(g, M, k, c) <=> Bound(f, N, k, c)
  BY <1>1, <1>8, <1>9, MergeBinds
<1>12. Stored(g)
  BY Zenon DEF Dropped
<1> QED
  BY <1>2, <1>10, <1>11, <1>12, Zenon DEF Preserved

\* A search goes on after a merge of internal nodes where it went on before.
LEMMA ItnMerged ==
    ASSUME NEW f, NEW N, Family(f, N, INTERNAL_NODE), NEW m, NEW j, KeyAt(f, m, j),
           NEW X \in {f.childs[j], f.childs[j + 1]}, NEW g, Dropped(g, f, j, X),
           NEW M, X \in DOMAIN M, Elsewhere(f, N, M, f.childs[j], f.childs[j + 1]),
           M[X] = JoinedItn(N[f.childs[j]], f.keys[j], N[f.childs[j + 1]])
    PROVE  Preserved(f, N, INTERNAL_NODE, g, M)
<1> DEFINE ks == RestKeys(f, j)
           cs == RestChilds(f, j)
           L == f.childs[j]
           R == f.childs[j + 1]
           s == f.keys[j]
           w == JoinedItn(N[L], s, N[R])
<1>1. Pair(f, N, INTERNAL_NODE, ks, cs, j, L, s, R)
  BY Neighbours
<1>2. IsNode(N[L], INTERNAL_NODE) /\ IsNode(N[R], INTERNAL_NODE) /\ LEAF_NODE # INTERNAL_NODE
  <2>1. IsNode(N[L], INTERNAL_NODE) /\ IsNode(N[R], INTERNAL_NODE)
    BY <1>1, Zenon DEF Pair, Family
  <2> QED
    BY <2>1 DEF LEAF_NODE, INTERNAL_NODE
<1>3. s \in Nat /\ Apart(N[L].keys, s, N[R].keys)
  <2> HIDE DEF ks, cs, L, R, s
  <2> QED
    BY <1>1, PairCut
<1>4. IsNode(w, INTERNAL_NODE) /\ ItnJoin(w, N[L], s, N[R])
  <2> HIDE DEF L, R, s
  <2> QED
    BY <1>2, <1>3, ItnJoined
<1>5. M[X] = w
  BY Zenon
<1> HIDE DEF w
<1>6. \A k : isExisting(w.keys, k) <=> isExisting(N[L].keys, k) \/ isExisting(N[R].keys, k) \/ k = s
  <2> HIDE DEF L, R, s
  <2> QED
    BY <1>2, <1>4, ItnJoinHolds
<1>7. \A k \in Nat : isExisting(M[X].keys, k) => Holds(N[L], s, N[R], INTERNAL_NODE, k)
  BY <1>5, <1>6, Zenon DEF Holds
<1>8. IsNode(M[X], INTERNAL_NODE) /\ ItnJoin(M[X], N[L], s, N[R])
  BY <1>4, <1>5, Zenon
<1>9. MergeOf(f, N, INTERNAL_NODE, ks, cs, j, L, s, R, g, X, M)
  BY <1>7, <1>8, MergeMade
<1> HIDE DEF ks, cs, L, R, s
<1>10. Family(g, M, INTERNAL_NODE)
  BY <1>1, <1>9, FamilyMerge
<1>11. \A k \in Nat : Onward(g, M, k) = Onward(f, N, k)
  BY <1>1, <1>8, <1>9, MergeRoutes
<1>12. Stored(g)
  BY Zenon DEF Dropped
<1> QED
  BY <1>2, <1>10, <1>11, <1>12, Zenon DEF Preserved

----------------------------------------------------------------------------
(* Redistribution on file *)

\* The nodes as the recursion sees them at x: n, in memory, for the page x.
View(db, x, n) == Written(db.node, x, n)

\* The elements of a list with one more.
LEMMA AppendRange ==
    ASSUME NEW s \in Seq(Nat), NEW e \in Nat
    PROVE  Append(s, e) \in Seq(Nat) /\ \A o : o \in Range(Append(s, e)) <=> o \in Range(s) \/ o = e
<1> DEFINE t == Append(s, e)
           a == Len(s)
<1>1. a \in Nat /\ DOMAIN s = 1 .. a
  OBVIOUS
<1>2. /\ t \in Seq(Nat) /\ DOMAIN t = 1 .. a + 1 /\ t[a + 1] = e /\ \A i \in 1 .. a : t[i] = s[i]
  OBVIOUS
<1> HIDE DEF t, a
<1>3. /\ \A i \in 1 .. a + 1 : i \in 1 .. a \/ i = a + 1
      /\ \A i \in 1 .. a : i \in 1 .. a + 1
      /\ a + 1 \in 1 .. a + 1
  BY <1>1
<1>4. \A o : o \in Range(t) <=> \E i \in 1 .. a + 1 : o = t[i]
  BY <1>2, Zenon DEF Range
<1>5. \A o : o \in Range(s) <=> \E i \in 1 .. a : o = s[i]
  BY <1>1, Zenon DEF Range
<1>6. ASSUME NEW o PROVE o \in Range(t) <=> o \in Range(s) \/ o = e
  <2>1. ASSUME NEW i \in 1 .. a + 1, o = t[i] PROVE o \in Range(s) \/ o = e
    BY <2>1, <1>2, <1>3, <1>5, Zenon
  <2>2. ASSUME NEW i \in 1 .. a, o = s[i] PROVE \E q \in 1 .. a + 1 : o = t[q]
    BY <2>2, <1>2, <1>3, Zenon
  <2>3. o = e => \E q \in 1 .. a + 1 : o = t[q]
    BY <1>2, <1>3, Zenon
  <2> QED
    BY <2>1, <2>2, <2>3, <1>4, <1>5, Zenon
<1> QED
  BY <1>2, <1>6, Zenon DEF t

\* Besides nodes, at most the list of removed pages differs.
SameValues(d, db) ==
    d.pages = db.pages /\ d.value = db.value /\ d.emptyValueNode = db.emptyValueNode /\ d.delValues = db.delValues

\* markDelete overwrites the node and lists its page as removed.
LEMMA MarkDeleteFacts ==
    ASSUME NEW db, IsFile(db), NEW y \in Nat
    PROVE  LET d == markDelete(db, y)
           IN  /\ IsFile(d) /\ d.node = Written(db.node, y, EmptyNode(REMOVED_NODE)) /\ SameValues(d, db)
               /\ \A o : o \in Range(d.delNodePages) <=> o \in Range(db.delNodePages) \/ o = y
<1> DEFINE e == flushNodePageToFile(db, EmptyNode(REMOVED_NODE), y)
           l == e.delNodePages
           k == Append(l, y)
           d == [e EXCEPT !.delNodePages = k]
<1>1. IsFile(e) /\ e.node = Written(db.node, y, EmptyNode(REMOVED_NODE)) /\ SameButNodes(e, db)
  BY FlushFacts
<1>2. l \in Seq(Nat) /\ l = db.delNodePages /\ FileFields \subseteq DOMAIN e
  BY <1>1, Zenon DEF IsFile, SameButNodes
<1>3. k \in Seq(Nat) /\ \A o : o \in Range(k) <=> o \in Range(l) \/ o = y
  <2> HIDE DEF l
  <2> QED
    BY <1>2, AppendRange
<1>4. markDelete(db, y) = d
  BY Zenon DEF markDelete, pushDelNode
<1> HIDE DEF e, k
<1>5. /\ FileFields \subseteq DOMAIN d /\ d.delNodePages = k /\ d.node = e.node /\ d.pages = e.pages
      /\ d.value = e.value /\ d.emptyValueNode = e.emptyValueNode /\ d.delValues = e.delValues
  BY <1>2 DEF FileFields
<1> HIDE DEF d
<1>6. IsFile(d)
  BY <1>1, <1>3, <1>5, Zenon DEF IsFile
<1>7. SameValues(d, db)
  BY <1>1, <1>5, Zenon DEF SameValues, SameButNodes
<1> QED
  BY <1>1, <1>2, <1>3, <1>4, <1>5, <1>6, <1>7, Zenon

\* The siblings of n have as many keys as a node should.
Filled(n) == Size(n) \in maxDegree - 1 .. 2 * maxDegree - 1
Siblings(f, nodes, x) == \A o : Kid(f, o) /\ o # x => Filled(nodes[o])

\* The pages of the children that left f are on the list of removed pages.
Released(f, g, db, d) ==
    \A o : o \in Range(d.delNodePages) <=> o \in Range(db.delNodePages) \/ (Kid(f, o) /\ ~Kid(g, o))

\* The other pages are as they were.
Outside(f, db, d) ==
    \A o \in DOMAIN db.node : ~Kid(f, o) => o \in DOMAIN d.node /\ d.node[o] = db.node[o]

\* n at x, a child of f, with what redistribution needs to know of the others.
Placed(db, f, n, x, flag) ==
    /\ IsFile(db) /\ Stored(f) /\ Family(f, View(db, x, n), flag) /\ Kid(f, x)
    /\ Siblings(f, db.node, x)
Setting(db, f, n, x, flag) == Placed(db, f, n, x, flag) /\ Size(n) < maxDegree

\* a has the keys of n.
Keeps(n, a) == \A k : isExisting(n.keys, k) => isExisting(a.keys, k)

\* What redistribution promises: r is [this, father, db].
Arranged(db, f, n, x, flag, r) ==
    /\ Preserved(f, View(db, x, n), flag, r.father, View(r.db, x, r.this))
    /\ Kid(r.father, x) /\ \A o : Kid(r.father, o) => Kid(f, o)
    /\ Siblings(r.father, r.db.node, x)
    /\ Size(r.father) \in {Size(f), Size(f) - 1}
    /\ Keeps(n, r.this)
    /\ IsFile(r.db) /\ SameValues(r.db, db) /\ Released(f, r.father, db, r.db) /\ Outside(f, db, r.db)
Redistributed(db, f, n, x, flag, r) ==
    Arranged(db, f, n, x, flag, r) /\ Size(r.this) \in Size(n) + 1 .. 2 * maxDegree - 1

\* A write adds no other place.
LEMMA WrittenDomain ==
    ASSUME NEW P, NEW x, NEW n, NEW y \in DOMAIN Written(P, x, n), x # y
    PROVE  y \in DOMAIN P
  BY DEF Written

\* What a write leaves.
LEMMA OneWritten ==
    ASSUME NEW P, NEW y, NEW b
    PROVE  Written(P, y, b)[y] = b /\ \A o \in DOMAIN P : o # y => o \in DOMAIN Written(P, y, b) /\ Written(P, y, b)[o] = P[o]
  BY Zenon DEF Written

\* A sibling of n, and n, as the family sees them.
LEMMA InSetting ==
    ASSUME NEW db, NEW f, NEW n, NEW x, NEW flag, Setting(db, f, n, x, flag), NEW y, Kid(f, y),
           x # y
    PROVE  /\ y \in DOMAIN db.node /\ y \in Nat /\ Filled(db.node[y]) /\ IsNode(db.node[y], flag)
           /\ View(db, x, n)[x] = n /\ View(db, x, n)[y] = db.node[y] /\ IsNode(n, flag)
<1> DEFINE N == View(db, x, n)
           P == db.node
<1>1. Family(f, N, flag) /\ Kid(f, x) /\ Siblings(f, P, x)
  BY Zenon DEF Setting, Placed
<1>2. y \in DOMAIN N /\ IsNode(N[y], flag) /\ IsNode(N[x], flag) /\ IsNode(f, INTERNAL_NODE)
  BY <1>1, Zenon DEF Family
<1>3. N = Written(P, x, n)
  BY Zenon DEF View
<1> HIDE DEF N, P
<1>4. y \in DOMAIN P
  BY <1>2, <1>3, WrittenDomain
<1>5. N[x] = n /\ N[y] = P[y]
  <2>1. N[x] = n
    BY <1>3, WrittenHere
  <2>2. N[y] = P[y]
    BY <1>3, <1>4, WrittenElsewhere
  <2> QED
    BY <2>1, <2>2
<1>6. Filled(P[y])
  BY <1>1, Zenon DEF Siblings
<1>7. y \in Nat
  <2>1. f.childs \in Seq(Nat)
    BY <1>2, Zenon DEF IsNode
  <2>2. PICK i \in 1 .. Len(f.childs) : y = f.childs[i]
    BY Zenon DEF Kid
  <2> DEFINE c == f.childs
  <2>3. c \in Seq(Nat) /\ i \in 1 .. Len(c) /\ y = c[i]
    BY <2>1, <2>2, Zenon
  <2> HIDE DEF c
  <2> QED
    BY <2>3
<1> QED
  BY <1>2, <1>4, <1>5, <1>6, <1>7, Zenon DEF N, P

\* What a swap with the sibling at y leaves: a in memory, b on its page.
LEMMA SwapLeaves ==
    ASSUME NEW db, NEW f, NEW n, NEW x, NEW flag, Setting(db, f, n, x, flag), NEW y, Kid(f, y),
           x # y,
           NEW a, NEW b, NEW g, g.childs = f.childs, Len(g.keys) = Len(f.keys),
           Size(a) \in Size(n) + 1 .. 2 * maxDegree - 1, Filled(b),
           Keeps(n, a),
           NEW r, r = [this |-> a, father |-> g, db |-> flushNodePageToFile(db, b, y)],
           Preserved(f, View(db, x, n), flag, g, Written(Written(db.node, y, b), x, a))
    PROVE  Redistributed(db, f, n, x, flag, r)
<1> DEFINE d == flushNodePageToFile(db, b, y)
           P == db.node
<1>1. IsFile(db) /\ Siblings(f, P, x) /\ Family(f, View(db, x, n), flag) /\ Kid(f, x)
  BY Zenon DEF Setting, Placed
<1>2. IsFile(d) /\ d.node = Written(P, y, b) /\ SameButNodes(d, db)
  BY <1>1, FlushFacts
<1>3. y \in DOMAIN P
  BY InSetting
<1> HIDE DEF d, P
<1>4. r.this = a /\ r.father = g /\ r.db = d
  BY DEF d
<1>5. Preserved(f, View(db, x, n), flag, g, View(d, x, a))
  BY <1>2, Zenon DEF View, P
<1>6. \A o : Kid(g, o) <=> Kid(f, o)
  BY Zenon DEF Kid
<1>7. d.node[y] = b /\ \A o \in DOMAIN P : o # y => o \in DOMAIN d.node /\ d.node[o] = P[o]
  BY <1>2, OneWritten
<1>8. \A o : Kid(f, o) /\ o # x => o \in DOMAIN P
  BY InSetting DEF P
<1>9. Siblings(g, d.node, x)
  BY <1>1, <1>6, <1>7, <1>8, Zenon DEF Siblings
<1>10. SameValues(d, db) /\ Released(f, g, db, d)
  BY <1>2, <1>6, Zenon DEF SameValues, SameButNodes, Released
<1>11. Outside(f, db, d)
  BY <1>7, Zenon DEF Outside, P
<1>12. Size(g) \in {Size(f), Size(f) - 1}
  BY Zenon DEF Size
<1> QED
  BY <1>1, <1>2, <1>4, <1>5, <1>6, <1>9, <1>10, <1>11, <1>12, Zenon DEF Redistributed, Arranged

\* What a merge with the sibling at y leaves: a in memory, the page y removed.
LEMMA MergeLeaves ==
    ASSUME NEW db, NEW f, NEW n, NEW x, NEW flag, Setting(db, f, n, x, flag), NEW y, Kid(f, y),
           x # y,
           NEW a, NEW g, \A o : Kid(g, o) <=> Kid(f, o) /\ o # y, Size(g) = Size(f) - 1,
           Size(a) \in Size(n) + 1 .. 2 * maxDegree - 1,
           Keeps(n, a),
           NEW r, r = [this |-> a, father |-> g, db |-> markDelete(db, y)],
           Preserved(f, View(db, x, n), flag, g, Written(Written(db.node, y, EmptyNode(REMOVED_NODE)), x, a))
    PROVE  Redistributed(db, f, n, x, flag, r)
<1> DEFINE d == markDelete(db, y)
           P == db.node
           e == EmptyNode(REMOVED_NODE)
<1>1. IsFile(db) /\ Siblings(f, P, x) /\ Family(f, View(db, x, n), flag) /\ Kid(f, x)
  BY Zenon DEF Setting, Placed
<1>3. y \in DOMAIN P /\ y \in Nat
  BY InSetting
<1>2. /\ IsFile(d) /\ d.node = Written(P, y, e) /\ SameValues(d, db)
      /\ \A o : o \in Range(d.delNodePages) <=> o \in Range(db.delNodePages) \/ o = y
  BY <1>1, <1>3, MarkDeleteFacts
<1>5. Preserved(f, View(db, x, n), flag, g, View(d, x, a))
  BY <1>2, Zenon DEF View
<1> HIDE DEF d, P, e
<1>4. r.this = a /\ r.father = g /\ r.db = d
  BY DEF d
<1>7. \A o \in DOMAIN P : o # y => o \in DOMAIN d.node /\ d.node[o] = P[o]
  BY <1>2, OneWritten
<1>8. \A o : Kid(f, o) /\ o # x => o \in DOMAIN P
  BY InSetting DEF P
<1>9. Siblings(g, d.node, x)
  BY <1>1, <1>7, <1>8, Zenon DEF Siblings
<1>10. Released(f, g, db, d)
  BY <1>2, Zenon DEF Released
<1>11. Outside(f, db, d)
  BY <1>7, Zenon DEF Outside, P
<1>12. Kid(g, x) /\ \A o : Kid(g, o) => Kid(f, o)
  BY <1>1, Zenon
<1>13. Size(g) \in {Size(f), Size(f) - 1}
  BY Zenon
<1> QED
  BY <1>2, <1>4, <1>5, <1>9, <1>10, <1>11, <1>12, <1>13, Zenon DEF Redistributed, Arranged

\* Two sequences in a row lose no element of either.
LEMMA ConcatRange ==
    ASSUME NEW l \in Seq(Nat), NEW r \in Seq(Nat)
    PROVE  l \o r \in Seq(Nat) /\ \A k : isExisting(l, k) \/ isExisting(r, k) => isExisting(l \o r, k)
<1> DEFINE w == l \o r
           a == Len(l)
           b == Len(r)
<1>1. a \in Nat /\ b \in Nat /\ DOMAIN l = 1 .. a /\ DOMAIN r = 1 .. b
  OBVIOUS
<1>2. w \in Seq(Nat) /\ DOMAIN w = 1 .. a + b /\ (\A i \in 1 .. a : w[i] = l[i]) /\ \A i \in 1 .. b : w[a + i] = r[i]
  OBVIOUS
<1> HIDE DEF w, a, b
<1>3. (\A i \in 1 .. a : i \in 1 .. a + b) /\ \A i \in 1 .. b : a + i \in 1 .. a + b
  BY <1>1
<1>4. \A k : isExisting(l, k) => isExisting(w, k)
  BY <1>1, <1>2, <1>3, Zenon DEF isExisting, Range
<1>5. \A k : isExisting(r, k) => isExisting(w, k)
  BY <1>1, <1>2, <1>3, Zenon DEF isExisting, Range
<1> QED
  BY <1>2, <1>4, <1>5, Zenon DEF w

\* A sequence of one.
LEMMA Singleton ==
    ASSUME NEW s \in Nat
    PROVE  <<s>> \in Seq(Nat)
  OBVIOUS

\* A node with a key appended keeps its keys.
LEMMA KeepsAppended ==
    ASSUME NEW n, n.keys \in Seq(Nat), NEW e \in Nat, NEW a, a.keys = Append(n.keys, e)
    PROVE  Keeps(n, a)
<1> DEFINE s == n.keys
<1>1. s \in Seq(Nat) /\ a.keys = Append(s, e)
  BY Zenon
<1> HIDE DEF s
<1>2. \A o : o \in Range(Append(s, e)) <=> o \in Range(s) \/ o = e
  BY <1>1, AppendRange
<1> QED
  BY <1>1, <1>2, Zenon DEF Keeps, isExisting, s

\* A node joined with another keeps its keys.
LEMMA KeepsJoined ==
    ASSUME NEW n, n.keys \in Seq(Nat), NEW t \in Seq(Nat), NEW a,
           a.keys = t \o n.keys \/ a.keys = n.keys \o t
    PROVE  Keeps(n, a)
<1> DEFINE s == n.keys
<1>1. s \in Seq(Nat) /\ (a.keys = t \o s \/ a.keys = s \o t)
  BY Zenon
<1> HIDE DEF s
<1>2. /\ \A k : isExisting(s, k) \/ isExisting(t, k) => isExisting(s \o t, k)
      /\ \A k : isExisting(t, k) \/ isExisting(s, k) => isExisting(t \o s, k)
  BY <1>1, ConcatRange
<1> QED
  BY <1>1, <1>2, Zenon DEF Keeps, s

\* Two writes, of the sibling and of the node, leave the pair of them.
LEMMA PairViews ==
    ASSUME NEW db, NEW f, NEW n, NEW x, NEW flag, Setting(db, f, n, x, flag), NEW y, Kid(f, y),
           x # y,
           NEW a, NEW b, NEW M, M = Written(Written(db.node, y, b), x, a)
    PROVE  /\ Holding(f, View(db, x, n), M, x, a, y, b)
           /\ Holding(f, View(db, x, n), M, y, b, x, a)
<1> DEFINE N == View(db, x, n)
           P == db.node
           W == Written(P, y, b)
<1>1. N = Written(P, x, n) /\ M = Written(W, x, a) /\ W = Written(P, y, b)
  BY Zenon DEF View
<1>2. y \in DOMAIN P
  BY InSetting
<1>3. \A o : Kid(f, o) => o \in DOMAIN N
  BY Zenon DEF Setting, Placed, Family
<1> HIDE DEF N, P, W
<1>4. x \in DOMAIN M /\ M[x] = a /\ y \in DOMAIN M /\ M[y] = b
  BY <1>1, <1>2 DEF Written
<1>5. ASSUME NEW o \in DOMAIN N, o \notin {x, y}
      PROVE  o \in DOMAIN M /\ M[o] = N[o]
  BY <1>1, <1>5 DEF Written
<1>6. Elsewhere(f, N, M, x, y) /\ Elsewhere(f, N, M, y, x)
  BY <1>3, <1>5, Zenon DEF Elsewhere
<1> QED
  BY <1>4, <1>6, Zenon DEF Holding, N

----------------------------------------------------------------------------
(* Leaves *)

\* The children on either side of a key, and the size of the node.
LEMMA KidAt ==
    ASSUME NEW f, NEW m, NEW j, KeyAt(f, m, j)
    PROVE  /\ Kid(f, f.childs[j]) /\ Kid(f, f.childs[j + 1]) /\ f.childs[j] # f.childs[j + 1]
           /\ Size(f) = m + 1
<1>1. /\ IsNode(f, INTERNAL_NODE) /\ Distinct(f.childs) /\ m \in Nat /\ Len(f.keys) = m + 1
      /\ j \in 1 .. m + 1
  BY Zenon DEF KeyAt
<1>2. Len(f.childs) = (m + 1) + 1
  BY <1>1, Zenon DEF IsNode
<1>3. j \in 1 .. (m + 1) + 1 /\ j + 1 \in 1 .. (m + 1) + 1 /\ j # j + 1
  BY <1>1
<1> QED
  BY <1>1, <1>2, <1>3, Zenon DEF Kid, Distinct, Size

\* A replaced key changes neither the children nor the number of keys.
LEMMA ReplacedFields ==
    ASSUME NEW f, Stored(f), NEW j, NEW z, NEW g, KeyReplaced(g, f, j, z), f.keys \in Seq(Nat)
    PROVE  g.childs = f.childs /\ Len(g.keys) = Len(f.keys)
<1> DEFINE s == f.keys
<1>1. g.flag = f.flag /\ g.keys = [f.keys EXCEPT ![j] = z] /\ g.childs = f.childs /\ Stored(g)
  BY ExceptKey, Zenon
<1>2. s \in Seq(Nat)
  BY Zenon
<1> HIDE DEF s
<1>3. Len([s EXCEPT ![j] = z]) = Len(s)
  BY <1>2
<1>4. Len(g.keys) = Len(s)
  BY <1>1, <1>3 DEF s
<1> QED
  BY <1>1, <1>4, Zenon DEF s

\* The size of a node is a number.
LEMMA NodeSize ==
    ASSUME NEW n, NEW flag, IsNode(n, flag)
    PROVE  Size(n) \in Nat
<1> DEFINE s == n.keys
<1>1. s \in Seq(Nat)
  BY Zenon DEF IsNode
<1> HIDE DEF s
<1>2. Len(s) \in Nat
  BY <1>1
<1> QED
  BY <1>2, Zenon DEF Size, s

\* The size of a filled node.
LEMMA FilledSize ==
    ASSUME NEW n, Filled(n)
    PROVE  Size(n) <= 2 * maxDegree - 1 /\ maxDegree - 1 <= Size(n)
  BY MaxDegreeAssumption DEF Filled

\* The sizes of two neighbours when one key moves to n.
LEMMA SwapSizes ==
    ASSUME NEW a \in Nat, a < maxDegree, NEW b \in Nat, b <= 2 * maxDegree - 1,
           b > maxDegree - 1
    PROVE  /\ a + 1 \in a + 1 .. 2 * maxDegree - 1
           /\ b - 1 \in Nat /\ b - 1 \in maxDegree - 1 .. 2 * maxDegree - 1 /\ b - 1 >= 1 /\ b = (b - 1) + 1
  BY MaxDegreeAssumption

\* swapCounterClockWiseLeaf: a leaf takes the first key of its right sibling.
LEMMA CounterClockWiseLeaf ==
    ASSUME NEW db, NEW f, NEW n, NEW x, Setting(db, f, n, x, LEAF_NODE), NEW m, NEW i,
           KeyAt(f, m, i),
           x = f.childs[i], NEW y, y = f.childs[i + 1], Size(db.node[y]) > maxDegree - 1
    PROVE  Redistributed(db, f, n, x, LEAF_NODE, swapCounterClockWiseLeaf(db, f, i, n, x, db.node[y], y))
<1> DEFINE N == View(db, x, n)
           right == db.node[y]
           a == LeafLeftU(n, right, y)
           b == LeafLeftV(right)
           z == Head(b.keys)
           g == [f EXCEPT !.keys[i] = z]
           w == JoinedLeaf(n, right)
           M == Written(Written(db.node, y, b), x, a)
           r == swapCounterClockWiseLeaf(db, f, i, n, x, right, y)
           d == Size(right) - 1
<1>1. Kid(f, x) /\ Kid(f, y) /\ x # y
  BY KidAt
<1>2. /\ y \in DOMAIN db.node /\ y \in Nat /\ Filled(right) /\ IsNode(right, LEAF_NODE)
      /\ N[x] = n /\ N[y] = right /\ IsNode(n, LEAF_NODE)
  BY <1>1, InSetting
<1>3. Family(f, N, LEAF_NODE) /\ Stored(f) /\ Size(n) < maxDegree
  BY Zenon DEF Setting, Placed
<1>4. Size(n) \in Nat /\ Size(right) \in Nat /\ Size(right) <= 2 * maxDegree - 1
  BY <1>2, FilledSize, NodeSize
<1>5. /\ Size(n) + 1 \in Size(n) + 1 .. 2 * maxDegree - 1
      /\ d \in Nat /\ d \in maxDegree - 1 .. 2 * maxDegree - 1 /\ d >= 1 /\ Size(right) = d + 1
  BY <1>3, <1>4, SwapSizes
<1>6. f.keys[i] \in Nat /\ Cut(n.keys, f.keys[i], right.keys)
  <2>1. Pair(f, N, LEAF_NODE, RestKeys(f, i), RestChilds(f, i), i, x, f.keys[i], y)
    BY <1>3, Neighbours
  <2> QED
    BY <2>1, <1>2, PairCut
<1>7. IsNode(w, LEAF_NODE) /\ LeafJoin(w, n, right)
  <2> HIDE DEF right
  <2> QED
    BY <1>2, <1>6, LeafJoined
<1> HIDE DEF N, w, d
<1>8. /\ LeafPair(w, a, z, b) /\ Size(a) = Size(n) + 1 /\ Size(b) = d
      /\ isExisting(right.keys, right.keys[1]) /\ isExisting(right.keys, z) /\ right.keys[1] < z
  <2> HIDE DEF right
  <2> QED
    BY <1>2, <1>5, <1>7, LeafLeft
<1>9. a.keys = Append(n.keys, Head(right.keys))
  <2> DEFINE ks == Append(n.keys, Head(right.keys))
             cs == SubSeq(n.childs, 1, Size(n)) \o <<Head(right.childs), y>>
  <2>1. a = Node(LEAF_NODE, ks, cs)
    BY Zenon DEF LeafLeftU
  <2> HIDE DEF a, ks, cs
  <2>2. a.keys = ks
    BY <2>1, NodeFields
  <2> QED
    BY <2>2, Zenon DEF ks
<1>10. r = [this |-> a, father |-> g, db |-> flushNodePageToFile(db, b, y)]
  BY Zenon DEF swapCounterClockWiseLeaf, LeafLeftU, LeafLeftV
<1>11. KeyReplaced(g, f, i, z)
  BY Zenon DEF KeyReplaced
<1>12. z \in Nat /\ right.keys \in Seq(Nat) /\ n.keys \in Seq(Nat) /\ f.keys \in Seq(Nat)
  BY <1>2, <1>3, <1>8, Zenon DEF LeafPair, IsNode, Family
<1> HIDE DEF right, a, b, z, g, r
<1>13. right.keys[1] \in Nat /\ Head(right.keys) = right.keys[1]
  <2> DEFINE s == right.keys
  <2>1. s \in Seq(Nat) /\ Len(s) >= 1
    BY <1>5, <1>12 DEF Size
  <2> HIDE DEF s
  <2>2. s[1] \in Nat /\ Head(s) = s[1]
    BY <2>1
  <2> QED
    BY <2>2, Zenon DEF s
<1>14. Keeps(n, a)
  BY <1>9, <1>12, <1>13, KeepsAppended
<1>15. g.childs = f.childs /\ Len(g.keys) = Len(f.keys)
  BY <1>3, <1>11, <1>12, ReplacedFields
<1>16. Holding(f, N, M, x, a, y, b)
  BY <1>1, PairViews DEF N
<1>17. Among(f, N, LEAF_NODE, i, right.keys[1]) /\ Among(f, N, LEAF_NODE, i, z)
  BY <1>2, <1>8, <1>12, <1>13, Zenon DEF Among, Holds
<1>18. Preserved(f, N, LEAF_NODE, g, M)
  <2>1. Holding(f, N, M, f.childs[i], a, f.childs[i + 1], b)
    BY <1>16, Zenon
  <2>2. LeafJoin(w, N[f.childs[i]], N[f.childs[i + 1]])
    BY <1>2, <1>7, Zenon
  <2> HIDE DEF M
  <2> QED
    BY <2>1, <2>2, <1>3, <1>7, <1>8, <1>11, <1>17, LeafSwapped
<1>19. Filled(b) /\ Size(a) \in Size(n) + 1 .. 2 * maxDegree - 1
  BY <1>5, <1>8, Zenon DEF Filled
<1>20. Preserved(f, View(db, x, n), LEAF_NODE, g, Written(Written(db.node, y, b), x, a))
  BY <1>18, Zenon DEF N
<1>21. Redistributed(db, f, n, x, LEAF_NODE, r)
  BY <1>1, <1>10, <1>14, <1>15, <1>19, <1>20, SwapLeaves
<1> QED
  BY <1>21, Zenon DEF r, right

\* swapClockWiseLeaf: a leaf takes the last key of its left sibling.
LEMMA ClockWiseLeaf ==
    ASSUME NEW db, NEW f, NEW n, NEW x, Setting(db, f, n, x, LEAF_NODE), NEW m, NEW j,
           KeyAt(f, m, j),
           NEW i, i - 1 = j, x = f.childs[j + 1], NEW y, y = f.childs[j],
           Size(db.node[y]) > maxDegree - 1
    PROVE  Redistributed(db, f, n, x, LEAF_NODE, swapClockWiseLeaf(db, f, i, n, x, db.node[y], y))
<1> DEFINE N == View(db, x, n)
           left == db.node[y]
           a == LeafRightV(left, n)
           b == LeafRightU(left)
           z == Last(left.keys)
           g == [f EXCEPT !.keys[j] = z]
           w == JoinedLeaf(left, n)
           M == Written(Written(db.node, y, b), x, a)
           r == swapClockWiseLeaf(db, f, i, n, x, left, y)
           d == Size(left) - 1
<1>1. Kid(f, x) /\ Kid(f, y) /\ x # y
  BY KidAt
<1>2. /\ y \in DOMAIN db.node /\ y \in Nat /\ Filled(left) /\ IsNode(left, LEAF_NODE)
      /\ N[x] = n /\ N[y] = left /\ IsNode(n, LEAF_NODE)
  BY <1>1, InSetting
<1>3. Family(f, N, LEAF_NODE) /\ Stored(f) /\ Size(n) < maxDegree
  BY Zenon DEF Setting, Placed
<1>4. Size(n) \in Nat /\ Size(left) \in Nat /\ Size(left) <= 2 * maxDegree - 1
  BY <1>2, FilledSize, NodeSize
<1>5. /\ Size(n) + 1 \in Size(n) + 1 .. 2 * maxDegree - 1
      /\ d \in Nat /\ d \in maxDegree - 1 .. 2 * maxDegree - 1 /\ d >= 1 /\ Size(left) = d + 1
  BY <1>3, <1>4, SwapSizes
<1>6. f.keys[j] \in Nat /\ Cut(left.keys, f.keys[j], n.keys)
  <2>1. Pair(f, N, LEAF_NODE, RestKeys(f, j), RestChilds(f, j), j, y, f.keys[j], x)
    BY <1>3, Neighbours
  <2> QED
    BY <2>1, <1>2, PairCut
<1>7. IsNode(w, LEAF_NODE) /\ LeafJoin(w, left, n)
  <2> HIDE DEF left
  <2> QED
    BY <1>2, <1>6, LeafJoined
<1> HIDE DEF N, w, d
<1>8. /\ LeafPair(w, b, z, a) /\ Size(a) = Size(n) + 1 /\ Size(b) = d
      /\ isExisting(left.keys, left.keys[1]) /\ isExisting(left.keys, z) /\ left.keys[1] < z
  <2> HIDE DEF left
  <2> QED
    BY <1>2, <1>5, <1>7, LeafRight
<1>9. a.keys = <<z>> \o n.keys
  <2> DEFINE ks == <<z>> \o n.keys
             cs == <<left.childs[Size(left)]>> \o n.childs
  <2>1. a = Node(LEAF_NODE, ks, cs)
    BY Zenon DEF LeafRightV
  <2> HIDE DEF a, ks, cs
  <2>2. a.keys = ks
    BY <2>1, NodeFields
  <2> QED
    BY <2>2, Zenon DEF ks
<1>10. r = [this |-> a, father |-> g, db |-> flushNodePageToFile(db, b, y)]
  BY Zenon DEF swapClockWiseLeaf, LeafRightU, LeafRightV
<1>11. KeyReplaced(g, f, j, z)
  BY Zenon DEF KeyReplaced
<1>12. z \in Nat /\ left.keys \in Seq(Nat) /\ n.keys \in Seq(Nat) /\ f.keys \in Seq(Nat)
  BY <1>2, <1>3, <1>8, Zenon DEF LeafPair, IsNode, Family
<1> HIDE DEF left, a, b, z, g, r
<1>13. left.keys[1] \in Nat /\ <<z>> \in Seq(Nat)
  <2> DEFINE s == left.keys
  <2>1. s \in Seq(Nat) /\ Len(s) >= 1
    BY <1>5, <1>12 DEF Size
  <2> HIDE DEF s
  <2>2. s[1] \in Nat
    BY <2>1
  <2>3. <<z>> \in Seq(Nat)
    BY <1>12, Singleton
  <2> QED
    BY <2>2, <2>3, Zenon DEF s
<1>14. Keeps(n, a)
  <2> DEFINE e == <<z>>
  <2> HIDE DEF e
  <2>1. e \in Seq(Nat) /\ a.keys = e \o n.keys
    BY <1>9, <1>13, Zenon DEF e
  <2> QED
    BY <2>1, <1>12, KeepsJoined
<1>15. g.childs = f.childs /\ Len(g.keys) = Len(f.keys)
  BY <1>3, <1>11, <1>12, ReplacedFields
<1>16. Holding(f, N, M, y, b, x, a)
  BY <1>1, PairViews DEF N
<1>17. Among(f, N, LEAF_NODE, j, left.keys[1]) /\ Among(f, N, LEAF_NODE, j, z)
  BY <1>2, <1>8, <1>12, <1>13, Zenon DEF Among, Holds
<1>18. Preserved(f, N, LEAF_NODE, g, M)
  <2>1. Holding(f, N, M, f.childs[j], b, f.childs[j + 1], a)
    BY <1>16, Zenon
  <2>2. LeafJoin(w, N[f.childs[j]], N[f.childs[j + 1]])
    BY <1>2, <1>7, Zenon
  <2> HIDE DEF M
  <2> QED
    BY <2>1, <2>2, <1>3, <1>7, <1>8, <1>11, <1>17, LeafSwapped
<1>19. Filled(b) /\ Size(a) \in Size(n) + 1 .. 2 * maxDegree - 1
  BY <1>5, <1>8, Zenon DEF Filled
<1>20. Preserved(f, View(db, x, n), LEAF_NODE, g, Written(Written(db.node, y, b), x, a))
  BY <1>18, Zenon DEF N
<1>21. Redistributed(db, f, n, x, LEAF_NODE, r)
  BY <1>1, <1>10, <1>14, <1>15, <1>19, <1>20, SwapLeaves
<1> QED
  BY <1>21, Zenon DEF r, left

\* The size of two nodes, neither with a key to spare, as one.
LEMMA MergeSizes ==
    ASSUME NEW a \in Nat, a < maxDegree, NEW b \in Nat, maxDegree - 1 <= b, ~(b > maxDegree - 1)
    PROVE  /\ a + b \in a + 1 .. 2 * maxDegree - 1 /\ b + a = a + b
           /\ a + b + 1 \in a + 1 .. 2 * maxDegree - 1 /\ b + a + 1 = a + b + 1
  BY MaxDegreeAssumption

\* A node with one key less.
LEMMA LessOne ==
    ASSUME NEW f, NEW g, NEW m \in Nat, Size(f) = m + 1, Len(g.keys) = m
    PROVE  Size(g) = Size(f) - 1
  BY DEF Size

\* leftMergeLeaf: a leaf takes all of its left sibling.
LEMMA LeftMergeLeaf ==
    ASSUME NEW db, NEW f, NEW n, NEW x, Setting(db, f, n, x, LEAF_NODE), NEW m, NEW j,
           KeyAt(f, m, j),
           NEW i, i - 1 = j, x = f.childs[j + 1], NEW y, y = f.childs[j],
           ~(Size(db.node[y]) > maxDegree - 1)
    PROVE  Redistributed(db, f, n, x, LEAF_NODE, leftMergeLeaf(db, f, i, n, x, db.node[y], y))
<1> DEFINE N == View(db, x, n)
           left == db.node[y]
           a == JoinedLeaf(left, n)
           g == dropFromFather(db, f, j, x)
           M == Written(Written(db.node, y, EmptyNode(REMOVED_NODE)), x, a)
           r == leftMergeLeaf(db, f, i, n, x, left, y)
<1>1. Kid(f, x) /\ Kid(f, y) /\ x # y /\ Size(f) = m + 1
  BY KidAt
<1>2. /\ y \in DOMAIN db.node /\ y \in Nat /\ Filled(left) /\ IsNode(left, LEAF_NODE)
      /\ N[x] = n /\ N[y] = left /\ IsNode(n, LEAF_NODE)
  BY <1>1, InSetting
<1>3. Family(f, N, LEAF_NODE) /\ Stored(f) /\ Size(n) < maxDegree
  BY Zenon DEF Setting, Placed
<1>4. Size(n) \in Nat /\ Size(left) \in Nat /\ maxDegree - 1 <= Size(left)
  BY <1>2, FilledSize, NodeSize
<1>5. Size(n) + Size(left) \in Size(n) + 1 .. 2 * maxDegree - 1 /\ Size(left) + Size(n) = Size(n) + Size(left)
  BY <1>3, <1>4, MergeSizes
<1>6. f.keys[j] \in Nat /\ Cut(left.keys, f.keys[j], n.keys)
  <2>1. Pair(f, N, LEAF_NODE, RestKeys(f, j), RestChilds(f, j), j, y, f.keys[j], x)
    BY <1>3, Neighbours
  <2> QED
    BY <2>1, <1>2, PairCut
<1>7. Size(a) = Size(left) + Size(n)
  <2> HIDE DEF left
  <2> QED
    BY <1>2, <1>6, LeafJoined
<1>8. Dropped(g, f, j, x)
  BY DroppedFields DEF Dropped
<1>9. r = [this |-> a, father |-> g, db |-> markDelete(db, y)]
  BY Zenon DEF leftMergeLeaf, JoinedLeaf
<1>10. a.keys = left.keys \o n.keys
  <2> DEFINE ks == left.keys \o n.keys
             cs == SubSeq(left.childs, 1, Size(left)) \o n.childs
  <2>1. a = Node(LEAF_NODE, ks, cs)
    BY Zenon DEF JoinedLeaf
  <2> HIDE DEF a, ks, cs
  <2>2. a.keys = ks
    BY <2>1, NodeFields
  <2> QED
    BY <2>2, Zenon DEF ks
<1>11. left.keys \in Seq(Nat) /\ n.keys \in Seq(Nat) /\ m \in Nat /\ IsNode(f, INTERNAL_NODE)
  BY <1>2, Zenon DEF IsNode, KeyAt
<1>12. M[x] = JoinedLeaf(N[f.childs[j]], N[f.childs[j + 1]])
  <2>1. M[x] = a
    BY WrittenHere
  <2> QED
    BY <2>1, <1>2, Zenon
<1> HIDE DEF N, left, a, g, r
<1>13. Keeps(n, a)
  <2> DEFINE e == left.keys
  <2> HIDE DEF e
  <2>1. e \in Seq(Nat) /\ a.keys = e \o n.keys
    BY <1>10, <1>11, Zenon DEF e
  <2> QED
    BY <2>1, <1>11, KeepsJoined
<1>14. x \in {f.childs[j], f.childs[j + 1]}
  BY Zenon
<1>15. Len(g.keys) = m /\ KidsLeft(g, f, j, x)
  BY <1>8, <1>14, DropFacts
<1>16. \A o : Kid(g, o) <=> Kid(f, o) /\ o # y
  BY <1>1, <1>15, Zenon DEF KidsLeft
<1>17. Size(g) = Size(f) - 1
  BY <1>1, <1>11, <1>15, LessOne
<1>18. x \in DOMAIN M /\ Elsewhere(f, N, M, f.childs[j], f.childs[j + 1])
  <2>1. Holding(f, N, M, y, EmptyNode(REMOVED_NODE), x, a)
    BY <1>1, PairViews DEF N
  <2> QED
    BY <2>1, Zenon DEF Holding
<1>19. Preserved(f, N, LEAF_NODE, g, M)
  <2> HIDE DEF M
  <2> QED
    BY <1>3, <1>8, <1>12, <1>14, <1>18, LeafMerged
<1>20. Preserved(f, View(db, x, n), LEAF_NODE, g, Written(Written(db.node, y, EmptyNode(REMOVED_NODE)), x, a))
  BY <1>19, Zenon DEF N
<1>21. Size(a) \in Size(n) + 1 .. 2 * maxDegree - 1
  BY <1>5, <1>7, Zenon
<1>22. Redistributed(db, f, n, x, LEAF_NODE, r)
  BY <1>1, <1>9, <1>13, <1>16, <1>17, <1>20, <1>21, MergeLeaves
<1> QED
  BY <1>22, Zenon DEF r, left

\* rightMergeLeaf: a leaf takes all of its right sibling.
LEMMA RightMergeLeaf ==
    ASSUME NEW db, NEW f, NEW n, NEW x, Setting(db, f, n, x, LEAF_NODE), NEW m, NEW i,
           KeyAt(f, m, i),
           x = f.childs[i], NEW y, y = f.childs[i + 1], ~(Size(db.node[y]) > maxDegree - 1)
    PROVE  Redistributed(db, f, n, x, LEAF_NODE, rightMergeLeaf(db, f, i, n, x, db.node[y], y))
<1> DEFINE N == View(db, x, n)
           right == db.node[y]
           a == JoinedLeaf(n, right)
           g == dropFromFather(db, f, i, x)
           M == Written(Written(db.node, y, EmptyNode(REMOVED_NODE)), x, a)
           r == rightMergeLeaf(db, f, i, n, x, right, y)
<1>1. Kid(f, x) /\ Kid(f, y) /\ x # y /\ Size(f) = m + 1
  BY KidAt
<1>2. /\ y \in DOMAIN db.node /\ y \in Nat /\ Filled(right) /\ IsNode(right, LEAF_NODE)
      /\ N[x] = n /\ N[y] = right /\ IsNode(n, LEAF_NODE)
  BY <1>1, InSetting
<1>3. Family(f, N, LEAF_NODE) /\ Stored(f) /\ Size(n) < maxDegree
  BY Zenon DEF Setting, Placed
<1>4. Size(n) \in Nat /\ Size(right) \in Nat /\ maxDegree - 1 <= Size(right)
  BY <1>2, FilledSize, NodeSize
<1>5. Size(n) + Size(right) \in Size(n) + 1 .. 2 * maxDegree - 1 /\ Size(right) + Size(n) = Size(n) + Size(right)
  BY <1>3, <1>4, MergeSizes
<1>6. f.keys[i] \in Nat /\ Cut(n.keys, f.keys[i], right.keys)
  <2>1. Pair(f, N, LEAF_NODE, RestKeys(f, i), RestChilds(f, i), i, x, f.keys[i], y)
    BY <1>3, Neighbours
  <2> QED
    BY <2>1, <1>2, PairCut
<1>7. Size(a) = Size(n) + Size(right)
  <2> HIDE DEF right
  <2> QED
    BY <1>2, <1>6, LeafJoined
<1>8. Dropped(g, f, i, x)
  BY DroppedFields DEF Dropped
<1>9. r = [this |-> a, father |-> g, db |-> markDelete(db, y)]
  BY Zenon DEF rightMergeLeaf, JoinedLeaf
<1>10. a.keys = n.keys \o right.keys
  <2> DEFINE ks == n.keys \o right.keys
             cs == SubSeq(n.childs, 1, Size(n)) \o right.childs
  <2>1. a = Node(LEAF_NODE, ks, cs)
    BY Zenon DEF JoinedLeaf
  <2> HIDE DEF a, ks, cs
  <2>2. a.keys = ks
    BY <2>1, NodeFields
  <2> QED
    BY <2>2, Zenon DEF ks
<1>11. right.keys \in Seq(Nat) /\ n.keys \in Seq(Nat) /\ m \in Nat /\ IsNode(f, INTERNAL_NODE)
  BY <1>2, Zenon DEF IsNode, KeyAt
<1>12. M[x] = JoinedLeaf(N[f.childs[i]], N[f.childs[i + 1]])
  <2>1. M[x] = a
    BY WrittenHere
  <2> QED
    BY <2>1, <1>2, Zenon
<1> HIDE DEF N, right, a, g, r
<1>13. Keeps(n, a)
  <2> DEFINE e == right.keys
  <2> HIDE DEF e
  <2>1. e \in Seq(Nat) /\ a.keys = n.keys \o e
    BY <1>10, <1>11, Zenon DEF e
  <2> QED
    BY <2>1, <1>11, KeepsJoined
<1>14. x \in {f.childs[i], f.childs[i + 1]}
  BY Zenon
<1>15. Len(g.keys) = m /\ KidsLeft(g, f, i, x)
  BY <1>8, <1>14, DropFacts
<1>16. \A o : Kid(g, o) <=> Kid(f, o) /\ o # y
  BY <1>1, <1>15, Zenon DEF KidsLeft
<1>17. Size(g) = Size(f) - 1
  BY <1>1, <1>11, <1>15, LessOne
<1>18. x \in DOMAIN M /\ Elsewhere(f, N, M, f.childs[i], f.childs[i + 1])
  <2>1. Holding(f, N, M, x, a, y, EmptyNode(REMOVED_NODE))
    BY <1>1, PairViews DEF N
  <2> QED
    BY <2>1, Zenon DEF Holding
<1>19. Preserved(f, N, LEAF_NODE, g, M)
  <2> HIDE DEF M
  <2> QED
    BY <1>3, <1>8, <1>12, <1>14, <1>18, LeafMerged
<1>20. Preserved(f, View(db, x, n), LEAF_NODE, g, Written(Written(db.node, y, EmptyNode(REMOVED_NODE)), x, a))
  BY <1>19, Zenon DEF N
<1>21. Size(a) \in Size(n) + 1 .. 2 * maxDegree - 1
  BY <1>5, <1>7, Zenon
<1>22. Redistributed(db, f, n, x, LEAF_NODE, r)
  BY <1>1, <1>9, <1>13, <1>16, <1>17, <1>20, <1>21, MergeLeaves
<1> QED
  BY <1>22, Zenon DEF r, right

----------------------------------------------------------------------------
(* Internal nodes *)

\* swapCounterClockWiseItn: an internal node takes the first child of its right
\* sibling.
LEMMA CounterClockWiseItn ==
    ASSUME NEW db, NEW f, NEW n, NEW x, Setting(db, f, n, x, INTERNAL_NODE), NEW m, NEW i,
           KeyAt(f, m, i),
           x = f.childs[i], NEW y, y = f.childs[i + 1], Size(db.node[y]) > maxDegree - 1
    PROVE  Redistributed(db, f, n, x, INTERNAL_NODE, swapCounterClockWiseItn(db, f, i, n, x, db.node[y], y))
<1> DEFINE N == View(db, x, n)
           right == db.node[y]
           a == ItnLeftU(n, f.keys[i], right)
           b == ItnLeftV(right)
           z == Head(right.keys)
           g == [f EXCEPT !.keys[i] = z]
           w == JoinedItn(n, f.keys[i], right)
           M == Written(Written(db.node, y, b), x, a)
           r == swapCounterClockWiseItn(db, f, i, n, x, right, y)
           d == Size(right) - 1
<1>1. Kid(f, x) /\ Kid(f, y) /\ x # y
  BY KidAt
<1>2. /\ y \in DOMAIN db.node /\ y \in Nat /\ Filled(right) /\ IsNode(right, INTERNAL_NODE)
      /\ N[x] = n /\ N[y] = right /\ IsNode(n, INTERNAL_NODE)
  BY <1>1, InSetting
<1>3. Family(f, N, INTERNAL_NODE) /\ Stored(f) /\ Size(n) < maxDegree
  BY Zenon DEF Setting, Placed
<1>4. Size(n) \in Nat /\ Size(right) \in Nat /\ Size(right) <= 2 * maxDegree - 1
  BY <1>2, FilledSize, NodeSize
<1>5. /\ Size(n) + 1 \in Size(n) + 1 .. 2 * maxDegree - 1
      /\ d \in Nat /\ d \in maxDegree - 1 .. 2 * maxDegree - 1 /\ d >= 1 /\ Size(right) = d + 1
  BY <1>3, <1>4, SwapSizes
<1>6. f.keys[i] \in Nat /\ Apart(n.keys, f.keys[i], right.keys)
  <2>1. Pair(f, N, INTERNAL_NODE, RestKeys(f, i), RestChilds(f, i), i, x, f.keys[i], y)
    BY <1>3, Neighbours
  <2> QED
    BY <2>1, <1>2, PairCut
<1>7. IsNode(w, INTERNAL_NODE) /\ ItnJoin(w, n, f.keys[i], right)
  <2> HIDE DEF right
  <2> QED
    BY <1>2, <1>6, ItnJoined
<1> HIDE DEF N, w, d
<1>8. /\ ItnPair(w, a, z, b) /\ Size(a) = Size(n) + 1 /\ Size(b) = d
      /\ isExisting(right.keys, z)
  <2> HIDE DEF right
  <2> QED
    BY <1>2, <1>5, <1>6, <1>7, ItnLeft
<1>9. a.keys = Append(n.keys, f.keys[i])
  <2> DEFINE ks == Append(n.keys, f.keys[i])
             cs == Append(n.childs, Head(right.childs))
  <2>1. a = Node(INTERNAL_NODE, ks, cs)
    BY Zenon DEF ItnLeftU
  <2> HIDE DEF a, ks, cs
  <2>2. a.keys = ks
    BY <2>1, NodeFields
  <2> QED
    BY <2>2, Zenon DEF ks
<1>10. r = [this |-> a, father |-> g, db |-> flushNodePageToFile(db, b, y)]
  BY Zenon DEF swapCounterClockWiseItn, ItnLeftU, ItnLeftV
<1>11. KeyReplaced(g, f, i, z)
  BY Zenon DEF KeyReplaced
<1>12. z \in Nat /\ right.keys \in Seq(Nat) /\ n.keys \in Seq(Nat) /\ f.keys \in Seq(Nat)
  BY <1>2, <1>3, <1>8, Zenon DEF ItnPair, IsNode, Family
<1> HIDE DEF right, a, b, z, g, r
<1>13. f.keys[i] < z
  <2> DEFINE s == right.keys
             e == f.keys[i]
  <2>1. s \in Seq(Nat) /\ Len(s) >= 1
    BY <1>5, <1>12 DEF Size
  <2>2. \A q \in 1 .. Len(s) : e < s[q]
    BY <1>6, Zenon DEF Apart
  <2>3. z = Head(s)
    BY Zenon DEF z, right
  <2> HIDE DEF s, e
  <2>4. e < Head(s)
    BY <2>1, <2>2
  <2> QED
    BY <2>3, <2>4, Zenon DEF e
<1>14. Keeps(n, a)
  <2> DEFINE e == f.keys[i]
  <2> HIDE DEF e
  <2>1. e \in Nat /\ a.keys = Append(n.keys, e)
    BY <1>6, <1>9, Zenon DEF e
  <2> QED
    BY <2>1, <1>12, KeepsAppended
<1>15. g.childs = f.childs /\ Len(g.keys) = Len(f.keys)
  BY <1>3, <1>11, <1>12, ReplacedFields
<1>16. Holding(f, N, M, x, a, y, b)
  BY <1>1, PairViews DEF N
<1>17. Among(f, N, INTERNAL_NODE, i, f.keys[i]) /\ Among(f, N, INTERNAL_NODE, i, z)
  BY <1>2, <1>6, <1>8, <1>12, Zenon DEF Among, Holds
<1>18. Preserved(f, N, INTERNAL_NODE, g, M)
  <2>1. Holding(f, N, M, f.childs[i], a, f.childs[i + 1], b)
    BY <1>16, Zenon
  <2>2. ItnJoin(w, N[f.childs[i]], f.keys[i], N[f.childs[i + 1]])
    BY <1>2, <1>7, Zenon
  <2> HIDE DEF M
  <2> QED
    BY <2>1, <2>2, <1>3, <1>7, <1>8, <1>11, <1>13, <1>17, ItnSwapped
<1>19. Filled(b) /\ Size(a) \in Size(n) + 1 .. 2 * maxDegree - 1
  BY <1>5, <1>8, Zenon DEF Filled
<1>20. Preserved(f, View(db, x, n), INTERNAL_NODE, g, Written(Written(db.node, y, b), x, a))
  BY <1>18, Zenon DEF N
<1>21. Redistributed(db, f, n, x, INTERNAL_NODE, r)
  BY <1>1, <1>10, <1>14, <1>15, <1>19, <1>20, SwapLeaves
<1> QED
  BY <1>21, Zenon DEF r, right

\* swapClockWiseItn: an internal node takes the last child of its left sibling.
LEMMA ClockWiseItn ==
    ASSUME NEW db, NEW f, NEW n, NEW x, Setting(db, f, n, x, INTERNAL_NODE), NEW m, NEW j,
           KeyAt(f, m, j),
           NEW i, i - 1 = j, x = f.childs[j + 1], NEW y, y = f.childs[j],
           Size(db.node[y]) > maxDegree - 1
    PROVE  Redistributed(db, f, n, x, INTERNAL_NODE, swapClockWiseItn(db, f, i, n, x, db.node[y], y))
<1> DEFINE N == View(db, x, n)
           left == db.node[y]
           a == ItnRightV(left, f.keys[j], n)
           b == ItnRightU(left)
           z == Last(left.keys)
           g == [f EXCEPT !.keys[j] = z]
           w == JoinedItn(left, f.keys[j], n)
           M == Written(Written(db.node, y, b), x, a)
           r == swapClockWiseItn(db, f, i, n, x, left, y)
           d == Size(left) - 1
<1>1. Kid(f, x) /\ Kid(f, y) /\ x # y
  BY KidAt
<1>2. /\ y \in DOMAIN db.node /\ y \in Nat /\ Filled(left) /\ IsNode(left, INTERNAL_NODE)
      /\ N[x] = n /\ N[y] = left /\ IsNode(n, INTERNAL_NODE)
  BY <1>1, InSetting
<1>3. Family(f, N, INTERNAL_NODE) /\ Stored(f) /\ Size(n) < maxDegree
  BY Zenon DEF Setting, Placed
<1>4. Size(n) \in Nat /\ Size(left) \in Nat /\ Size(left) <= 2 * maxDegree - 1
  BY <1>2, FilledSize, NodeSize
<1>5. /\ Size(n) + 1 \in Size(n) + 1 .. 2 * maxDegree - 1
      /\ d \in Nat /\ d \in maxDegree - 1 .. 2 * maxDegree - 1 /\ d >= 1 /\ Size(left) = d + 1
  BY <1>3, <1>4, SwapSizes
<1>6. f.keys[j] \in Nat /\ Apart(left.keys, f.keys[j], n.keys)
  <2>1. Pair(f, N, INTERNAL_NODE, RestKeys(f, j), RestChilds(f, j), j, y, f.keys[j], x)
    BY <1>3, Neighbours
  <2> QED
    BY <2>1, <1>2, PairCut
<1>7. IsNode(w, INTERNAL_NODE) /\ ItnJoin(w, left, f.keys[j], n)
  <2> HIDE DEF left
  <2> QED
    BY <1>2, <1>6, ItnJoined
<1> HIDE DEF N, w, d
<1>8. /\ ItnPair(w, b, z, a) /\ Size(a) = Size(n) + 1 /\ Size(b) = d
      /\ isExisting(left.keys, left.keys[1]) /\ isExisting(left.keys, z) /\ left.keys[1] < z
  <2> HIDE DEF left
  <2> QED
    BY <1>2, <1>5, <1>6, <1>7, ItnRight
<1>9. a.keys = <<f.keys[j]>> \o n.keys
  <2> DEFINE ks == <<f.keys[j]>> \o n.keys
             cs == <<Last(left.childs)>> \o n.childs
  <2>1. a = Node(INTERNAL_NODE, ks, cs)
    BY Zenon DEF ItnRightV
  <2> HIDE DEF a, ks, cs
  <2>2. a.keys = ks
    BY <2>1, NodeFields
  <2> QED
    BY <2>2, Zenon DEF ks
<1>10. r = [this |-> a, father |-> g, db |-> flushNodePageToFile(db, b, y)]
  BY Zenon DEF swapClockWiseItn, ItnRightU, ItnRightV
<1>11. KeyReplaced(g, f, j, z)
  BY Zenon DEF KeyReplaced
<1>12. z \in Nat /\ left.keys \in Seq(Nat) /\ n.keys \in Seq(Nat) /\ f.keys \in Seq(Nat)
  BY <1>2, <1>3, <1>8, Zenon DEF ItnPair, IsNode, Family
<1> HIDE DEF left, a, b, z, g, r
<1>13. left.keys[1] \in Nat /\ <<f.keys[j]>> \in Seq(Nat)
  <2> DEFINE s == left.keys
  <2>1. s \in Seq(Nat) /\ Len(s) >= 1
    BY <1>5, <1>12 DEF Size
  <2> HIDE DEF s
  <2>2. s[1] \in Nat
    BY <2>1
  <2>3. <<f.keys[j]>> \in Seq(Nat)
    BY <1>6, Singleton
  <2> QED
    BY <2>2, <2>3, Zenon DEF s
<1>14. Keeps(n, a)
  <2> DEFINE e == <<f.keys[j]>>
  <2> HIDE DEF e
  <2>1. e \in Seq(Nat) /\ a.keys = e \o n.keys
    BY <1>9, <1>13, Zenon DEF e
  <2> QED
    BY <2>1, <1>12, KeepsJoined
<1>15. g.childs = f.childs /\ Len(g.keys) = Len(f.keys)
  BY <1>3, <1>11, <1>12, ReplacedFields
<1>16. Holding(f, N, M, y, b, x, a)
  BY <1>1, PairViews DEF N
<1>17. Among(f, N, INTERNAL_NODE, j, left.keys[1]) /\ Among(f, N, INTERNAL_NODE, j, z)
  BY <1>2, <1>8, <1>12, <1>13, Zenon DEF Among, Holds
<1>18. Preserved(f, N, INTERNAL_NODE, g, M)
  <2>1. Holding(f, N, M, f.childs[j], b, f.childs[j + 1], a)
    BY <1>16, Zenon
  <2>2. ItnJoin(w, N[f.childs[j]], f.keys[j], N[f.childs[j + 1]])
    BY <1>2, <1>7, Zenon
  <2> HIDE DEF M
  <2> QED
    BY <2>1, <2>2, <1>3, <1>7, <1>8, <1>11, <1>17, ItnSwapped
<1>19. Filled(b) /\ Size(a) \in Size(n) + 1 .. 2 * maxDegree - 1
  BY <1>5, <1>8, Zenon DEF Filled
<1>20. Preserved(f, View(db, x, n), INTERNAL_NODE, g, Written(Written(db.node, y, b), x, a))
  BY <1>18, Zenon DEF N
<1>21. Redistributed(db, f, n, x, INTERNAL_NODE, r)
  BY <1>1, <1>10, <1>14, <1>15, <1>19, <1>20, SwapLeaves
<1> QED
  BY <1>21, Zenon DEF r, left

\* leftMergeItn: an internal node takes all of its left sibling.
LEMMA LeftMergeItn ==
    ASSUME NEW db, NEW f, NEW n, NEW x, Setting(db, f, n, x, INTERNAL_NODE), NEW m, NEW j,
           KeyAt(f, m, j),
           NEW i, i - 1 = j, x = f.childs[j + 1], NEW y, y = f.childs[j],
           ~(Size(db.node[y]) > maxDegree - 1)
    PROVE  Redistributed(db, f, n, x, INTERNAL_NODE, leftMergeItn(db, f, i, n, x, db.node[y], y))
<1> DEFINE N == View(db, x, n)
           left == db.node[y]
           a == JoinedItn(left, f.keys[j], n)
           g == dropFromFather(db, f, j, x)
           M == Written(Written(db.node, y, EmptyNode(REMOVED_NODE)), x, a)
           r == leftMergeItn(db, f, i, n, x, left, y)
<1>1. Kid(f, x) /\ Kid(f, y) /\ x # y /\ Size(f) = m + 1
  BY KidAt
<1>2. /\ y \in DOMAIN db.node /\ y \in Nat /\ Filled(left) /\ IsNode(left, INTERNAL_NODE)
      /\ N[x] = n /\ N[y] = left /\ IsNode(n, INTERNAL_NODE)
  BY <1>1, InSetting
<1>3. Family(f, N, INTERNAL_NODE) /\ Stored(f) /\ Size(n) < maxDegree
  BY Zenon DEF Setting, Placed
<1>4. Size(n) \in Nat /\ Size(left) \in Nat /\ maxDegree - 1 <= Size(left)
  BY <1>2, FilledSize, NodeSize
<1>5. /\ Size(n) + Size(left) + 1 \in Size(n) + 1 .. 2 * maxDegree - 1
      /\ Size(left) + Size(n) + 1 = Size(n) + Size(left) + 1
  BY <1>3, <1>4, MergeSizes
<1>6. f.keys[j] \in Nat /\ Apart(left.keys, f.keys[j], n.keys)
  <2>1. Pair(f, N, INTERNAL_NODE, RestKeys(f, j), RestChilds(f, j), j, y, f.keys[j], x)
    BY <1>3, Neighbours
  <2> QED
    BY <2>1, <1>2, PairCut
<1>7. Size(a) = Size(left) + Size(n) + 1
  <2> HIDE DEF left
  <2> QED
    BY <1>2, <1>6, ItnJoined
<1>8. Dropped(g, f, j, x)
  BY DroppedFields DEF Dropped
<1>9. r = [this |-> a, father |-> g, db |-> markDelete(db, y)]
  BY Zenon DEF leftMergeItn, JoinedItn
<1>10. a.keys = left.keys \o <<f.keys[j]>> \o n.keys
  <2> DEFINE ks == left.keys \o <<f.keys[j]>> \o n.keys
             cs == left.childs \o n.childs
  <2>1. a = Node(INTERNAL_NODE, ks, cs)
    BY Zenon DEF JoinedItn
  <2> HIDE DEF a, ks, cs
  <2>2. a.keys = ks
    BY <2>1, NodeFields
  <2> QED
    BY <2>2, Zenon DEF ks
<1>11. left.keys \in Seq(Nat) /\ n.keys \in Seq(Nat) /\ m \in Nat /\ IsNode(f, INTERNAL_NODE)
  BY <1>2, Zenon DEF IsNode, KeyAt
<1>12. M[x] = JoinedItn(N[f.childs[j]], f.keys[j], N[f.childs[j + 1]])
  <2>1. M[x] = a
    BY WrittenHere
  <2> QED
    BY <2>1, <1>2, Zenon
<1> HIDE DEF N, left, a, g, r
<1>13. Keeps(n, a)
  <2> DEFINE l == left.keys
             e == <<f.keys[j]>>
  <2>1. e \in Seq(Nat)
    BY <1>6, Singleton
  <2>2. l \in Seq(Nat) /\ a.keys = (l \o e) \o n.keys
    BY <1>10, <1>11, Zenon
  <2> HIDE DEF l, e
  <2>3. l \o e \in Seq(Nat)
    BY <2>1, <2>2, ConcatRange
  <2> DEFINE t == l \o e
  <2> HIDE DEF t
  <2>4. t \in Seq(Nat) /\ a.keys = t \o n.keys
    BY <2>2, <2>3, Zenon DEF t
  <2> QED
    BY <2>4, <1>11, KeepsJoined
<1>14. x \in {f.childs[j], f.childs[j + 1]}
  BY Zenon
<1>15. Len(g.keys) = m /\ KidsLeft(g, f, j, x)
  BY <1>8, <1>14, DropFacts
<1>16. \A o : Kid(g, o) <=> Kid(f, o) /\ o # y
  BY <1>1, <1>15, Zenon DEF KidsLeft
<1>17. Size(g) = Size(f) - 1
  BY <1>1, <1>11, <1>15, LessOne
<1>18. x \in DOMAIN M /\ Elsewhere(f, N, M, f.childs[j], f.childs[j + 1])
  <2>1. Holding(f, N, M, y, EmptyNode(REMOVED_NODE), x, a)
    BY <1>1, PairViews DEF N
  <2> QED
    BY <2>1, Zenon DEF Holding
<1>19. Preserved(f, N, INTERNAL_NODE, g, M)
  <2> HIDE DEF M
  <2> QED
    BY <1>3, <1>8, <1>12, <1>14, <1>18, ItnMerged
<1>20. Preserved(f, View(db, x, n), INTERNAL_NODE, g, Written(Written(db.node, y, EmptyNode(REMOVED_NODE)), x, a))
  BY <1>19, Zenon DEF N
<1>21. Size(a) \in Size(n) + 1 .. 2 * maxDegree - 1
  BY <1>5, <1>7, Zenon
<1>22. Redistributed(db, f, n, x, INTERNAL_NODE, r)
  BY <1>1, <1>9, <1>13, <1>16, <1>17, <1>20, <1>21, MergeLeaves
<1> QED
  BY <1>22, Zenon DEF r, left

\* rightMergeItn: an internal node takes all of its right sibling.
LEMMA RightMergeItn ==
    ASSUME NEW db, NEW f, NEW n, NEW x, Setting(db, f, n, x, INTERNAL_NODE), NEW m, NEW i,
           KeyAt(f, m, i),
           x = f.childs[i], NEW y, y = f.childs[i + 1], ~(Size(db.node[y]) > maxDegree - 1)
    PROVE  Redistributed(db, f, n, x, INTERNAL_NODE, rightMergeItn(db, f, i, n, x, db.node[y], y))
<1> DEFINE N == View(db, x, n)
           right == db.node[y]
           a == JoinedItn(n, f.keys[i], right)
           g == dropFromFather(db, f, i, x)
           M == Written(Written(db.node, y, EmptyNode(REMOVED_NODE)), x, a)
           r == rightMergeItn(db, f, i, n, x, right, y)
<1>1. Kid(f, x) /\ Kid(f, y) /\ x # y /\ Size(f) = m + 1
  BY KidAt
<1>2. /\ y \in DOMAIN db.node /\ y \in Nat /\ Filled(right) /\ IsNode(right, INTERNAL_NODE)
      /\ N[x] = n /\ N[y] = right /\ IsNode(n, INTERNAL_NODE)
  BY <1>1, InSetting
<1>3. Family(f, N, INTERNAL_NODE) /\ Stored(f) /\ Size(n) < maxDegree
  BY Zenon DEF Setting, Placed
<1>4. Size(n) \in Nat /\ Size(right) \in Nat /\ maxDegree - 1 <= Size(right)
  BY <1>2, FilledSize, NodeSize
<1>5. /\ Size(n) + Size(right) + 1 \in Size(n) + 1 .. 2 * maxDegree - 1
      /\ Size(right) + Size(n) + 1 = Size(n) + Size(right) + 1
  BY <1>3, <1>4, MergeSizes
<1>6. f.keys[i] \in Nat /\ Apart(n.keys, f.keys[i], right.keys)
  <2>1. Pair(f, N, INTERNAL_NODE, RestKeys(f, i), RestChilds(f, i), i, x, f.keys[i], y)
    BY <1>3, Neighbours
  <2> QED
    BY <2>1, <1>2, PairCut
<1>7. Size(a) = Size(n) + Size(right) + 1
  <2> HIDE DEF right
  <2> QED
    BY <1>2, <1>6, ItnJoined
<1>8. Dropped(g, f, i, x)
  BY DroppedFields DEF Dropped
<1>9. r = [this |-> a, father |-> g, db |-> markDelete(db, y)]
  BY Zenon DEF rightMergeItn, JoinedItn
<1>10. a.keys = n.keys \o <<f.keys[i]>> \o right.keys
  <2> DEFINE ks == n.keys \o <<f.keys[i]>> \o right.keys
             cs == n.childs \o right.childs
  <2>1. a = Node(INTERNAL_NODE, ks, cs)
    BY Zenon DEF JoinedItn
  <2> HIDE DEF a, ks, cs
  <2>2. a.keys = ks
    BY <2>1, NodeFields
  <2> QED
    BY <2>2, Zenon DEF ks
<1>11. right.keys \in Seq(Nat) /\ n.keys \in Seq(Nat) /\ m \in Nat /\ IsNode(f, INTERNAL_NODE)
  BY <1>2, Zenon DEF IsNode, KeyAt
<1>12. M[x] = JoinedItn(N[f.childs[i]], f.keys[i], N[f.childs[i + 1]])
  <2>1. M[x] = a
    BY WrittenHere
  <2> QED
    BY <2>1, <1>2, Zenon
<1> HIDE DEF N, right, a, g, r
<1>13. Keeps(n, a)
  <2> DEFINE l == n.keys
             e == <<f.keys[i]>>
             q == right.keys
  <2>1. e \in Seq(Nat)
    BY <1>6, Singleton
  <2>2. l \in Seq(Nat) /\ q \in Seq(Nat) /\ a.keys = (l \o e) \o q
    BY <1>10, <1>11, Zenon
  <2>3. SUFFICES \A k : isExisting(l, k) => isExisting((l \o e) \o q, k)
    BY <2>2, Zenon DEF Keeps
  <2> HIDE DEF l, e, q
  <2>4. l \o e \in Seq(Nat) /\ \A k : isExisting(l, k) \/ isExisting(e, k) => isExisting(l \o e, k)
    BY <2>1, <2>2, ConcatRange
  <2> DEFINE t == l \o e
  <2> HIDE DEF t
  <2>5. \A k : isExisting(t, k) \/ isExisting(q, k) => isExisting(t \o q, k)
    BY <2>2, <2>4, ConcatRange DEF t
  <2> QED
    BY <2>4, <2>5, Zenon DEF t
<1>14. x \in {f.childs[i], f.childs[i + 1]}
  BY Zenon
<1>15. Len(g.keys) = m /\ KidsLeft(g, f, i, x)
  BY <1>8, <1>14, DropFacts
<1>16. \A o : Kid(g, o) <=> Kid(f, o) /\ o # y
  BY <1>1, <1>15, Zenon DEF KidsLeft
<1>17. Size(g) = Size(f) - 1
  BY <1>1, <1>11, <1>15, LessOne
<1>18. x \in DOMAIN M /\ Elsewhere(f, N, M, f.childs[i], f.childs[i + 1])
  <2>1. Holding(f, N, M, x, a, y, EmptyNode(REMOVED_NODE))
    BY <1>1, PairViews DEF N
  <2> QED
    BY <2>1, Zenon DEF Holding
<1>19. Preserved(f, N, INTERNAL_NODE, g, M)
  <2> HIDE DEF M
  <2> QED
    BY <1>3, <1>8, <1>12, <1>14, <1>18, ItnMerged
<1>20. Preserved(f, View(db, x, n), INTERNAL_NODE, g, Written(Written(db.node, y, EmptyNode(REMOVED_NODE)), x, a))
  BY <1>19, Zenon DEF N
<1>21. Size(a) \in Size(n) + 1 .. 2 * maxDegree - 1
  BY <1>5, <1>7, Zenon
<1>22. Redistributed(db, f, n, x, INTERNAL_NODE, r)
  BY <1>1, <1>9, <1>13, <1>16, <1>17, <1>20, <1>21, MergeLeaves
<1> QED
  BY <1>22, Zenon DEF r, right

----------------------------------------------------------------------------
(* redistributeFromLeaf and redistributeFromInternal *)

\* redistributeFromLeaf, whichever sibling it turns to.
LEMMA LeafRedistribution ==
    ASSUME NEW db, NEW f, NEW n, NEW x, Setting(db, f, n, x, LEAF_NODE), Len(f.keys) >= 1,
           NEW i \in 1 .. Len(f.childs), x = f.childs[i]
    PROVE  Redistributed(db, f, n, x, LEAF_NODE, redistributeFromLeaf(db, f, i, n, x))
<1> DEFINE m == Len(f.keys) - 1
           how == redistribution(db, f, i)
           r == redistributeFromLeaf(db, f, i, n, x)
<1>1. IsNode(f, INTERNAL_NODE) /\ Distinct(f.childs)
  BY Zenon DEF Setting, Placed, Family
<1>2. m \in Nat /\ Len(f.keys) = m + 1 /\ i \in 1 .. m + 2 /\ Size(f) = m + 1
  BY <1>1 DEF IsNode, Size
<1> HIDE DEF m
<1>3. CASE i <= Size(f) /\ Size(db.node[f.childs[i + 1]]) > maxDegree - 1
  <2> DEFINE y == f.childs[i + 1]
  <2>1. how = "counterClockWise"
    BY <1>3, Zenon DEF redistribution
  <2>2. i \in 1 .. m + 1
    BY <1>2, <1>3
  <2>3. KeyAt(f, m, i)
    BY <2>2, <1>1, <1>2, Zenon DEF KeyAt
  <2> HIDE DEF how
  <2>4. r = swapCounterClockWiseLeaf(db, f, i, n, x, db.node[y], y)
    BY <2>1 DEF redistributeFromLeaf, how
  <2>5. Redistributed(db, f, n, x, LEAF_NODE, swapCounterClockWiseLeaf(db, f, i, n, x, db.node[y], y))
    <3>1. y = f.childs[i + 1] /\ Size(db.node[y]) > maxDegree - 1
      BY <1>3, Zenon
    <3> HIDE DEF y
    <3> QED
      BY <3>1, <2>3, CounterClockWiseLeaf
  <2> QED
    BY <2>4, <2>5, Zenon
<1>4. CASE i > 1 /\ ~(i <= Size(f) /\ Size(db.node[f.childs[i + 1]]) > maxDegree - 1)
  <2> DEFINE j == i - 1
             y == f.childs[i - 1]
  <2>1. j \in 1 .. m + 1 /\ i = j + 1 /\ i - 1 = j
    BY <1>2, <1>4
  <2>2. KeyAt(f, m, j)
    BY <2>1, <1>1, <1>2, Zenon DEF KeyAt
  <2>3. x = f.childs[j + 1] /\ y = f.childs[j]
    BY <2>1, Zenon
  <2>4. CASE Size(db.node[y]) > maxDegree - 1
    <3>1. how = "clockWise"
      BY <1>4, <2>4, Zenon DEF redistribution
    <3> HIDE DEF how, j
    <3>2. r = swapClockWiseLeaf(db, f, i, n, x, db.node[y], y)
      BY <3>1 DEF redistributeFromLeaf, how
    <3> HIDE DEF y
    <3>3. Redistributed(db, f, n, x, LEAF_NODE, swapClockWiseLeaf(db, f, i, n, x, db.node[y], y))
      BY <2>1, <2>2, <2>3, <2>4, ClockWiseLeaf
    <3> QED
      BY <3>2, <3>3, Zenon
  <2>5. CASE ~(Size(db.node[y]) > maxDegree - 1)
    <3>1. how = "leftMerge"
      BY <1>4, <2>5, Zenon DEF redistribution
    <3> HIDE DEF how, j
    <3>2. r = leftMergeLeaf(db, f, i, n, x, db.node[y], y)
      BY <3>1 DEF redistributeFromLeaf, how
    <3> HIDE DEF y
    <3>3. Redistributed(db, f, n, x, LEAF_NODE, leftMergeLeaf(db, f, i, n, x, db.node[y], y))
      BY <2>1, <2>2, <2>3, <2>5, LeftMergeLeaf
    <3> QED
      BY <3>2, <3>3, Zenon
  <2> QED
    BY <2>4, <2>5, Zenon
<1>5. CASE ~(i > 1) /\ ~(i <= Size(f) /\ Size(db.node[f.childs[i + 1]]) > maxDegree - 1)
  <2> DEFINE y == f.childs[i + 1]
  <2>1. i \in 1 .. m + 1 /\ i <= Size(f)
    BY <1>2, <1>5
  <2>2. KeyAt(f, m, i) /\ y = f.childs[i + 1] /\ ~(Size(db.node[y]) > maxDegree - 1)
    BY <2>1, <1>1, <1>2, <1>5, Zenon DEF KeyAt
  <2>3. how = "rightMerge"
    BY <1>5, Zenon DEF redistribution
  <2> HIDE DEF how
  <2>4. r = rightMergeLeaf(db, f, i, n, x, db.node[y], y)
    BY <2>3 DEF redistributeFromLeaf, how
  <2> HIDE DEF y
  <2>5. Redistributed(db, f, n, x, LEAF_NODE, rightMergeLeaf(db, f, i, n, x, db.node[y], y))
    BY <2>2, RightMergeLeaf
  <2> QED
    BY <2>4, <2>5, Zenon
<1> QED
  BY <1>3, <1>4, <1>5, Zenon

\* redistributeFromInternal, whichever sibling it turns to.
LEMMA InternalRedistribution ==
    ASSUME NEW db, NEW f, NEW n, NEW x, Setting(db, f, n, x, INTERNAL_NODE), Len(f.keys) >= 1,
           NEW i \in 1 .. Len(f.childs), x = f.childs[i]
    PROVE  Redistributed(db, f, n, x, INTERNAL_NODE, redistributeFromInternal(db, f, i, n, x))
<1> DEFINE m == Len(f.keys) - 1
           how == redistribution(db, f, i)
           r == redistributeFromInternal(db, f, i, n, x)
<1>1. IsNode(f, INTERNAL_NODE) /\ Distinct(f.childs)
  BY Zenon DEF Setting, Placed, Family
<1>2. m \in Nat /\ Len(f.keys) = m + 1 /\ i \in 1 .. m + 2 /\ Size(f) = m + 1
  BY <1>1 DEF IsNode, Size
<1> HIDE DEF m
<1>3. CASE i <= Size(f) /\ Size(db.node[f.childs[i + 1]]) > maxDegree - 1
  <2> DEFINE y == f.childs[i + 1]
  <2>1. how = "counterClockWise"
    BY <1>3, Zenon DEF redistribution
  <2>2. i \in 1 .. m + 1
    BY <1>2, <1>3
  <2>3. KeyAt(f, m, i)
    BY <2>2, <1>1, <1>2, Zenon DEF KeyAt
  <2> HIDE DEF how
  <2>4. r = swapCounterClockWiseItn(db, f, i, n, x, db.node[y], y)
    BY <2>1 DEF redistributeFromInternal, how
  <2>5. Redistributed(db, f, n, x, INTERNAL_NODE, swapCounterClockWiseItn(db, f, i, n, x, db.node[y], y))
    <3>1. y = f.childs[i + 1] /\ Size(db.node[y]) > maxDegree - 1
      BY <1>3, Zenon
    <3> HIDE DEF y
    <3> QED
      BY <3>1, <2>3, CounterClockWiseItn
  <2> QED
    BY <2>4, <2>5, Zenon
<1>4. CASE i > 1 /\ ~(i <= Size(f) /\ Size(db.node[f.childs[i + 1]]) > maxDegree - 1)
  <2> DEFINE j == i - 1
             y == f.childs[i - 1]
  <2>1. j \in 1 .. m + 1 /\ i = j + 1 /\ i - 1 = j
    BY <1>2, <1>4
  <2>2. KeyAt(f, m, j)
    BY <2>1, <1>1, <1>2, Zenon DEF KeyAt
  <2>3. x = f.childs[j + 1] /\ y = f.childs[j]
    BY <2>1, Zenon
  <2>4. CASE Size(db.node[y]) > maxDegree - 1
    <3>1. how = "clockWise"
      BY <1>4, <2>4, Zenon DEF redistribution
    <3> HIDE DEF how, j
    <3>2. r = swapClockWiseItn(db, f, i, n, x, db.node[y], y)
      BY <3>1 DEF redistributeFromInternal, how
    <3> HIDE DEF y
    <3>3. Redistributed(db, f, n, x, INTERNAL_NODE, swapClockWiseItn(db, f, i, n, x, db.node[y], y))
      BY <2>1, <2>2, <2>3, <2>4, ClockWiseItn
    <3> QED
      BY <3>2, <3>3, Zenon
  <2>5. CASE ~(Size(db.node[y]) > maxDegree - 1)
    <3>1. how = "leftMerge"
      BY <1>4, <2>5, Zenon DEF redistribution
    <3> HIDE DEF how, j
    <3>2. r = leftMergeItn(db, f, i, n, x, db.node[y], y)
      BY <3>1 DEF redistributeFromInternal, how
    <3> HIDE DEF y
    <3>3. Redistributed(db, f, n, x, INTERNAL_NODE, leftMergeItn(db, f, i, n, x, db.node[y], y))
      BY <2>1, <2>2, <2>3, <2>5, LeftMergeItn
    <3> QED
      BY <3>2, <3>3, Zenon
  <2> QED
    BY <2>4, <2>5, Zenon
<1>5. CASE ~(i > 1) /\ ~(i <= Size(f) /\ Size(db.node[f.childs[i + 1]]) > maxDegree - 1)
  <2> DEFINE y == f.childs[i + 1]
  <2>1. i \in 1 .. m + 1 /\ i <= Size(f)
    BY <1>2, <1>5
  <2>2. KeyAt(f, m, i) /\ y = f.childs[i + 1] /\ ~(Size(db.node[y]) > maxDegree - 1)
    BY <2>1, <1>1, <1>2, <1>5, Zenon DEF KeyAt
  <2>3. how = "rightMerge"
    BY <1>5, Zenon DEF redistribution
  <2> HIDE DEF how
  <2>4. r = rightMergeItn(db, f, i, n, x, db.node[y], y)
    BY <2>3 DEF redistributeFromInternal, how
  <2> HIDE DEF y
  <2>5. Redistributed(db, f, n, x, INTERNAL_NODE, rightMergeItn(db, f, i, n, x, db.node[y], y))
    BY <2>2, RightMergeItn
  <2> QED
    BY <2>4, <2>5, Zenon
<1> QED
  BY <1>3, <1>4, <1>5, Zenon

----------------------------------------------------------------------------
(* internalRemove *)

\* A node left alone is arranged.
LEMMA UnchangedArranged ==
    ASSUME NEW db, NEW f, NEW n, NEW x, NEW flag, Placed(db, f, n, x, flag)
    PROVE  Arranged(db, f, n, x, flag, Unchanged(db, f, n)) /\ Unchanged(db, f, n).this = n
<1> DEFINE r == Unchanged(db, f, n)
<1>1. r.this = n /\ r.father = f /\ r.db = db
  BY DEF Unchanged
<1> HIDE DEF r
<1>2. IsFile(db) /\ Stored(f) /\ Family(f, View(db, x, n), flag) /\ Kid(f, x) /\ Siblings(f, db.node, x)
  BY Zenon DEF Placed
<1>3. Preserved(f, View(db, x, n), flag, f, View(db, x, n))
  BY <1>2, Zenon DEF Preserved
<1>4. Keeps(n, n) /\ SameValues(db, db) /\ Released(f, f, db, db) /\ Outside(f, db, db) /\ Size(f) \in {Size(f), Size(f) - 1}
  BY Zenon DEF Keeps, SameValues, Released, Outside
<1> QED
  BY <1>1, <1>2, <1>3, <1>4, Zenon DEF Arranged, r

\* What a node leaves when it returns to f: the children of r.father are as full
\* as they must be, and the file lost no other page.
Repaired(db, f, x, r) ==
    /\ Kid(r.father, x) /\ \A o : Kid(r.father, o) => Kid(f, o) /\ Filled(r.db.node[o])
    /\ Stored(r.father) /\ Size(r.father) \in {Size(f), Size(f) - 1}
    /\ x \in DOMAIN r.db.node /\ r.this = r.db.node[x] /\ r.off = x
    /\ IsFile(r.db) /\ Released(f, r.father, db, r.db) /\ Outside(f, db, r.db)
    /\ r.db.pages = db.pages /\ r.db.value = db.value

\* What a removal writes and hands to father when it returns.
LEMMA ReturnedFacts ==
    ASSUME NEW d, IsFile(d), NEW t, NEW g, NEW x
    PROVE  LET r == Returned(d, t, g, x)
           IN  /\ r.this = t /\ r.father = g /\ r.off = x
               /\ r.db.node = Written(d.node, x, t) /\ IsFile(r.db) /\ SameButNodes(r.db, d)
               /\ x \in DOMAIN r.db.node /\ r.db.node[x] = t
               /\ \A o \in DOMAIN d.node : o # x => o \in DOMAIN r.db.node /\ r.db.node[o] = d.node[o]
<1> DEFINE e == flushNodePageToFile(d, t, x)
           r == Returned(d, t, g, x)
           P == d.node
<1>1. IsFile(e) /\ e.node = Written(P, x, t) /\ SameButNodes(e, d)
  BY FlushFacts
<1>2. r = [this |-> t, father |-> g, off |-> x, db |-> e]
  BY Zenon DEF Returned
<1> HIDE DEF e, r, P
<1>3. r.this = t /\ r.father = g /\ r.off = x /\ r.db = e
  BY <1>2
<1>4. e.node[x] = t /\ \A o \in DOMAIN P : o # x => o \in DOMAIN e.node /\ e.node[o] = P[o]
  BY <1>1, OneWritten
<1>5. x \in DOMAIN e.node
  BY <1>1, Zenon DEF Written
<1> QED
  BY <1>1, <1>3, <1>4, <1>5, Zenon DEF r, P

\* From a redistributed node that is then written to its page.
LEMMA ArrangedRepaired ==
    ASSUME NEW db, NEW f, NEW n, NEW x, NEW flag, Placed(db, f, n, x, flag), NEW q,
           Arranged(db, f, n, x, flag, q), NEW d, IsFile(d), d.node = q.db.node,
           d.pages = q.db.pages,
           d.value = q.db.value, d.delNodePages = q.db.delNodePages, NEW t, Filled(t)
    PROVE  Repaired(db, f, x, Returned(d, t, q.father, x))
<1> DEFINE g == q.father
           r == Returned(d, t, g, x)
<1>1. /\ Kid(g, x) /\ (\A o : Kid(g, o) => Kid(f, o)) /\ Siblings(g, d.node, x)
      /\ Size(g) \in {Size(f), Size(f) - 1}
      /\ SameValues(q.db, db) /\ Released(f, g, db, q.db) /\ Outside(f, db, q.db)
      /\ Family(g, View(q.db, x, q.this), flag) /\ Stored(g)
  BY Zenon DEF Arranged, Preserved
<1>2. /\ r.this = t /\ r.father = g /\ r.off = x
      /\ r.db.node = Written(d.node, x, t) /\ IsFile(r.db) /\ SameButNodes(r.db, d)
      /\ x \in DOMAIN r.db.node /\ r.db.node[x] = t
      /\ \A o \in DOMAIN d.node : o # x => o \in DOMAIN r.db.node /\ r.db.node[o] = d.node[o]
  BY ReturnedFacts
<1> HIDE DEF g, r
<1>3. \A o : Kid(g, o) /\ o # x => o \in DOMAIN d.node
  <2>1. \A o : Kid(g, o) => o \in DOMAIN Written(d.node, x, q.this)
    BY <1>1, Zenon DEF Family, View
  <2> QED
    BY <2>1, WrittenDomain
<1>4. \A o : Kid(g, o) => Filled(r.db.node[o])
  BY <1>1, <1>2, <1>3, Zenon DEF Siblings
<1>5. Released(f, g, db, r.db)
  BY <1>1, <1>2, Zenon DEF Released, SameButNodes
<1>6. Kid(f, x)
  BY Zenon DEF Placed
<1>7. Outside(f, db, r.db)
  BY <1>1, <1>2, <1>6, Zenon DEF Outside
<1>8. r.db.pages = db.pages /\ r.db.value = db.value
  BY <1>1, <1>2, Zenon DEF SameValues, SameButNodes
<1>9. Repaired(db, f, x, r)
  BY <1>1, <1>2, <1>4, <1>5, <1>7, <1>8, Zenon DEF Repaired
<1> QED
  BY <1>9, Zenon DEF r, g

\* internalRemove (BPlusTreeNode.cpp), for a node below father that lost at most
\* one key to a merge of its children: borrowing from either sibling or merging
\* with it, father and its children are again a family with enough keys each, a
\* search goes on after them where it went on before, the page of a merged child
\* and no other is on the list of removed pages, and no value slot is touched.
THEOREM InternalRemoval ==
    ASSUME NEW db, NEW f, NEW n, NEW x, Placed(db, f, n, x, INTERNAL_NODE), Len(f.keys) >= 1,
           NEW i \in 1 .. Len(f.childs), x = f.childs[i],
           Size(n) \in maxDegree - 2 .. 2 * maxDegree - 1, NEW child
    PROVE  LET r == internalRemove(db, FALSE, f, i, n, x, child)
           IN  /\ Repaired(db, f, x, r) /\ r.db.delValues = db.delValues
               /\ Preserved(f, View(db, x, n), INTERNAL_NODE, r.father, r.db.node)
<1> DEFINE q == IF Size(n) < maxDegree - 1 THEN redistributeFromInternal(db, f, i, n, x)
                ELSE Unchanged(db, f, n)
           r == internalRemove(db, FALSE, f, i, n, x, child)
<1>1. r = Returned(q.db, q.this, q.father, x)
  <2>1. r = returnAfter(q, x)
    BY Zenon DEF internalRemove
  <2> QED
    BY <2>1, Zenon DEF returnAfter
<1>2. Arranged(db, f, n, x, INTERNAL_NODE, q) /\ Filled(q.this)
  <2>1. CASE Size(n) < maxDegree - 1
    <3>1. Size(n) < maxDegree /\ Size(n) + 1 >= maxDegree - 1
      BY <2>1, MaxDegreeAssumption
    <3>2. Setting(db, f, n, x, INTERNAL_NODE)
      BY <3>1, Zenon DEF Setting
    <3>3. Redistributed(db, f, n, x, INTERNAL_NODE, redistributeFromInternal(db, f, i, n, x))
      BY <3>2, InternalRedistribution
    <3>4. q = redistributeFromInternal(db, f, i, n, x)
      BY <2>1, Zenon
    <3> HIDE DEF q
    <3>5. Arranged(db, f, n, x, INTERNAL_NODE, q) /\ Size(q.this) \in Size(n) + 1 .. 2 * maxDegree - 1
      BY <3>3, <3>4, Zenon DEF Redistributed
    <3>6. Filled(q.this)
      BY <3>1, <3>5, MaxDegreeAssumption DEF Filled
    <3> QED
      BY <3>5, <3>6
  <2>2. CASE ~(Size(n) < maxDegree - 1)
    <3>1. q = Unchanged(db, f, n)
      BY <2>2, Zenon
    <3> HIDE DEF q
    <3>2. Arranged(db, f, n, x, INTERNAL_NODE, q) /\ q.this = n
      BY <3>1, UnchangedArranged
    <3>3. Filled(n)
      BY <2>2, MaxDegreeAssumption DEF Filled
    <3> QED
      BY <3>2, <3>3, Zenon
  <2> QED
    BY <2>1, <2>2, Zenon
<1> HIDE DEF q, r
<1>3. /\ IsFile(q.db) /\ SameValues(q.db, db)
      /\ Preserved(f, View(db, x, n), INTERNAL_NODE, q.father, View(q.db, x, q.this))
  BY <1>2, Zenon DEF Arranged
<1>4. Repaired(db, f, x, r)
  BY <1>1, <1>2, <1>3, ArrangedRepaired
<1>5. r.father = q.father /\ r.db.node = Written(q.db.node, x, q.this) /\ SameButNodes(r.db, q.db)
  BY <1>1, <1>3, ReturnedFacts
<1>6. Preserved(f, View(db, x, n), INTERNAL_NODE, r.father, r.db.node)
  BY <1>3, <1>5, Zenon DEF View
<1>7. r.db.delValues = db.delValues
  BY <1>3, <1>5, Zenon DEF SameValues, SameButNodes
<1> QED
  BY <1>4, <1>6, <1>7, Zenon DEF r

----------------------------------------------------------------------------
(* leafRemove *)

\* A leaf t without the key at p.
Less(t, p) == Node(LEAF_NODE, RemoveAt(t.keys, p), RemoveAt(t.childs, p))

\* The leaf u binds what the leaf t binds, except the key.
Unbinds(u, t, key) == \A k \in Nat : \A c : NodeBinds(u, k, c) <=> k # key /\ NodeBinds(t, k, c)

\* A leaf without one of its keys binds what it bound but that key.
LEMMA LessFacts ==
    ASSUME NEW t, IsNode(t, LEAF_NODE), NEW key \in Nat, isExisting(t.keys, key), NEW p,
           p = Position(t.keys, key)
    PROVE  LET u == Less(t, p)
           IN  /\ IsNode(u, LEAF_NODE) /\ Size(u) = Size(t) - 1 /\ Size(t) >= 1 /\ t.childs[p] \in Nat
               /\ Unbinds(u, t, key)
               /\ \A c : NodeBinds(t, key, c) <=> c = t.childs[p]
               /\ \A k : isExisting(u.keys, k) => isExisting(t.keys, k)
<1> DEFINE u == Less(t, p)
           s == t.keys
           cs == t.childs
           us == RemoveAt(s, p)
           uc == RemoveAt(cs, p)
           m == Len(s) - 1
           e == m + 1
<1>1. s \in Seq(Nat) /\ Sorted(s) /\ cs \in Seq(Nat) /\ Len(cs) = Len(s) + 1 /\ isExisting(s, key)
  BY Zenon DEF IsNode
<1>2. u.flag = LEAF_NODE /\ u.keys = us /\ u.childs = uc
  <2>1. u = Node(LEAF_NODE, us, uc)
    BY Zenon DEF Less
  <2> HIDE DEF u, us, uc
  <2> QED
    BY <2>1, NodeFields
<1>3. p \in 1 .. Len(s) /\ s[p] = key
  <2> HIDE DEF s
  <2>1. PICK q \in 1 .. Len(s) : s[q] = key
    <3>1. isExisting(s, key) <=> \E j \in 1 .. Len(s) : s[j] = key
      BY <1>1, ExistsAt, Zenon
    <3> QED
      BY <3>1, <1>1, Zenon
  <2>2. p = Position(s, key)
    BY Zenon DEF s
  <2>3. AtPosition(s, key, q)
    <3>1. \A i, j \in 1 .. Len(s) : i < j => s[i] < s[j]
      BY <1>1 DEF Sorted
    <3>2. \A j \in 1 .. Len(s) : s[j] \in Nat
      BY <1>1, SMTT(40)
    <3>3. ASSUME NEW j \in 1 .. Len(s) PROVE (j < q => s[j] < key) /\ (j >= q => key <= s[j])
      <4>1. j < q => s[j] < s[q]
        BY <2>1, <3>1
      <4>2. j > q => s[q] < s[j]
        BY <2>1, <3>1
      <4>3. s[j] \in Nat /\ s[q] = key
        BY <2>1, <3>2
      <4>4. j = q \/ j < q \/ j > q
        BY <2>1
      <4> QED
        BY <2>1, <4>1, <4>2, <4>3, <4>4
    <3>4. Len(s) \in Nat /\ q \in 1 .. Len(s) + 1 /\ (q > 1 => q - 1 \in 1 .. Len(s) /\ q - 1 < q)
      BY <1>1, <2>1
    <3>5. q > 1 => s[q - 1] < key
      BY <3>3, <3>4, Zenon
    <3>6. key <= s[q]
      BY <2>1, <3>3
    <3> QED
      BY <3>4, <3>5, <3>6, Zenon DEF AtPosition
  <2>4. Position(s, key) = q
    BY <1>1, <2>3, PositionIs
  <2> QED
    BY <2>1, <2>2, <2>4
<1> HIDE DEF u, s, cs
<1>4. m \in Nat /\ Len(s) = m + 1 /\ p \in 1 .. m + 1 /\ e \in Nat /\ Len(cs) = e + 1 /\ p \in 1 .. e + 1 /\ p \in 1 .. Len(cs)
  BY <1>1, <1>3
<1>5. us \in Seq(Nat) /\ Len(us) = m
  <2> HIDE DEF m
  <2> QED
    BY <1>1, <1>4, RemoveAtIs
<1>6. Sorted(us) /\ Grows(us, key, p, s)
  <2> HIDE DEF m
  <2>1. Sorted(RemoveAt(s, p)) /\ Grows(RemoveAt(s, p), s[p], p, s)
    BY <1>1, <1>4, RemoveGrows
  <2> QED
    BY <2>1, <1>3, Zenon
<1>7. uc \in Seq(Nat) /\ Len(uc) = e /\ Inserted(cs, uc, e, p, cs[p])
  <2> HIDE DEF e
  <2> QED
    BY <1>1, <1>4, RemoveAtIs
<1>8. cs[p] \in Nat
  BY <1>1, <1>4
<1> HIDE DEF us, uc
<1>9. IsNode(u, LEAF_NODE)
  BY <1>2, <1>5, <1>6, <1>7, Zenon DEF IsNode
<1>10. Size(u) = Size(t) - 1 /\ Size(t) >= 1
  BY <1>2, <1>4, <1>5 DEF Size, s
<1>11. Len(uc) = Len(us) + 1 /\ Inserted(cs, uc, Len(uc), p, cs[p])
  BY <1>5, <1>7, Zenon
<1> HIDE DEF m, e
<1>12. \A k \in Nat : \A c : Binds(s, cs, k, c) <=> IF k = key THEN c = cs[p] ELSE Binds(us, uc, k, c)
  BY <1>6, <1>11, GrowsBinds
<1>13. ~isExisting(us, key)
  BY <1>6, BelongsIn
<1>14. \A c : ~Binds(us, uc, key, c)
  BY <1>13, Zenon DEF Binds
<1>15. Unbinds(u, t, key)
  <2>1. \A k, c : (NodeBinds(u, k, c) <=> Binds(us, uc, k, c)) /\ (NodeBinds(t, k, c) <=> Binds(s, cs, k, c))
    BY <1>2, Zenon DEF NodeBinds, s, cs
  <2> QED
    BY <2>1, <1>12, <1>14, Zenon DEF Unbinds
<1>16. \A c : NodeBinds(t, key, c) <=> c = t.childs[p]
  BY <1>12, Zenon DEF NodeBinds, s, cs
<1>17. \A k : isExisting(u.keys, k) => isExisting(t.keys, k)
  <2>1. \A k : isExisting(s, k) <=> k = key \/ isExisting(us, k)
    BY <1>6, GrowsExisting
  <2> QED
    BY <2>1, <1>2, Zenon DEF s
<1> QED
  BY <1>8, <1>9, <1>10, <1>15, <1>16, <1>17, Zenon DEF u, cs

\* The child x of g loses keys.
LEMMA FamilyLess ==
    ASSUME NEW g, NEW P, NEW x, NEW t, NEW u, Family(g, Written(P, x, t), LEAF_NODE), Kid(g, x),
           IsNode(u, LEAF_NODE), \A k : isExisting(u.keys, k) => isExisting(t.keys, k)
    PROVE  Family(g, Written(P, x, u), LEAF_NODE)
<1> DEFINE M == Written(P, x, t)
           W == Written(P, x, u)
<1>1. /\ IsNode(g, INTERNAL_NODE) /\ Distinct(g.childs)
      /\ \A o : Kid(g, o) => o \in DOMAIN M /\ IsNode(M[o], LEAF_NODE) /\ Routed(g, o, M[o])
  BY Zenon DEF Family
<1>2. M[x] = t /\ W[x] = u /\ DOMAIN M = DOMAIN W /\ \A o \in DOMAIN M : o # x => M[o] = W[o]
  BY DEF Written
<1> HIDE DEF M, W
<1>3. t.flag = LEAF_NODE /\ u.flag = LEAF_NODE
  BY <1>1, <1>2, Zenon DEF IsNode
<1>4. Routed(g, x, t)
  BY <1>1, <1>2, Zenon
<1>5. Routed(g, x, u)
  BY <1>3, <1>4, Zenon DEF Routed
<1>6. ASSUME NEW o, Kid(g, o) PROVE o \in DOMAIN W /\ IsNode(W[o], LEAF_NODE) /\ Routed(g, o, W[o])
  <2>1. CASE o = x
    BY <2>1, <1>1, <1>2, <1>5, Zenon
  <2>2. CASE o # x
    <3>1. W[o] = M[o] /\ o \in DOMAIN M /\ IsNode(M[o], LEAF_NODE) /\ Routed(g, o, M[o])
      BY <2>2, <1>1, <1>2, <1>6, Zenon
    <3> QED
      BY <3>1, <1>2, Zenon
  <2> QED
    BY <2>1, <2>2, Zenon
<1> QED
  BY <1>1, <1>6, Zenon DEF Family, W

\* Below g every key but key is bound to what it is bound to below f, and key to
\* nothing.
Unbound(f, N, g, M, key) == \A k \in Nat : \A c : Bound(g, M, k, c) <=> k # key /\ Bound(f, N, k, c)

\* A key of the leaf at x is bound there and nowhere else.
LEMMA BoundHere ==
    ASSUME NEW g, NEW P, NEW x, NEW t, Family(g, Written(P, x, t), LEAF_NODE), Kid(g, x),
           NEW key \in Nat, isExisting(t.keys, key)
    PROVE  NodeChild(g, key) = x /\ \A c : Bound(g, Written(P, x, t), key, c) <=> NodeBinds(t, key, c)
<1> DEFINE M == Written(P, x, t)
<1>1. Routed(g, x, M[x])
  BY Zenon DEF Family
<1>2. M[x] = t
  BY DEF Written
<1> HIDE DEF M
<1>3. NodeChild(g, key) = x
  BY <1>1, <1>2, Zenon DEF Routed
<1>4. \A c : Bound(g, M, key, c) <=> NodeBinds(t, key, c)
  BY <1>2, <1>3, Zenon DEF Bound, Found
<1> QED
  BY <1>3, <1>4, Zenon DEF M

\* The family binds what it bound but the key that its leaf lost.
LEMMA BoundLess ==
    ASSUME NEW g, NEW P, NEW x, NEW t, NEW u, Family(g, Written(P, x, t), LEAF_NODE), Kid(g, x),
           NEW key \in Nat, isExisting(t.keys, key), Unbinds(u, t, key)
    PROVE  Unbound(g, Written(P, x, t), g, Written(P, x, u), key)
<1> DEFINE M == Written(P, x, t)
           W == Written(P, x, u)
<1>1. /\ IsNode(g, INTERNAL_NODE)
      /\ \A o : Kid(g, o) => o \in DOMAIN M /\ Routed(g, o, M[o])
  BY Zenon DEF Family
<1>2. M[x] = t /\ W[x] = u /\ \A o \in DOMAIN M : o # x => M[o] = W[o]
  BY DEF Written
<1> HIDE DEF M, W
<1>3. NodeChild(g, key) = x
  BY <1>1, <1>2, Zenon DEF Routed
<1>4. \A k \in Nat : NodeChild(g, k) \in DOMAIN M
  BY <1>1, KidOf
<1>5. ASSUME NEW k \in Nat, NEW c PROVE Bound(g, W, k, c) <=> k # key /\ Bound(g, M, k, c)
  <2>1. CASE NodeChild(g, k) = x
    <3>1. Found(g, W, k) = u /\ Found(g, M, k) = t
      BY <2>1, <1>2, Zenon DEF Found
    <3> QED
      BY <3>1, Zenon DEF Bound, Unbinds
  <2>2. CASE NodeChild(g, k) # x
    <3>1. Found(g, W, k) = Found(g, M, k) /\ k # key
      BY <2>2, <1>2, <1>3, <1>4, Zenon DEF Found
    <3> QED
      BY <3>1, Zenon DEF Bound
  <2> QED
    BY <2>1, <2>2, Zenon
<1> QED
  BY <1>5, Zenon DEF M, W, Unbound

\* pushDelValue lists the slot and changes nothing else.
LEMMA PushValueFacts ==
    ASSUME NEW db, IsFile(db), NEW v \in Nat
    PROVE  LET d == pushDelValue(db, v)
           IN  /\ IsFile(d) /\ d.node = db.node /\ d.pages = db.pages /\ d.value = db.value
               /\ d.delNodePages = db.delNodePages /\ d.delValues = Append(db.delValues, v)
<1> DEFINE l == db.delValues
           k == Append(l, v)
           d == [db EXCEPT !.delValues = k]
<1>1. l \in Seq(Nat) /\ FileFields \subseteq DOMAIN db
  BY Zenon DEF IsFile
<1>2. k \in Seq(Nat)
  BY <1>1
<1>3. pushDelValue(db, v) = d
  BY Zenon DEF pushDelValue
<1> HIDE DEF k
<1>4. /\ FileFields \subseteq DOMAIN d /\ d.node = db.node /\ d.pages = db.pages /\ d.value = db.value
      /\ d.delNodePages = db.delNodePages /\ d.delValues = k /\ d.emptyValueNode = db.emptyValueNode
  BY <1>1 DEF FileFields
<1> HIDE DEF d
<1>5. IsFile(d)
  BY <1>2, <1>4, Zenon DEF IsFile
<1> QED
  BY <1>3, <1>4, <1>5, Zenon DEF k

\* The leaf as removal finds it: with a sibling's keys when it had none to spare.
LEMMA Prepared ==
    ASSUME NEW db, NEW f, NEW n, NEW x, Placed(db, f, n, x, LEAF_NODE), Len(f.keys) >= 1,
           NEW i \in 1 .. Len(f.childs), x = f.childs[i],
           Size(n) \in maxDegree - 1 .. 2 * maxDegree - 1, NEW q,
           q = IF Size(n) > maxDegree - 1 THEN Unchanged(db, f, n) ELSE redistributeFromLeaf(db, f, i, n, x)
    PROVE  Arranged(db, f, n, x, LEAF_NODE, q) /\ Size(q.this) \in maxDegree .. 2 * maxDegree - 1
<1>1. CASE Size(n) > maxDegree - 1
  <2>1. q = Unchanged(db, f, n)
    BY <1>1, Zenon
  <2>2. Arranged(db, f, n, x, LEAF_NODE, q) /\ q.this = n
    BY <2>1, UnchangedArranged
  <2>3. Size(n) \in maxDegree .. 2 * maxDegree - 1
    BY <1>1, MaxDegreeAssumption
  <2> QED
    BY <2>2, <2>3, Zenon
<1>2. CASE ~(Size(n) > maxDegree - 1)
  <2>1. q = redistributeFromLeaf(db, f, i, n, x)
    BY <1>2, Zenon
  <2>2. Size(n) = maxDegree - 1 /\ Size(n) < maxDegree
    BY <1>2, MaxDegreeAssumption
  <2>3. Setting(db, f, n, x, LEAF_NODE)
    BY <2>2, Zenon DEF Setting
  <2>4. Redistributed(db, f, n, x, LEAF_NODE, q)
    BY <2>1, <2>3, LeafRedistribution
  <2>5. Arranged(db, f, n, x, LEAF_NODE, q) /\ Size(q.this) \in Size(n) + 1 .. 2 * maxDegree - 1
    BY <2>4, Zenon DEF Redistributed
  <2>6. Size(q.this) \in maxDegree .. 2 * maxDegree - 1
    BY <2>2, <2>5, MaxDegreeAssumption
  <2> QED
    BY <2>5, <2>6, Zenon
<1> QED
  BY <1>1, <1>2, Zenon

\* What leafRemove does to the leaf once it has a key to spare.
LEMMA RemoveAfterIs ==
    ASSUME NEW q, NEW x, NEW key, q.this.flag = LEAF_NODE
    PROVE  LET p == Position(q.this.keys, key)
           IN  removeAfter(q, x, key) = Returned(pushDelValue(q.db, q.this.childs[p]), Less(q.this, p), q.father, x)
<1> DEFINE p == Position(q.this.keys, key)
           d == removeLeft(q.db, q.this, p)
           t == Node(q.this.flag, RemoveAt(q.this.keys, p), RemoveAt(q.this.childs, p))
           e == pushDelValue(q.db, q.this.childs[p])
<1>1. d = [this |-> t, db |-> IF q.this.flag = LEAF_NODE THEN e ELSE q.db]
  BY Zenon DEF removeLeft
<1>2. removeAfter(q, x, key) = Returned(d.db, d.this, q.father, x)
  BY Zenon DEF removeAfter, removeKey
<1>3. t = Less(q.this, p)
  BY Zenon DEF Less
<1>4. d.this = t /\ d.db = e
  <2> HIDE DEF t, e, d
  <2> QED
    BY <1>1
<1> QED
  BY <1>2, <1>3, <1>4, Zenon

\* leafRemove (BPlusTreeNode.cpp), for a leaf below father: whether it had a key to
\* spare, borrowed one or merged, below father every other key stays bound to its
\* slot and the key to none, every leaf has enough keys, the slot the key was bound
\* to is the one given back to delValues, and the page of a merged leaf and no
\* other is on the list of removed pages.
THEOREM LeafRemoval ==
    ASSUME NEW db, NEW f, NEW n, NEW x, Placed(db, f, n, x, LEAF_NODE), Len(f.keys) >= 1,
           NEW i \in 1 .. Len(f.childs), x = f.childs[i],
           Size(n) \in maxDegree - 1 .. 2 * maxDegree - 1, NEW key \in Nat,
           isExisting(n.keys, key)
    PROVE  LET r == leafRemove(db, FALSE, f, i, n, x, key)
           IN  /\ Repaired(db, f, x, r) /\ Family(r.father, r.db.node, LEAF_NODE)
               /\ Unbound(f, View(db, x, n), r.father, r.db.node, key)
               /\ \E c : Bound(f, View(db, x, n), key, c) /\ r.db.delValues = Append(db.delValues, c)
<1> DEFINE q == IF Size(n) > maxDegree - 1 THEN Unchanged(db, f, n) ELSE redistributeFromLeaf(db, f, i, n, x)
           r == leafRemove(db, FALSE, f, i, n, x, key)
           t == q.this
           g == q.father
           P == q.db.node
           p == Position(t.keys, key)
           v == t.childs[p]
           u == Less(t, p)
           d == pushDelValue(q.db, v)
<1>1. r = removeAfter(q, x, key)
  BY Zenon DEF leafRemove
<1>2. Arranged(db, f, n, x, LEAF_NODE, q) /\ Size(q.this) \in maxDegree .. 2 * maxDegree - 1
  BY Prepared
<1> HIDE DEF q, r
<1>3. /\ Preserved(f, View(db, x, n), LEAF_NODE, g, View(q.db, x, t)) /\ Kid(g, x) /\ Keeps(n, t)
      /\ IsFile(q.db) /\ SameValues(q.db, db)
  BY <1>2, Zenon DEF Arranged
<1>4. Family(g, Written(P, x, t), LEAF_NODE)
  BY <1>3, Zenon DEF Preserved, View
<1>5. \A k \in Nat : \A c : Bound(g, Written(P, x, t), k, c) <=> Bound(f, View(db, x, n), k, c)
  BY <1>3, Zenon DEF Preserved, View
<1>6. IsNode(t, LEAF_NODE)
  <2>1. IsNode(Written(P, x, t)[x], LEAF_NODE)
    BY <1>3, <1>4, Zenon DEF Family
  <2>2. Written(P, x, t)[x] = t
    BY OneWritten
  <2> QED
    BY <2>1, <2>2, Zenon
<1>7. isExisting(t.keys, key)
  BY <1>3, Zenon DEF Keeps
<1>8. r = Returned(d, u, g, x)
  <2>1. t.flag = LEAF_NODE
    BY <1>6, Zenon DEF IsNode
  <2> QED
    BY <2>1, <1>1, RemoveAfterIs, Zenon
<1> HIDE DEF p, t, g
<1>9. /\ IsNode(u, LEAF_NODE) /\ Size(u) = Size(t) - 1 /\ v \in Nat
      /\ Unbinds(u, t, key)
      /\ \A c : NodeBinds(t, key, c) <=> c = v
      /\ \A k : isExisting(u.keys, k) => isExisting(t.keys, k)
  <2>1. p = Position(t.keys, key)
    BY Zenon DEF p
  <2> QED
    BY <2>1, <1>6, <1>7, LessFacts, ZenonT(40)
<1> HIDE DEF v, u
<1>10. /\ IsFile(d) /\ d.node = P /\ d.pages = q.db.pages /\ d.value = q.db.value
       /\ d.delNodePages = q.db.delNodePages /\ d.delValues = Append(q.db.delValues, v)
  BY <1>3, <1>9, PushValueFacts
<1> HIDE DEF d
<1>11. Filled(u)
  <2>1. Size(t) \in maxDegree .. 2 * maxDegree - 1
    BY <1>2, Zenon DEF t
  <2> QED
    BY <2>1, <1>9, MaxDegreeAssumption DEF Filled
<1>12. Repaired(db, f, x, r)
  BY <1>2, <1>8, <1>10, <1>11, ArrangedRepaired DEF g
<1>13. r.father = g /\ r.db.node = Written(P, x, u) /\ SameButNodes(r.db, d)
  BY <1>8, <1>10, ReturnedFacts
<1> HIDE DEF P
<1>14. Family(g, Written(P, x, u), LEAF_NODE)
  BY <1>3, <1>4, <1>9, FamilyLess
<1>15. Unbound(g, Written(P, x, t), g, Written(P, x, u), key)
  BY <1>3, <1>4, <1>7, <1>9, BoundLess
<1>16. Unbound(f, View(db, x, n), r.father, r.db.node, key)
  BY <1>5, <1>13, <1>15, Zenon DEF Unbound
<1>17. Bound(f, View(db, x, n), key, v)
  <2>1. \A c : Bound(g, Written(P, x, t), key, c) <=> NodeBinds(t, key, c)
    BY <1>3, <1>4, <1>7, BoundHere
  <2> QED
    BY <2>1, <1>5, <1>9, Zenon
<1>18. r.db.delValues = Append(db.delValues, v)
  BY <1>3, <1>10, <1>13, Zenon DEF SameValues, SameButNodes
<1>19. Family(r.father, r.db.node, LEAF_NODE)
  BY <1>13, <1>14, Zenon
<1> QED
  BY <1>12, <1>16, <1>17, <1>18, <1>19, Zenon DEF r

============================================================================
