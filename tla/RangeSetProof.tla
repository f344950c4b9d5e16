---------------------------- MODULE RangeSetProof ----------------------------
(***************************************************************************)
(* The splay tree and the lists of records of the malloc driver are the    *)
(* set of intervals of module IntervalSet, for payloads at any addresses,  *)
(* and the ranges of that set which follow another one lie apart from it.  *)
(* The first parts are about the tree: walks, rotations, splay, insertion  *)
(* and removal keep it a search tree whose pointers up agree with those    *)
(* down.  Then come the intervals, the records, and the steps.             *)
(***************************************************************************)
EXTENDS Intervals, RangeSet, FiniteSetTheorems, WellFoundedInduction, TLAPS

-----------------------------------------------------------------------------
(* Search trees.  D gives the nodes below each one, itself included.       *)

TreeType == [root : Node, child : [Side -> [Key -> Node]], parent : [Key -> Node]]

Under(D, c) == IF c = NULL THEN {} ELSE D[c]
Beyond(s, z, k) == IF s = "left" THEN k < z ELSE z < k

Shaped(t, D) ==
    /\ t \in TreeType /\ D \in [Key -> SUBSET Key]
    /\ \A z \in Key : D[z] = {z} \cup Under(D, t.child["left"][z]) \cup Under(D, t.child["right"][z])
    /\ \A z \in Key, s \in Side : \A k \in Under(D, t.child[s][z]) : Beyond(s, z, k)

\* The pointers up agree with those down, and the nodes are those in N.
Linked(t, N) ==
    /\ \A z \in Key, s \in Side : t.child[s][z] # NULL => t.parent[t.child[s][z]] = z
    /\ \A z \in Key : t.parent[z] # NULL => \E s \in Side : t.child[s][t.parent[z]] = z
    /\ \A z \in Key : t.parent[z] = NULL <=> (z = t.root \/ z \notin N)
    /\ \A z \in Key \ N, s \in Side : t.child[s][z] = NULL

TreeIs(t, D, N) == Shaped(t, D) /\ Linked(t, N) /\ Under(D, t.root) = N

\* A search tree of the keys in N.
Tree(t, N) == \E D : TreeIs(t, D, N)

-----------------------------------------------------------------------------
\* Every nonempty set of naturals has a least element.
LEMMA LeastNatural ==
    ASSUME NEW S, S \subseteq Nat, S # {}
    PROVE  \E n \in S : \A m \in S : n <= m
<1>1. PICK R : IsWellFoundedOn(R, Nat) /\ \A x, y \in Nat : x < y => <<x, y>> \in R
  BY NatLessThanWellFounded DEF OpToRel
<1>2. IsWellFoundedOn(R, Nat)
  BY <1>1
<1>3. PICK x \in S : \A y \in S : ~(<<y, x>> \in R)
  BY <1>2, WFMin
<1>4. ASSUME NEW y \in S PROVE x <= y
  <2>1. x \in Nat /\ y \in Nat
    OBVIOUS
  <2>2. ~(y < x)
    BY <1>1, <1>3, <2>1
  <2> QED
    BY <2>1, <2>2
<1> QED
  BY <1>4

LEMMA TreeFields ==
    ASSUME NEW t, NEW D, Shaped(t, D)
    PROVE  /\ t.root \in Node /\ t.child \in [Side -> [Key -> Node]] /\ t.parent \in [Key -> Node]
           /\ \A z \in Key, s \in Side : t.child[s][z] \in Node
           /\ \A z \in Key : t.parent[z] \in Node /\ D[z] \subseteq Key /\ z \in D[z]
           /\ \A c \in Node : c # NULL => c \in Key /\ Under(D, c) = D[c] /\ c \in D[c]
           /\ Under(D, NULL) = {}
<1>1. t.root \in Node /\ t.child \in [Side -> [Key -> Node]] /\ t.parent \in [Key -> Node]
  BY DEF Shaped, TreeType
<1>2. \A z \in Key, s \in Side : t.child[s][z] \in Node
  BY <1>1
<1>3. \A z \in Key : D[z] \subseteq Key /\ z \in D[z]
  BY DEF Shaped
<1> QED
  BY <1>1, <1>2, <1>3 DEF Under, Node

\* What is below a child is below the node, on the child's side of it.
LEMMA ChildBelow ==
    ASSUME NEW t, NEW D, Shaped(t, D), NEW z \in Key, NEW s \in Side, NEW c, c = t.child[s][z], c # NULL
    PROVE  /\ c \in Key /\ c \in D[c] /\ D[c] \subseteq D[z] /\ z \notin D[c] /\ c # z
           /\ \A k \in D[c] : Beyond(s, z, k) /\ k \in Key
<1>1. c \in Key /\ Under(D, c) = D[c] /\ c \in D[c] /\ D[c] \subseteq Key
  BY TreeFields
<1>2. D[c] \subseteq D[z]
  BY <1>1 DEF Shaped, Side
<1>3. \A k \in D[c] : Beyond(s, z, k)
  BY <1>1 DEF Shaped
<1>4. ~Beyond(s, z, z)
  BY KeyAssumption DEF Beyond
<1> QED
  BY <1>1, <1>2, <1>3, <1>4

LEMMA BelowIs ==
    ASSUME NEW t, NEW D, Shaped(t, D), NEW z \in Key, NEW a \in D[z], a # z
    PROVE  \E s \in Side : t.child[s][z] # NULL /\ t.child[s][z] \in Key /\ a \in D[t.child[s][z]]
<1>1. D[z] = {z} \cup Under(D, t.child["left"][z]) \cup Under(D, t.child["right"][z])
  BY DEF Shaped
<1>2. PICK s \in Side : a \in Under(D, t.child[s][z])
  BY <1>1 DEF Side
<1> QED
  BY <1>2, TreeFields DEF Under

\* The number of nodes below.
LEMMA RankIs ==
    ASSUME NEW t, NEW D, Shaped(t, D)
    PROVE  /\ \A z \in Key : Cardinality(D[z]) \in 0 .. Cardinality(Key)
           /\ Cardinality(Key) \in Nat
           /\ \A z \in Key, s \in Side : t.child[s][z] # NULL =>
                 Cardinality(D[t.child[s][z]]) < Cardinality(D[z])
<1>1. IsFiniteSet(Key) /\ Cardinality(Key) \in Nat
  BY KeyAssumption, FS_CardinalityType
<1>2. \A z \in Key : D[z] \subseteq Key
  BY TreeFields
<1>3. \A z \in Key : IsFiniteSet(D[z]) /\ Cardinality(D[z]) <= Cardinality(Key) /\ Cardinality(D[z]) \in Nat
  BY <1>1, <1>2, FS_Subset, FS_CardinalityType
<1>4. ASSUME NEW z \in Key, NEW s \in Side, t.child[s][z] # NULL
      PROVE  Cardinality(D[t.child[s][z]]) < Cardinality(D[z])
  <2>1. PICK c : c = t.child[s][z]
    OBVIOUS
  <2>2. c \in Key /\ D[c] \subseteq D[z] /\ z \notin D[c] /\ z \in D[z]
    BY <1>4, <2>1, ChildBelow, TreeFields
  <2>3. IsFiniteSet(D[z]) /\ D[c] # D[z]
    BY <1>3, <2>2
  <2>4. Cardinality(D[c]) <= Cardinality(D[z]) /\ Cardinality(D[c]) # Cardinality(D[z])
    BY <2>2, <2>3, FS_Subset
  <2>5. Cardinality(D[c]) \in Nat /\ Cardinality(D[z]) \in Nat
    BY <1>3, <2>2
  <2> QED
    BY <2>1, <2>4, <2>5
<1> QED
  BY <1>1, <1>3, <1>4

\* Induction from below: some member of a set of nodes has no child in it.
LEMMA Bottom ==
    ASSUME NEW t, NEW D, Shaped(t, D), NEW B \in SUBSET Key, B # {}
    PROVE  \E z \in B : \A s \in Side : t.child[s][z] \notin B
<1> DEFINE T == {Cardinality(D[z]) : z \in B}
<1>1. T \subseteq Nat /\ T # {}
  BY RankIs
<1> HIDE DEF T
<1>2. PICK n \in T : \A m \in T : n <= m
  BY <1>1, LeastNatural
<1>3. PICK z \in B : n = Cardinality(D[z])
  BY <1>2 DEF T
<1>4. ASSUME NEW s \in Side, t.child[s][z] \in B PROVE FALSE
  <2>1. t.child[s][z] # NULL
    BY <1>4, KeyAssumption
  <2>2. Cardinality(D[t.child[s][z]]) < n
    BY <1>3, <2>1, RankIs
  <2>3. Cardinality(D[t.child[s][z]]) \in T
    BY <1>4 DEF T
  <2>4. n \in Nat /\ Cardinality(D[t.child[s][z]]) \in Nat
    BY <1>1, <2>3
  <2> QED
    BY <1>2, <2>2, <2>3, <2>4
<1> QED
  BY <1>3, <1>4

LEMMA BelowTransitive ==
    ASSUME NEW t, NEW D, Shaped(t, D)
    PROVE  \A z \in Key : \A a \in D[z] : a \in Key /\ D[a] \subseteq D[z]
<1> DEFINE B == {z \in Key : ~(\A a \in D[z] : D[a] \subseteq D[z])}
<1>1. SUFFICES B = {}
  BY TreeFields
<1>2. SUFFICES ASSUME B # {} PROVE FALSE
  OBVIOUS
<1>3. PICK z \in B : \A s \in Side : t.child[s][z] \notin B
  BY <1>2, Bottom
<1>4. PICK a \in D[z] : ~(D[a] \subseteq D[z])
  BY <1>3
<1>5. PICK s \in Side : t.child[s][z] # NULL /\ t.child[s][z] \in Key /\ a \in D[t.child[s][z]]
  BY <1>4, BelowIs
<1>6. D[a] \subseteq D[t.child[s][z]]
  BY <1>3, <1>5
<1>7. D[t.child[s][z]] \subseteq D[z]
  BY <1>5, ChildBelow
<1> QED
  BY <1>4, <1>6, <1>7

LEMMA BelowAntisymmetric ==
    ASSUME NEW t, NEW D, Shaped(t, D), NEW a \in Key, NEW b \in Key, a \in D[b], b \in D[a]
    PROVE  a = b
<1> SUFFICES ASSUME a # b PROVE FALSE
  OBVIOUS
<1>1. PICK s \in Side : t.child[s][b] # NULL /\ t.child[s][b] \in Key /\ a \in D[t.child[s][b]]
  BY BelowIs
<1>2. b \in D[t.child[s][b]]
  BY <1>1, BelowTransitive
<1> QED
  BY <1>1, <1>2, ChildBelow

\* The parent of what is below a node, but for the node, is below it too.
LEMMA ParentBelow ==
    ASSUME NEW t, NEW D, NEW N, TreeIs(t, D, N)
    PROVE  \A b \in Key : \A c \in D[b] \ {b} : t.parent[c] \in Key /\ t.parent[c] \in D[b]
<1>0. Shaped(t, D) /\ Linked(t, N)
  BY DEF TreeIs
<1> DEFINE B == {b \in Key : ~(\A c \in D[b] \ {b} : t.parent[c] \in Key /\ t.parent[c] \in D[b])}
<1>1. SUFFICES B = {}
  OBVIOUS
<1>2. SUFFICES ASSUME B # {} PROVE FALSE
  OBVIOUS
<1>3. PICK b \in B : \A s \in Side : t.child[s][b] \notin B
  BY <1>0, <1>2, Bottom
<1>4. PICK c \in D[b] \ {b} : ~(t.parent[c] \in Key /\ t.parent[c] \in D[b])
  BY <1>3
<1>5. PICK s \in Side : t.child[s][b] # NULL /\ t.child[s][b] \in Key /\ c \in D[t.child[s][b]]
  BY <1>0, <1>4, BelowIs
<1>6. CASE c = t.child[s][b]
  <2>1. t.parent[c] = b
    BY <1>0, <1>5, <1>6 DEF Linked
  <2> QED
    BY <1>0, <1>4, <2>1, TreeFields
<1>7. CASE c # t.child[s][b]
  <2>1. t.parent[c] \in Key /\ t.parent[c] \in D[t.child[s][b]]
    BY <1>3, <1>5, <1>7
  <2>2. D[t.child[s][b]] \subseteq D[b]
    BY <1>0, <1>5, ChildBelow
  <2> QED
    BY <1>4, <2>1, <2>2
<1> QED
  BY <1>6, <1>7

\* The members of a tree, and its root.
LEMMA MembersAre ==
    ASSUME NEW t, NEW D, NEW N, TreeIs(t, D, N)
    PROVE  /\ N \subseteq Key
           /\ \A z \in N : D[z] \subseteq N
           /\ \A z \in Key \ N : D[z] = {z}
           /\ t.root = NULL <=> N = {}
           /\ t.root # NULL => t.root \in N /\ D[t.root] = N /\ t.parent[t.root] = NULL
           /\ \A z \in Key : t.parent[z] # NULL => t.parent[z] \in N /\ z \in N
<1>0. Shaped(t, D) /\ Linked(t, N) /\ Under(D, t.root) = N
  BY DEF TreeIs
<1>1. N \subseteq Key /\ (t.root = NULL <=> N = {})
      /\ (t.root # NULL => t.root \in N /\ t.root \in Key /\ D[t.root] = N)
  BY <1>0, TreeFields
<1>2. \A z \in N : D[z] \subseteq N
  BY <1>0, <1>1, BelowTransitive
<1>3. \A z \in Key \ N : D[z] = {z}
  <2> TAKE z \in Key \ N
  <2>1. \A s \in Side : t.child[s][z] = NULL
    BY <1>0 DEF Linked
  <2> QED
    BY <1>0, <2>1, BelowIs, TreeFields
<1>4. t.root # NULL => t.parent[t.root] = NULL
  BY <1>0, <1>1 DEF Linked
<1>5. \A z \in Key : t.parent[z] # NULL => t.parent[z] \in N /\ z \in N
  <2> TAKE z \in Key
  <2> HAVE t.parent[z] # NULL
  <2>1. z \in N /\ z # t.root
    BY <1>0 DEF Linked
  <2>2. t.parent[z] \in Key
    BY <1>0, TreeFields DEF Node
  <2>3. PICK s \in Side : t.child[s][t.parent[z]] = z
    BY <1>0 DEF Linked
  <2> QED
    BY <1>0, <2>1, <2>2, <2>3, KeyAssumption DEF Linked
<1> QED
  BY <1>1, <1>2, <1>3, <1>4, <1>5

\* Walks down the tree exist.
LEMMA Descent ==
    ASSUME NEW t, NEW D, Shaped(t, D), NEW next \in [Key -> Node],
           \A z \in Key : next[z] = NULL \/ \E s \in Side : next[z] = t.child[s][z]
    PROVE  \E f \in [Key -> Key] : \A z \in Key : f[z] = IF next[z] = NULL THEN z ELSE f[next[z]]
<1> DEFINE Good(f, z) == f[z] = IF next[z] = NULL THEN z ELSE f[next[z]]
           K == Cardinality(Key)
           Upto(n) == \E f \in [Key -> Key] : \A z \in Key : Cardinality(D[z]) < n => Good(f, z)
           T == {n \in Nat : ~Upto(n)}
<1>1. K \in Nat /\ \A z \in Key : Cardinality(D[z]) \in Nat /\ Cardinality(D[z]) < K + 1
  BY RankIs
<1>2. SUFFICES Upto(K + 1)
  BY <1>1
<1>3. SUFFICES T = {}
  <2> HIDE DEF Upto
  <2> QED
    BY <1>1
<1>4. SUFFICES ASSUME T # {} PROVE FALSE
  OBVIOUS
<1>5. PICK n \in T : \A m \in T : n <= m
  <2>1. T \subseteq Nat
    OBVIOUS
  <2> HIDE DEF T
  <2> QED
    BY <1>4, <2>1, LeastNatural
<1>6. n # 0
  <2>1. [z \in Key |-> z] \in [Key -> Key]
    OBVIOUS
  <2>2. \A z \in Key : ~(Cardinality(D[z]) < 0)
    BY <1>1
  <2>3. Upto(0)
    BY <2>1, <2>2
  <2> HIDE DEF Upto
  <2> QED
    BY <2>3
<1>7. PICK m \in Nat : n = m + 1
  BY <1>6
<1>8. Upto(m)
  <2> HIDE DEF Upto
  <2> QED
    BY <1>5, <1>7
<1>9. PICK f \in [Key -> Key] : \A z \in Key : Cardinality(D[z]) < m => Good(f, z)
  BY <1>8
<1> DEFINE g == [z \in Key |-> IF next[z] = NULL THEN z ELSE f[next[z]]]
<1>10. \A z \in Key : next[z] = NULL \/ next[z] \in Key
  BY DEF Node
<1>11. g \in [Key -> Key] /\ \A z \in Key : g[z] = IF next[z] = NULL THEN z ELSE f[next[z]]
  BY <1>10
<1> HIDE DEF g
<1>12. ASSUME NEW z \in Key, Cardinality(D[z]) < n PROVE Good(g, z)
  <2>1. CASE next[z] = NULL
    BY <1>11, <2>1
  <2>2. CASE next[z] # NULL
    <3>1. PICK y \in Key : y = next[z]
      BY <1>10, <2>2
    <3>2. Cardinality(D[y]) < Cardinality(D[z])
      BY <2>2, <3>1, RankIs
    <3>3. Cardinality(D[y]) < m
      BY <1>1, <1>7, <1>12, <3>2
    <3>4. f[y] = g[y]
      BY <1>9, <1>11, <3>3
    <3> QED
      BY <1>11, <2>2, <3>1, <3>4
  <2> QED
    BY <2>1, <2>2
<1>13. Upto(n)
  BY <1>11, <1>12
<1> HIDE DEF Upto
<1> QED
  BY <1>13

-----------------------------------------------------------------------------
(* The walks down.                                                         *)

\* The greatest member of a set of naturals.
LEMMA GreatestIs ==
    ASSUME NEW S \in SUBSET Nat, NEW key \in Nat, \A k \in S : k <= key, S # {}
    PROVE  Max(S) \in S /\ \A k \in S : k <= Max(S)
<1> DEFINE T == {d \in Nat : \E k \in S : d = key - k}
<1>1. \A k \in S : k \in Nat /\ key - k \in T
  OBVIOUS
<1>2. T # {} /\ T \subseteq Nat
  BY <1>1
<1> HIDE DEF T
<1>3. PICK d \in T : \A e \in T : d <= e
  BY <1>2, LeastNatural
<1>4. PICK b \in S : d = key - b
  BY <1>3 DEF T
<1>5. \A k \in S : b >= k
  <2> TAKE k \in S
  <2>1. d <= key - k
    BY <1>1, <1>3
  <2>2. k \in Nat /\ b \in Nat
    BY <1>1
  <2> QED
    BY <1>4, <2>1, <2>2
<1>6. Max(S) \in S /\ \A k \in S : Max(S) >= k
  BY <1>5 DEF Max
<1> QED
  <2>1. \A k \in S : k \in Nat
    OBVIOUS
  <2> QED
    BY <1>6, <2>1

LEMMA GreatestEq ==
    ASSUME NEW S \in SUBSET Nat, NEW r \in S, \A k \in S : k <= r
    PROVE  Max(S) = r
<1>1. Max(S) \in S /\ r <= Max(S)
  BY GreatestIs
<1>2. Max(S) \in Nat /\ r \in Nat /\ Max(S) <= r
  BY <1>1
<1> QED
  BY <1>1, <1>2

LEMMA TowardIs ==
    ASSUME NEW t, NEW D, Shaped(t, D), NEW z \in Key, NEW key \in Key, key # z, NEW c, c = Toward(t, z, key)
    PROVE  /\ c \in Node
           /\ \E s \in Side : c = t.child[s][z] /\ Beyond(s, z, key) /\ s = IF key > z THEN "right" ELSE "left"
           /\ key \in D[z] <=> key \in Under(D, c)
<1>0. key \in Nat /\ z \in Nat
  BY KeyAssumption
<1>1. PICK s \in Side : s = IF key > z THEN "right" ELSE "left"
  BY DEF Side
<1>2. c = t.child[s][z]
  BY <1>1 DEF Toward
<1>3. Beyond(s, z, key)
  BY <1>0, <1>1 DEF Beyond
<1>4. c \in Node
  BY <1>2, TreeFields
<1>5. key \in D[z] <=> key \in Under(D, c)
  <2>1. D[z] = {z} \cup Under(D, t.child["left"][z]) \cup Under(D, t.child["right"][z])
    BY DEF Shaped
  <2>2. \A k \in Under(D, t.child["left"][z]) : k < z
    BY DEF Shaped, Beyond, Side
  <2>3. \A k \in Under(D, t.child["right"][z]) : z < k
    BY DEF Shaped, Beyond, Side
  <2> QED
    BY <1>0, <1>1, <1>2, <2>1, <2>2, <2>3
<1> QED
  BY <1>1, <1>2, <1>3, <1>4, <1>5

SearchEq(f, t, key) == f = [z \in Node |-> IF z \in {NULL, key} THEN z ELSE f[Toward(t, z, key)]]

LEMMA SearchIs ==
    ASSUME NEW t, NEW D, NEW N, TreeIs(t, D, N), NEW key \in Key
    PROVE  Search(t, key) = IF key \in N THEN key ELSE NULL
<1>0. Shaped(t, D) /\ Under(D, t.root) = N
  BY DEF TreeIs
<1> DEFINE f == CHOOSE h : SearchEq(h, t, key)
           g == [z \in Node |-> IF z # NULL /\ key \in Under(D, z) THEN key ELSE NULL]
<1>1. Search(t, key) = f[t.root]
  BY Zenon DEF Search, SearchEq
<1>2. \A z \in Node : g[z] = IF z # NULL /\ key \in Under(D, z) THEN key ELSE NULL
  OBVIOUS
<1>3. SearchEq(g, t, key)
  <2> HIDE DEF g
  <2>1. \A z \in Node : g[z] = IF z \in {NULL, key} THEN z ELSE g[Toward(t, z, key)]
    <3> TAKE z \in Node
    <3>1. CASE z = NULL
      BY <1>2, <3>1
    <3>2. CASE z = key
      <4>1. key \in Under(D, z) /\ z # NULL
        BY <1>0, <3>2, TreeFields, KeyAssumption
      <4> QED
        BY <1>2, <3>2, <4>1
    <3>3. CASE z # NULL /\ z # key
      <4>1. z \in Key /\ Under(D, z) = D[z]
        BY <1>0, <3>3, TreeFields
      <4>2. PICK c : c = Toward(t, z, key)
        OBVIOUS
      <4>3. c \in Node /\ (key \in D[z] <=> key \in Under(D, c))
        BY <1>0, <3>3, <4>1, <4>2, TowardIs
      <4>4. key \in Under(D, c) => c # NULL
        BY DEF Under
      <4>5. g[z] = g[c]
        BY <1>2, <3>3, <4>1, <4>3, <4>4
      <4> QED
        BY <3>3, <4>2, <4>5
    <3> QED
      BY <3>1, <3>2, <3>3
  <2>2. g = [z \in Node |-> g[z]]
    BY DEF g
  <2> QED
    BY <2>1, <2>2 DEF SearchEq
<1>4. SearchEq(f, t, key)
  <2> HIDE DEF g
  <2> QED
    BY <1>3, Zenon
<1> HIDE DEF f, g
<1>5. \A z \in Node : f[z] = IF z \in {NULL, key} THEN z ELSE f[Toward(t, z, key)]
  BY <1>4 DEF SearchEq
<1>6. \A z \in Node : g[z] = IF z \in {NULL, key} THEN z ELSE g[Toward(t, z, key)]
  BY <1>3 DEF SearchEq
<1> DEFINE B == {z \in Key : f[z] # g[z]}
<1>7. B = {}
  <2> SUFFICES ASSUME B # {} PROVE FALSE
    OBVIOUS
  <2>1. PICK z \in B : \A s \in Side : t.child[s][z] \notin B
    BY <1>0, Bottom
  <2>2. z # NULL /\ z # key
    BY <1>5, <1>6 DEF Node
  <2>3. PICK c : c = Toward(t, z, key)
    OBVIOUS
  <2>4. c \in Node /\ \E s \in Side : c = t.child[s][z]
    BY <1>0, <2>2, <2>3, TowardIs
  <2>5. f[c] = g[c]
    BY <1>5, <1>6, <2>1, <2>4 DEF Node
  <2>6. f[z] = f[c] /\ g[z] = g[c]
    BY <1>5, <1>6, <2>2, <2>3 DEF Node
  <2> QED
    BY <2>5, <2>6
<1>8. t.root \in Node
  BY <1>0, TreeFields
<1>9. f[t.root] = g[t.root]
  BY <1>5, <1>6, <1>7, <1>8 DEF Node
<1>10. key \in N => t.root # NULL
  BY <1>0 DEF Under
<1> QED
  BY <1>0, <1>1, <1>2, <1>8, <1>9, <1>10

\* The keys below a node that are no greater than key.
Low(D, z, key) == {k \in Under(D, z) : k <= key}

LEMMA LowIs ==
    ASSUME NEW t, NEW D, Shaped(t, D), NEW key \in Key
    PROVE  /\ \A z \in Node : Low(D, z, key) \in SUBSET Nat /\ \A k \in Low(D, z, key) : k \in Key /\ k <= key
           /\ \A z \in Node : Low(D, z, key) # {} =>
                 Max(Low(D, z, key)) \in Low(D, z, key) /\ Max(Low(D, z, key)) \in Key
           /\ Low(D, NULL, key) = {}
<1>1. key \in Nat /\ Key \subseteq Nat
  BY KeyAssumption
<1>2. \A z \in Node : Low(D, z, key) \in SUBSET Nat /\ \A k \in Low(D, z, key) : k \in Key /\ k <= key
  BY <1>1, TreeFields DEF Low, Under
<1>3. \A z \in Node : Low(D, z, key) # {} => Max(Low(D, z, key)) \in Low(D, z, key)
  BY <1>1, <1>2, GreatestIs
<1> QED
  BY <1>2, <1>3, TreeFields DEF Low

LEMMA LowBelow ==
    ASSUME NEW t, NEW D, Shaped(t, D), NEW key \in Key, NEW z \in Key, z # key,
           NEW c, c = Toward(t, z, key)
    PROVE  /\ key < z => Low(D, z, key) = Low(D, c, key)
           /\ z < key /\ Low(D, c, key) = {} => Low(D, z, key) # {} /\ Max(Low(D, z, key)) = z
           /\ z < key /\ Low(D, c, key) # {} =>
                 /\ Low(D, z, key) # {} /\ Max(Low(D, z, key)) = Max(Low(D, c, key))
                 /\ z < Max(Low(D, c, key))
<1>0. key \in Nat /\ z \in Nat /\ Key \subseteq Nat /\ z # NULL
  BY KeyAssumption
<1>1. /\ Under(D, z) = {z} \cup Under(D, t.child["left"][z]) \cup Under(D, t.child["right"][z])
      /\ \A k \in Under(D, t.child["left"][z]) : k \in Nat /\ k < z
      /\ \A k \in Under(D, t.child["right"][z]) : k \in Nat /\ z < k
  <2>1. Under(D, z) = D[z]
    BY <1>0 DEF Under
  <2>2. D[z] = {z} \cup Under(D, t.child["left"][z]) \cup Under(D, t.child["right"][z])
    BY DEF Shaped
  <2>3. D[z] \subseteq Nat
    BY <1>0, TreeFields
  <2>4. /\ \A k \in Under(D, t.child["left"][z]) : k < z
        /\ \A k \in Under(D, t.child["right"][z]) : z < k
    BY DEF Shaped, Beyond, Side
  <2> QED
    BY <2>1, <2>2, <2>3, <2>4
<1>2. CASE key < z
  <2>1. c = t.child["left"][z]
    BY <1>0, <1>2 DEF Toward
  <2> QED
    BY <1>0, <1>1, <1>2, <2>1 DEF Low
<1>3. CASE z < key
  <2>1. c = t.child["right"][z] /\ c \in Node
    BY <1>0, <1>3, TreeFields DEF Toward, Side
  <2>2. z \in Low(D, z, key) /\ Low(D, z, key) \in SUBSET Nat /\ Low(D, c, key) \in SUBSET Nat
    <3>1. z \in Node /\ c \in Node
      BY <2>1 DEF Node
    <3>2. z \in Low(D, z, key)
      BY <1>0, <1>1, <1>3 DEF Low
    <3> QED
      BY <3>1, <3>2, LowIs
  <2>3. \A k \in Low(D, z, key) : k <= z \/ k \in Low(D, c, key)
    BY <1>0, <1>1, <2>1 DEF Low
  <2>4. \A k \in Low(D, c, key) : k \in Low(D, z, key) /\ z < k
    BY <1>1, <2>1 DEF Low
  <2>5. CASE Low(D, c, key) = {}
    BY <1>0, <1>3, <2>2, <2>3, <2>5, GreatestEq
  <2>6. CASE Low(D, c, key) # {}
    <3>1. PICK m : m = Max(Low(D, c, key))
      OBVIOUS
    <3>2. m \in Low(D, c, key) /\ \A k \in Low(D, c, key) : k <= m
      BY <1>0, <2>1, <2>6, <3>1, LowIs, GreatestIs
    <3>3. m \in Low(D, z, key) /\ z < m /\ m \in Nat
      BY <2>2, <2>4, <3>2
    <3>4. \A k \in Low(D, z, key) : k <= m
      BY <1>0, <2>2, <2>3, <3>2, <3>3
    <3>5. Max(Low(D, z, key)) = m
      BY <2>2, <3>3, <3>4, GreatestEq
    <3> QED
      BY <1>0, <1>3, <2>6, <3>1, <3>3, <3>5
  <2> QED
    BY <2>5, <2>6
<1> QED
  BY <1>0, <1>2, <1>3

\* What the walk gives from z on, with n the best so far.
NearestFrom(D, z, n, key) ==
    IF z = NULL \/ Low(D, z, key) = {} THEN n
    ELSE IF Max(Low(D, z, key)) = key THEN key
    ELSE IF n = NULL \/ n < Max(Low(D, z, key)) THEN Max(Low(D, z, key))
    ELSE n

Better(z, n, key) == IF key > z /\ (n = NULL \/ n < z) THEN z ELSE n

LEMMA NearestStep ==
    ASSUME NEW t, NEW D, Shaped(t, D), NEW key \in Key, NEW z \in Node, NEW n \in Node
    PROVE  /\ NearestFrom(D, z, n, key) \in Node
           /\ NearestFrom(D, z, n, key) =
                 IF z = NULL THEN n
                 ELSE IF z = key THEN z
                 ELSE NearestFrom(D, Toward(t, z, key), Better(z, n, key), key)
<1>0. key \in Nat /\ Key \subseteq Nat /\ NULL \notin Key
  BY KeyAssumption
<1>1. NearestFrom(D, z, n, key) \in Node
  BY LowIs DEF NearestFrom, Node
<1>2. CASE z = NULL
  BY <1>1, <1>2 DEF NearestFrom
<1>3. CASE z = key
  <2>1. key \in Low(D, z, key)
    BY <1>0, <1>3, TreeFields DEF Low, Under, Node
  <2>2. Max(Low(D, z, key)) = key
    BY <2>1, LowIs, GreatestEq
  <2> QED
    BY <1>0, <1>1, <1>3, <2>1, <2>2 DEF NearestFrom
<1>4. CASE z # NULL /\ z # key
  <2>1. z \in Key /\ z \in Nat
    BY <1>0, <1>4 DEF Node
  <2>2. PICK c : c = Toward(t, z, key)
    OBVIOUS
  <2>3. c \in Node /\ Low(D, NULL, key) = {}
    BY <1>4, <2>1, <2>2, TowardIs, LowIs
  <2>4. n = NULL \/ n \in Nat
    BY <1>0 DEF Node
  <2>5. CASE key < z
    <3>1. Low(D, z, key) = Low(D, c, key) /\ Better(z, n, key) = n
      BY <1>0, <1>4, <2>1, <2>2, <2>5, LowBelow DEF Better
    <3> QED
      BY <1>1, <1>4, <2>2, <2>3, <3>1 DEF NearestFrom
  <2>6. CASE z < key /\ Low(D, c, key) = {}
    <3>1. Low(D, z, key) # {} /\ Max(Low(D, z, key)) = z
      BY <1>4, <2>1, <2>2, <2>6, LowBelow
    <3>2. NearestFrom(D, z, n, key) = IF n = NULL \/ n < z THEN z ELSE n
      BY <1>4, <3>1 DEF NearestFrom
    <3>3. NearestFrom(D, c, Better(z, n, key), key) = Better(z, n, key)
      BY <2>6 DEF NearestFrom
    <3>4. Better(z, n, key) = IF n = NULL \/ n < z THEN z ELSE n
      BY <1>0, <2>1, <2>6 DEF Better
    <3> QED
      BY <1>1, <1>4, <2>2, <3>2, <3>3, <3>4
  <2>7. CASE z < key /\ Low(D, c, key) # {}
    <3>1. PICK m : m = Max(Low(D, c, key))
      OBVIOUS
    <3>2. Low(D, z, key) # {} /\ Max(Low(D, z, key)) = m /\ z < m /\ m \in Key
      BY <1>4, <2>1, <2>2, <2>3, <2>7, <3>1, LowBelow, LowIs
    <3>3. c # NULL
      BY <2>3, <2>7
    <3>4. Better(z, n, key) = IF n = NULL \/ n < z THEN z ELSE n
      BY <1>0, <2>1, <2>7 DEF Better
    <3>5. NearestFrom(D, z, n, key) = IF m = key THEN key ELSE IF n = NULL \/ n < m THEN m ELSE n
      BY <1>4, <3>2 DEF NearestFrom
    <3>6. NearestFrom(D, c, Better(z, n, key), key) =
            IF m = key THEN key
            ELSE IF Better(z, n, key) = NULL \/ Better(z, n, key) < m THEN m
            ELSE Better(z, n, key)
      BY <2>7, <3>1, <3>3 DEF NearestFrom
    <3>7. m \in Nat
      BY <1>0, <3>2
    <3>8. NearestFrom(D, z, n, key) = NearestFrom(D, c, Better(z, n, key), key)
      <4>1. CASE n = NULL
        BY <2>1, <3>2, <3>4, <3>5, <3>6, <3>7, <4>1
      <4>2. CASE n # NULL /\ n < z
        BY <2>1, <2>4, <3>2, <3>4, <3>5, <3>6, <3>7, <4>2
      <4>3. CASE n # NULL /\ ~(n < z)
        BY <2>1, <2>4, <3>2, <3>4, <3>5, <3>6, <3>7, <4>3
      <4> QED
        BY <4>1, <4>2, <4>3
    <3> QED
      BY <1>1, <1>4, <2>2, <3>8
  <2> QED
    BY <1>0, <1>4, <2>1, <2>5, <2>6, <2>7
<1> QED
  BY <1>2, <1>3, <1>4

NearestEq(f, t, key) ==
    f = [w \in Node \X Node |->
            IF w[1] = NULL THEN w[2]
            ELSE IF w[1] = key THEN w[1]
            ELSE f[<<Toward(t, w[1], key), IF key > w[1] /\ (w[2] = NULL \/ w[2] < w[1]) THEN w[1] ELSE w[2]>>]]

\* tree_find_nearest gives the greatest key in the tree up to that one.
LEMMA NearestIs ==
    ASSUME NEW t, NEW D, NEW N, TreeIs(t, D, N), NEW key \in Key
    PROVE  LET S == {k \in N : k <= key} IN FindNearest(t, key) = IF S = {} THEN NULL ELSE Max(S)
<1>0. Shaped(t, D) /\ Under(D, t.root) = N
  BY DEF TreeIs
<1> DEFINE f == CHOOSE h : NearestEq(h, t, key)
           g == [w \in Node \X Node |-> NearestFrom(D, w[1], w[2], key)]
<1>1. FindNearest(t, key) = f[<<t.root, NULL>>]
  BY Zenon DEF FindNearest, NearestEq
<1>2. \A z, n \in Node : g[<<z, n>>] = NearestFrom(D, z, n, key)
  OBVIOUS
<1>3. \A z, n \in Node : Better(z, n, key) \in Node /\ (z \in Key /\ z # key => Toward(t, z, key) \in Node)
  BY <1>0, TowardIs DEF Better
<1>4. NearestEq(g, t, key)
  <2>1. g = [w \in Node \X Node |-> g[w]]
    OBVIOUS
  <2> HIDE DEF g
  <2>2. ASSUME NEW w \in Node \X Node
        PROVE  g[w] = IF w[1] = NULL THEN w[2]
                      ELSE IF w[1] = key THEN w[1]
                      ELSE g[<<Toward(t, w[1], key), IF key > w[1] /\ (w[2] = NULL \/ w[2] < w[1]) THEN w[1] ELSE w[2]>>]
    <3>1. PICK z \in Node, n \in Node : w = <<z, n>>
      OBVIOUS
    <3>2. w[1] = z /\ w[2] = n /\ g[w] = NearestFrom(D, z, n, key)
      BY <1>2, <3>1
    <3>3. NearestFrom(D, z, n, key) =
                 IF z = NULL THEN n
                 ELSE IF z = key THEN z
                 ELSE NearestFrom(D, Toward(t, z, key), Better(z, n, key), key)
      BY <1>0, NearestStep
    <3>4. z # NULL /\ z # key =>
            g[<<Toward(t, z, key), Better(z, n, key)>>] = NearestFrom(D, Toward(t, z, key), Better(z, n, key), key)
      BY <1>2, <1>3 DEF Node
    <3> QED
      BY <3>2, <3>3, <3>4 DEF Better
  <2> QED
    BY <2>1, <2>2 DEF NearestEq
<1>5. NearestEq(f, t, key)
  <2> HIDE DEF g
  <2> QED
    BY <1>4, Zenon
<1> HIDE DEF f, g
<1>6. ASSUME NEW z \in Node, NEW n \in Node
      PROVE  f[<<z, n>>] = IF z = NULL THEN n
                           ELSE IF z = key THEN z
                           ELSE f[<<Toward(t, z, key), Better(z, n, key)>>]
  <2>1. PICK w \in Node \X Node : w = <<z, n>>
    OBVIOUS
  <2>2. f[w] = IF w[1] = NULL THEN w[2]
               ELSE IF w[1] = key THEN w[1]
               ELSE f[<<Toward(t, w[1], key), IF key > w[1] /\ (w[2] = NULL \/ w[2] < w[1]) THEN w[1] ELSE w[2]>>]
    BY <1>5 DEF NearestEq
  <2> QED
    BY <2>1, <2>2 DEF Better
<1> DEFINE B == {z \in Key : \E n \in Node : f[<<z, n>>] # NearestFrom(D, z, n, key)}
<1>7. B = {}
  <2> SUFFICES ASSUME B # {} PROVE FALSE
    OBVIOUS
  <2>1. PICK z \in B : \A s \in Side : t.child[s][z] \notin B
    BY <1>0, Bottom
  <2>2. PICK n \in Node : f[<<z, n>>] # NearestFrom(D, z, n, key)
    BY <2>1
  <2>3. z \in Key /\ z \in Node /\ z # NULL
    BY KeyAssumption DEF Node
  <2>4. f[<<z, n>>] = IF z = key THEN z ELSE f[<<Toward(t, z, key), Better(z, n, key)>>]
    BY <1>6, <2>3
  <2>5. NearestFrom(D, z, n, key) = IF z = key THEN z ELSE NearestFrom(D, Toward(t, z, key), Better(z, n, key), key)
    BY <1>0, <2>3, NearestStep
  <2>6. z # key
    BY <2>2, <2>4, <2>5
  <2>7. PICK c, b : c = Toward(t, z, key) /\ b = Better(z, n, key)
    OBVIOUS
  <2>8. c \in Node /\ b \in Node /\ \E s \in Side : c = t.child[s][z]
    BY <1>0, <1>3, <2>3, <2>6, <2>7, TowardIs
  <2>9. f[<<c, b>>] = NearestFrom(D, c, b, key)
    <3>1. CASE c = NULL
      <4>1. f[<<c, b>>] = b
        BY <1>6, <2>8, <3>1
      <4> QED
        BY <3>1, <4>1 DEF NearestFrom
    <3>2. CASE c # NULL
      BY <2>1, <2>8, <3>2 DEF Node
    <3> QED
      BY <3>1, <3>2
  <2> QED
    BY <2>2, <2>4, <2>5, <2>6, <2>7, <2>9
<1>8. t.root \in Node /\ NULL \in Node
  BY <1>0, TreeFields DEF Node
<1>9. f[<<t.root, NULL>>] = NearestFrom(D, t.root, NULL, key)
  <2>1. CASE t.root = NULL
    BY <1>6, <1>8, <2>1 DEF NearestFrom
  <2>2. CASE t.root # NULL
    BY <1>7, <1>8, <2>2 DEF Node
  <2> QED
    BY <2>1, <2>2
<1>10. PICK S : S = {k \in N : k <= key}
  OBVIOUS
<1>11. Low(D, t.root, key) = S
  BY <1>0, <1>10 DEF Low
<1>12. t.root = NULL => S = {}
  BY <1>0, <1>10 DEF Under
<1>13. NearestFrom(D, t.root, NULL, key) = IF S = {} THEN NULL ELSE Max(S)
  BY <1>11, <1>12 DEF NearestFrom
<1> QED
  BY <1>1, <1>9, <1>10, <1>13

\* The walk to a leaf, and what is known of a key that is not there: it fits
\* below that leaf.
Fits(t, D, B, p, key) ==
    \A a \in B, s \in Side : p \in Under(D, t.child[s][a]) => Beyond(s, a, key)

LeafEq(f, t, key) == f = [z \in Key |-> IF Toward(t, z, key) = NULL THEN z ELSE f[Toward(t, z, key)]]

LEMMA LeafIs ==
    ASSUME NEW t, NEW D, NEW N, TreeIs(t, D, N), NEW key \in Key \ N, t.root # NULL, NEW p, p = LeafFor(t, key)
    PROVE  /\ p \in N /\ Toward(t, p, key) = NULL
           /\ Fits(t, D, N, p, key)
<1>0. Shaped(t, D) /\ Under(D, t.root) = N /\ D[t.root] = N /\ t.root \in N /\ N \subseteq Key
  BY MembersAre DEF TreeIs
<1> DEFINE f == CHOOSE h : LeafEq(h, t, key)
           next == [z \in Key |-> Toward(t, z, key)]
<1>1. LeafFor(t, key) = f[t.root]
  BY Zenon DEF LeafFor, LeafEq
<1>2. next \in [Key -> Node] /\ (\A z \in Key : next[z] = NULL \/ \E s \in Side : next[z] = t.child[s][z])
      /\ \A z \in Key : next[z] = Toward(t, z, key)
  BY <1>0, TreeFields DEF Toward, Side
<1>3. \E g : LeafEq(g, t, key)
  <2> HIDE DEF next
  <2>1. PICK g \in [Key -> Key] : \A z \in Key : g[z] = IF next[z] = NULL THEN z ELSE g[next[z]]
    BY <1>0, <1>2, Descent
  <2>2. g = [z \in Key |-> g[z]]
    OBVIOUS
  <2>3. \A z \in Key : g[z] = IF Toward(t, z, key) = NULL THEN z ELSE g[Toward(t, z, key)]
    BY <1>2, <2>1
  <2> QED
    BY <2>2, <2>3 DEF LeafEq
<1>4. LeafEq(f, t, key)
  BY <1>3, Zenon
<1> HIDE DEF f
<1>5. \A z \in Key : f[z] = IF Toward(t, z, key) = NULL THEN z ELSE f[Toward(t, z, key)]
  BY <1>4 DEF LeafEq
<1> DEFINE Good(z) == f[z] \in D[z] /\ Toward(t, f[z], key) = NULL /\ Fits(t, D, D[z], f[z], key)
           B == {z \in N : ~Good(z)}
<1>6. B = {}
  <2> SUFFICES ASSUME B # {} PROVE FALSE
    OBVIOUS
  <2>1. PICK z \in B : \A s \in Side : t.child[s][z] \notin B
    BY <1>0, Bottom
  <2>2. z \in Key /\ z \in N /\ z # key /\ D[z] \subseteq N /\ D[z] \subseteq Key
    BY <1>0, MembersAre, TreeFields
  <2>3. PICK c : c = Toward(t, z, key)
    OBVIOUS
  <2>4. PICK s \in Side : c = t.child[s][z] /\ Beyond(s, z, key)
    BY <1>0, <2>2, <2>3, TowardIs
  <2>5. CASE c = NULL
    <3>1. f[z] = z /\ z \in D[z]
      BY <1>0, <1>5, <2>2, <2>3, <2>5, TreeFields
    <3>2. ASSUME NEW a \in D[z], NEW q \in Side, z \in Under(D, t.child[q][a]) PROVE Beyond(q, a, key)
      <4>1. a \in Key /\ t.child[q][a] # NULL
        BY <2>2, <3>2 DEF Under
      <4>2. z \in D[a] /\ z # a
        BY <1>0, <3>2, <4>1, ChildBelow DEF Under
      <4> QED
        BY <1>0, <2>2, <4>1, <4>2, BelowAntisymmetric
    <3>3. Fits(t, D, D[z], z, key)
      BY <3>2 DEF Fits
    <3> QED
      BY <2>1, <2>3, <2>5, <3>1, <3>3
  <2>6. CASE c # NULL
    <3>1. c \in Key /\ c \in D[c] /\ D[c] \subseteq D[z] /\ \A k \in D[c] : Beyond(s, z, k) /\ k \in Key
      BY <1>0, <2>2, <2>4, <2>6, ChildBelow
    <3>2. c \in N /\ c \notin B
      BY <2>1, <2>2, <2>4, <3>1
    <3>3. f[c] \in D[c] /\ Toward(t, f[c], key) = NULL /\ Fits(t, D, D[c], f[c], key)
      BY <3>2
    <3>4. f[z] = f[c]
      BY <1>5, <2>2, <2>3, <2>6
    <3>5. ASSUME NEW a \in D[z], NEW q \in Side, f[c] \in Under(D, t.child[q][a]) PROVE Beyond(q, a, key)
      <4>1. a \in Key /\ t.child[q][a] # NULL /\ t.child[q][a] \in Key /\ f[c] \in D[t.child[q][a]]
        BY <1>0, <2>2, <3>5, TreeFields DEF Under
      <4>2. CASE a = z
        <5>1. Beyond(q, z, f[c]) /\ Beyond(s, z, f[c])
          BY <1>0, <3>1, <3>3, <4>1, <4>2, ChildBelow
        <5>2. z \in Nat /\ f[c] \in Nat
          BY <2>2, <3>1, <3>3, KeyAssumption
        <5>3. q = s
          BY <5>1, <5>2 DEF Beyond, Side
        <5> QED
          BY <2>4, <4>2, <5>3
      <4>3. CASE a # z
        <5>1. PICK r \in Side : t.child[r][z] # NULL /\ t.child[r][z] \in Key /\ a \in D[t.child[r][z]]
          BY <1>0, <2>2, <4>3, BelowIs
        <5>2. f[c] \in D[t.child[r][z]]
          <6>1. f[c] \in D[a]
            BY <1>0, <4>1, ChildBelow
          <6> QED
            BY <1>0, <5>1, <6>1, BelowTransitive
        <5>3. Beyond(r, z, f[c]) /\ Beyond(s, z, f[c])
          BY <1>0, <2>2, <3>1, <3>3, <5>1, <5>2, ChildBelow
        <5>4. z \in Nat /\ f[c] \in Nat
          BY <2>2, <3>1, <3>3, KeyAssumption
        <5>5. r = s
          BY <5>3, <5>4 DEF Beyond, Side
        <5>6. a \in D[c]
          BY <2>4, <5>1, <5>5
        <5> QED
          BY <3>3, <3>5, <5>6 DEF Fits
      <4> QED
        BY <4>2, <4>3
    <3>6. Fits(t, D, D[z], f[c], key)
      BY <3>5 DEF Fits
    <3> QED
      BY <2>1, <3>1, <3>3, <3>4, <3>6
  <2> QED
    BY <2>5, <2>6
<1> QED
  BY <1>0, <1>1, <1>6

MinimumEq(f, t) ==
    f = [z \in Key |-> IF t.child["left"][z] = NULL THEN z ELSE f[t.child["left"][z]]]

\* subtree_minimum.
LEMMA MinimumIs ==
    ASSUME NEW t, NEW D, Shaped(t, D), NEW r \in Key, NEW y, y = SubtreeMinimum(t, r)
    PROVE  y \in D[r] /\ y \in Key /\ t.child["left"][y] = NULL /\ \A k \in D[r] \ {y} : y < k
<1> DEFINE f == CHOOSE h : MinimumEq(h, t)
<1>1. SubtreeMinimum(t, r) = f[r]
  BY Zenon DEF SubtreeMinimum, MinimumEq
<1>2. PICK next : next = [z \in Key |-> t.child["left"][z]]
  OBVIOUS
<1>3. \E g : MinimumEq(g, t)
  <2>1. \A z \in Key : next[z] = t.child["left"][z] /\ t.child["left"][z] \in Node
    BY <1>2, TreeFields DEF Side
  <2>2. next \in [Key -> Node]
    BY <1>2, <2>1
  <2>3. \A z \in Key : next[z] = NULL \/ \E s \in Side : next[z] = t.child[s][z]
    BY <2>1 DEF Side
  <2>4. PICK g \in [Key -> Key] : \A z \in Key : g[z] = IF next[z] = NULL THEN z ELSE g[next[z]]
    BY <2>2, <2>3, Descent
  <2>5. g = [z \in Key |-> g[z]]
    OBVIOUS
  <2>6. \A z \in Key : g[z] = IF t.child["left"][z] = NULL THEN z ELSE g[t.child["left"][z]]
    BY <2>1, <2>4
  <2> QED
    BY <2>5, <2>6 DEF MinimumEq
<1>4. MinimumEq(f, t)
  BY <1>3, Zenon
<1> HIDE DEF f
<1>5. \A z \in Key : f[z] = IF t.child["left"][z] = NULL THEN z ELSE f[t.child["left"][z]]
  BY <1>4 DEF MinimumEq
<1> DEFINE Good(z) == f[z] \in D[z] /\ t.child["left"][f[z]] = NULL /\ \A k \in D[z] \ {f[z]} : f[z] < k
           B == {z \in Key : ~Good(z)}
<1>6. B = {}
  <2> SUFFICES ASSUME B # {} PROVE FALSE
    OBVIOUS
  <2>1. PICK z \in B : \A s \in Side : t.child[s][z] \notin B
    BY Bottom
  <2>2. PICK c : c = t.child["left"][z]
    OBVIOUS
  <2>3. "left" \in Side /\ c \in Node /\ z \in D[z] /\ D[z] \subseteq Key
    BY <2>2, TreeFields DEF Side
  <2>4. D[z] = {z} \cup Under(D, c) \cup Under(D, t.child["right"][z])
    BY <2>2 DEF Shaped
  <2>5. \A k \in Under(D, t.child["right"][z]) : z < k
    BY DEF Shaped, Beyond, Side
  <2>6. CASE c = NULL
    <3>1. f[z] = z
      BY <1>5, <2>2, <2>6
    <3>2. \A k \in D[z] \ {z} : z < k
      BY <2>4, <2>5, <2>6 DEF Under
    <3> QED
      BY <2>1, <2>2, <2>3, <2>6, <3>1, <3>2
  <2>7. CASE c # NULL
    <3>1. c \in Key /\ D[c] \subseteq D[z] /\ Under(D, c) = D[c] /\ \A k \in D[c] : k < z
      BY <2>2, <2>3, <2>7, ChildBelow DEF Under, Beyond
    <3>2. f[c] \in D[c] /\ t.child["left"][f[c]] = NULL /\ \A k \in D[c] \ {f[c]} : f[c] < k
      BY <2>1, <2>2, <2>3, <3>1
    <3>3. f[z] = f[c] /\ f[c] < z /\ f[c] \in Nat /\ z \in Nat /\ D[z] \subseteq Nat
      BY <1>5, <2>2, <2>3, <2>7, <3>1, <3>2, KeyAssumption
    <3>4. \A k \in D[z] \ {f[c]} : f[c] < k
      BY <2>4, <2>5, <3>1, <3>2, <3>3
    <3> QED
      BY <2>1, <3>1, <3>2, <3>3, <3>4
  <2> QED
    BY <2>6, <2>7
<1>7. D[r] \subseteq Key
  BY TreeFields
<1> QED
  BY <1>1, <1>6, <1>7

-----------------------------------------------------------------------------
(* Changes of the links.                                                   *)

\* w is t with the child c hung below p, or with v in the place of u.
Attached(w, t, s, p, c) ==
    /\ w \in TreeType /\ w.root = t.root
    /\ \A q \in Side, a \in Key : w.child[q][a] = IF q = s /\ a = p THEN c ELSE t.child[q][a]
    /\ \A a \in Key : w.parent[a] = IF a = c THEN p ELSE t.parent[a]

Replaced(w, t, u, v) ==
    /\ w \in TreeType
    /\ w.root = IF t.parent[u] = NULL THEN v ELSE t.root
    /\ \A q \in Side, a \in Key : w.child[q][a] = IF t.child[q][a] = u THEN v ELSE t.child[q][a]
    /\ \A a \in Key : w.parent[a] = IF a = v THEN t.parent[u] ELSE t.parent[a]

LEMMA AttachIs ==
    ASSUME NEW t \in TreeType, NEW s \in Side, NEW p \in Key, NEW c \in Node
    PROVE  Attached(Attach(t, s, p, c), t, s, p, c)
<1> DEFINE u == Attach(t, s, p, c)
           ch == [t.child EXCEPT ![s][p] = c]
           pa == IF c = NULL THEN t.parent ELSE [t.parent EXCEPT ![c] = p]
<1>1. t.root \in Node /\ t.child \in [Side -> [Key -> Node]] /\ t.parent \in [Key -> Node]
      /\ t = [root |-> t.root, child |-> t.child, parent |-> t.parent]
  BY DEF TreeType
<1>2. u = [root |-> t.root, child |-> ch, parent |-> pa]
  <2>1. u = [t EXCEPT !.child = ch, !.parent = pa]
    BY DEF Attach
  <2> HIDE DEF ch, pa, u
  <2> QED
    BY <1>1, <2>1
<1>3. ch \in [Side -> [Key -> Node]]
      /\ \A q \in Side, a \in Key : ch[q][a] = IF q = s /\ a = p THEN c ELSE t.child[q][a]
  BY <1>1
<1>4. pa \in [Key -> Node] /\ \A a \in Key : pa[a] = IF a = c THEN p ELSE t.parent[a]
  BY <1>1, KeyAssumption DEF Node
<1> HIDE DEF ch, pa, u
<1>5. u \in TreeType
  BY <1>1, <1>2, <1>3, <1>4 DEF TreeType
<1>6. u.root = t.root /\ u.child = ch /\ u.parent = pa
  BY <1>2
<1>7. \A q \in Side, a \in Key : u.child[q][a] = IF q = s /\ a = p THEN c ELSE t.child[q][a]
  BY <1>3, <1>6
<1>8. \A a \in Key : u.parent[a] = IF a = c THEN p ELSE t.parent[a]
  BY <1>4, <1>6
<1> QED
  BY <1>5, <1>6, <1>7, <1>8 DEF u, Attached

\* u is the child of its parent, and of no other node.
Hangs(t, u) ==
    /\ t.parent[u] # NULL => t.child[SideOf(t, u)][t.parent[u]] = u
    /\ \A a \in Key, s \in Side : t.child[s][a] = u => a = t.parent[u] /\ s = SideOf(t, u)

LEMMA SideIs ==
    ASSUME NEW t, NEW u
    PROVE  SideOf(t, u) \in Side /\ (SideOf(t, u) = IF t.child["left"][t.parent[u]] = u THEN "left" ELSE "right")
BY DEF SideOf, Side

LEMMA TreeHangs ==
    ASSUME NEW t, NEW D, NEW N, TreeIs(t, D, N), NEW u \in Key
    PROVE  Hangs(t, u)
<1>0. Shaped(t, D) /\ Linked(t, N) /\ u # NULL /\ t.parent[u] \in Node
  BY TreeFields, KeyAssumption DEF TreeIs
<1>1. t.parent[u] # NULL => t.child[SideOf(t, u)][t.parent[u]] = u
  <2> HAVE t.parent[u] # NULL
  <2>1. PICK s \in Side : t.child[s][t.parent[u]] = u
    BY <1>0 DEF Linked
  <2> QED
    BY <2>1 DEF SideOf, Side
<1>2. ASSUME NEW a \in Key, NEW s \in Side, t.child[s][a] = u PROVE a = t.parent[u] /\ s = SideOf(t, u)
  <2>1. a = t.parent[u]
    BY <1>0, <1>2 DEF Linked
  <2>2. Beyond(s, a, u)
    BY <1>0, <1>2, ChildBelow
  <2>3. ASSUME NEW q \in Side, t.child[q][a] = u PROVE q = s
    <3>1. Beyond(q, a, u)
      BY <1>0, <2>3, ChildBelow
    <3>2. a \in Nat /\ u \in Nat
      BY KeyAssumption
    <3> QED
      BY <2>2, <3>1, <3>2 DEF Beyond, Side
  <2>4. t.child[SideOf(t, u)][a] = u
    BY <1>1, <2>1, KeyAssumption
  <2> QED
    BY <2>1, <2>3, <2>4, SideIs
<1> QED
  BY <1>1, <1>2 DEF Hangs

\* replace moves the pointers that lead to u, both ways, to v.
LEMMA ReplaceIs ==
    ASSUME NEW t \in TreeType, NEW u \in Key, NEW v \in Node, Hangs(t, u)
    PROVE  Replaced(Replace(t, u, v), t, u, v)
<1> DEFINE w == Replace(t, u, v)
<1>1. t.root \in Node /\ t.child \in [Side -> [Key -> Node]] /\ t.parent \in [Key -> Node]
      /\ t = [root |-> t.root, child |-> t.child, parent |-> t.parent]
  BY DEF TreeType
<1>2. PICK p \in Node, s \in Side : p = t.parent[u] /\ s = SideOf(t, u)
  BY <1>1, SideIs
<1>3. CASE p = NULL
  <2> DEFINE pa == IF v = NULL THEN t.parent ELSE [t.parent EXCEPT ![v] = NULL]
  <2>1. w = [root |-> v, child |-> t.child, parent |-> pa]
    <3>1. w = [t EXCEPT !.root = v, !.parent = pa]
      BY <1>2, <1>3 DEF Replace
    <3> HIDE DEF pa, w
    <3> QED
      BY <1>1, <3>1
  <2>2. pa \in [Key -> Node] /\ \A a \in Key : pa[a] = IF a = v THEN NULL ELSE t.parent[a]
    BY <1>1, KeyAssumption DEF Node
  <2>3. \A q \in Side, a \in Key : t.child[q][a] # u
    BY <1>2, <1>3, KeyAssumption DEF Hangs
  <2> HIDE DEF pa, w
  <2>4. w \in TreeType /\ w.root = v /\ w.child = t.child /\ w.parent = pa
    BY <1>1, <2>1, <2>2 DEF TreeType
  <2>5. \A q \in Side, a \in Key : w.child[q][a] = IF t.child[q][a] = u THEN v ELSE t.child[q][a]
    BY <2>3, <2>4
  <2>6. \A a \in Key : w.parent[a] = IF a = v THEN t.parent[u] ELSE t.parent[a]
    BY <1>2, <1>3, <2>2, <2>4
  <2> QED
    BY <1>2, <1>3, <2>4, <2>5, <2>6 DEF w, Replaced
<1>4. CASE p # NULL
  <2>1. p \in Key
    BY <1>4 DEF Node
  <2>2. w = Attach(t, s, p, v)
    BY <1>2, <1>4 DEF Replace
  <2>3. \A q \in Side, a \in Key : t.child[q][a] = u <=> (q = s /\ a = p)
    BY <1>2, <1>4 DEF Hangs
  <2> HIDE DEF w
  <2>4. /\ w \in TreeType /\ w.root = t.root
        /\ \A q \in Side, a \in Key : w.child[q][a] = IF q = s /\ a = p THEN v ELSE t.child[q][a]
        /\ \A a \in Key : w.parent[a] = IF a = v THEN p ELSE t.parent[a]
    <3>1. Attached(w, t, s, p, v)
      BY <2>1, <2>2, AttachIs
    <3> QED
      BY <3>1 DEF Attached
  <2>5. \A q \in Side, a \in Key : w.child[q][a] = IF t.child[q][a] = u THEN v ELSE t.child[q][a]
    BY <2>3, <2>4
  <2> QED
    BY <1>2, <1>4, <2>4, <2>5 DEF w, Replaced
<1> QED
  BY <1>3, <1>4

\* A rotation, pointer by pointer.
LEMMA RotateIs ==
    ASSUME NEW t, NEW D, NEW N, TreeIs(t, D, N), NEW x \in Key, NEW s \in Side,
           NEW y \in Key, y = t.child[Other(s)][x], NEW b, b = t.child[s][y]
    PROVE  LET w == Rotate(t, x, s) IN
           /\ w \in TreeType
           /\ w.root = IF t.parent[x] = NULL THEN y ELSE t.root
           /\ \A q \in Side, a \in Key : w.child[q][a] =
                 IF a = x /\ q = Other(s) THEN b
                 ELSE IF a = y /\ q = s THEN x
                 ELSE IF t.child[q][a] = x THEN y
                 ELSE t.child[q][a]
           /\ \A a \in Key : w.parent[a] =
                 IF a = x THEN y
                 ELSE IF a = y THEN t.parent[x]
                 ELSE IF a = b THEN x
                 ELSE t.parent[a]
<1> DEFINE o == Other(s)
           t1 == Attach(t, o, x, b)
           t2 == Replace(t1, x, y)
           w == Attach(t2, s, y, x)
<1>0. Shaped(t, D) /\ Linked(t, N) /\ t \in TreeType /\ x # NULL /\ y # NULL /\ x \in Node /\ y \in Node
  BY KeyAssumption DEF TreeIs, Shaped, Node
<1>1. o \in Side /\ o # s
  BY DEF Other, Side
<1>2. b \in Node /\ y # x /\ b # y /\ b # x
  <2>1. y # x /\ y \in D[y] /\ x \notin D[y]
    BY <1>0, <1>1, ChildBelow
  <2>2. b \in Node
    BY <1>0, TreeFields
  <2>3. b # NULL => b # y /\ b \in D[b] /\ D[b] \subseteq D[y]
    BY <1>0, ChildBelow
  <2> QED
    BY <1>0, <2>1, <2>2, <2>3
<1>3. t.parent[x] # x /\ (t.parent[x] \in Key \/ t.parent[x] = NULL)
  <2>1. t.parent[x] \in Node
    BY <1>0, TreeFields
  <2>2. ASSUME t.parent[x] = x PROVE FALSE
    <3>1. PICK q \in Side : t.child[q][x] = x
      BY <1>0, <2>2 DEF Linked
    <3> QED
      BY <1>0, <3>1, ChildBelow
  <2> QED
    BY <2>1, <2>2 DEF Node
<1>4. Rotate(t, x, s) = w
  BY DEF Rotate
<1>5. /\ t1 \in TreeType /\ t1.root = t.root
      /\ \A q \in Side, a \in Key : t1.child[q][a] = IF q = o /\ a = x THEN b ELSE t.child[q][a]
      /\ \A a \in Key : t1.parent[a] = IF a = b THEN x ELSE t.parent[a]
  <2>1. Attached(t1, t, o, x, b)
    BY <1>0, <1>1, <1>2, AttachIs
  <2> HIDE DEF t1
  <2> QED
    BY <2>1 DEF Attached
<1> HIDE DEF t1, o
<1>6. Hangs(t1, x)
  <2>1. Hangs(t, x)
    BY TreeHangs
  <2>2. t1.parent[x] = t.parent[x]
    BY <1>2, <1>5
  <2>3. \A q \in Side, a \in Key : t1.child[q][a] = x <=> t.child[q][a] = x
    BY <1>0, <1>2, <1>5, ChildBelow
  <2>4. "left" \in Side
    BY DEF Side
  <2>5. t.parent[x] # NULL => SideOf(t1, x) = SideOf(t, x)
    BY <1>3, <2>2, <2>3, <2>4 DEF SideOf
  <2>6. t1.parent[x] # NULL => t1.child[SideOf(t1, x)][t1.parent[x]] = x
    BY <1>3, <2>1, <2>2, <2>3, <2>5, SideIs DEF Hangs
  <2>7. ASSUME NEW a \in Key, NEW q \in Side, t1.child[q][a] = x PROVE a = t1.parent[x] /\ q = SideOf(t1, x)
    BY <2>1, <2>2, <2>3, <2>5, <2>7, KeyAssumption DEF Hangs
  <2> QED
    BY <2>6, <2>7 DEF Hangs
<1>7. /\ t2 \in TreeType
      /\ t2.root = IF t1.parent[x] = NULL THEN y ELSE t1.root
      /\ \A q \in Side, a \in Key : t2.child[q][a] = IF t1.child[q][a] = x THEN y ELSE t1.child[q][a]
      /\ \A a \in Key : t2.parent[a] = IF a = y THEN t1.parent[x] ELSE t1.parent[a]
  <2>1. Replaced(t2, t1, x, y)
    BY <1>0, <1>5, <1>6, ReplaceIs
  <2> HIDE DEF t2
  <2> QED
    BY <2>1 DEF Replaced
<1> HIDE DEF t2
<1>8. /\ w \in TreeType /\ w.root = t2.root
      /\ \A q \in Side, a \in Key : w.child[q][a] = IF q = s /\ a = y THEN x ELSE t2.child[q][a]
      /\ \A a \in Key : w.parent[a] = IF a = x THEN y ELSE t2.parent[a]
  <2>1. Attached(w, t2, s, y, x)
    BY <1>0, <1>7, AttachIs
  <2> HIDE DEF w
  <2> QED
    BY <2>1 DEF Attached
<1> HIDE DEF w
<1>9. w.root = IF t.parent[x] = NULL THEN y ELSE t.root
  BY <1>2, <1>5, <1>7, <1>8
<1>10. ASSUME NEW q \in Side, NEW a \in Key
       PROVE  w.child[q][a] =
                 IF a = x /\ q = o THEN b
                 ELSE IF a = y /\ q = s THEN x
                 ELSE IF t.child[q][a] = x THEN y
                 ELSE t.child[q][a]
  BY <1>1, <1>2, <1>5, <1>7, <1>8
<1>11. ASSUME NEW a \in Key
       PROVE  w.parent[a] =
                 IF a = x THEN y
                 ELSE IF a = y THEN t.parent[x]
                 ELSE IF a = b THEN x
                 ELSE t.parent[a]
  BY <1>2, <1>5, <1>7, <1>8
<1> QED
  BY <1>4, <1>8, <1>9, <1>10, <1>11 DEF o

\* The nodes after a rotation: only those of the two that are turned have
\* others below them.
Rotated(w, E, t, D, N, x, s, y) ==
    /\ TreeIs(w, E, N)
    /\ E[y] = D[x] /\ \A a \in Key \ {x, y} : E[a] = D[a]
    /\ \A q \in Side, a \in Key :
          a # x /\ ~(a = y /\ q = s) => w.child[q][a] = IF t.child[q][a] = x THEN y ELSE t.child[q][a]

\* The nodes around a rotation are different ones.
LEMMA RotateAround ==
    ASSUME NEW t, NEW D, NEW N, TreeIs(t, D, N), NEW x \in Key, NEW s \in Side, NEW o, o = Other(s),
           NEW y \in Key, y = t.child[o][x], NEW b, b = t.child[s][y], NEW d, d = t.child[o][y],
           NEW e, e = t.child[s][x]
    PROVE  /\ o \in Side /\ o # s /\ x # NULL /\ y # NULL /\ x # y /\ x \in N /\ y \in N
           /\ b \in Node /\ d \in Node /\ e \in Node
           /\ {b, d, e} \cap {x, y} = {} /\ (b # NULL => b # d /\ b # e)
           /\ t.parent[y] = x /\ (b # NULL => t.parent[b] = y)
           /\ t.parent[x] # x /\ t.parent[x] # y
           /\ D[x] = {x, y} \cup Under(D, b) \cup Under(D, d) \cup Under(D, e)
           /\ \A k \in Under(D, b) : Beyond(o, x, k) /\ Beyond(s, y, k) /\ k \in Key
           /\ \A k \in Under(D, d) : Beyond(o, x, k) /\ Beyond(o, y, k) /\ k \in Key
           /\ \A k \in Under(D, e) : Beyond(s, x, k) /\ Beyond(s, y, k) /\ k \in Key
           /\ Beyond(s, y, x)
<1>0. Shaped(t, D) /\ Linked(t, N) /\ x # NULL /\ y # NULL /\ Key \subseteq Nat
  BY KeyAssumption DEF TreeIs
<1>1. o \in Side /\ o # s /\ Side = {o, s} /\ Side = {"left", "right"}
  BY DEF Other, Side
<1>2. b \in Node /\ d \in Node /\ e \in Node
  BY <1>0, <1>1, TreeFields
<1>3. /\ D[x] = {x} \cup D[y] \cup Under(D, e)
      /\ D[y] = {y} \cup Under(D, b) \cup Under(D, d)
  <2>1. /\ D[x] = {x} \cup Under(D, t.child["left"][x]) \cup Under(D, t.child["right"][x])
        /\ D[y] = {y} \cup Under(D, t.child["left"][y]) \cup Under(D, t.child["right"][y])
    BY <1>0 DEF Shaped
  <2>2. Under(D, y) = D[y]
    BY <1>0 DEF Under
  <2>3. CASE s = "left"
    <3>1. o = "right"
      BY <1>1, <2>3
    <3> QED
      BY <2>1, <2>2, <2>3, <3>1
  <2>4. CASE s = "right"
    <3>1. o = "left"
      BY <1>1, <2>4
    <3> QED
      BY <2>1, <2>2, <2>4, <3>1
  <2> QED
    BY <1>1, <2>3, <2>4
<1>4. /\ \A k \in D[y] : Beyond(o, x, k) /\ k \in Key
      /\ \A k \in Under(D, b) : Beyond(s, y, k)
      /\ \A k \in Under(D, d) : Beyond(o, y, k)
      /\ \A k \in Under(D, e) : Beyond(s, x, k) /\ k \in Key
  <2>1. \A k \in D[y] : Beyond(o, x, k) /\ k \in Key
    BY <1>0, <1>1, ChildBelow
  <2>2. /\ \A k \in Under(D, b) : Beyond(s, y, k)
        /\ \A k \in Under(D, d) : Beyond(o, y, k)
        /\ \A k \in Under(D, e) : Beyond(s, x, k)
    BY <1>0, <1>1 DEF Shaped
  <2>3. Under(D, e) \subseteq Key
    BY <1>0, <1>2, TreeFields DEF Node
  <2> QED
    BY <2>1, <2>2, <2>3
<1>5. y \in D[y] /\ x \notin D[y] /\ x # y
  BY <1>0, <1>1, ChildBelow
<1>6. Beyond(s, y, x)
  <2>1. Beyond(o, x, y)
    BY <1>4, <1>5
  <2> QED
    BY <1>1, <2>1 DEF Beyond
<1>7. \A k \in Under(D, e) : Beyond(s, y, k)
  BY <1>0, <1>1, <1>4, <1>6 DEF Beyond
<1>8. \A k \in Key : ~(Beyond(s, x, k) /\ Beyond(o, x, k)) /\ ~(Beyond(s, y, k) /\ Beyond(o, y, k))
  BY <1>0, <1>1 DEF Beyond
<1>9. \A c \in {b, d, e} : c # NULL => c \in Under(D, c)
  BY <1>0, <1>2, TreeFields DEF Under
<1>10. \A k \in Key : ~Beyond(s, y, y) /\ ~Beyond(o, y, y) /\ ~Beyond(s, x, x) /\ ~Beyond(o, x, x)
  BY <1>0, <1>1 DEF Beyond
<1>11. b # NULL => b # x /\ b # y /\ b # d /\ b # e
  <2> HAVE b # NULL
  <2>1. b \in Under(D, b) /\ b \in D[y] /\ b \in Key /\ Beyond(s, y, b) /\ Beyond(o, x, b)
    BY <1>3, <1>4, <1>9
  <2>2. b # x /\ b # y
    BY <1>5, <1>10, <2>1
  <2>3. b # d
    <3> SUFFICES ASSUME b = d PROVE FALSE
      OBVIOUS
    <3>1. Beyond(o, y, b)
      BY <1>4, <2>1
    <3> QED
      BY <1>8, <2>1, <3>1
  <2>4. b # e
    <3> SUFFICES ASSUME b = e PROVE FALSE
      OBVIOUS
    <3>1. Beyond(s, x, b)
      BY <1>4, <2>1
    <3> QED
      BY <1>8, <2>1, <3>1
  <2> QED
    BY <2>2, <2>3, <2>4
<1>12. d # NULL => d # x /\ d # y
  <2> HAVE d # NULL
  <2>1. d \in D[y] /\ Beyond(o, y, d)
    BY <1>3, <1>4, <1>9
  <2> QED
    BY <1>5, <1>10, <2>1
<1>13. e # NULL => e # x /\ e # y
  <2> HAVE e # NULL
  <2>1. e \in Key /\ Beyond(s, x, e) /\ Beyond(s, y, e)
    BY <1>4, <1>7, <1>9
  <2> QED
    BY <1>10, <2>1
<1>14. t.parent[y] = x /\ (b # NULL => t.parent[b] = y)
  BY <1>0, <1>1 DEF Linked
<1>15. x \in N /\ y \in N
  <2>1. t.parent[y] # NULL
    BY <1>0, <1>14
  <2> QED
    BY <1>14, <2>1, MembersAre
<1>16. t.parent[x] # x /\ t.parent[x] # y
  <2>1. ASSUME NEW z \in {x, y}, t.parent[x] = z PROVE FALSE
    <3>1. PICK q \in Side : t.child[q][z] = x
      BY <1>0, <2>1 DEF Linked
    <3>2. x \in D[x] /\ D[x] \subseteq D[z] /\ z \notin D[x]
      BY <1>0, <3>1, ChildBelow
    <3> QED
      BY <1>3, <1>5, <3>2
  <2> QED
    BY <2>1
<1>17. D[x] = {x, y} \cup Under(D, b) \cup Under(D, d) \cup Under(D, e)
  BY <1>3
<1>18. {b, d, e} \cap {x, y} = {}
  BY <1>0, <1>11, <1>12, <1>13
<1>19. \A k \in Under(D, b) : Beyond(o, x, k) /\ Beyond(s, y, k) /\ k \in Key
  BY <1>3, <1>4
<1>20. \A k \in Under(D, d) : Beyond(o, x, k) /\ Beyond(o, y, k) /\ k \in Key
  BY <1>3, <1>4
<1> QED
  BY <1>0, <1>1, <1>2, <1>4, <1>5, <1>6, <1>7, <1>11, <1>14, <1>15, <1>16, <1>17, <1>18, <1>19, <1>20

LEMMA RotateTree ==
    ASSUME NEW t, NEW D, NEW N, TreeIs(t, D, N), NEW x \in Key, NEW s \in Side,
           NEW y \in Key, y = t.child[Other(s)][x]
    PROVE  \E E : Rotated(Rotate(t, x, s), E, t, D, N, x, s, y)
<1>1. PICK w, o, b, d, e : w = Rotate(t, x, s) /\ o = Other(s) /\ b = t.child[s][y] /\ d = t.child[o][y] /\ e = t.child[s][x]
  OBVIOUS
<1>2. /\ o \in Side /\ o # s /\ x # NULL /\ y # NULL /\ x # y /\ x \in N /\ y \in N
      /\ b \in Node /\ d \in Node /\ e \in Node
      /\ {b, d, e} \cap {x, y} = {} /\ (b # NULL => b # d /\ b # e)
      /\ t.parent[y] = x /\ (b # NULL => t.parent[b] = y)
      /\ t.parent[x] # x /\ t.parent[x] # y
      /\ D[x] = {x, y} \cup Under(D, b) \cup Under(D, d) \cup Under(D, e)
      /\ \A k \in Under(D, b) : Beyond(o, x, k) /\ Beyond(s, y, k) /\ k \in Key
      /\ \A k \in Under(D, d) : Beyond(o, x, k) /\ Beyond(o, y, k) /\ k \in Key
      /\ \A k \in Under(D, e) : Beyond(s, x, k) /\ Beyond(s, y, k) /\ k \in Key
      /\ Beyond(s, y, x)
  BY <1>1, RotateAround
<1>3. /\ w \in TreeType
      /\ w.root = IF t.parent[x] = NULL THEN y ELSE t.root
      /\ \A q \in Side, a \in Key : w.child[q][a] =
            IF a = x /\ q = o THEN b
            ELSE IF a = y /\ q = s THEN x
            ELSE IF t.child[q][a] = x THEN y
            ELSE t.child[q][a]
      /\ \A a \in Key : w.parent[a] =
            IF a = x THEN y
            ELSE IF a = y THEN t.parent[x]
            ELSE IF a = b THEN x
            ELSE t.parent[a]
  BY <1>1, RotateIs
<1>4. Shaped(t, D) /\ Linked(t, N) /\ Under(D, t.root) = N
  BY DEF TreeIs
<1>5. /\ \A q \in Side : q = s \/ q = o
      /\ Side = {"left", "right"}
      /\ \A a \in Key : a # NULL
  BY <1>1, KeyAssumption DEF Other, Side
<1>6. \A q \in Side, a \in Key : t.child[q][a] # a /\ t.child[q][a] \in Node
                                 /\ (t.child[q][a] # NULL => t.parent[t.child[q][a]] = a)
  BY <1>4, <1>5, ChildBelow, TreeFields DEF Linked
<1> DEFINE Ex == {x} \cup Under(D, e) \cup Under(D, b)
           E == [a \in Key |-> IF a = y THEN D[x] ELSE IF a = x THEN Ex ELSE D[a]]
<1>7. /\ E \in [Key -> SUBSET Key] /\ E[y] = D[x] /\ E[x] = Ex
      /\ \A a \in Key \ {x, y} : E[a] = D[a]
  <2>1. D[x] \subseteq Key /\ \A a \in Key : D[a] \subseteq Key
    BY <1>4, TreeFields
  <2>2. Ex \subseteq Key
    BY <1>2, <2>1
  <2> HIDE DEF Ex
  <2> QED
    BY <1>2, <2>1, <2>2
<1> HIDE DEF E
<1>8. \A c \in Node : c # x /\ c # y => Under(E, c) = Under(D, c)
  BY <1>7 DEF Under, Node
<1>9. /\ w.child[o][x] = b /\ w.child[s][x] = e
      /\ w.child[s][y] = x /\ w.child[o][y] = d
      /\ \A a \in Key \ {x, y}, q \in Side : w.child[q][a] = IF t.child[q][a] = x THEN y ELSE t.child[q][a]
  <2>1. w.child[o][x] = b /\ w.child[s][y] = x
    BY <1>1, <1>2, <1>3
  <2>2. w.child[s][x] = e
    <3>1. t.child[s][x] # x
      BY <1>6
    <3> QED
      BY <1>1, <1>2, <1>3, <3>1
  <2>3. w.child[o][y] = d
    <3>1. d # x
      BY <1>2
    <3> QED
      BY <1>1, <1>2, <1>3, <3>1
  <2>4. \A a \in Key \ {x, y}, q \in Side : w.child[q][a] = IF t.child[q][a] = x THEN y ELSE t.child[q][a]
    BY <1>3
  <2> QED
    BY <2>1, <2>2, <2>3, <2>4
<1>10. ASSUME NEW a \in Key \ {x, y}, NEW q \in Side PROVE Under(E, w.child[q][a]) = Under(D, t.child[q][a])
  <2>1. CASE t.child[q][a] = x
    <3>1. w.child[q][a] = y
      BY <1>9, <2>1
    <3>2. Under(E, y) = D[x] /\ Under(D, x) = D[x]
      BY <1>2, <1>7 DEF Under
    <3> QED
      BY <2>1, <3>1, <3>2
  <2>2. CASE t.child[q][a] # x
    <3>1. t.child[q][a] # y
      BY <1>2, <1>5, <1>6
    <3> QED
      BY <1>6, <1>8, <1>9, <2>2, <3>1
  <2> QED
    BY <2>1, <2>2
<1>11. Shaped(w, E)
  <2>1. /\ Under(E, w.child[o][x]) = Under(D, b) /\ Under(E, w.child[s][x]) = Under(D, e)
        /\ Under(E, w.child[s][y]) = Ex /\ Under(E, w.child[o][y]) = Under(D, d)
    <3>1. Under(E, b) = Under(D, b) /\ Under(E, e) = Under(D, e) /\ Under(E, d) = Under(D, d)
      BY <1>2, <1>8
    <3>2. Under(E, x) = Ex
      BY <1>2, <1>7 DEF Under
    <3> QED
      BY <1>9, <3>1, <3>2
  <2>2. ASSUME NEW z \in Key
        PROVE  E[z] = {z} \cup Under(E, w.child["left"][z]) \cup Under(E, w.child["right"][z])
    <3>0. SUFFICES E[z] = {z} \cup Under(E, w.child[s][z]) \cup Under(E, w.child[o][z])
      <4>1. CASE s = "left"
        BY <1>2, <1>5, <4>1
      <4>2. CASE s = "right"
        BY <1>2, <1>5, <4>2
      <4> QED
        BY <1>5, <4>1, <4>2
    <3>1. CASE z = x
      BY <1>7, <2>1, <3>1
    <3>2. CASE z = y
      BY <1>2, <1>7, <2>1, <3>2
    <3>3. CASE z # x /\ z # y
      <4>1. E[z] = D[z] /\ Under(E, w.child[s][z]) = Under(D, t.child[s][z])
            /\ Under(E, w.child[o][z]) = Under(D, t.child[o][z])
        BY <1>2, <1>7, <1>10, <3>3
      <4>2. D[z] = {z} \cup Under(D, t.child["left"][z]) \cup Under(D, t.child["right"][z])
        BY <1>4 DEF Shaped
      <4>3. CASE s = "left"
        BY <1>2, <1>5, <4>1, <4>2, <4>3
      <4>4. CASE s = "right"
        BY <1>2, <1>5, <4>1, <4>2, <4>4
      <4> QED
        BY <1>5, <4>3, <4>4
    <3> QED
      BY <3>1, <3>2, <3>3
  <2>3. ASSUME NEW z \in Key, NEW q \in Side, NEW k \in Under(E, w.child[q][z]) PROVE Beyond(q, z, k)
    <3>1. CASE z = x
      BY <1>2, <1>5, <2>1, <2>3, <3>1
    <3>2. CASE z = y
      BY <1>2, <1>5, <2>1, <2>3, <3>2
    <3>3. CASE z # x /\ z # y
      <4>1. k \in Under(D, t.child[q][z])
        BY <1>10, <2>3, <3>3
      <4> QED
        BY <1>4, <4>1 DEF Shaped
    <3> QED
      BY <3>1, <3>2, <3>3
  <2> QED
    BY <1>3, <1>7, <2>2, <2>3 DEF Shaped
<1>12. Linked(w, N)
  <2>1. ASSUME NEW z \in Key, NEW q \in Side, w.child[q][z] # NULL PROVE w.parent[w.child[q][z]] = z
    <3>1. CASE z = x /\ q = o
      BY <1>2, <1>3, <1>9, <2>1, <3>1 DEF Node
    <3>2. CASE z = x /\ q = s
      <4>1. t.parent[e] = x
        BY <1>1, <1>6, <1>9, <2>1, <3>2
      <4> QED
        BY <1>2, <1>3, <1>9, <2>1, <3>2, <4>1 DEF Node
    <3>3. CASE z = y /\ q = s
      BY <1>3, <1>9, <3>3
    <3>4. CASE z = y /\ q = o
      <4>1. d # NULL /\ d = t.child[o][y] /\ o \in Side
        BY <1>1, <1>2, <1>9, <2>1, <3>4
      <4>2. t.parent[d] = y
        BY <1>6, <4>1
      <4> QED
        BY <1>2, <1>3, <1>9, <2>1, <3>4, <4>2 DEF Node
    <3>5. CASE z # x /\ z # y
      <4>1. CASE t.child[q][z] = x
        <5>1. t.parent[x] = z
          BY <1>2, <1>6, <4>1
        <5> QED
          BY <1>2, <1>3, <1>9, <3>5, <4>1, <5>1
      <4>2. CASE t.child[q][z] # x
        <5>1. PICK c \in Node : c = t.child[q][z]
          BY <1>6
        <5>2. w.child[q][z] = c /\ c \in Key /\ c # NULL
          BY <1>9, <2>1, <3>5, <4>2, <5>1 DEF Node
        <5>3. t.parent[c] = z
          BY <1>6, <5>1, <5>2
        <5>4. c # x /\ c # y /\ c # b
          BY <1>2, <3>5, <4>2, <5>1, <5>2, <5>3
        <5> QED
          BY <1>3, <5>2, <5>3, <5>4
      <4> QED
        BY <4>1, <4>2
    <3> QED
      BY <1>5, <3>1, <3>2, <3>3, <3>4, <3>5
  <2>2. ASSUME NEW c \in Key, w.parent[c] # NULL PROVE \E q \in Side : w.child[q][w.parent[c]] = c
    <3>1. CASE c = x
      BY <1>3, <1>9, <3>1
    <3>2. CASE c = y
      <4>1. PICK p \in Node : p = t.parent[x]
        BY <1>4, TreeFields
      <4>2. w.parent[c] = p /\ p \in Key /\ p # x /\ p # y
        BY <1>2, <1>3, <2>2, <3>2, <4>1 DEF Node
      <4>3. PICK q \in Side : t.child[q][p] = x
        BY <1>4, <2>2, <4>1, <4>2 DEF Linked
      <4> QED
        BY <1>9, <3>2, <4>2, <4>3
    <3>3. CASE c = b
      BY <1>2, <1>3, <1>9, <3>3
    <3>4. CASE c # x /\ c # y /\ c # b
      <4>1. PICK p \in Node : p = t.parent[c]
        BY <1>4, TreeFields
      <4>2. w.parent[c] = p /\ p \in Key
        BY <1>3, <2>2, <3>4, <4>1 DEF Node
      <4>3. PICK q \in Side : t.child[q][p] = c
        BY <1>4, <2>2, <4>1, <4>2 DEF Linked
      <4>4. ~(p = x /\ q = o) /\ ~(p = y /\ q = s)
        BY <1>1, <3>4, <4>3
      <4>5. w.child[q][p] = c
        BY <1>3, <3>4, <4>2, <4>3, <4>4
      <4> QED
        BY <4>2, <4>5
    <3> QED
      BY <3>1, <3>2, <3>3, <3>4
  <2>3. ASSUME NEW z \in Key PROVE w.parent[z] = NULL <=> (z = w.root \/ z \notin N)
    <3>1. \A a \in Key : t.parent[a] = NULL <=> (a = t.root \/ a \notin N)
      BY <1>4 DEF Linked
    <3>2. t.root # y /\ (t.parent[x] = NULL <=> x = t.root)
      BY <1>2, <3>1
    <3>3. CASE z = x
      BY <1>2, <1>3, <3>2, <3>3
    <3>4. CASE z = y
      BY <1>2, <1>3, <3>2, <3>4
    <3>5. CASE z = b
      <4>1. b # NULL /\ t.parent[b] # NULL /\ b \in Key
        BY <1>2, <1>5, <3>5
      <4>2. b \in N /\ b # t.root
        BY <3>1, <4>1
      <4> QED
        BY <1>2, <1>3, <3>5, <4>1, <4>2
    <3>6. CASE z # x /\ z # y /\ z # b
      BY <1>2, <1>3, <3>1, <3>2, <3>6
    <3> QED
      BY <3>3, <3>4, <3>5, <3>6
  <2>4. ASSUME NEW z \in Key \ N, NEW q \in Side PROVE w.child[q][z] = NULL
    <3>1. t.child[q][z] = NULL /\ z # x /\ z # y
      BY <1>2, <1>4 DEF Linked
    <3> QED
      BY <1>2, <1>9, <3>1
  <2> QED
    BY <2>1, <2>2, <2>3, <2>4 DEF Linked
<1>13. Under(E, w.root) = N
  <2>1. \A a \in Key : t.parent[a] = NULL <=> (a = t.root \/ a \notin N)
    BY <1>4 DEF Linked
  <2>2. t.root # y /\ (t.parent[x] = NULL <=> x = t.root) /\ t.root \in Node
    BY <1>2, <1>4, <2>1, TreeFields
  <2>3. CASE t.parent[x] = NULL
    <3>1. w.root = y /\ t.root = x
      BY <1>3, <2>2, <2>3
    <3> QED
      BY <1>2, <1>4, <1>7, <3>1 DEF Under
  <2>4. CASE t.parent[x] # NULL
    <3>1. w.root = t.root /\ t.root # x
      BY <1>3, <2>2, <2>4
    <3> QED
      BY <1>4, <1>8, <2>2, <3>1
  <2> QED
    BY <2>3, <2>4
<1>14. TreeIs(w, E, N)
  BY <1>11, <1>12, <1>13 DEF TreeIs
<1>15. \A q \in Side, a \in Key :
          a # x /\ ~(a = y /\ q = s) => w.child[q][a] = IF t.child[q][a] = x THEN y ELSE t.child[q][a]
  BY <1>3
<1> QED
  BY <1>1, <1>7, <1>14, <1>15 DEF Rotated

LEMMA OtherSide ==
    ASSUME NEW s \in Side
    PROVE  Other(s) \in Side /\ Other(s) # s /\ Other(Other(s)) = s /\ \A q \in Side : q # s => q = Other(s)
BY DEF Other, Side

\* A turn of the loop of splay keeps the tree and brings the node further up.
LEMMA TurnIs ==
    ASSUME NEW t, NEW D, NEW N, TreeIs(t, D, N), NEW x \in Key, t.parent[x] # NULL
    PROVE  \E E : TreeIs(Turn(t, x), E, N) /\ Cardinality(D[x]) < Cardinality(E[x])
<1>0. Shaped(t, D) /\ Linked(t, N)
  BY DEF TreeIs
<1>1. PICK p, s : p = t.parent[x] /\ s = SideOf(t, x)
  OBVIOUS
<1>2. p \in Key /\ s \in Side /\ t.child[s][p] = x /\ p # x /\ D[x] \subseteq D[p] /\ p \notin D[x]
      /\ x \in D[p] /\ p \in D[p]
  <2>1. Hangs(t, x) /\ p \in Node
    BY <1>0, <1>1, TreeHangs, TreeFields
  <2>2. p \in Key /\ s \in Side /\ t.child[s][p] = x
    BY <1>1, <2>1, SideIs DEF Hangs, Node
  <2>3. x # NULL
    BY KeyAssumption
  <2> QED
    BY <1>0, <2>2, <2>3, ChildBelow, TreeFields
<1>3. PICK o \in Side : o = Other(s) /\ o # s /\ Other(o) = s /\ \A q \in Side : q # s => q = o
  BY <1>2, OtherSide
<1>4. PICK g \in Node : g = t.parent[p]
  BY <1>0, <1>2, TreeFields
<1>5. SUFFICES \E E : \E a \in Key : TreeIs(Turn(t, x), E, N) /\ E[x] = D[a] /\ D[x] \subseteq D[a] /\ D[x] # D[a]
  <2>0. PICK E : \E a \in Key : TreeIs(Turn(t, x), E, N) /\ E[x] = D[a] /\ D[x] \subseteq D[a] /\ D[x] # D[a]
    BY <1>5
  <2>1. PICK a \in Key : TreeIs(Turn(t, x), E, N) /\ E[x] = D[a] /\ D[x] \subseteq D[a] /\ D[x] # D[a]
    BY <2>0
  <2>2. D[a] \subseteq Key /\ IsFiniteSet(Key)
    BY <1>0, TreeFields, KeyAssumption
  <2>3. IsFiniteSet(D[a])
    BY <2>2, FS_Subset
  <2>4. Cardinality(D[x]) <= Cardinality(D[a]) /\ Cardinality(D[x]) # Cardinality(D[a])
    BY <2>1, <2>3, FS_Subset
  <2>5. Cardinality(D[x]) \in Nat /\ Cardinality(D[a]) \in Nat
    BY <1>0, RankIs
  <2> QED
    BY <2>1, <2>4, <2>5
<1>6. CASE g = NULL
  <2>1. Turn(t, x) = Rotate(t, p, o)
    BY <1>1, <1>3, <1>4, <1>6 DEF Turn
  <2>2. x = t.child[Other(o)][p]
    BY <1>2, <1>3
  <2>3. PICK E : Rotated(Rotate(t, p, o), E, t, D, N, p, o, x)
    BY <1>2, <2>2, RotateTree
  <2>4. TreeIs(Turn(t, x), E, N) /\ E[x] = D[p]
    BY <2>1, <2>3 DEF Rotated
  <2> QED
    BY <1>2, <2>4
<1>7. CASE g # NULL
  <2>1. PICK r : r = SideOf(t, p)
    OBVIOUS
  <2>2. g \in Key /\ r \in Side /\ t.child[r][g] = p /\ g # p /\ D[p] \subseteq D[g] /\ g \notin D[p]
        /\ g # x /\ p \in D[g] /\ g \in D[g]
    <3>1. Hangs(t, p)
      BY <1>2, TreeHangs
    <3>2. g \in Key /\ r \in Side /\ t.child[r][g] = p
      BY <1>4, <1>7, <2>1, <3>1, SideIs DEF Hangs, Node
    <3>3. p # NULL
      BY <1>2, KeyAssumption
    <3>4. g # p /\ D[p] \subseteq D[g] /\ g \notin D[p] /\ p \in D[g]
      BY <1>0, <1>2, <3>2, <3>3, ChildBelow
    <3> QED
      BY <1>0, <1>2, <3>2, <3>4, TreeFields
  <2>3. D[x] \subseteq D[g] /\ D[x] # D[g]
    BY <1>2, <2>2
  <2>4. CASE r = s
    <3>1. PICK u : u = Rotate(t, g, o)
      OBVIOUS
    <3>2. Turn(t, x) = Rotate(u, p, o)
      BY <1>1, <1>2, <1>3, <1>4, <1>7, <2>1, <2>4, <3>1, KeyAssumption DEF Turn
    <3>3. p = t.child[Other(o)][g]
      BY <1>3, <2>2, <2>4
    <3>4. PICK E : Rotated(u, E, t, D, N, g, o, p)
      BY <1>2, <2>2, <3>1, <3>3, RotateTree
    <3>5. TreeIs(u, E, N) /\ E[p] = D[g] /\ E[x] = D[x]
      BY <1>2, <2>2, <3>4 DEF Rotated
    <3>6. u.child[s][p] = x
      BY <1>2, <1>3, <2>2, <3>4 DEF Rotated
    <3>7. x = u.child[Other(o)][p]
      BY <1>3, <3>6
    <3>8. PICK F : Rotated(Rotate(u, p, o), F, u, E, N, p, o, x)
      BY <1>2, <3>5, <3>7, RotateTree
    <3>9. TreeIs(Turn(t, x), F, N) /\ F[x] = D[g]
      BY <3>2, <3>5, <3>8 DEF Rotated
    <3> QED
      BY <2>2, <2>3, <3>9
  <2>5. CASE r # s
    <3>1. PICK u : u = Rotate(t, p, o)
      OBVIOUS
    <3>2. Turn(t, x) = Rotate(u, g, s)
      BY <1>1, <1>2, <1>3, <1>4, <1>7, <2>1, <2>5, <3>1, KeyAssumption DEF Turn
    <3>3. x = t.child[Other(o)][p] /\ r = o
      BY <1>2, <1>3, <2>2, <2>5
    <3>4. PICK E : Rotated(u, E, t, D, N, p, o, x)
      BY <1>2, <3>1, <3>3, RotateTree
    <3>5. TreeIs(u, E, N) /\ E[x] = D[p] /\ E[g] = D[g]
      BY <1>2, <2>2, <3>4 DEF Rotated
    <3>6. u.child[o][g] = x
      BY <1>2, <2>2, <3>3, <3>4 DEF Rotated
    <3>7. x = u.child[Other(s)][g]
      BY <1>3, <3>6
    <3>8. PICK F : Rotated(Rotate(u, g, s), F, u, E, N, g, s, x)
      BY <1>2, <2>2, <3>5, <3>7, RotateTree
    <3>9. TreeIs(Turn(t, x), F, N) /\ F[x] = D[g]
      BY <3>2, <3>5, <3>8 DEF Rotated
    <3> QED
      BY <2>2, <2>3, <3>9
  <2> QED
    BY <2>4, <2>5
<1> QED
  BY <1>6, <1>7

SplayEq(f, t, x) == f = [n \in 0 .. Cardinality(Key) |-> IF n = 0 THEN t ELSE Turn(f[n - 1], x)]

\* splay keeps the tree and ends with the node at the root: as many turns as
\* there are keys bring it there.
LEMMA SplayIs ==
    ASSUME NEW t, NEW N, Tree(t, N), NEW x \in N
    PROVE  Tree(Splay(t, x), N) /\ Splay(t, x).root = x
<1> DEFINE K == Cardinality(Key)
           f == CHOOSE h : SplayEq(h, t, x)
           Upto(n) == \E h : h = [i \in 0 .. K |-> h[i]] /\ \A i \in 0 .. K : i <= n => h[i] = IF i = 0 THEN t ELSE Turn(h[i - 1], x)
           T == {n \in Nat : n <= K /\ ~Upto(n)}
<1>0. K \in Nat /\ x \in Key
  <2>1. PICK D : TreeIs(t, D, N)
    BY DEF Tree
  <2> QED
    BY <2>1, MembersAre, RankIs DEF TreeIs
<1>1. Splay(t, x) = f[K]
  BY Zenon DEF Splay, SplayEq
<1> HIDE DEF K
<1>2. T = {}
  <2> SUFFICES ASSUME T # {} PROVE FALSE
    OBVIOUS
  <2>1. PICK n \in T : \A m \in T : n <= m
    <3>1. T \subseteq Nat
      OBVIOUS
    <3> HIDE DEF T
    <3> QED
      BY <3>1, LeastNatural
  <2>2. n \in Nat /\ n <= K /\ ~Upto(n)
    BY <2>1
  <2>3. CASE n = 0
    <3>1. PICK h : h = [i \in 0 .. K |-> t]
      OBVIOUS
    <3>2. h = [i \in 0 .. K |-> h[i]] /\ \A i \in 0 .. K : i <= 0 => h[i] = t /\ i = 0
      BY <3>1
    <3> QED
      BY <2>2, <2>3, <3>2
  <2>4. CASE n # 0
    <3>1. PICK m \in Nat : n = m + 1
      <4> HIDE DEF Upto
      <4>1. n \in Nat
        BY <2>2
      <4>2. n - 1 \in Nat /\ n = (n - 1) + 1
        BY <2>4, <4>1
      <4> QED
        BY <4>2
    <3>2. Upto(m)
      <4> HIDE DEF Upto
      <4>1. ~(m \in T) /\ m <= K
        BY <1>0, <2>1, <2>2, <3>1
      <4> QED
        BY <4>1
    <3>3. PICK h : h = [i \in 0 .. K |-> h[i]] /\ \A i \in 0 .. K : i <= m => h[i] = IF i = 0 THEN t ELSE Turn(h[i - 1], x)
      BY <3>2
    <3>4. PICK k : k = [i \in 0 .. K |-> IF i = n THEN Turn(h[m], x) ELSE h[i]]
      OBVIOUS
    <3>5. k = [i \in 0 .. K |-> k[i]]
      BY <3>4
    <3>6. ASSUME NEW i \in 0 .. K, i <= n PROVE k[i] = IF i = 0 THEN t ELSE Turn(k[i - 1], x)
      <4>1. CASE i = n
        <5>1. i - 1 = m /\ m \in 0 .. K /\ m # n /\ i # 0
          BY <1>0, <2>2, <3>1, <4>1
        <5>2. k[i] = Turn(h[m], x) /\ k[m] = h[m]
          BY <3>4, <4>1, <5>1
        <5> QED
          BY <5>1, <5>2
      <4>2. CASE i # n
        <5>1. i <= m /\ k[i] = h[i]
          BY <1>0, <2>2, <3>1, <3>4, <3>6, <4>2
        <5>2. h[i] = IF i = 0 THEN t ELSE Turn(h[i - 1], x)
          BY <3>3, <5>1
        <5>3. i # 0 => i - 1 \in 0 .. K /\ i - 1 # n
          BY <1>0, <2>2, <3>1, <5>1
        <5>4. i # 0 => k[i - 1] = h[i - 1]
          BY <3>4, <5>3
        <5> QED
          BY <5>1, <5>2, <5>4
      <4> QED
        BY <4>1, <4>2
    <3> QED
      BY <2>2, <3>5, <3>6
  <2> QED
    BY <2>3, <2>4
<1>3. SplayEq(f, t, x)
  <2>1. Upto(K)
    <3> HIDE DEF Upto
    <3> QED
      BY <1>0, <1>2
  <2>2. PICK h : h = [i \in 0 .. K |-> h[i]] /\ \A i \in 0 .. K : i <= K => h[i] = IF i = 0 THEN t ELSE Turn(h[i - 1], x)
    BY <2>1
  <2>3. ASSUME NEW i \in 0 .. K PROVE h[i] = IF i = 0 THEN t ELSE Turn(h[i - 1], x)
    <3>1. i <= K
      BY <1>0
    <3> HIDE DEF f, T, Upto
    <3> QED
      BY <2>2, <3>1
  <2>4. SplayEq(h, t, x)
    BY <2>2, <2>3 DEF SplayEq, K
  <2> QED
    BY <2>4, Zenon
<1> HIDE DEF f, T
<1>4. \A i \in 0 .. K : f[i] = IF i = 0 THEN t ELSE Turn(f[i - 1], x)
  BY <1>3 DEF SplayEq, K
<1> DEFINE Good(n) == \E D : TreeIs(f[n], D, N) /\ (f[n].root = x \/ Cardinality(D[x]) > n)
           U == {n \in Nat : n <= K /\ ~Good(n)}
<1>5. U = {}
  <2> SUFFICES ASSUME U # {} PROVE FALSE
    OBVIOUS
  <2>1. PICK n \in U : \A m \in U : n <= m
    <3>1. U \subseteq Nat
      OBVIOUS
    <3> HIDE DEF U
    <3> QED
      BY <3>1, LeastNatural
  <2>2. n \in Nat /\ n <= K /\ ~Good(n) /\ n \in 0 .. K
    BY <1>0, <2>1
  <2>3. CASE n = 0
    <3>1. f[n] = t
      BY <1>0, <1>4, <2>3
    <3>2. PICK D : TreeIs(t, D, N)
      BY DEF Tree
    <3>3. x \in D[x] /\ D[x] \subseteq Key
      BY <1>0, <3>2, TreeFields DEF TreeIs
    <3>4. IsFiniteSet(D[x]) /\ Cardinality(D[x]) \in Nat
      BY <3>3, KeyAssumption, FS_Subset, FS_CardinalityType
    <3>5. Cardinality(D[x]) # 0
      BY <3>3, <3>4, FS_EmptySet
    <3>6. Cardinality(D[x]) > n
      BY <2>3, <3>4, <3>5
    <3> QED
      BY <2>2, <3>1, <3>2, <3>6
  <2>4. CASE n # 0
    <3>1. PICK m \in Nat : n = m + 1
      <4> HIDE DEF Good
      <4>1. n \in Nat
        BY <2>2
      <4>2. n - 1 \in Nat /\ n = (n - 1) + 1
        BY <2>4, <4>1
      <4> QED
        BY <4>2
    <3>2. Good(m)
      <4> HIDE DEF Good
      <4>1. ~(m \in U) /\ m <= K
        BY <1>0, <2>1, <2>2, <3>1
      <4> QED
        BY <4>1
    <3>3. PICK D : TreeIs(f[m], D, N) /\ (f[m].root = x \/ Cardinality(D[x]) > m)
      BY <3>2
    <3>4. f[n] = Turn(f[m], x)
      BY <1>4, <2>2, <2>4, <3>1
    <3>5. f[m].root = x <=> f[m].parent[x] = NULL
      BY <1>0, <3>3 DEF TreeIs, Linked
    <3>6. CASE f[m].parent[x] = NULL
      <4>1. f[n] = f[m]
        BY <3>4, <3>6 DEF Turn
      <4> QED
        BY <2>2, <3>3, <3>5, <3>6, <4>1
    <3>7. CASE f[m].parent[x] # NULL
      <4>1. PICK E : TreeIs(f[n], E, N) /\ Cardinality(D[x]) < Cardinality(E[x])
        BY <1>0, <3>3, <3>4, <3>7, TurnIs
      <4>2. Cardinality(D[x]) \in Nat /\ Cardinality(E[x]) \in Nat /\ Cardinality(D[x]) > m
        BY <1>0, <3>3, <3>5, <3>7, <4>1, RankIs DEF TreeIs
      <4>3. Cardinality(E[x]) > n
        BY <3>1, <4>1, <4>2
      <4> QED
        BY <2>2, <4>1, <4>3
    <3> QED
      BY <3>6, <3>7
  <2> QED
    BY <2>3, <2>4
<1>6. Good(K)
  <2> HIDE DEF Good
  <2> QED
    BY <1>0, <1>5
<1>7. PICK D : TreeIs(f[K], D, N) /\ (f[K].root = x \/ Cardinality(D[x]) > K)
  BY <1>6
<1>8. ~(Cardinality(D[x]) > K)
  <2>1. Cardinality(D[x]) \in 0 .. K
    BY <1>0, <1>7, RankIs DEF TreeIs, K
  <2> QED
    BY <1>0, <2>1
<1> QED
  BY <1>1, <1>7, <1>8 DEF Tree

\* Under a new leaf nothing but the leaf changes.
LEMMA HungIs ==
    ASSUME NEW t, NEW D, NEW N, TreeIs(t, D, N), NEW key \in Key \ N, t.root # NULL,
           NEW p \in N, Toward(t, p, key) = NULL, Fits(t, D, N, p, key)
    PROVE  Tree(Attach(t, IF p < key THEN "right" ELSE "left", p, key), N \cup {key})
<1>0. /\ Shaped(t, D) /\ Linked(t, N) /\ Under(D, t.root) = N /\ t \in TreeType
      /\ N \subseteq Key /\ p \in Key /\ p # key /\ key # NULL /\ key \in Node /\ D[key] = {key}
      /\ t.root \in N /\ p \in Nat /\ key \in Nat
  <2>1. Shaped(t, D) /\ Linked(t, N) /\ Under(D, t.root) = N /\ t \in TreeType
    BY DEF TreeIs, Shaped
  <2>2. N \subseteq Key /\ D[key] = {key} /\ t.root \in N
    BY MembersAre
  <2> QED
    BY <2>1, <2>2, KeyAssumption DEF Node
<1>1. PICK s \in Side : s = IF p < key THEN "right" ELSE "left"
  BY DEF Side
<1>2. t.child[s][p] = NULL /\ Beyond(s, p, key)
  BY <1>0, <1>1 DEF Toward, Beyond
<1>3. PICK w : w = Attach(t, IF p < key THEN "right" ELSE "left", p, key)
  OBVIOUS
<1>4. /\ w \in TreeType /\ w.root = t.root
      /\ \A q \in Side, a \in Key : w.child[q][a] = IF q = s /\ a = p THEN key ELSE t.child[q][a]
      /\ \A a \in Key : w.parent[a] = IF a = key THEN p ELSE t.parent[a]
  <2>1. Attached(w, t, s, p, key)
    BY <1>0, <1>1, <1>3, AttachIs
  <2> QED
    BY <2>1 DEF Attached
<1> DEFINE E == [a \in Key |-> IF p \in D[a] THEN D[a] \cup {key} ELSE D[a]]
<1>5. E \in [Key -> SUBSET Key] /\ \A a \in Key : E[a] = IF p \in D[a] THEN D[a] \cup {key} ELSE D[a]
  <2>1. \A a \in Key : D[a] \subseteq Key
    BY <1>0, TreeFields
  <2> QED
    BY <2>1
<1> HIDE DEF E
<1>6. \A a \in Key : p \in D[a] => a \in N
  BY <1>0, MembersAre
<1>7. \A c \in Node : Under(E, c) = IF p \in Under(D, c) THEN Under(D, c) \cup {key} ELSE Under(D, c)
  BY <1>5 DEF Under, Node
<1>8. Under(E, key) = {key}
  BY <1>0, <1>5 DEF Under
<1>9. \A q \in Side, a \in Key : t.child[q][a] \in Node /\ t.child[q][a] # key
  <2> TAKE q \in Side, a \in Key
  <2>1. t.child[q][a] \in Node
    BY <1>0, TreeFields
  <2>2. ASSUME t.child[q][a] = key PROVE FALSE
    <3>1. t.parent[key] = a
      BY <1>0, <2>2 DEF Linked
    <3>2. a # NULL
      BY KeyAssumption
    <3> QED
      BY <1>0, <3>1, <3>2 DEF Linked
  <2> QED
    BY <2>1, <2>2
<1>10. ASSUME NEW z \in Key, NEW q \in Side
       PROVE  Under(E, w.child[q][z]) =
                IF (q = s /\ z = p) \/ p \in Under(D, t.child[q][z]) THEN Under(D, t.child[q][z]) \cup {key}
                ELSE Under(D, t.child[q][z])
  <2>1. CASE q = s /\ z = p
    <3>1. Under(D, t.child[q][z]) = {}
      BY <1>2, <2>1 DEF Under
    <3> QED
      BY <1>4, <1>8, <2>1, <3>1
  <2>2. CASE ~(q = s /\ z = p)
    BY <1>4, <1>7, <1>9, <2>2
  <2> QED
    BY <2>1, <2>2
<1>11. Shaped(w, E)
  <2>1. ASSUME NEW z \in Key
        PROVE  E[z] = {z} \cup Under(E, w.child["left"][z]) \cup Under(E, w.child["right"][z])
    <3>1. D[z] = {z} \cup Under(D, t.child["left"][z]) \cup Under(D, t.child["right"][z])
      BY <1>0 DEF Shaped
    <3>2. "left" \in Side /\ "right" \in Side /\ (s = "left" \/ s = "right")
      BY DEF Side
    <3>3. CASE p \in D[z]
      <4>1. E[z] = D[z] \cup {key}
        BY <1>5, <3>3
      <4>2. z = p \/ p \in Under(D, t.child["left"][z]) \/ p \in Under(D, t.child["right"][z])
        BY <3>1, <3>3
      <4>3. key \in Under(E, w.child["left"][z]) \cup Under(E, w.child["right"][z])
        BY <1>10, <3>2, <4>2
      <4>4. \A q \in Side : Under(D, t.child[q][z]) \subseteq Under(E, w.child[q][z])
                            /\ Under(E, w.child[q][z]) \subseteq Under(D, t.child[q][z]) \cup {key}
        BY <1>10
      <4> QED
        BY <3>1, <3>2, <4>1, <4>3, <4>4
    <3>4. CASE p \notin D[z]
      <4>1. z # p /\ p \notin Under(D, t.child["left"][z]) /\ p \notin Under(D, t.child["right"][z])
        BY <3>1, <3>4
      <4>2. E[z] = D[z]
        BY <1>5, <3>4
      <4> QED
        BY <1>10, <3>1, <3>2, <4>1, <4>2
    <3> QED
      BY <3>3, <3>4
  <2>2. ASSUME NEW z \in Key, NEW q \in Side, NEW k \in Under(E, w.child[q][z]) PROVE Beyond(q, z, k)
    <3>1. CASE k \in Under(D, t.child[q][z])
      BY <1>0, <3>1 DEF Shaped
    <3>2. CASE k \notin Under(D, t.child[q][z])
      <4>1. k = key /\ ((q = s /\ z = p) \/ p \in Under(D, t.child[q][z]))
        BY <1>10, <2>2, <3>2
      <4>2. p \in Under(D, t.child[q][z]) => z \in N
        <5> HAVE p \in Under(D, t.child[q][z])
        <5>1. p \in D[z]
          BY <1>0 DEF Shaped, Side
        <5> QED
          BY <1>6, <5>1
      <4> QED
        BY <1>2, <4>1, <4>2 DEF Fits
    <3> QED
      BY <3>1, <3>2
  <2> QED
    BY <1>4, <1>5, <2>1, <2>2 DEF Shaped
<1>12. Linked(w, N \cup {key})
  <2>1. ASSUME NEW z \in Key, NEW q \in Side, w.child[q][z] # NULL PROVE w.parent[w.child[q][z]] = z
    <3>1. CASE q = s /\ z = p
      BY <1>0, <1>4, <3>1
    <3>2. CASE ~(q = s /\ z = p)
      <4>1. PICK c \in Node : c = t.child[q][z]
        BY <1>9
      <4>2. w.child[q][z] = c /\ c \in Key /\ c # NULL /\ c # key
        BY <1>4, <1>9, <2>1, <3>2, <4>1 DEF Node
      <4>3. t.parent[c] = z
        BY <1>0, <4>1, <4>2 DEF Linked
      <4> QED
        BY <1>4, <4>2, <4>3
    <3> QED
      BY <3>1, <3>2
  <2>2. ASSUME NEW c \in Key, w.parent[c] # NULL PROVE \E q \in Side : w.child[q][w.parent[c]] = c
    <3>1. CASE c = key
      BY <1>0, <1>4, <3>1
    <3>2. CASE c # key
      <4>1. w.parent[c] = t.parent[c] /\ t.parent[c] \in Key
        <5>1. t.parent[c] \in Node
          BY <1>0, TreeFields
        <5> QED
          BY <1>4, <2>2, <3>2, <5>1 DEF Node
      <4>2. PICK q \in Side : t.child[q][t.parent[c]] = c
        BY <1>0, <2>2, <4>1 DEF Linked
      <4>3. ~(q = s /\ t.parent[c] = p)
        BY <1>2, <4>2, KeyAssumption
      <4> QED
        BY <1>4, <4>1, <4>2, <4>3
    <3> QED
      BY <3>1, <3>2
  <2>3. ASSUME NEW z \in Key PROVE w.parent[z] = NULL <=> (z = w.root \/ z \notin N \cup {key})
    <3>1. t.parent[z] = NULL <=> (z = t.root \/ z \notin N)
      BY <1>0 DEF Linked
    <3>2. p # NULL
      BY <1>0, KeyAssumption
    <3> QED
      BY <1>0, <1>4, <3>1, <3>2
  <2>4. ASSUME NEW z \in Key \ (N \cup {key}), NEW q \in Side PROVE w.child[q][z] = NULL
    BY <1>0, <1>4 DEF Linked
  <2> QED
    BY <2>1, <2>2, <2>3, <2>4 DEF Linked
<1>13. Under(E, w.root) = N \cup {key}
  BY <1>0, <1>4, <1>7 DEF Node
<1>14. TreeIs(w, E, N \cup {key})
  BY <1>11, <1>12, <1>13 DEF TreeIs
<1> QED
  BY <1>3, <1>14 DEF Tree

\* tree_insert adds the key.
LEMMA TreeInsertIs ==
    ASSUME NEW t, NEW N, Tree(t, N), NEW key \in Key \ N
    PROVE  Tree(TreeInsert(t, key), N \cup {key})
<1>1. PICK D : TreeIs(t, D, N)
  BY DEF Tree
<1>2. CASE t.root = NULL
  <2>1. /\ Shaped(t, D) /\ Linked(t, N) /\ t \in TreeType /\ N = {} /\ D[key] = {key} /\ key # NULL
    BY <1>1, <1>2, MembersAre, KeyAssumption DEF TreeIs, Shaped
  <2>2. PICK w : w = TreeInsert(t, key)
    OBVIOUS
  <2>3. w = [t EXCEPT !.root = key]
    BY <1>2, <2>2 DEF TreeInsert
  <2>4. w \in TreeType /\ w.root = key /\ w.child = t.child /\ w.parent = t.parent
    BY <2>1, <2>3 DEF TreeType, Node
  <2>5. Shaped(w, D)
    BY <2>1, <2>4 DEF Shaped
  <2>6. Linked(w, {key})
    BY <2>1, <2>4 DEF Linked
  <2>7. Under(D, w.root) = {key}
    BY <2>1, <2>4 DEF Under
  <2>8. TreeIs(w, D, N \cup {key})
    BY <2>1, <2>5, <2>6, <2>7 DEF TreeIs
  <2> QED
    BY <2>2, <2>8 DEF Tree
<1>3. CASE t.root # NULL
  <2>1. Search(t, key) = NULL /\ key # NULL
    BY <1>1, SearchIs, KeyAssumption
  <2>2. PICK p : p = LeafFor(t, key)
    OBVIOUS
  <2>3. PICK w : w = Attach(t, IF p < key THEN "right" ELSE "left", p, key)
    OBVIOUS
  <2>4. TreeInsert(t, key) = Splay(w, key)
    BY <1>3, <2>1, <2>2, <2>3 DEF TreeInsert
  <2>5. p \in N /\ Toward(t, p, key) = NULL /\ Fits(t, D, N, p, key)
    BY <1>1, <1>3, <2>2, LeafIs
  <2>6. Tree(w, N \cup {key})
    BY <1>1, <1>3, <2>3, <2>5, HungIs
  <2>7. key \in N \cup {key}
    OBVIOUS
  <2>8. Tree(Splay(w, key), N \cup {key})
    BY <2>6, <2>7, SplayIs
  <2> QED
    BY <2>4, <2>8
<1> QED
  BY <1>2, <1>3

LEMMA FreedIs ==
    ASSUME NEW t \in TreeType, NEW z \in Key, NEW w, w = Freed(t, z)
    PROVE  /\ w \in TreeType /\ w.root = t.root
           /\ \A q \in Side, a \in Key : w.child[q][a] = IF a = z THEN NULL ELSE t.child[q][a]
           /\ \A a \in Key : w.parent[a] = IF a = z THEN NULL ELSE t.parent[a]
<1> DEFINE ch == [[t.child EXCEPT !["left"][z] = NULL] EXCEPT !["right"][z] = NULL]
           pa == [t.parent EXCEPT ![z] = NULL]
<1>1. t.root \in Node /\ t.child \in [Side -> [Key -> Node]] /\ t.parent \in [Key -> Node]
      /\ t = [root |-> t.root, child |-> t.child, parent |-> t.parent]
  BY DEF TreeType
<1>2. w = [root |-> t.root, child |-> ch, parent |-> pa]
  <2>1. w = [[[t EXCEPT !.child["left"][z] = NULL] EXCEPT !.child["right"][z] = NULL] EXCEPT !.parent[z] = NULL]
    BY DEF Freed
  <2> QED
    BY <1>1, <2>1
<1>3. ch \in [Side -> [Key -> Node]]
      /\ \A q \in Side, a \in Key : ch[q][a] = IF a = z THEN NULL ELSE t.child[q][a]
  BY <1>1 DEF Side, Node
<1>4. pa \in [Key -> Node] /\ \A a \in Key : pa[a] = IF a = z THEN NULL ELSE t.parent[a]
  BY <1>1 DEF Node
<1> HIDE DEF ch, pa
<1>5. w \in TreeType /\ w.root = t.root /\ w.child = ch /\ w.parent = pa
  BY <1>1, <1>2, <1>3, <1>4 DEF TreeType
<1> QED
  BY <1>3, <1>4, <1>5

\* The root has one child at most, which takes its place.
LEMMA OnlyChildUp ==
    ASSUME NEW u, NEW D, NEW N, TreeIs(u, D, N), NEW z \in N, u.root = z,
           NEW s \in Side, u.child[s][z] = NULL, NEW c, c = u.child[Other(s)][z]
    PROVE  Tree(Freed(Replace(u, z, c), z), N \ {z})
<1>0. /\ Shaped(u, D) /\ Linked(u, N) /\ u \in TreeType /\ D[z] = N
      /\ N \subseteq Key /\ z \in Key /\ z # NULL /\ u.parent[z] = NULL
  <2>1. Shaped(u, D) /\ Linked(u, N) /\ u \in TreeType
    BY DEF TreeIs, Shaped
  <2>2. N \subseteq Key /\ D[z] = N /\ u.parent[z] = NULL
    BY MembersAre, KeyAssumption
  <2> QED
    BY <2>1, <2>2, KeyAssumption
<1>1. PICK o \in Side : o = Other(s) /\ o # s /\ \A q \in Side : q # s => q = o
  BY OtherSide
<1>2. c \in Node /\ c = u.child[o][z] /\ c # z
  BY <1>0, <1>1, TreeFields, ChildBelow
<1>3. /\ Under(D, c) = N \ {z}
      /\ c # NULL => c \in N /\ c \in Key
  <2>1. D[z] = {z} \cup Under(D, u.child["left"][z]) \cup Under(D, u.child["right"][z])
    BY <1>0 DEF Shaped
  <2>2. Under(D, u.child[s][z]) = {}
    BY DEF Under
  <2>3. N = {z} \cup Under(D, c)
    <3>1. CASE s = "left"
      BY <1>0, <1>1, <1>2, <2>1, <2>2, <3>1 DEF Side
    <3>2. CASE s = "right"
      BY <1>0, <1>1, <1>2, <2>1, <2>2, <3>2 DEF Side
    <3> QED
      BY <3>1, <3>2 DEF Side
  <2>4. z \notin Under(D, c)
    BY <1>0, <1>2, ChildBelow DEF Under
  <2>5. c # NULL => c \in Under(D, c)
    BY <1>0, <1>2, TreeFields
  <2> QED
    BY <1>0, <2>3, <2>4, <2>5
<1>4. PICK v, w : v = Replace(u, z, c) /\ w = Freed(v, z)
  OBVIOUS
<1>5. /\ v \in TreeType /\ v.root = c
      /\ \A q \in Side, a \in Key : v.child[q][a] = IF u.child[q][a] = z THEN c ELSE u.child[q][a]
      /\ \A a \in Key : v.parent[a] = IF a = c THEN NULL ELSE u.parent[a]
  <2>1. Hangs(u, z)
    BY <1>0, TreeHangs
  <2>2. Replaced(v, u, z, c)
    BY <1>0, <1>2, <1>4, <2>1, ReplaceIs
  <2> QED
    BY <1>0, <2>2 DEF Replaced
<1>6. \A q \in Side, a \in Key : u.child[q][a] # z /\ u.child[q][a] \in Node
  <2> TAKE q \in Side, a \in Key
  <2>1. u.child[q][a] = z => u.parent[z] = a
    BY <1>0 DEF Linked
  <2>2. a # NULL
    BY KeyAssumption
  <2> QED
    BY <1>0, <2>1, <2>2, TreeFields
<1>7. /\ w \in TreeType /\ w.root = c
      /\ \A q \in Side, a \in Key : w.child[q][a] = IF a = z THEN NULL ELSE u.child[q][a]
      /\ \A a \in Key : w.parent[a] = IF a = z \/ a = c THEN NULL ELSE u.parent[a]
  <2>1. /\ w \in TreeType /\ w.root = v.root
        /\ \A q \in Side, a \in Key : w.child[q][a] = IF a = z THEN NULL ELSE v.child[q][a]
        /\ \A a \in Key : w.parent[a] = IF a = z THEN NULL ELSE v.parent[a]
    BY <1>0, <1>4, <1>5, FreedIs
  <2> QED
    BY <1>5, <1>6, <2>1
<1> DEFINE E == [a \in Key |-> IF a = z THEN {z} ELSE D[a]]
<1>8. E \in [Key -> SUBSET Key] /\ E[z] = {z} /\ \A a \in Key \ {z} : E[a] = D[a]
  BY <1>0, TreeFields
<1> HIDE DEF E
<1>9. \A a \in Node \ {z} : Under(E, a) = Under(D, a)
  BY <1>8 DEF Under, Node
<1>10. Under(E, NULL) = {}
  BY DEF Under
<1>11. Shaped(w, E)
  <2>0. "left" \in Side /\ "right" \in Side
    BY DEF Side
  <2>1. ASSUME NEW a \in Key
        PROVE  E[a] = {a} \cup Under(E, w.child["left"][a]) \cup Under(E, w.child["right"][a])
    <3>1. CASE a = z
      BY <1>7, <1>8, <1>10, <2>0, <3>1
    <3>2. CASE a # z
      <4>1. D[a] = {a} \cup Under(D, u.child["left"][a]) \cup Under(D, u.child["right"][a])
        BY <1>0 DEF Shaped
      <4> QED
        BY <1>6, <1>7, <1>8, <1>9, <2>0, <3>2, <4>1
    <3> QED
      BY <3>1, <3>2
  <2>2. ASSUME NEW a \in Key, NEW q \in Side, NEW k \in Under(E, w.child[q][a]) PROVE Beyond(q, a, k)
    <3>1. a # z
      BY <1>7, <1>10, <2>2
    <3>2. k \in Under(D, u.child[q][a])
      BY <1>6, <1>7, <1>9, <2>2, <3>1
    <3> QED
      BY <1>0, <3>2 DEF Shaped
  <2> QED
    BY <1>7, <1>8, <2>1, <2>2 DEF Shaped
<1>12. Linked(w, N \ {z})
  <2>1. ASSUME NEW a \in Key, NEW q \in Side, w.child[q][a] # NULL PROVE w.parent[w.child[q][a]] = a
    <3>1. a # z
      BY <1>7, <2>1
    <3>2. PICK k \in Key : k = u.child[q][a] /\ w.child[q][a] = k /\ k # NULL /\ k # z
      BY <1>6, <1>7, <2>1, <3>1 DEF Node
    <3>3. u.parent[k] = a
      BY <1>0, <3>2 DEF Linked
    <3>4. k # c
      BY <1>0, <1>2, <3>1, <3>2, <3>3 DEF Linked
    <3> QED
      BY <1>7, <3>2, <3>3, <3>4
  <2>2. ASSUME NEW k \in Key, w.parent[k] # NULL PROVE \E q \in Side : w.child[q][w.parent[k]] = k
    <3>1. k # z /\ k # c /\ w.parent[k] = u.parent[k]
      BY <1>7, <2>2
    <3>2. PICK p \in Node : p = u.parent[k]
      BY <1>0, TreeFields
    <3>3. p \in Key
      BY <2>2, <3>1, <3>2 DEF Node
    <3>4. PICK q \in Side : u.child[q][p] = k
      BY <1>0, <2>2, <3>1, <3>2 DEF Linked
    <3>5. p # z
      <4> SUFFICES ASSUME p = z PROVE FALSE
        OBVIOUS
      <4>1. q # s
        BY <3>4, KeyAssumption
      <4>2. q = o
        BY <1>1, <4>1
      <4> QED
        BY <1>2, <3>1, <3>4, <4>2
    <3> QED
      BY <1>7, <3>1, <3>2, <3>3, <3>4, <3>5
  <2>3. ASSUME NEW a \in Key PROVE w.parent[a] = NULL <=> (a = w.root \/ a \notin N \ {z})
    <3>1. u.parent[a] = NULL <=> (a = u.root \/ a \notin N)
      BY <1>0 DEF Linked
    <3> QED
      BY <1>3, <1>7, <3>1
  <2>4. ASSUME NEW a \in Key \ (N \ {z}), NEW q \in Side PROVE w.child[q][a] = NULL
    BY <1>0, <1>7 DEF Linked
  <2> QED
    BY <2>1, <2>2, <2>3, <2>4 DEF Linked
<1>13. Under(E, w.root) = N \ {z}
  BY <1>2, <1>3, <1>7, <1>9
<1>14. TreeIs(w, E, N \ {z})
  BY <1>11, <1>12, <1>13 DEF TreeIs
<1> QED
  BY <1>4, <1>14 DEF Tree

\* The root z with both children, l and r, the least node y below r, and the
\* right child e of that one.
Crowned(u, D, N, z, l, r, y, e) ==
    /\ Shaped(u, D) /\ Linked(u, N) /\ u \in TreeType /\ D[z] = N /\ N \subseteq Key /\ u.root = z
    /\ u.parent[z] = NULL
    /\ z \in N /\ l \in N /\ r \in N /\ y \in N /\ e \in Node
    /\ z # l /\ z # r /\ z # y /\ z # e /\ l # r /\ l # y /\ l # e /\ y # e /\ r # e
    /\ u.child["left"][z] = l /\ u.child["right"][z] = r
    /\ u.child["left"][y] = NULL /\ u.child["right"][y] = e
    /\ u.parent[l] = z /\ u.parent[r] = z /\ (e # NULL => u.parent[e] = y)
    /\ y # r => u.parent[y] \in Key \ {z, y}
    /\ N = {z} \cup D[l] \cup D[r] /\ z \notin D[l] \cup D[r] /\ y \notin D[l]
    /\ y \in D[r] /\ D[y] = {y} \cup Under(D, e) /\ y \notin Under(D, e)
    /\ \A k \in D[l] : k < y
    /\ \A k \in D[r] \ {y} : y < k
    /\ \A q \in Side, a \in Key : u.child[q][a] # z /\ u.child[q][a] \in Node

LEMMA CrownedIs ==
    ASSUME NEW u, NEW D, NEW N, TreeIs(u, D, N), NEW z \in N, u.root = z,
           NEW l, l = u.child["left"][z], l # NULL, NEW r, r = u.child["right"][z], r # NULL,
           NEW y, y = SubtreeMinimum(u, r), NEW e, e = u.child["right"][y]
    PROVE  Crowned(u, D, N, z, l, r, y, e)
<1>0. /\ Shaped(u, D) /\ Linked(u, N) /\ u \in TreeType /\ D[z] = N
      /\ N \subseteq Key /\ z \in Key /\ z # NULL /\ u.parent[z] = NULL
  <2>1. Shaped(u, D) /\ Linked(u, N) /\ u \in TreeType
    BY DEF TreeIs, Shaped
  <2>2. N \subseteq Key /\ D[z] = N /\ u.parent[z] = NULL
    BY MembersAre, KeyAssumption
  <2> QED
    BY <2>1, <2>2, KeyAssumption
<1>1. "left" \in Side /\ "right" \in Side
  BY DEF Side
<1>2. /\ l \in Key /\ l \in D[l] /\ D[l] \subseteq N /\ z \notin D[l] /\ (\A k \in D[l] : k < z)
      /\ r \in Key /\ r \in D[r] /\ D[r] \subseteq N /\ z \notin D[r] /\ (\A k \in D[r] : z < k)
      /\ Under(D, l) = D[l] /\ Under(D, r) = D[r]
  <2>1. l \in Key /\ l \in D[l] /\ D[l] \subseteq D[z] /\ z \notin D[l] /\ \A k \in D[l] : Beyond("left", z, k)
    BY <1>0, <1>1, ChildBelow
  <2>2. r \in Key /\ r \in D[r] /\ D[r] \subseteq D[z] /\ z \notin D[r] /\ \A k \in D[r] : Beyond("right", z, k)
    BY <1>0, <1>1, ChildBelow
  <2> QED
    BY <1>0, <2>1, <2>2 DEF Beyond, Under
<1>3. N = {z} \cup D[l] \cup D[r]
  BY <1>0, <1>2 DEF Shaped
<1>4. y \in D[r] /\ y \in Key /\ u.child["left"][y] = NULL /\ \A k \in D[r] \ {y} : y < k
  BY <1>0, <1>2, MinimumIs
<1>5. N \subseteq Nat
  BY <1>0, KeyAssumption
<1>6. \A k \in D[l] : k < y
  BY <1>0, <1>2, <1>4, <1>5
<1>7. y \notin D[l] /\ l \notin D[r] /\ y # z
  BY <1>2, <1>4, <1>5, <1>6
<1>8. e \in Node /\ (e # NULL => e \in D[y] /\ e \in Key /\ e # y /\ u.parent[e] = y)
  <2>1. e \in Node
    BY <1>0, <1>1, <1>4, TreeFields
  <2>2. e # NULL => e \in D[e] /\ D[e] \subseteq D[y] /\ e # y /\ e \in Key
    BY <1>0, <1>1, <1>4, ChildBelow
  <2>3. e # NULL => u.parent[e] = y
    BY <1>0, <1>1, <1>4 DEF Linked
  <2> QED
    BY <2>1, <2>2, <2>3
<1>9. D[y] \subseteq D[r]
  BY <1>0, <1>2, <1>4, BelowTransitive
<1>10. u.parent[l] = z /\ u.parent[r] = z
  BY <1>0, <1>1 DEF Linked
<1>11. r # e
  <2> SUFFICES ASSUME r = e PROVE FALSE
    OBVIOUS
  <2>1. u.parent[r] = y
    BY <1>8
  <2> QED
    BY <1>7, <1>10, <2>1
<1>12. z # l /\ z # r /\ z # y /\ z # e /\ l # r /\ l # y /\ l # e /\ y # e
  <2>1. z # l /\ z # r /\ z # y /\ l # r /\ l # y
    BY <1>2, <1>4, <1>7
  <2>2. e # NULL => z # e /\ l # e /\ y # e
    <3>1. e # NULL => e \in D[r] /\ y # e
      BY <1>8, <1>9
    <3>2. z \notin D[r] /\ l \notin D[r]
      BY <1>2, <1>7
    <3> QED
      BY <3>1, <3>2
  <2>3. z # NULL /\ y # NULL
    BY <1>0, <1>4, KeyAssumption
  <2> QED
    BY <2>1, <2>2, <2>3
<1>13. y # r => u.parent[y] \in Key \ {z, y}
  <2> HAVE y # r
  <2>1. u.parent[y] \in Key /\ u.parent[y] \in D[r]
    BY <1>2, <1>4, ParentBelow
  <2>2. PICK q \in Side : u.child[q][u.parent[y]] = y
    <3>1. u.parent[y] # NULL
      BY <2>1, KeyAssumption
    <3> QED
      BY <1>0, <1>4, <3>1 DEF Linked
  <2>3. u.parent[y] # y
    <3>1. u.child[q][y] # y
      BY <1>0, <1>4, ChildBelow, KeyAssumption
    <3> QED
      BY <2>2, <3>1
  <2> QED
    BY <1>2, <2>1, <2>3
<1>14. D[y] = {y} \cup Under(D, e)
  <2>1. D[y] = {y} \cup Under(D, u.child["left"][y]) \cup Under(D, u.child["right"][y])
    BY <1>0, <1>4 DEF Shaped
  <2>2. Under(D, u.child["left"][y]) = {}
    BY <1>4 DEF Under
  <2> QED
    BY <2>1, <2>2
<1>15. y \notin Under(D, e)
  BY <1>0, <1>1, <1>4, ChildBelow DEF Under
<1>16. \A q \in Side, a \in Key : u.child[q][a] # z /\ u.child[q][a] \in Node
  <2> TAKE q \in Side, a \in Key
  <2>1. u.child[q][a] = z => u.parent[z] = a
    BY <1>0 DEF Linked
  <2>2. a # NULL
    BY KeyAssumption
  <2> QED
    BY <1>0, <2>1, <2>2, TreeFields
<1>17. l \in N /\ r \in N /\ y \in N
  BY <1>2, <1>4
<1> QED
  BY <1>0, <1>2, <1>3, <1>4, <1>6, <1>7, <1>8, <1>10, <1>11, <1>12, <1>13, <1>14, <1>15, <1>16, <1>17 DEF Crowned

\* The tree that is left, pointer by pointer.
Crowning(w, u, z, l, r, y, e) ==
    /\ w \in TreeType /\ w.root = y
    /\ \A q \in Side, a \in Key : w.child[q][a] =
          IF a = z THEN NULL
          ELSE IF a = y THEN (IF q = "left" THEN l ELSE IF y = r THEN e ELSE r)
          ELSE IF u.child[q][a] = y THEN e
          ELSE u.child[q][a]
    /\ \A a \in Key : w.parent[a] =
          IF a = z \/ a = y THEN NULL
          ELSE IF a = l \/ (y # r /\ a = r) THEN y
          ELSE IF y # r /\ a = e THEN u.parent[y]
          ELSE u.parent[a]

LEMMA CrowningIs ==
    ASSUME NEW u, NEW D, NEW N, TreeIs(u, D, N), NEW z, NEW l, NEW r, NEW y, NEW e,
           Crowned(u, D, N, z, l, r, y, e),
           NEW v, v = IF y = r THEN u ELSE Attach(Replace(u, y, u.child["right"][y]), "right", y, r),
           NEW w, w = Freed(Attach(Replace(v, z, y), "left", y, l), z)
    PROVE  Crowning(w, u, z, l, r, y, e)
<1>0. /\ u \in TreeType /\ N \subseteq Key /\ u.root = z /\ u.parent[z] = NULL
      /\ z \in Key /\ l \in Key /\ r \in Key /\ y \in Key /\ e \in Node
      /\ z \in Node /\ l \in Node /\ r \in Node /\ y \in Node
      /\ z # l /\ z # r /\ z # y /\ z # e /\ l # r /\ l # y /\ l # e /\ y # e /\ r # e
      /\ u.child["left"][y] = NULL /\ u.child["right"][y] = e
      /\ y # r => u.parent[y] \in Key \ {z, y}
      /\ \A q \in Side, a \in Key : u.child[q][a] # z /\ u.child[q][a] \in Node
  BY DEF Crowned, Node
<1>1. "left" \in Side /\ "right" \in Side /\ "left" # "right" /\ \A q \in Side : q = "left" \/ q = "right"
  BY DEF Side
<1>2. Linked(u, N) /\ u.child["left"][z] = l /\ u.child["right"][z] = r /\ z # NULL /\ \A a \in Key : a # NULL
  BY <1>0, KeyAssumption DEF Crowned
<1>3. /\ v \in TreeType /\ v.root = z
      /\ \A q \in Side, a \in Key : v.child[q][a] =
            IF y # r /\ q = "right" /\ a = y THEN r
            ELSE IF y # r /\ u.child[q][a] = y THEN e
            ELSE u.child[q][a]
      /\ \A a \in Key : v.parent[a] =
            IF y # r /\ a = r THEN y
            ELSE IF y # r /\ a = e THEN u.parent[y]
            ELSE u.parent[a]
  <2>1. CASE y = r
    <3>1. v = u
      BY <2>1
    <3> QED
      BY <1>0, <2>1, <3>1
  <2>2. CASE y # r
    <3>1. PICK x : x = Replace(u, y, e)
      OBVIOUS
    <3>2. Hangs(u, y)
      BY <1>0, TreeHangs
    <3>3. Replaced(x, u, y, e)
      BY <1>0, <3>1, <3>2, ReplaceIs
    <3>4. /\ x \in TreeType /\ x.root = z
          /\ \A q \in Side, a \in Key : x.child[q][a] = IF u.child[q][a] = y THEN e ELSE u.child[q][a]
          /\ \A a \in Key : x.parent[a] = IF a = e THEN u.parent[y] ELSE u.parent[a]
      BY <1>0, <1>2, <2>2, <3>3 DEF Replaced
    <3>5. v = Attach(x, "right", y, r)
      BY <1>0, <2>2, <3>1
    <3>6. Attached(v, x, "right", y, r)
      BY <1>0, <1>1, <3>4, <3>5, AttachIs
    <3>7. /\ v \in TreeType /\ v.root = x.root
          /\ \A q \in Side, a \in Key : v.child[q][a] = IF q = "right" /\ a = y THEN r ELSE x.child[q][a]
          /\ \A a \in Key : v.parent[a] = IF a = r THEN y ELSE x.parent[a]
      BY <3>6 DEF Attached
    <3> QED
      BY <2>2, <3>4, <3>7
  <2> QED
    BY <2>1, <2>2
<1>4. PICK x : x = Replace(v, z, y)
  OBVIOUS
<1>5. \A q \in Side, a \in Key : v.child[q][a] # z
  BY <1>0, <1>3
<1>6. v.parent[z] = NULL
  BY <1>0, <1>3
<1>7. Hangs(v, z)
  BY <1>5, <1>6 DEF Hangs
<1>8. /\ x \in TreeType /\ x.root = y
      /\ \A q \in Side, a \in Key : x.child[q][a] = v.child[q][a]
      /\ \A a \in Key : x.parent[a] = IF a = y THEN NULL ELSE v.parent[a]
  <2>1. Replaced(x, v, z, y)
    BY <1>0, <1>3, <1>4, <1>7, ReplaceIs
  <2> QED
    BY <1>5, <1>6, <2>1 DEF Replaced
<1>9. PICK x2 : x2 = Attach(x, "left", y, l)
  OBVIOUS
<1>10. /\ x2 \in TreeType /\ x2.root = y
       /\ \A q \in Side, a \in Key : x2.child[q][a] = IF q = "left" /\ a = y THEN l ELSE x.child[q][a]
       /\ \A a \in Key : x2.parent[a] = IF a = l THEN y ELSE x.parent[a]
  <2>1. Attached(x2, x, "left", y, l)
    BY <1>0, <1>1, <1>8, <1>9, AttachIs
  <2> QED
    BY <1>8, <2>1 DEF Attached
<1>11. /\ w \in TreeType /\ w.root = y
       /\ \A q \in Side, a \in Key : w.child[q][a] = IF a = z THEN NULL ELSE x2.child[q][a]
       /\ \A a \in Key : w.parent[a] = IF a = z THEN NULL ELSE x2.parent[a]
  <2>1. w = Freed(x2, z)
    BY <1>4, <1>9
  <2>2. x2.root = y /\ x2 \in TreeType
    BY <1>10
  <2>3. z \in Key
    BY <1>0
  <2>4. /\ w \in TreeType /\ w.root = x2.root
        /\ \A q \in Side, a \in Key : w.child[q][a] = IF a = z THEN NULL ELSE x2.child[q][a]
        /\ \A a \in Key : w.parent[a] = IF a = z THEN NULL ELSE x2.parent[a]
    BY <2>1, <2>2, <2>3, FreedIs
  <2> QED
    BY <2>2, <2>4
<1>12. \A q \in Side : u.child[q][y] # y
  BY <1>0, <1>1, KeyAssumption
<1>13. y = r => \A q \in Side, a \in Key : u.child[q][a] = y => a = z
  <2> HAVE y = r
  <2> TAKE q \in Side, a \in Key
  <2> HAVE u.child[q][a] = y
  <2>1. u.parent[y] = a
    BY <1>0, <1>2 DEF Linked
  <2>2. u.parent[r] = z
    BY DEF Crowned
  <2> QED
    BY <2>1, <2>2
<1>14. ASSUME NEW q \in Side, NEW a \in Key
       PROVE  w.child[q][a] =
                IF a = z THEN NULL
                ELSE IF a = y THEN (IF q = "left" THEN l ELSE IF y = r THEN e ELSE r)
                ELSE IF u.child[q][a] = y THEN e
                ELSE u.child[q][a]
  <2>1. CASE a = z
    BY <1>11, <2>1
  <2>2. CASE a # z /\ a = y
    <3>1. w.child[q][a] = IF q = "left" THEN l ELSE v.child[q][a]
      BY <1>8, <1>10, <1>11, <2>2
    <3>2. q # "left" => q = "right"
      BY <1>1
    <3>3. v.child["right"][y] = IF y = r THEN e ELSE r
      BY <1>0, <1>1, <1>3
    <3> QED
      BY <2>2, <3>1, <3>2, <3>3
  <2>3. CASE a # z /\ a # y
    <3>1. w.child[q][a] = v.child[q][a]
      BY <1>8, <1>10, <1>11, <2>3
    <3>2. v.child[q][a] = IF y # r /\ u.child[q][a] = y THEN e ELSE u.child[q][a]
      BY <1>3, <2>3
    <3> QED
      BY <1>13, <2>3, <3>1, <3>2
  <2> QED
    BY <2>1, <2>2, <2>3
<1>15. ASSUME NEW a \in Key
       PROVE  w.parent[a] =
                IF a = z \/ a = y THEN NULL
                ELSE IF a = l \/ (y # r /\ a = r) THEN y
                ELSE IF y # r /\ a = e THEN u.parent[y]
                ELSE u.parent[a]
  BY <1>0, <1>3, <1>8, <1>10, <1>11
<1> QED
  BY <1>11, <1>14, <1>15 DEF Crowning

LEMMA CrownedTree ==
    ASSUME NEW u, NEW D, NEW N, NEW z, NEW l, NEW r, NEW y, NEW e, Crowned(u, D, N, z, l, r, y, e),
           NEW w, Crowning(w, u, z, l, r, y, e)
    PROVE  Tree(w, N \ {z})
<1>0. /\ Shaped(u, D) /\ Linked(u, N) /\ u \in TreeType /\ D[z] = N /\ N \subseteq Key /\ u.root = z
      /\ u.parent[z] = NULL
      /\ z \in N /\ l \in N /\ r \in N /\ y \in N /\ e \in Node
      /\ z # l /\ z # r /\ z # y /\ z # e /\ l # r /\ l # y /\ l # e /\ y # e /\ r # e
      /\ u.child["left"][z] = l /\ u.child["right"][z] = r
      /\ u.child["left"][y] = NULL /\ u.child["right"][y] = e
      /\ u.parent[l] = z /\ u.parent[r] = z /\ (e # NULL => u.parent[e] = y)
      /\ y # r => u.parent[y] \in Key \ {z, y}
      /\ N = {z} \cup D[l] \cup D[r] /\ z \notin D[l] \cup D[r] /\ y \notin D[l]
      /\ y \in D[r] /\ D[y] = {y} \cup Under(D, e) /\ y \notin Under(D, e)
  BY DEF Crowned
<1>1. /\ \A k \in D[l] : k < y
      /\ \A k \in D[r] \ {y} : y < k
      /\ \A q \in Side, a \in Key : u.child[q][a] # z /\ u.child[q][a] \in Node
  BY DEF Crowned
<1>2. /\ w \in TreeType /\ w.root = y
      /\ \A q \in Side, a \in Key : w.child[q][a] =
            IF a = z THEN NULL
            ELSE IF a = y THEN (IF q = "left" THEN l ELSE IF y = r THEN e ELSE r)
            ELSE IF u.child[q][a] = y THEN e
            ELSE u.child[q][a]
      /\ \A a \in Key : w.parent[a] =
            IF a = z \/ a = y THEN NULL
            ELSE IF a = l \/ (y # r /\ a = r) THEN y
            ELSE IF y # r /\ a = e THEN u.parent[y]
            ELSE u.parent[a]
  BY DEF Crowning
<1>3. /\ z \in Key /\ l \in Key /\ r \in Key /\ y \in Key
      /\ z \in Node /\ l \in Node /\ r \in Node /\ y \in Node
      /\ \A a \in Key : a # NULL
  BY <1>0, KeyAssumption DEF Node
<1>4. "left" \in Side /\ "right" \in Side /\ "left" # "right" /\ \A q \in Side : q = "left" \/ q = "right"
  BY DEF Side
<1> DEFINE E == [a \in Key |-> IF a = z THEN {z} ELSE IF a = y THEN N \ {z} ELSE D[a] \ {y}]
<1>5. E \in [Key -> SUBSET Key] /\ E[z] = {z} /\ E[y] = N \ {z} /\ \A a \in Key \ {z, y} : E[a] = D[a] \ {y}
  <2>1. \A a \in Key : D[a] \subseteq Key
    BY <1>0, TreeFields
  <2> QED
    BY <1>0, <1>3, <2>1
<1> HIDE DEF E
<1>6. Under(E, NULL) = {} /\ \A c \in Node : c # z /\ c # y => Under(E, c) = Under(D, c) \ {y}
  BY <1>5 DEF Under, Node
<1>7. Under(E, e) = Under(D, e) /\ Under(E, l) = D[l] /\ Under(E, r) = IF y = r THEN N \ {z} ELSE D[r] \ {y}
  <2>1. Under(E, e) = Under(D, e)
    <3>1. e \in Node /\ e # z /\ e # y /\ y \notin Under(D, e)
      BY <1>0
    <3>2. Under(E, e) = Under(D, e) \ {y}
      BY <1>6, <3>1
    <3> QED
      BY <3>1, <3>2
  <2>2. Under(E, l) = D[l]
    <3>1. l \in Node /\ l # z /\ l # y /\ l # NULL /\ y \notin D[l]
      BY <1>0, <1>3
    <3>2. Under(E, l) = Under(D, l) \ {y} /\ Under(D, l) = D[l]
      BY <1>6, <3>1 DEF Under
    <3> QED
      BY <3>1, <3>2
  <2>3. Under(E, r) = IF y = r THEN N \ {z} ELSE D[r] \ {y}
    BY <1>0, <1>3, <1>5, <1>6 DEF Under
  <2> QED
    BY <2>1, <2>2, <2>3
<1>8. PICK m : m = IF y = r THEN e ELSE r
  OBVIOUS
<1>9. Under(E, m) = D[r] \ {y}
  <2>1. CASE y = r
    BY <1>0, <1>7, <1>8, <2>1
  <2>2. CASE y # r
    BY <1>7, <1>8, <2>2
  <2> QED
    BY <2>1, <2>2
<1>10. /\ w.child["left"][y] = l /\ w.child["right"][y] = m
       /\ \A q \in Side : w.child[q][z] = NULL
       /\ \A q \in Side, a \in Key \ {z, y} : w.child[q][a] = IF u.child[q][a] = y THEN e ELSE u.child[q][a]
  <2>1. w.child["left"][y] = l /\ w.child["right"][y] = m
    BY <1>0, <1>2, <1>3, <1>4, <1>8
  <2> QED
    BY <1>2, <1>3, <2>1
<1>11. ASSUME NEW q \in Side, NEW a \in Key \ {z, y}
       PROVE  Under(E, w.child[q][a]) = Under(D, u.child[q][a]) \ {y}
  <2>1. CASE u.child[q][a] = y
    <3>1. Under(D, y) = D[y] /\ w.child[q][a] = e
      BY <1>3, <1>10, <2>1 DEF Under
    <3> QED
      BY <1>0, <1>7, <2>1, <3>1
  <2>2. CASE u.child[q][a] # y
    BY <1>1, <1>6, <1>10, <2>2
  <2> QED
    BY <2>1, <2>2
<1>12. Shaped(w, E)
  <2>1. ASSUME NEW a \in Key
        PROVE  E[a] = {a} \cup Under(E, w.child["left"][a]) \cup Under(E, w.child["right"][a])
    <3>1. CASE a = z
      BY <1>4, <1>5, <1>6, <1>10, <3>1
    <3>2. CASE a = y
      <4>1. N \ {z} = {y} \cup D[l] \cup (D[r] \ {y})
        BY <1>0
      <4> QED
        BY <1>5, <1>7, <1>9, <1>10, <3>2, <4>1
    <3>3. CASE a # z /\ a # y
      <4>1. D[a] = {a} \cup Under(D, u.child["left"][a]) \cup Under(D, u.child["right"][a])
        BY <1>0 DEF Shaped
      <4>2. E[a] = D[a] \ {y}
        BY <1>5, <3>3
      <4>3. /\ Under(E, w.child["left"][a]) = Under(D, u.child["left"][a]) \ {y}
            /\ Under(E, w.child["right"][a]) = Under(D, u.child["right"][a]) \ {y}
        BY <1>4, <1>11, <3>3
      <4> QED
        BY <3>3, <4>1, <4>2, <4>3
    <3> QED
      BY <3>1, <3>2, <3>3
  <2>2. ASSUME NEW a \in Key, NEW q \in Side, NEW k \in Under(E, w.child[q][a]) PROVE Beyond(q, a, k)
    <3>1. CASE a = z
      BY <1>6, <1>10, <2>2, <3>1
    <3>2. CASE a = y /\ q = "left"
      BY <1>1, <1>7, <1>10, <2>2, <3>2 DEF Beyond
    <3>3. CASE a = y /\ q = "right"
      BY <1>1, <1>4, <1>9, <1>10, <2>2, <3>3 DEF Beyond
    <3>4. CASE a # z /\ a # y
      <4>1. k \in Under(D, u.child[q][a])
        BY <1>11, <2>2, <3>4
      <4> QED
        BY <1>0, <4>1 DEF Shaped
    <3> QED
      BY <1>4, <3>1, <3>2, <3>3, <3>4
  <2> QED
    BY <1>2, <1>5, <2>1, <2>2 DEF Shaped
<1>13. Linked(w, N \ {z})
  <2>1. ASSUME NEW a \in Key, NEW q \in Side, w.child[q][a] # NULL PROVE w.parent[w.child[q][a]] = a
    <3>1. a # z
      BY <1>10, <2>1
    <3>2. CASE a = y /\ q = "left"
      BY <1>0, <1>2, <1>3, <1>10, <3>2
    <3>3. CASE a = y /\ q = "right" /\ y = r
      <4>1. w.child[q][a] = e /\ e \in Key /\ u.parent[e] = y
        BY <1>0, <1>8, <1>10, <2>1, <3>3 DEF Node
      <4> QED
        BY <1>0, <1>2, <3>3, <4>1
    <3>4. CASE a = y /\ q = "right" /\ y # r
      <4>1. w.child[q][a] = r
        BY <1>8, <1>10, <3>4
      <4> QED
        BY <1>0, <1>2, <1>3, <3>4, <4>1
    <3>5. CASE a # y /\ u.child[q][a] = y
      <4>1. w.child[q][a] = e /\ e \in Key
        BY <1>0, <1>10, <2>1, <3>1, <3>5 DEF Node
      <4>2. u.parent[y] = a
        BY <1>0, <1>3, <3>5 DEF Linked
      <4>3. y # r
        BY <1>0, <3>1, <4>2
      <4> QED
        BY <1>0, <1>2, <4>1, <4>2, <4>3
    <3>6. CASE a # y /\ u.child[q][a] # y
      <4>1. PICK c \in Key : c = u.child[q][a] /\ w.child[q][a] = c /\ c # y /\ c # z
        BY <1>1, <1>10, <2>1, <3>1, <3>6 DEF Node
      <4>2. u.parent[c] = a
        BY <1>0, <1>3, <4>1 DEF Linked
      <4>3. c # l /\ c # r /\ c # e
        BY <1>0, <1>3, <3>1, <3>6, <4>1, <4>2
      <4> QED
        BY <1>2, <4>1, <4>2, <4>3
    <3> QED
      BY <1>4, <3>1, <3>2, <3>3, <3>4, <3>5, <3>6
  <2>2. ASSUME NEW c \in Key, w.parent[c] # NULL PROVE \E q \in Side : w.child[q][w.parent[c]] = c
    <3>1. c # z /\ c # y
      BY <1>2, <2>2
    <3>2. CASE c = l
      <4>1. w.parent[c] = y
        BY <1>2, <3>1, <3>2
      <4> QED
        BY <1>4, <1>10, <3>2, <4>1
    <3>3. CASE y # r /\ c = r
      <4>1. w.parent[c] = y
        BY <1>2, <3>1, <3>3
      <4> QED
        BY <1>4, <1>8, <1>10, <3>3, <4>1
    <3>4. CASE y # r /\ c = e
      <4>1. w.parent[c] = u.parent[y] /\ u.parent[y] \in Key \ {z, y}
        BY <1>0, <1>2, <3>1, <3>4
      <4>2. PICK q \in Side : u.child[q][u.parent[y]] = y
        <5>1. u.parent[y] # NULL
          BY <1>3, <4>1
        <5> QED
          BY <1>0, <1>3, <5>1 DEF Linked
      <4> QED
        BY <1>10, <3>4, <4>1, <4>2
    <3>5. CASE c # l /\ ~(y # r /\ (c = r \/ c = e))
      <4>1. w.parent[c] = u.parent[c]
        BY <1>2, <3>1, <3>5
      <4>2. PICK p \in Key : p = u.parent[c]
        BY <1>0, <2>2, <4>1, TreeFields DEF Node
      <4>3. PICK q \in Side : u.child[q][p] = c
        BY <1>0, <2>2, <4>1, <4>2 DEF Linked
      <4>4. p # z
        BY <1>0, <1>4, <3>1, <3>5, <4>3
      <4>5. CASE p = y
        <5>1. c # NULL
          BY <1>3
        <5>2. q = "right" /\ c = e
          BY <1>0, <1>4, <4>3, <4>5, <5>1
        <5>3. y = r
          BY <3>5, <5>2
        <5> QED
          BY <1>4, <1>8, <1>10, <4>1, <4>2, <4>5, <5>2, <5>3
      <4>6. CASE p # y
        BY <1>10, <3>1, <4>1, <4>2, <4>3, <4>4, <4>6
      <4> QED
        BY <4>5, <4>6
    <3> QED
      BY <3>2, <3>3, <3>4, <3>5
  <2>3. ASSUME NEW a \in Key PROVE w.parent[a] = NULL <=> (a = w.root \/ a \notin N \ {z})
    <3>1. u.parent[a] = NULL <=> (a = z \/ a \notin N)
      BY <1>0 DEF Linked
    <3>2. CASE a = z \/ a = y
      BY <1>0, <1>2, <3>2
    <3>3. CASE a = l \/ (y # r /\ a = r)
      BY <1>0, <1>2, <1>3, <3>3
    <3>4. CASE y # r /\ a = e
      <4>1. u.parent[a] = y /\ y # NULL /\ u.parent[y] # NULL
        BY <1>0, <1>3, <3>4
      <4>2. w.parent[a] = u.parent[y]
        BY <1>0, <1>2, <3>4
      <4> QED
        BY <1>0, <1>2, <3>1, <3>4, <4>1, <4>2
    <3>5. CASE a # z /\ a # y /\ a # l /\ ~(y # r /\ (a = r \/ a = e))
      <4>1. w.parent[a] = u.parent[a]
        BY <1>2, <3>5
      <4> QED
        BY <1>2, <3>1, <3>5, <4>1
    <3> QED
      BY <3>2, <3>3, <3>4, <3>5
  <2>4. ASSUME NEW a \in Key \ (N \ {z}), NEW q \in Side PROVE w.child[q][a] = NULL
    <3>1. CASE a = z
      BY <1>10, <3>1
    <3>2. CASE a # z
      <4>1. u.child[q][a] = NULL /\ a # y
        BY <1>0, <3>2 DEF Linked
      <4> QED
        BY <1>3, <1>10, <3>2, <4>1
    <3> QED
      BY <3>1, <3>2
  <2> QED
    BY <2>1, <2>2, <2>3, <2>4 DEF Linked
<1>14. Under(E, w.root) = N \ {z}
  BY <1>2, <1>3, <1>5 DEF Under
<1>15. TreeIs(w, E, N \ {z})
  BY <1>12, <1>13, <1>14 DEF TreeIs
<1> QED
  BY <1>15 DEF Tree

\* tree_remove takes the key out.
LEMMA TreeRemoveIs ==
    ASSUME NEW t, NEW N, Tree(t, N), NEW key \in N
    PROVE  Tree(TreeRemove(t, key), N \ {key})
<1>1. PICK u : u = Splay(t, key)
  OBVIOUS
<1>2. Tree(u, N) /\ u.root = key
  BY <1>1, SplayIs
<1>3. PICK D : TreeIs(u, D, N)
  BY <1>2 DEF Tree
<1>4. Search(t, key) # NULL /\ key # NULL /\ key \in Key
  <2>1. PICK C : TreeIs(t, C, N)
    BY DEF Tree
  <2>2. key \in Key
    BY <2>1, MembersAre
  <2> QED
    BY <2>1, <2>2, SearchIs, KeyAssumption
<1>5. PICK l, r : l = u.child["left"][key] /\ r = u.child["right"][key]
  OBVIOUS
<1>6. PICK y : y = SubtreeMinimum(u, r)
  OBVIOUS
<1>7. PICK v : v = IF y = r THEN u ELSE Attach(Replace(u, y, u.child["right"][y]), "right", y, r)
  OBVIOUS
<1>8. PICK w : w = IF l = NULL THEN Replace(u, key, r)
                   ELSE IF r = NULL THEN Replace(u, key, l)
                   ELSE Attach(Replace(v, key, y), "left", y, l)
  OBVIOUS
<1>9. TreeRemove(t, key) = Freed(w, key)
  <2>1. TreeRemove(t, key) =
          Freed(CASE l = NULL -> Replace(u, key, r)
                  [] r = NULL -> Replace(u, key, l)
                  [] OTHER    -> Attach(Replace(v, key, y), "left", y, l), key)
    BY <1>1, <1>4, <1>5, <1>6, <1>7, Zenon DEF TreeRemove
  <2> QED
    BY <1>8, <2>1
<1>10. CASE l = NULL
  <2>1. "left" \in Side /\ Other("left") = "right"
    BY DEF Side, Other
  <2>2. Tree(Freed(Replace(u, key, r), key), N \ {key})
    BY <1>2, <1>3, <1>5, <1>10, <2>1, OnlyChildUp
  <2> QED
    BY <1>8, <1>9, <1>10, <2>2
<1>11. CASE l # NULL /\ r = NULL
  <2>1. "right" \in Side /\ Other("right") = "left"
    BY DEF Side, Other
  <2>2. Tree(Freed(Replace(u, key, l), key), N \ {key})
    BY <1>2, <1>3, <1>5, <1>11, <2>1, OnlyChildUp
  <2> QED
    BY <1>8, <1>9, <1>11, <2>2
<1>12. CASE l # NULL /\ r # NULL
  <2>1. PICK e : e = u.child["right"][y]
    OBVIOUS
  <2>2. Crowned(u, D, N, key, l, r, y, e)
    BY <1>2, <1>3, <1>5, <1>6, <1>12, <2>1, CrownedIs
  <2>3. PICK x : x = Freed(Attach(Replace(v, key, y), "left", y, l), key)
    OBVIOUS
  <2>4. Crowning(x, u, key, l, r, y, e)
    BY <1>3, <1>7, <2>2, <2>3, CrowningIs
  <2>5. Tree(x, N \ {key})
    BY <2>2, <2>4, CrownedTree
  <2> QED
    BY <1>8, <1>9, <1>12, <2>3, <2>5
<1> QED
  BY <1>10, <1>11, <1>12

-----------------------------------------------------------------------------
(* The records.                                                            *)

RecType == [Key -> [hi : Node, prev : Node, next : Node]]

\* The records of the ranges in N are linked in order; a link that is there
\* leads to the very next range, and back.
Records(r, N) ==
    /\ r \in RecType
    /\ \A k \in Key \ N : r[k] = NoRecord
    /\ \A k \in N : r[k].hi \in Key /\ k <= r[k].hi
    /\ \A k \in N : r[k].next # NULL =>
          /\ r[k].next \in N /\ k < r[k].next /\ r[r[k].next].prev = k
          /\ \A j \in N : j <= k \/ r[k].next <= j
    /\ \A k \in N : r[k].prev # NULL => r[k].prev \in N /\ r[r[k].prev].next = k

Relinked(r, p, a, n, b, lo, new) ==
    [SetField(SetField(r, p, "next", a), n, "prev", b) EXCEPT ![lo] = new]

\* Record lo becomes new, the record p is followed by a, and n comes after b.
IsRelinked(w, r, p, a, n, b, lo, new) ==
    /\ w \in RecType /\ w[lo] = new
    /\ \A k \in Key \ {lo} :
          /\ w[k].hi = r[k].hi
          /\ w[k].next = IF k = p THEN a ELSE r[k].next
          /\ w[k].prev = IF k = n THEN b ELSE r[k].prev

LEMMA RelinkedIs ==
    ASSUME NEW r \in RecType, NEW p \in Node, NEW a \in Node, NEW n \in Node, NEW b \in Node,
           NEW lo \in Key, NEW new \in [hi : Node, prev : Node, next : Node]
    PROVE  IsRelinked(Relinked(r, p, a, n, b, lo, new), r, p, a, n, b, lo, new)
<1>1. PICK r1 : r1 = SetField(r, p, "next", a)
  OBVIOUS
<1>2. /\ r1 \in RecType
      /\ \A k \in Key : r1[k].hi = r[k].hi /\ r1[k].prev = r[k].prev /\ r1[k].next = IF k = p THEN a ELSE r[k].next
  <2>1. CASE p = NULL
    BY <1>1, <2>1, KeyAssumption DEF SetField
  <2>2. CASE p # NULL
    <3>1. p \in Key
      BY <2>2 DEF Node
    <3>2. r1 = [r EXCEPT ![p] = [r[p] EXCEPT !.next = a]]
      BY <1>1, <2>2, <3>1 DEF SetField, RecType
    <3>3. [r[p] EXCEPT !.next = a] = [hi |-> r[p].hi, prev |-> r[p].prev, next |-> a]
      BY <3>1 DEF RecType
    <3> QED
      BY <3>1, <3>2, <3>3 DEF RecType
  <2> QED
    BY <2>1, <2>2
<1>3. PICK r2 : r2 = SetField(r1, n, "prev", b)
  OBVIOUS
<1>4. /\ r2 \in RecType
      /\ \A k \in Key : r2[k].hi = r1[k].hi /\ r2[k].next = r1[k].next /\ r2[k].prev = IF k = n THEN b ELSE r1[k].prev
  <2>1. CASE n = NULL
    BY <1>2, <1>3, <2>1, KeyAssumption DEF SetField
  <2>2. CASE n # NULL
    <3>1. n \in Key
      BY <2>2 DEF Node
    <3>2. r2 = [r1 EXCEPT ![n] = [r1[n] EXCEPT !.prev = b]]
      BY <1>2, <1>3, <2>2, <3>1 DEF SetField, RecType
    <3>3. [r1[n] EXCEPT !.prev = b] = [hi |-> r1[n].hi, prev |-> b, next |-> r1[n].next]
      BY <1>2, <3>1 DEF RecType
    <3> QED
      BY <1>2, <3>1, <3>2, <3>3 DEF RecType
  <2> QED
    BY <2>1, <2>2
<1>5. PICK w : w = [r2 EXCEPT ![lo] = new]
  OBVIOUS
<1>6. w \in RecType /\ w[lo] = new /\ \A k \in Key \ {lo} : w[k] = r2[k]
  BY <1>4, <1>5 DEF RecType
<1>7. w = Relinked(r, p, a, n, b, lo, new)
  BY <1>1, <1>3, <1>5 DEF Relinked
<1>8. IsRelinked(w, r, p, a, n, b, lo, new)
  BY <1>2, <1>4, <1>6 DEF IsRelinked
<1> QED
  BY <1>7, <1>8

\* p is the last range in N up to lo, if there is one.
LastUpTo(p, N, lo) ==
    /\ p = NULL => \A k \in N : lo < k
    /\ p # NULL => p \in N /\ p <= lo /\ \A k \in N : k <= p \/ lo < k

\* What add_range and remove_range change in the records, w, of the other
\* ranges.
AddedTo(w, r, N, lo, hi, p) ==
    /\ \A k \in N \cup {lo} : w[k].hi = IF k = lo THEN hi ELSE r[k].hi
    /\ \A k \in N \cup {lo} : w[k].prev = NULL <=> IF k = lo THEN p = NULL ELSE r[k].prev = NULL

RemovedFrom(w, r, N, lo, p, n) ==
    /\ \A k \in N \ {lo} : w[k].hi = r[k].hi
    /\ \A k \in N \ {lo} : w[k].prev = NULL <=> (r[k].prev = NULL \/ (k = n /\ p = NULL))
    /\ n # NULL => n \in N \ {lo} /\ r[n].prev = lo

\* A range is hung in between the two that it lies between.
LEMMA RecordsAdded ==
    ASSUME NEW r, NEW N \in SUBSET Key, Records(r, N), NEW lo \in Key, NEW hi \in Key, lo <= hi,
           NEW p \in Node, LastUpTo(p, N, lo), NEW n, n = IF p = NULL THEN NULL ELSE r[p].next,
           p # NULL => r[p].hi < lo, n # NULL => hi < n,
           NEW w, w = Relinked(r, p, lo, n, lo, lo, [hi |-> hi, prev |-> p, next |-> n])
    PROVE  lo \notin N /\ Records(w, N \cup {lo}) /\ AddedTo(w, r, N, lo, hi, p)
<1>0. /\ r \in RecType
      /\ \A k \in Key \ N : r[k] = NoRecord
      /\ \A k \in N : r[k].hi \in Key /\ k <= r[k].hi
      /\ \A k \in N : r[k].next # NULL =>
            /\ r[k].next \in N /\ k < r[k].next /\ r[r[k].next].prev = k
            /\ \A j \in N : j <= k \/ r[k].next <= j
      /\ \A k \in N : r[k].prev # NULL => r[k].prev \in N /\ r[r[k].prev].next = k
  BY DEF Records
<1>1. Key \subseteq Nat /\ (\A k \in Key : k \in Nat /\ k # NULL) /\ lo \in Node /\ hi \in Node
  BY KeyAssumption DEF Node
<1>2. p # NULL => p \in N /\ p \in Key /\ p < lo /\ \A k \in N : k <= p \/ lo < k
  <2> HAVE p # NULL
  <2>1. p \in N /\ (\A k \in N : k <= p \/ lo < k) /\ p <= r[p].hi /\ r[p].hi < lo /\ r[p].hi \in Nat
    BY <1>0, <1>1 DEF LastUpTo
  <2>2. p \in Key /\ p \in Nat /\ lo \in Nat
    BY <1>1, <2>1
  <2>3. PICK h \in Nat : h = r[p].hi
    BY <2>1
  <2>4. p < lo
    BY <2>1, <2>2, <2>3
  <2> QED
    BY <2>1, <2>2, <2>4
<1>3. p = NULL => \A k \in N : lo < k
  BY DEF LastUpTo
<1>4. lo \notin N
  BY <1>1, <1>2, <1>3
<1>5. n # NULL => /\ n \in N /\ n \in Key /\ n = r[p].next /\ p # NULL /\ lo < n /\ r[n].prev = p
                  /\ \A j \in N : j <= p \/ n <= j
  <2> HAVE n # NULL
  <2>1. p # NULL /\ n = r[p].next
    OBVIOUS
  <2>2. n \in N /\ p < n /\ r[n].prev = p /\ \A j \in N : j <= p \/ n <= j
    BY <1>0, <1>2, <2>1
  <2>3. lo < n
    BY <1>1, <1>2, <2>1, <2>2
  <2> QED
    BY <2>1, <2>2, <2>3
<1>6. n \in Node
  BY <1>5 DEF Node
<1> DEFINE new == [hi |-> hi, prev |-> p, next |-> n]
<1>7. new \in [hi : Node, prev : Node, next : Node] /\ new.hi = hi /\ new.prev = p /\ new.next = n
  BY <1>1, <1>6
<1> HIDE DEF new
<1>8. /\ w \in RecType /\ w[lo] = new
      /\ \A k \in Key \ {lo} :
            /\ w[k].hi = r[k].hi
            /\ w[k].next = IF k = p THEN lo ELSE r[k].next
            /\ w[k].prev = IF k = n THEN lo ELSE r[k].prev
  <2>1. w = Relinked(r, p, lo, n, lo, lo, new)
    BY DEF new
  <2>2. IsRelinked(w, r, p, lo, n, lo, lo, new)
    BY <1>0, <1>1, <1>6, <1>7, <2>1, RelinkedIs
  <2> QED
    BY <2>2 DEF IsRelinked
<1> DEFINE M == N \cup {lo}
<1>9. \A k \in Key \ M : w[k] = NoRecord
  <2> TAKE k \in Key \ M
  <2>1. r[k] = NoRecord /\ k # p /\ k # n /\ k # lo /\ k \in Key
    BY <1>0, <1>1, <1>2, <1>5
  <2>2. w[k] \in [hi : Node, prev : Node, next : Node] /\ w[k].hi = NULL /\ w[k].next = NULL /\ w[k].prev = NULL
    BY <1>8, <2>1 DEF RecType, NoRecord
  <2> QED
    BY <2>2 DEF NoRecord
<1>10. \A k \in M : w[k].hi \in Key /\ k <= w[k].hi /\ w[k].hi = IF k = lo THEN hi ELSE r[k].hi
  BY <1>0, <1>4, <1>7, <1>8
<1>11. ASSUME NEW k \in M, w[k].next # NULL
       PROVE  /\ w[k].next \in M /\ k < w[k].next /\ w[w[k].next].prev = k
              /\ \A j \in M : j <= k \/ w[k].next <= j
  <2>1. CASE k = lo
    <3>1. w[k].next = n /\ n # NULL
      BY <1>7, <1>8, <1>11, <2>1
    <3>2. w[n].prev = lo
      BY <1>4, <1>5, <1>8, <3>1
    <3>3. ASSUME NEW j \in M PROVE j <= lo \/ n <= j
      <4>1. CASE j = lo
        BY <1>1, <4>1
      <4>2. CASE j # lo
        <5>1. j \in Nat /\ p \in Nat /\ p < lo /\ (j <= p \/ n <= j)
          BY <1>1, <1>2, <1>5, <3>1, <4>2
        <5> QED
          BY <1>1, <5>1
      <4> QED
        BY <4>1, <4>2
    <3> QED
      BY <1>5, <2>1, <3>1, <3>2, <3>3
  <2>2. CASE k # lo /\ k = p
    <3>1. w[k].next = lo /\ w[lo].prev = p /\ p # NULL
      BY <1>1, <1>7, <1>8, <2>2
    <3>2. ASSUME NEW j \in M PROVE j <= k \/ lo <= j
      <4>1. CASE j = lo
        BY <1>1, <4>1
      <4>2. CASE j # lo
        BY <1>1, <1>2, <2>2, <3>1, <4>2
      <4> QED
        BY <4>1, <4>2
    <3> QED
      BY <1>2, <2>2, <3>1, <3>2
  <2>3. CASE k # lo /\ k # p
    <3>1. PICK q : q = r[k].next
      OBVIOUS
    <3>2. k \in N /\ k \in Key /\ w[k].next = q /\ q # NULL
      BY <1>8, <1>11, <2>3, <3>1
    <3>3. q \in N /\ q \in Key /\ k < q /\ r[q].prev = k /\ \A j \in N : j <= k \/ q <= j
      BY <1>0, <3>1, <3>2
    <3>4. q # n
      BY <1>5, <2>3, <3>2, <3>3
    <3>5. w[q].prev = k
      BY <1>4, <1>8, <3>3, <3>4
    <3>6. lo <= k \/ q <= lo
      <4>1. CASE p = NULL
        BY <1>1, <1>3, <3>2, <4>1
      <4>2. CASE p # NULL
        <5>1. (k <= p \/ lo < k) /\ (q <= p \/ lo < q) /\ (p <= k \/ q <= p)
          BY <1>2, <3>2, <3>3, <4>2
        <5>2. p \in Nat /\ k \in Nat /\ q \in Nat /\ lo \in Nat /\ p < lo
          BY <1>1, <1>2, <3>2, <3>3, <4>2
        <5> QED
          BY <2>3, <5>1, <5>2
      <4> QED
        BY <4>1, <4>2
    <3> QED
      BY <3>2, <3>3, <3>5, <3>6
  <2> QED
    BY <2>1, <2>2, <2>3
<1>12. ASSUME NEW k \in M PROVE w[k].prev = NULL <=> IF k = lo THEN p = NULL ELSE r[k].prev = NULL
  <2>1. CASE k = lo
    BY <1>7, <1>8, <2>1
  <2>2. CASE k # lo
    <3>1. k \in N /\ k \in Key \ {lo}
      BY <2>2
    <3>2. CASE k = n
      BY <1>1, <1>5, <1>8, <2>2, <3>1, <3>2
    <3>3. CASE k # n
      BY <1>8, <2>2, <3>1, <3>3
    <3> QED
      BY <3>2, <3>3
  <2> QED
    BY <2>1, <2>2
<1>13. ASSUME NEW k \in M, w[k].prev # NULL PROVE w[k].prev \in M /\ w[w[k].prev].next = k
  <2>1. CASE k = lo
    <3>1. w[k].prev = p /\ p # NULL
      BY <1>7, <1>8, <1>13, <2>1
    <3>2. w[p].next = lo
      BY <1>2, <1>4, <1>8, <3>1
    <3> QED
      BY <1>2, <2>1, <3>1, <3>2
  <2>2. CASE k # lo /\ k = n
    <3>1. w[k].prev = lo
      BY <1>8, <2>2
    <3> QED
      BY <1>7, <1>8, <2>2, <3>1
  <2>3. CASE k # lo /\ k # n
    <3>1. PICK q : q = r[k].prev
      OBVIOUS
    <3>2. k \in N /\ k \in Key /\ w[k].prev = q /\ q # NULL
      BY <1>8, <1>13, <2>3, <3>1
    <3>3. q \in N /\ q \in Key /\ r[q].next = k
      BY <1>0, <3>1, <3>2
    <3>4. q # p
      BY <1>1, <2>3, <3>2, <3>3
    <3>5. w[q].next = k
      BY <1>4, <1>8, <3>3, <3>4
    <3> QED
      BY <3>2, <3>3, <3>5
  <2> QED
    BY <2>1, <2>2, <2>3
<1>14. Records(w, M)
  BY <1>8, <1>9, <1>10, <1>11, <1>13 DEF Records
<1> QED
  BY <1>4, <1>10, <1>12, <1>14 DEF AddedTo

\* The two neighbours of a range that is taken out are linked to each other.
LEMMA RecordsRemoved ==
    ASSUME NEW r, NEW N \in SUBSET Key, Records(r, N), NEW lo \in N,
           NEW p, p = r[lo].prev, NEW n, n = r[lo].next,
           NEW w, w = Relinked(r, p, n, n, p, lo, NoRecord)
    PROVE  Records(w, N \ {lo}) /\ RemovedFrom(w, r, N, lo, p, n)
<1>0. /\ r \in RecType
      /\ \A k \in Key \ N : r[k] = NoRecord
      /\ \A k \in N : r[k].hi \in Key /\ k <= r[k].hi
      /\ \A k \in N : r[k].next # NULL =>
            /\ r[k].next \in N /\ k < r[k].next /\ r[r[k].next].prev = k
            /\ \A j \in N : j <= k \/ r[k].next <= j
      /\ \A k \in N : r[k].prev # NULL => r[k].prev \in N /\ r[r[k].prev].next = k
  BY DEF Records
<1>1. Key \subseteq Nat /\ (\A k \in Key : k \in Nat /\ k # NULL) /\ lo \in Key
  BY KeyAssumption
<1>2. n # NULL => n \in N /\ n \in Key /\ lo < n /\ r[n].prev = lo /\ \A j \in N : j <= lo \/ n <= j
  BY <1>0
<1>3. p # NULL => p \in N /\ p \in Key /\ r[p].next = lo /\ p < lo /\ \A j \in N : j <= p \/ lo <= j
  <2> HAVE p # NULL
  <2>1. p \in N /\ r[p].next = lo
    BY <1>0
  <2>2. r[p].next # NULL
    BY <1>1, <2>1
  <2>3. p < r[p].next /\ \A j \in N : j <= p \/ r[p].next <= j
    BY <1>0, <2>1, <2>2
  <2> QED
    BY <2>1, <2>3
<1>4. p \in Node /\ n \in Node
  BY <1>2, <1>3 DEF Node
<1>5. n # lo /\ p # lo
  <2>1. lo \in Nat /\ lo # NULL /\ ~(lo < lo)
    BY <1>1
  <2>2. n = lo => FALSE
    BY <1>2, <2>1
  <2>3. p = lo => FALSE
    BY <1>3, <2>1
  <2> QED
    BY <2>2, <2>3
<1>6. NoRecord \in [hi : Node, prev : Node, next : Node]
  BY DEF NoRecord, Node
<1>7. /\ w \in RecType /\ w[lo] = NoRecord
      /\ \A k \in Key \ {lo} :
            /\ w[k].hi = r[k].hi
            /\ w[k].next = IF k = p THEN n ELSE r[k].next
            /\ w[k].prev = IF k = n THEN p ELSE r[k].prev
  <2>1. IsRelinked(w, r, p, n, n, p, lo, NoRecord)
    BY <1>0, <1>1, <1>4, <1>6, RelinkedIs
  <2> QED
    BY <2>1 DEF IsRelinked
<1> DEFINE M == N \ {lo}
<1>8. \A k \in Key \ M : w[k] = NoRecord
  <2> TAKE k \in Key \ M
  <2>1. CASE k = lo
    BY <1>7, <2>1
  <2>2. CASE k # lo
    <3>1. r[k] = NoRecord /\ k # p /\ k # n /\ k \in Key
      BY <1>0, <1>1, <1>2, <1>3, <2>2
    <3>2. w[k] \in [hi : Node, prev : Node, next : Node] /\ w[k].hi = NULL /\ w[k].next = NULL /\ w[k].prev = NULL
      BY <1>7, <2>2, <3>1 DEF RecType, NoRecord
    <3> QED
      BY <3>2 DEF NoRecord
  <2> QED
    BY <2>1, <2>2
<1>9. \A k \in M : w[k].hi \in Key /\ k <= w[k].hi /\ w[k].hi = r[k].hi
  BY <1>0, <1>7
<1>10. ASSUME NEW k \in M, w[k].next # NULL
       PROVE  /\ w[k].next \in M /\ k < w[k].next /\ w[w[k].next].prev = k
              /\ \A j \in M : j <= k \/ w[k].next <= j
  <2>1. CASE k = p
    <3>1. w[k].next = n /\ n # NULL /\ p # NULL
      BY <1>1, <1>7, <1>10, <2>1
    <3>2. w[n].prev = p
      BY <1>2, <1>5, <1>7, <3>1
    <3>3. p \in Nat /\ n \in Nat /\ lo \in Nat /\ p < lo /\ lo < n
      BY <1>1, <1>2, <1>3, <3>1
    <3>4. ASSUME NEW j \in M PROVE j <= p \/ n <= j
      <4>1. j \in Nat /\ j # lo /\ (j <= lo \/ n <= j) /\ (j <= p \/ lo <= j)
        BY <1>1, <1>2, <1>3, <3>1
      <4> QED
        BY <3>3, <4>1
    <3>5. n \in M /\ p < n
      BY <1>2, <1>5, <3>1, <3>3
    <3> QED
      BY <2>1, <3>1, <3>2, <3>4, <3>5
  <2>2. CASE k # p
    <3>1. PICK q : q = r[k].next
      OBVIOUS
    <3>2. k \in N /\ k \in Key /\ w[k].next = q /\ q # NULL
      BY <1>7, <1>10, <2>2, <3>1
    <3>3. q \in N /\ q \in Key /\ k < q /\ r[q].prev = k /\ \A j \in N : j <= k \/ q <= j
      BY <1>0, <3>1, <3>2
    <3>4. q # lo
      BY <2>2, <3>3
    <3>5. q # n
      BY <1>2, <3>2, <3>3
    <3>6. w[q].prev = k
      BY <1>7, <3>3, <3>4, <3>5
    <3> QED
      BY <3>2, <3>3, <3>4, <3>6
  <2> QED
    BY <2>1, <2>2
<1>11. ASSUME NEW k \in M, w[k].prev # NULL PROVE w[k].prev \in M /\ w[w[k].prev].next = k
  <2>1. CASE k = n
    <3>1. w[k].prev = p /\ p # NULL
      BY <1>7, <1>11, <2>1
    <3>2. w[p].next = n
      BY <1>3, <1>5, <1>7, <3>1
    <3> QED
      BY <1>3, <1>5, <2>1, <3>1, <3>2
  <2>2. CASE k # n
    <3>1. PICK q : q = r[k].prev
      OBVIOUS
    <3>2. k \in N /\ k \in Key /\ w[k].prev = q /\ q # NULL
      BY <1>7, <1>11, <2>2, <3>1
    <3>3. q \in N /\ q \in Key /\ r[q].next = k
      BY <1>0, <3>1, <3>2
    <3>4. q # lo /\ q # p
      BY <1>3, <2>2, <3>2, <3>3
    <3>5. w[q].next = k
      BY <1>7, <3>3, <3>4
    <3> QED
      BY <3>2, <3>3, <3>4, <3>5
  <2> QED
    BY <2>1, <2>2
<1>12. ASSUME NEW k \in M PROVE w[k].prev = NULL <=> (r[k].prev = NULL \/ (k = n /\ p = NULL))
  <2>1. CASE k = n
    <3>1. r[k].prev = lo /\ lo # NULL /\ w[k].prev = p
      BY <1>1, <1>2, <1>7, <2>1
    <3> QED
      BY <2>1, <3>1
  <2>2. CASE k # n
    BY <1>7, <2>2
  <2> QED
    BY <2>1, <2>2
<1>13. Records(w, M)
  BY <1>7, <1>8, <1>9, <1>10, <1>11 DEF Records
<1> QED
  BY <1>2, <1>5, <1>9, <1>12, <1>13 DEF RemovedFrom

-----------------------------------------------------------------------------
(* The set of ranges.                                                      *)

\* Every range but the heads follows one that ends below it, with none between.
SeenApart(s) ==
    \A m \in Held(s) \ s.heads : \E p \in Held(s) :
        p < m /\ s.at[p] < m /\ \A k \in Held(s) : k <= p \/ m <= k

SetOK(s) ==
    /\ Held(s) \subseteq Nat /\ s.heads \subseteq Held(s)
    /\ \A k \in Held(s) : s.at[k] \in Nat /\ k <= s.at[k]
    /\ SeenApart(s)

\* Before is the last of the ranges that start at or before lo, if there is one.
LEMMA BeforeIsLast ==
    ASSUME NEW s, Held(s) \subseteq Nat, NEW lo \in Nat, UpTo(s, lo) # {}
    PROVE  \E b \in UpTo(s, lo) : Before(s, lo) = {b} /\ \A k \in UpTo(s, lo) : k <= b
<1> DEFINE S == UpTo(s, lo)
           D == {d \in Nat : \E k \in S : d = lo - k}
<1>1. \A k \in S : k \in Nat /\ k <= lo /\ lo - k \in Nat
  BY DEF UpTo
<1>2. D # {} /\ D \subseteq Nat
  BY <1>1
<1> HIDE DEF D
<1>3. PICK d \in D : \A e \in D : d <= e
  BY <1>2, LeastNatural
<1>4. PICK b \in S : d = lo - b
  BY <1>3 DEF D
<1>5. \A k \in S : k <= b
  <2> TAKE k \in S
  <2>1. lo - k \in D
    BY <1>1 DEF D
  <2> QED
    BY <2>1, <1>1, <1>3, <1>4
<1>6. Max(S) = b
  <2> HIDE DEF S
  <2>1. Max(S) \in S /\ \A k \in S : Max(S) >= k
    BY <1>1, <1>5 DEF Max
  <2> QED
    BY <2>1, <1>1, <1>5
<1> QED
  BY <1>5, <1>6 DEF Before

\* The first of the ranges after lo.
LEMMA FirstAfter ==
    ASSUME NEW s, Held(s) \subseteq Nat, NEW lo \in Nat, NEW m \in After(s, lo),
           \A k \in After(s, lo) : m <= k
    PROVE  Min(After(s, lo)) = m
<1> DEFINE S == After(s, lo)
<1>1. S \subseteq Nat
  BY DEF After
<1> HIDE DEF S
<1>2. m \in S /\ \A k \in S : m <= k
  BY DEF S
<1>3. Min(S) \in S /\ \A k \in S : Min(S) <= k
  BY <1>1, <1>2 DEF Min
<1>4. Min(S) = m
  <2>1. Min(S) \in Nat /\ m \in Nat
    BY <1>1, <1>2, <1>3
  <2>2. Min(S) <= m /\ m <= Min(S)
    BY <1>2, <1>3
  <2> HIDE DEF Min
  <2> QED
    BY <2>1, <2>2
<1> QED
  BY <1>4 DEF S

\* add_range keeps the set in order.
LEMMA AddedOK ==
    ASSUME NEW s, SetOK(s), NEW lo \in Nat, NEW hi \in Nat, lo <= hi,
           ~Overlaps(s, lo, hi)
    PROVE  SetOK(Added(s, lo, hi))
<1> DEFINE t == Added(s, lo, hi)
<1>1. /\ Held(t) = Held(s) \cup {lo}
      /\ \A k \in Held(t) : t.at[k] = IF k = lo THEN hi ELSE s.at[k]
      /\ t.heads = s.heads \cup (IF Before(s, lo) = {} THEN {lo} ELSE {})
  <2>1. t.at = [k \in Held(s) \cup {lo} |-> IF k = lo THEN hi ELSE s.at[k]]
    BY DEF Added
  <2>2. t.heads = s.heads \cup (IF Before(s, lo) = {} THEN {lo} ELSE {})
    BY DEF Added
  <2> HIDE DEF t
  <2>3. Held(t) = Held(s) \cup {lo}
    BY <2>1 DEF Held
  <2> QED
    BY <2>1, <2>2, <2>3
<1>2. /\ Held(s) \subseteq Nat /\ s.heads \subseteq Held(s) /\ SeenApart(s)
      /\ \A k \in Held(s) : s.at[k] \in Nat /\ k <= s.at[k]
  BY DEF SetOK
<1> HIDE DEF t
<1>3. /\ Held(t) \subseteq Nat /\ t.heads \subseteq Held(t)
      /\ \A k \in Held(t) : t.at[k] \in Nat /\ k <= t.at[k]
  BY <1>1, <1>2
<1>4. SeenApart(t)
  <2>1. CASE UpTo(s, lo) = {}
    <3>1. t.heads = s.heads \cup {lo} /\ \A k \in Held(s) : lo < k
      BY <1>1, <1>2, <2>1 DEF Before, UpTo
    <3> SUFFICES ASSUME NEW m \in Held(t) \ t.heads
                 PROVE  \E p \in Held(t) : /\ p < m /\ t.at[p] < m
                                           /\ \A k \in Held(t) : k <= p \/ m <= k
      BY DEF SeenApart
    <3>2. PICK p \in Held(s) : p < m /\ s.at[p] < m /\ \A k \in Held(s) : k <= p \/ m <= k
      BY <1>1, <1>2, <3>1 DEF SeenApart
    <3>3. lo < p /\ t.at[p] = s.at[p]
      BY <1>1, <1>2, <3>1
    <3> QED
      BY <1>1, <1>2, <3>2, <3>3
  <2>2. CASE UpTo(s, lo) # {}
    <3>1. PICK b \in UpTo(s, lo) : Before(s, lo) = {b} /\ \A k \in UpTo(s, lo) : k <= b
      BY <1>2, <2>2, BeforeIsLast
    <3>2. b \in Held(s) /\ s.at[b] < lo /\ b < lo /\ t.heads = s.heads
      BY <1>1, <1>2, <3>1 DEF Overlaps, UpTo
    <3>3. \A k \in Held(s) : k <= b \/ lo < k
      BY <1>2, <3>1 DEF UpTo
    <3> SUFFICES ASSUME NEW m \in Held(t) \ t.heads
                 PROVE  \E p \in Held(t) : /\ p < m /\ t.at[p] < m
                                           /\ \A k \in Held(t) : k <= p \/ m <= k
      BY DEF SeenApart
    <3>4. CASE m = lo
      BY <1>1, <1>2, <3>2, <3>3, <3>4
    <3>5. CASE m # lo
      <4>1. PICK p \in Held(s) : p < m /\ s.at[p] < m /\ \A k \in Held(s) : k <= p \/ m <= k
        BY <1>1, <1>2, <3>2, <3>5 DEF SeenApart
      <4>2. CASE lo < p \/ m < lo
        BY <1>1, <1>2, <4>1, <4>2
      <4>3. CASE ~(lo < p \/ m < lo)
        <5>1. lo \notin Held(s) /\ p < lo /\ lo < m /\ m \in Held(s) /\ m \notin s.heads
          BY <1>1, <1>2, <3>2, <3>3, <3>5, <4>1, <4>3
        <5>2. m \in After(s, lo) /\ \A k \in After(s, lo) : m <= k
          BY <1>2, <4>1, <5>1 DEF After
        <5>3. Min(After(s, lo)) = m
          BY <1>2, <5>2, FirstAfter
        <5>4. m \in NextSeen(s, lo)
          BY <2>2, <5>1, <5>2, <5>3 DEF NextSeen
        <5>5. hi < m
          BY <1>2, <5>1, <5>4 DEF Overlaps
        <5>6. /\ lo \in Held(t) /\ t.at[lo] < m /\ lo < m
              /\ \A k \in Held(t) : k <= lo \/ m <= k
          BY <1>1, <1>2, <4>1, <5>1, <5>5
        <5> QED
          BY <5>6
      <4> QED
        BY <4>2, <4>3
    <3> QED
      BY <3>4, <3>5
  <2> QED
    BY <2>1, <2>2
<1>5. SetOK(t)
  BY <1>3, <1>4 DEF SetOK
<1> QED
  BY <1>5 DEF t

\* remove_range keeps the set in order.
LEMMA RemovedOK ==
    ASSUME NEW s, SetOK(s), NEW lo \in Held(s)
    PROVE  SetOK(Removed(s, lo))
<1> DEFINE t == Removed(s, lo)
<1>1. /\ Held(t) = Held(s) \ {lo}
      /\ \A k \in Held(t) : t.at[k] = s.at[k]
      /\ t.heads = (s.heads \ {lo}) \cup (IF lo \in s.heads THEN NextSeen(s, lo) ELSE {})
  BY DEF Removed, Held, Restrict
<1>2. /\ Held(s) \subseteq Nat /\ s.heads \subseteq Held(s) /\ SeenApart(s)
      /\ \A k \in Held(s) : s.at[k] \in Nat /\ k <= s.at[k]
  BY DEF SetOK
<1> HIDE DEF t
<1>3. /\ Held(t) \subseteq Nat
      /\ \A k \in Held(t) : t.at[k] \in Nat /\ k <= t.at[k]
  BY <1>1, <1>2
<1>4. NextSeen(s, lo) \subseteq Held(s) \ {lo}
  <2> SUFFICES ASSUME NEW n \in NextSeen(s, lo)
               PROVE  n \in Held(s) \ {lo}
    OBVIOUS
  <2> DEFINE S == After(s, lo)
  <2>1. S \subseteq Held(s) \ {lo} /\ S \subseteq Nat /\ S # {} /\ n = Min(S)
    BY <1>2 DEF NextSeen, After
  <2> HIDE DEF S
  <2>2. \E m \in S : \A k \in S : m <= k
    BY <2>1, LeastNatural
  <2>3. Min(S) \in S
    BY <2>2 DEF Min
  <2> QED
    BY <2>1, <2>3
<1>5. t.heads \subseteq Held(t)
  BY <1>1, <1>2, <1>4
<1>6. SeenApart(t)
  <2> SUFFICES ASSUME NEW m \in Held(t) \ t.heads
               PROVE  \E p \in Held(t) : /\ p < m /\ t.at[p] < m
                                         /\ \A k \in Held(t) : k <= p \/ m <= k
    BY DEF SeenApart
  <2>1. m \in Held(s) \ s.heads /\ m # lo
    BY <1>1
  <2>2. PICK p \in Held(s) : p < m /\ s.at[p] < m /\ \A k \in Held(s) : k <= p \/ m <= k
    BY <2>1, <1>2 DEF SeenApart
  <2>3. CASE p # lo
    BY <1>1, <2>2, <2>3
  <2>4. CASE p = lo
    <3>1. m \in After(s, lo) /\ \A k \in After(s, lo) : m <= k
      BY <1>2, <2>1, <2>2, <2>4 DEF After
    <3>2. Min(After(s, lo)) = m
      BY <1>2, <3>1, FirstAfter
    <3>3. UpTo(s, lo) # {}
      BY <1>2 DEF UpTo
    <3>4. m \in NextSeen(s, lo)
      BY <2>1, <3>1, <3>2, <3>3 DEF NextSeen
    <3>5. lo \notin s.heads
      BY <1>1, <3>4
    <3>6. PICK q \in Held(s) : /\ q < lo /\ s.at[q] < lo
                               /\ \A k \in Held(s) : k <= q \/ lo <= k
      BY <3>5, <1>2 DEF SeenApart
    <3>7. q \in Held(t) /\ q < m /\ t.at[q] < m
      BY <1>1, <1>2, <2>2, <2>4, <3>6
    <3>8. \A k \in Held(t) : k <= q \/ m <= k
      BY <1>1, <1>2, <2>2, <2>4, <3>6
    <3> QED
      BY <3>7, <3>8
  <2> QED
    BY <2>3, <2>4
<1>7. SetOK(t)
  BY <1>3, <1>5, <1>6 DEF SetOK
<1> QED
  BY <1>7 DEF t


-----------------------------------------------------------------------------
(* The records and the tree make up a set of ranges.                       *)

HeldBy(r, N) == [at |-> [k \in N |-> r[k].hi], heads |-> {k \in N : r[k].prev = NULL}]

LEMMA HeldByIs ==
    ASSUME NEW r, NEW N, NEW s, s = HeldBy(r, N)
    PROVE  /\ Held(s) = N /\ s.heads = {k \in N : r[k].prev = NULL}
           /\ s.at = [k \in N |-> r[k].hi] /\ \A k \in N : s.at[k] = r[k].hi
BY DEF HeldBy, Held

\* What add_range looks at is what is seen of the set: the last range up to
\* the new one, and the next one unless that is the head of a list.
LEMMA SeenIs ==
    ASSUME NEW r, NEW N \in SUBSET Key, Records(r, N), NEW lo \in Key,
           NEW p \in Node, LastUpTo(p, N, lo), NEW n, n = IF p = NULL THEN NULL ELSE r[p].next,
           NEW s, s = HeldBy(r, N)
    PROVE  /\ Before(s, lo) = IF p = NULL THEN {} ELSE {p}
           /\ NextSeen(s, lo) = IF n = NULL THEN {} ELSE {n}
           /\ UpTo(s, lo) = {} <=> p = NULL
<1>0. /\ \A k \in N : r[k].next # NULL =>
            /\ r[k].next \in N /\ k < r[k].next /\ r[r[k].next].prev = k
            /\ \A j \in N : j <= k \/ r[k].next <= j
      /\ \A k \in N : r[k].prev # NULL => r[k].prev \in N /\ r[r[k].prev].next = k
  BY DEF Records
<1>1. Key \subseteq Nat /\ N \subseteq Nat /\ NULL \notin N /\ lo \in Nat
  BY KeyAssumption
<1>2. Held(s) = N /\ s.heads = {k \in N : r[k].prev = NULL}
  BY DEF HeldBy, Held
<1>3. UpTo(s, lo) = {k \in N : k <= lo} /\ After(s, lo) = {k \in N : k > lo}
  BY <1>2 DEF UpTo, After
<1>4. CASE p = NULL
  <2>1. UpTo(s, lo) = {}
    <3>1. \A k \in N : k \in Nat /\ lo < k
      BY <1>1, <1>4 DEF LastUpTo
    <3>2. \A k \in N : ~(k <= lo)
      BY <1>1, <3>1
    <3> QED
      BY <1>3, <3>2
  <2> QED
    BY <1>4, <2>1 DEF Before, NextSeen
<1>5. CASE p # NULL
  <2>1. p \in N /\ p <= lo /\ \A k \in N : k <= p \/ lo < k
    BY <1>5 DEF LastUpTo
  <2>2. PICK U : U = UpTo(s, lo)
    OBVIOUS
  <2>3. U \in SUBSET Nat /\ p \in U /\ \A k \in U : k <= p
    <3>1. \A k \in N : k \in Nat /\ (k <= p \/ ~(k <= lo))
      BY <1>1, <2>1
    <3> QED
      BY <1>3, <2>1, <2>2, <3>1
  <2>4. Max(U) = p
    BY <2>3, GreatestEq
  <2>5. Before(s, lo) = {p} /\ UpTo(s, lo) # {}
    BY <2>2, <2>3, <2>4 DEF Before
  <2>6. n = r[p].next
    BY <1>5
  <2>7. ASSUME n # NULL PROVE NextSeen(s, lo) = {n}
    <3>1. n \in N /\ p < n /\ r[n].prev = p /\ \A j \in N : j <= p \/ n <= j
      BY <1>0, <2>1, <2>6, <2>7
    <3>2. n \in Nat /\ p \in Nat /\ lo < n
      BY <1>1, <2>1, <3>1
    <3>3. n \in After(s, lo) /\ \A j \in After(s, lo) : n <= j
      BY <1>1, <1>3, <2>1, <3>1, <3>2
    <3>4. Min(After(s, lo)) = n
      BY <1>1, <1>2, <3>3, FirstAfter
    <3>5. n \notin s.heads
      BY <1>2, <1>5, <3>1
    <3> QED
      BY <2>5, <3>3, <3>4, <3>5 DEF NextSeen
  <2>8. ASSUME n = NULL PROVE NextSeen(s, lo) = {}
    <3>1. CASE After(s, lo) = {}
      BY <3>1 DEF NextSeen
    <3>2. CASE After(s, lo) # {}
      <4>1. PICK m \in After(s, lo) : \A k \in After(s, lo) : m <= k
        <5>1. After(s, lo) \subseteq Nat
          BY <1>1, <1>3
        <5> QED
          BY <3>2, <5>1, LeastNatural
      <4>2. Min(After(s, lo)) = m
        BY <1>1, <1>2, <4>1, FirstAfter
      <4>3. m \in N /\ m > lo /\ m \in Nat
        BY <1>1, <1>3
      <4>4. r[m].prev = NULL
        <5> SUFFICES ASSUME r[m].prev # NULL PROVE FALSE
          OBVIOUS
        <5>1. PICK q : q = r[m].prev
          OBVIOUS
        <5>2. q \in N /\ r[q].next = m
          BY <1>0, <4>3, <5>1
        <5>3. r[q].next # NULL
          BY <1>1, <4>3, <5>2
        <5>4. q < m /\ \A j \in N : j <= q \/ m <= j
          BY <1>0, <5>2, <5>3
        <5>5. q # p
          BY <2>6, <2>8, <5>3
        <5>6. p <= q \/ m <= p
          BY <2>1, <5>4
        <5>7. q <= p \/ lo < q
          BY <2>1, <5>2
        <5>8. lo < q => m <= q
          BY <1>1, <1>3, <4>1, <5>2
        <5>9. q \in Nat /\ p \in Nat
          BY <1>1, <2>1, <5>2
        <5> QED
          BY <1>1, <2>1, <4>3, <5>4, <5>5, <5>6, <5>7, <5>8, <5>9
      <4>5. m \in s.heads
        BY <1>2, <4>3, <4>4
      <4> QED
        BY <4>2, <4>5 DEF NextSeen
    <3> QED
      BY <3>1, <3>2
  <2> QED
    BY <1>5, <2>5, <2>7, <2>8
<1> QED
  BY <1>4, <1>5

\* The nearest record is the last range that starts at or before lo.
LEMMA NearestLast ==
    ASSUME NEW t, NEW N, Tree(t, N), NEW lo \in Key, NEW p, p = FindNearest(t, lo)
    PROVE  p \in Node /\ LastUpTo(p, N, lo)
<1>1. PICK D : TreeIs(t, D, N)
  BY DEF Tree
<1>2. N \subseteq Key /\ Key \subseteq Nat /\ NULL \notin Key /\ lo \in Nat
  BY <1>1, MembersAre, KeyAssumption
<1>3. PICK S : S = {k \in N : k <= lo}
  OBVIOUS
<1>4. p = IF S = {} THEN NULL ELSE Max(S)
  BY <1>1, <1>3, NearestIs
<1>5. CASE S = {}
  <2>1. \A k \in N : lo < k
    BY <1>2, <1>3, <1>5
  <2> QED
    BY <1>4, <1>5, <2>1 DEF LastUpTo, Node
<1>6. CASE S # {}
  <2>1. S \in SUBSET Nat /\ \A k \in S : k <= lo
    BY <1>2, <1>3
  <2>2. p \in S /\ \A k \in S : k <= p
    BY <1>2, <1>4, <1>6, <2>1, GreatestIs
  <2>3. \A k \in N : k <= p \/ lo < k
    BY <1>2, <1>3, <2>2
  <2>4. p \in N /\ p <= lo /\ p # NULL /\ p \in Node
    BY <1>2, <1>3, <2>2 DEF Node
  <2> QED
    BY <2>3, <2>4 DEF LastUpTo
<1> QED
  BY <1>5, <1>6

LEMMA FoundIs ==
    ASSUME NEW t, NEW N, Tree(t, N)
    PROVE  {k \in Key : Search(t, k) = k} = N /\ N \subseteq Key
<1>1. PICK D : TreeIs(t, D, N)
  BY DEF Tree
<1>2. N \subseteq Key
  BY <1>1, MembersAre
<1>3. \A k \in Key : Search(t, k) = k <=> k \in N
  BY <1>1, SearchIs, KeyAssumption
<1> QED
  BY <1>2, <1>3

LEMMA NewTreeIs == Tree(NewTree, {})
<1> DEFINE D == [k \in Key |-> {k}]
<1>1. D \in [Key -> SUBSET Key] /\ \A k \in Key : D[k] = {k}
  OBVIOUS
<1> HIDE DEF D
<1>2. /\ NewTree \in TreeType /\ NewTree.root = NULL
      /\ \A s \in Side, k \in Key : NewTree.child[s][k] = NULL
      /\ \A k \in Key : NewTree.parent[k] = NULL
  BY DEF NewTree, TreeType, Node
<1>3. Under(D, NULL) = {}
  BY DEF Under
<1>4. Shaped(NewTree, D)
  <2>1. "left" \in Side /\ "right" \in Side
    BY DEF Side
  <2> QED
    BY <1>1, <1>2, <1>3, <2>1 DEF Shaped
<1>5. Linked(NewTree, {})
  BY <1>2 DEF Linked
<1>6. TreeIs(NewTree, D, {})
  BY <1>2, <1>3, <1>4, <1>5 DEF TreeIs
<1> QED
  BY <1>6 DEF Tree

\* The set of ranges that the tree and the records make up.
Ranges == [at |-> [k \in Found |-> rec[k].hi], heads |-> {k \in Found : rec[k].prev = NULL}]

\* The tree is a search tree of the records, and these are linked in order.
RangeInv == \E N : Tree(tree, N) /\ Records(rec, N)

LEMMA SameSet ==
    ASSUME NEW s, NEW lo, NEW hi
    PROVE  /\ Abstract!Overlaps(s, lo, hi) <=> Overlaps(s, lo, hi)
           /\ Abstract!Added(s, lo, hi) = Added(s, lo, hi)
           /\ Abstract!Removed(s, lo) = Removed(s, lo)
           /\ Abstract!Held(s) = Held(s)
           /\ Abstract!NoIntervals = NoIntervals
<1>1. Abstract!Held(s) = Held(s)
  BY Zenon DEF Abstract!Held, Held
<1>2. Abstract!UpTo(s, lo) = UpTo(s, lo)
  BY Zenon DEF Abstract!UpTo, UpTo, Abstract!Held, Held
<1>3. Abstract!After(s, lo) = After(s, lo)
  BY Zenon DEF Abstract!After, After, Abstract!Held, Held
<1>4. Abstract!Before(s, lo) = Before(s, lo)
  <2>1. Abstract!Max(UpTo(s, lo)) = Max(UpTo(s, lo))
    BY Zenon DEF Abstract!Max, Max
  <2> QED
    BY <1>2, <2>1, Zenon DEF Abstract!Before, Before
<1>5. Abstract!NextSeen(s, lo) = NextSeen(s, lo)
  <2>1. Abstract!Min(After(s, lo)) = Min(After(s, lo))
    BY Zenon DEF Abstract!Min, Min
  <2> QED
    BY <1>2, <1>3, <2>1, Zenon DEF Abstract!NextSeen, NextSeen
<1>6. Abstract!Overlaps(s, lo, hi) <=> Overlaps(s, lo, hi)
  BY <1>4, <1>5, Zenon DEF Abstract!Overlaps, Overlaps
<1>7. Abstract!Added(s, lo, hi) = Added(s, lo, hi)
  BY <1>1, <1>4, Zenon DEF Abstract!Added, Added
<1>8. Abstract!Removed(s, lo) = Removed(s, lo)
  <2>1. Abstract!Restrict(s.at, Held(s) \ {lo}) = Restrict(s.at, Held(s) \ {lo})
    BY Zenon DEF Abstract!Restrict, Restrict
  <2> QED
    BY <1>1, <1>5, <2>1, Zenon DEF Abstract!Removed, Removed
<1>9. Abstract!NoIntervals = NoIntervals
  BY Zenon DEF Abstract!NoIntervals, NoIntervals
<1> QED
  BY <1>1, <1>6, <1>7, <1>8, <1>9

\* The set before and after a step.
LEMMA RangesAre ==
    ASSUME NEW N, Tree(tree, N)
    PROVE  Ranges = HeldBy(rec, N) /\ Found = N
<1>1. Found = N
  BY FoundIs DEF Found
<1> QED
  BY <1>1 DEF Ranges, HeldBy

\* An added range.
LEMMA HeldAdded ==
    ASSUME NEW r, NEW w, NEW N, NEW lo, NEW hi, NEW p, NEW s, s = HeldBy(r, N), lo \notin N,
           AddedTo(w, r, N, lo, hi, p), Before(s, lo) = IF p = NULL THEN {} ELSE {p}
    PROVE  HeldBy(w, N \cup {lo}) = Added(s, lo, hi)
<1>1. Held(s) = N /\ s.heads = {k \in N : r[k].prev = NULL} /\ \A k \in N : s.at[k] = r[k].hi
  BY DEF HeldBy, Held
<1>2. [k \in N \cup {lo} |-> w[k].hi] = [k \in Held(s) \cup {lo} |-> IF k = lo THEN hi ELSE s.at[k]]
  <2>1. \A k \in N \cup {lo} : w[k].hi = IF k = lo THEN hi ELSE s.at[k]
    BY <1>1 DEF AddedTo
  <2> QED
    BY <1>1, <2>1
<1>3. {k \in N \cup {lo} : w[k].prev = NULL} = s.heads \cup (IF Before(s, lo) = {} THEN {lo} ELSE {})
  BY <1>1 DEF AddedTo
<1> QED
  BY <1>2, <1>3 DEF HeldBy, Added

\* A removed range.
LEMMA HeldRemoved ==
    ASSUME NEW r, NEW w, NEW N, NEW lo \in N, NEW n, NEW s, s = HeldBy(r, N),
           NEW p, p = r[lo].prev, RemovedFrom(w, r, N, lo, p, n), NULL \notin N,
           NextSeen(s, lo) = IF n = NULL THEN {} ELSE {n}
    PROVE  HeldBy(w, N \ {lo}) = Removed(s, lo)
<1>1. Held(s) = N /\ s.heads = {k \in N : r[k].prev = NULL} /\ \A k \in N : s.at[k] = r[k].hi
  BY DEF HeldBy, Held
<1>2. [k \in N \ {lo} |-> w[k].hi] = Restrict(s.at, Held(s) \ {lo})
  <2>1. \A k \in N \ {lo} : w[k].hi = s.at[k]
    BY <1>1 DEF RemovedFrom
  <2> QED
    BY <1>1, <2>1 DEF Restrict
<1>3. {k \in N \ {lo} : w[k].prev = NULL} = (s.heads \ {lo}) \cup (IF lo \in s.heads THEN NextSeen(s, lo) ELSE {})
  BY <1>1 DEF RemovedFrom
<1> QED
  BY <1>2, <1>3 DEF HeldBy, Removed

LEMMA AddStep ==
    ASSUME RangeInv, NEW lo \in Key, NEW hi \in Key, lo <= hi, AddRange(lo, hi)
    PROVE  /\ RangeInv'
           /\ IF Overlaps(Ranges, lo, hi) THEN verdict' = "overlap" /\ Ranges' = Ranges
              ELSE Ranges' = Added(Ranges, lo, hi) /\ verdict' = verdict
<1>1. PICK N : Tree(tree, N) /\ Records(rec, N)
  BY DEF RangeInv
<1>2. N \in SUBSET Key /\ NULL \notin N /\ N \subseteq Nat /\ lo \in Nat /\ hi \in Nat
  BY <1>1, FoundIs, KeyAssumption
<1>3. PICK p, n, s : /\ p = FindNearest(tree, lo) /\ n = (IF p = NULL THEN NULL ELSE rec[p].next)
                     /\ s = HeldBy(rec, N)
  OBVIOUS
<1>4. p \in Node /\ LastUpTo(p, N, lo)
  BY <1>1, <1>3, NearestLast
<1>5. Ranges = s /\ Found = N
  BY <1>1, <1>3, RangesAre
<1>6. /\ Before(s, lo) = IF p = NULL THEN {} ELSE {p}
      /\ NextSeen(s, lo) = IF n = NULL THEN {} ELSE {n}
  BY <1>1, <1>2, <1>3, <1>4, SeenIs
<1>7. p # NULL => p \in N /\ s.at[p] = rec[p].hi
  <2>1. \A k \in N : s.at[k] = rec[k].hi
    BY <1>3 DEF HeldBy
  <2> QED
    BY <1>4, <2>1 DEF LastUpTo
<1>8. Overlaps(s, lo, hi) <=> \/ p # NULL /\ lo <= rec[p].hi
                              \/ n # NULL /\ hi >= n
  <2>1. (\E k \in Before(s, lo) : lo <= s.at[k]) <=> (p # NULL /\ lo <= rec[p].hi)
    BY <1>6, <1>7
  <2>2. (\E k \in NextSeen(s, lo) : hi >= k) <=> (n # NULL /\ hi >= n)
    BY <1>6
  <2> QED
    BY <2>1, <2>2 DEF Overlaps
<1>9. IF Overlaps(s, lo, hi)
      THEN verdict' = "overlap" /\ UNCHANGED <<tree, rec, list>>
      ELSE /\ rec' = Relinked(rec, p, lo, n, lo, lo, [hi |-> hi, prev |-> p, next |-> n])
           /\ tree' = TreeInsert(tree, lo)
           /\ verdict' = verdict
  BY <1>3, <1>8, Zenon DEF AddRange, Relinked
<1>10. CASE Overlaps(s, lo, hi)
  <2>1. tree' = tree /\ rec' = rec /\ verdict' = "overlap"
    BY <1>9, <1>10
  <2>2. RangeInv'
    BY <1>1, <2>1 DEF RangeInv
  <2>3. Ranges' = Ranges
    BY <2>1 DEF Ranges, Found
  <2> QED
    BY <1>5, <1>10, <2>1, <2>2, <2>3
<1>11. CASE ~Overlaps(s, lo, hi)
  <2>1. /\ rec' = Relinked(rec, p, lo, n, lo, lo, [hi |-> hi, prev |-> p, next |-> n])
        /\ tree' = TreeInsert(tree, lo) /\ verdict' = verdict
    BY <1>9, <1>11
  <2>2. (p # NULL => rec[p].hi < lo) /\ (n # NULL => hi < n)
    <3>1. p # NULL => rec[p].hi \in Nat
      BY <1>1, <1>7, KeyAssumption DEF Records
    <3>2. n # NULL => n \in Nat
      <4> HAVE n # NULL
      <4>1. n \in N
        BY <1>1, <1>3, <1>7 DEF Records
      <4> QED
        BY <1>2, <4>1
    <3> QED
      BY <1>2, <1>8, <1>11, <3>1, <3>2
  <2>3. PICK w : w = rec'
    OBVIOUS
  <2>4. lo \notin N /\ Records(w, N \cup {lo}) /\ AddedTo(w, rec, N, lo, hi, p)
    BY <1>1, <1>2, <1>3, <1>4, <2>1, <2>2, <2>3, RecordsAdded
  <2>5. Tree(tree', N \cup {lo})
    BY <1>1, <2>1, <2>4, TreeInsertIs
  <2>6. RangeInv'
    BY <2>3, <2>4, <2>5 DEF RangeInv
  <2>7. Found' = N \cup {lo}
    BY <2>5, FoundIs DEF Found
  <2>8. Ranges' = HeldBy(w, N \cup {lo})
    BY <2>3, <2>7 DEF Ranges, HeldBy
  <2>9. HeldBy(w, N \cup {lo}) = Added(s, lo, hi)
    BY <1>3, <1>6, <2>4, HeldAdded
  <2> QED
    BY <1>5, <1>11, <2>1, <2>6, <2>8, <2>9
<1> QED
  BY <1>10, <1>11

LEMMA RemoveStep ==
    ASSUME RangeInv, NEW lo \in Key, RemoveRange(lo)
    PROVE  RangeInv' /\ lo \in Held(Ranges) /\ Ranges' = Removed(Ranges, lo)
<1>1. PICK N : Tree(tree, N) /\ Records(rec, N)
  BY DEF RangeInv
<1>2. N \in SUBSET Key /\ NULL \notin N /\ N \subseteq Nat /\ lo \in Nat
  BY <1>1, FoundIs, KeyAssumption
<1>3. Ranges = HeldBy(rec, N) /\ Found = N
  BY <1>1, RangesAre
<1>4. lo \in N
  BY <1>3 DEF RemoveRange, Found
<1>5. PICK p, n, s : p = rec[lo].prev /\ n = rec[lo].next /\ s = HeldBy(rec, N)
  OBVIOUS
<1>6. rec' = Relinked(rec, p, n, n, p, lo, NoRecord) /\ tree' = TreeRemove(tree, lo)
  BY <1>5, Zenon DEF RemoveRange, Relinked
<1>7. PICK w : w = rec'
  OBVIOUS
<1>8. Records(w, N \ {lo}) /\ RemovedFrom(w, rec, N, lo, p, n)
  BY <1>1, <1>2, <1>4, <1>5, <1>6, <1>7, RecordsRemoved
<1>9. Tree(tree', N \ {lo})
  BY <1>1, <1>4, <1>6, TreeRemoveIs
<1>10. RangeInv'
  BY <1>7, <1>8, <1>9 DEF RangeInv
<1>11. Found' = N \ {lo}
  BY <1>9, FoundIs DEF Found
<1>12. Ranges' = HeldBy(w, N \ {lo})
  BY <1>7, <1>11 DEF Ranges, HeldBy
<1>13. NextSeen(s, lo) = IF n = NULL THEN {} ELSE {n}
  <2>1. lo # NULL /\ lo \in Node
    BY <1>2, <1>4 DEF Node
  <2>2. LastUpTo(lo, N, lo)
    BY <1>2, <1>4, <2>1 DEF LastUpTo
  <2>3. n = IF lo = NULL THEN NULL ELSE rec[lo].next
    BY <1>5, <2>1
  <2> QED
    BY <1>1, <1>2, <1>5, <2>1, <2>2, <2>3, SeenIs
<1>14. HeldBy(w, N \ {lo}) = Removed(s, lo)
  BY <1>2, <1>4, <1>5, <1>8, <1>13, HeldRemoved
<1>15. Held(s) = N
  BY <1>5 DEF HeldBy, Held
<1> QED
  BY <1>3, <1>4, <1>5, <1>10, <1>12, <1>14, <1>15

LEMMA NewSetIs ==
    /\ tree = NewTree /\ rec = [k \in Key |-> NoRecord] => RangeInv /\ Ranges = NoIntervals
    /\ (tree = NewTree /\ rec = [k \in Key |-> NoRecord] => RangeInv /\ Ranges = NoIntervals)'
<1>1. Records([k \in Key |-> NoRecord], {})
  <2>1. NoRecord \in [hi : Node, prev : Node, next : Node]
    BY DEF NoRecord, Node
  <2> QED
    BY <2>1 DEF Records, RecType
<1>2. {k \in Key : Search(NewTree, k) = k} = {}
  BY NewTreeIs, FoundIs
<1>3. ASSUME NEW r PROVE [at |-> [k \in {} |-> r[k].hi], heads |-> {k \in {} : r[k].prev = NULL}] = NoIntervals
  BY DEF NoIntervals
<1>4. tree = NewTree /\ rec = [k \in Key |-> NoRecord] => RangeInv /\ Ranges = NoIntervals
  <2> HAVE tree = NewTree /\ rec = [k \in Key |-> NoRecord]
  <2>1. Found = {}
    BY <1>2 DEF Found
  <2>2. Ranges = NoIntervals
    BY <1>3, <2>1 DEF Ranges
  <2> QED
    BY <1>1, <2>2, NewTreeIs DEF RangeInv
<1>5. (tree = NewTree /\ rec = [k \in Key |-> NoRecord] => RangeInv /\ Ranges = NoIntervals)'
  <2> SUFFICES ASSUME tree' = NewTree, rec' = [k \in Key |-> NoRecord]
               PROVE  RangeInv' /\ Ranges' = NoIntervals
    BY DEF NewTree, NoIntervals, NoRecord
  <2>1. Found' = {}
    BY <1>2 DEF Found
  <2>2. Ranges' = NoIntervals
    BY <1>3, <2>1 DEF Ranges
  <2> QED
    BY <1>1, <2>2, NewTreeIs DEF RangeInv
<1> QED
  BY <1>4, <1>5

\* The new set is what a step of the abstract one makes of the old one.
LEMMA StepMaps ==
    ASSUME RangeInv, [Next]_vars
    PROVE  /\ RangeInv'
           /\ [Abstract!ISNext]_<<Ranges, verdict>>
           /\ SetOK(Ranges) => SetOK(Ranges)'
<1>1. Key \subseteq Nat
  BY KeyAssumption
<1>2. ASSUME NEW lo \in Key, NEW hi \in Key, lo <= hi, AddRange(lo, hi)
      PROVE  /\ RangeInv' /\ Abstract!ISNext
             /\ SetOK(Ranges) => SetOK(Ranges)'
  <2>1. /\ RangeInv'
        /\ IF Overlaps(Ranges, lo, hi) THEN verdict' = "overlap" /\ Ranges' = Ranges
           ELSE Ranges' = Added(Ranges, lo, hi) /\ verdict' = verdict
    BY <1>2, AddStep
  <2>2. verdict = "ok"
    BY <1>2 DEF AddRange
  <2>3. /\ Abstract!Overlaps(Ranges, lo, hi) <=> Overlaps(Ranges, lo, hi)
        /\ Abstract!Added(Ranges, lo, hi) = Added(Ranges, lo, hi)
    BY SameSet
  <2>4. Abstract!AddInterval(lo, hi)
    <3>1. CASE Overlaps(Ranges, lo, hi)
      BY <2>1, <2>2, <2>3, <3>1 DEF Abstract!AddInterval, Ranges
    <3>2. CASE ~Overlaps(Ranges, lo, hi)
      BY <2>1, <2>2, <2>3, <3>2 DEF Abstract!AddInterval, Ranges
    <3> QED
      BY <3>1, <3>2
  <2>5. Abstract!ISNext
    BY <1>2, <2>4 DEF Abstract!ISNext
  <2>6. ASSUME SetOK(Ranges) PROVE SetOK(Ranges)'
    <3>1. CASE Overlaps(Ranges, lo, hi)
      <4>1. Ranges' = Ranges
        BY <2>1, <3>1
      <4> QED
        BY <2>6, <4>1
    <3>2. CASE ~Overlaps(Ranges, lo, hi)
      <4>1. Ranges' = Added(Ranges, lo, hi) /\ lo \in Nat /\ hi \in Nat
        BY <1>1, <2>1, <3>2
      <4>2. SetOK(Added(Ranges, lo, hi))
        BY <1>2, <2>6, <3>2, <4>1, AddedOK
      <4> QED
        BY <4>1, <4>2
    <3> QED
      BY <3>1, <3>2
  <2> QED
    BY <2>1, <2>5, <2>6
<1>3. ASSUME NEW lo \in Key, RemoveRange(lo)
      PROVE  /\ RangeInv' /\ Abstract!ISNext
             /\ SetOK(Ranges) => SetOK(Ranges)'
  <2>1. RangeInv' /\ lo \in Held(Ranges) /\ Ranges' = Removed(Ranges, lo)
    BY <1>3, RemoveStep
  <2>2. verdict = "ok" /\ verdict' = verdict
    BY <1>3 DEF RemoveRange
  <2>3. Abstract!Removed(Ranges, lo) = Removed(Ranges, lo) /\ Abstract!Held(Ranges) = Held(Ranges)
    BY SameSet
  <2>4. Abstract!RemoveInterval(lo)
    BY <2>1, <2>2, <2>3 DEF Abstract!RemoveInterval, Ranges
  <2>5. Abstract!ISNext
    BY <1>3, <2>4 DEF Abstract!ISNext
  <2>6. ASSUME SetOK(Ranges) PROVE SetOK(Ranges)'
    <3>1. SetOK(Removed(Ranges, lo))
      BY <2>1, <2>6, RemovedOK
    <3> QED
      BY <2>1, <3>1
  <2> QED
    BY <2>1, <2>5, <2>6
<1>4. ASSUME NewRangeSet
      PROVE  /\ RangeInv' /\ Abstract!ISNext
             /\ SetOK(Ranges) => SetOK(Ranges)'
  <2>1. RangeInv' /\ Ranges' = NoIntervals /\ verdict' = "ok"
    BY <1>4, NewSetIs DEF NewRangeSet
  <2>2. Abstract!NoIntervals = NoIntervals
    BY SameSet
  <2>3. Abstract!ISNext
    BY <2>1, <2>2 DEF Abstract!ISNext, Abstract!NewSet, Ranges
  <2>4. SetOK(NoIntervals)
    BY DEF SetOK, NoIntervals, SeenApart, Held
  <2> QED
    BY <2>1, <2>3, <2>4
<1>5. ASSUME UNCHANGED vars
      PROVE  /\ RangeInv' /\ Ranges' = Ranges /\ verdict' = verdict
             /\ SetOK(Ranges) => SetOK(Ranges)'
  <2>1. tree' = tree /\ rec' = rec /\ verdict' = verdict
    BY <1>5 DEF vars
  <2>2. RangeInv'
    BY <2>1 DEF RangeInv
  <2>3. Ranges' = Ranges
    BY <2>1 DEF Ranges, Found
  <2>4. SetOK(Ranges) => SetOK(Ranges)'
    BY <2>3
  <2> QED
    BY <2>1, <2>2, <2>3, <2>4
<1> QED
  BY <1>2, <1>3, <1>4, <1>5 DEF Next

-----------------------------------------------------------------------------
\* Through any insertions, removals and overlaps, the splay tree stays a search
\* tree with its links both ways, of just the records there are, and the
\* records stay linked in the order of their addresses.
THEOREM TreeHoldsRecords == Spec => []RangeInv
<1>1. Init => RangeInv
  BY NewSetIs DEF Init
<1>2. RangeInv /\ [Next]_vars => RangeInv'
  BY StepMaps
<1> QED
  BY <1>1, <1>2, PTL DEF Spec

\* Tree and lists together are the set of intervals: add_range refuses exactly
\* what overlaps a range that is seen, whatever the tree has been turned into.
THEOREM TreeImplementsIntervals == Spec => ImplementsIntervals
<1>1. Init => Abstract!ISInit
  <2> HAVE Init
  <2>1. Ranges = NoIntervals /\ verdict = "ok"
    BY NewSetIs DEF Init
  <2>2. Abstract!NoIntervals = NoIntervals
    BY SameSet
  <2> QED
    BY <2>1, <2>2 DEF Abstract!ISInit, Ranges
<1>2. RangeInv /\ [Next]_vars => [Abstract!ISNext]_<<Ranges, verdict>>
  BY StepMaps
<1> QED
  BY <1>1, <1>2, TreeHoldsRecords, PTL DEF Spec, ImplementsIntervals, Abstract!ISSpec, Ranges

\* What eval_mm_valid may conclude from a set of ranges that has refused
\* nothing: a payload can only overlap the next one if that is a head, that is,
\* was added below all others or came next after a head that was removed.
THEOREM RangesLieApart == Spec => []SeenApart(Ranges)
<1>1. Init => SetOK(Ranges)
  <2> HAVE Init
  <2>1. Ranges = NoIntervals
    BY NewSetIs DEF Init
  <2>2. SetOK(NoIntervals)
    BY DEF SetOK, NoIntervals, SeenApart, Held
  <2> QED
    BY <2>1, <2>2
<1>2. RangeInv /\ SetOK(Ranges) /\ [Next]_vars => SetOK(Ranges)'
  BY StepMaps
<1>3. SetOK(Ranges) => SeenApart(Ranges)
  BY DEF SetOK
<1> QED
  BY <1>1, <1>2, <1>3, TreeHoldsRecords, PTL DEF Spec
=============================================================================
