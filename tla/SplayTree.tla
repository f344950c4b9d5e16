------------------------------ MODULE SplayTree ------------------------------
(***************************************************************************)
(* The splay tree of the malloc driver (src/Lab5/stree.c).  A tree is a    *)
(* record of its root and of the links between its nodes; a node is named  *)
(* by its key, which nothing ever changes.  The records that hang on the   *)
(* nodes are those of module RangeSet, under the same keys.                *)
(***************************************************************************)
EXTENDS Integers, FiniteSets

CONSTANTS
    Key,    \* the keys: addresses
    NULL    \* no node

ASSUME KeyAssumption == Key \subseteq Nat /\ IsFiniteSet(Key) /\ NULL \notin Key

Node == Key \cup {NULL}

Side == {"left", "right"}
Other(s) == IF s = "left" THEN "right" ELSE "left"

\* tree_new.
NewTree == [root |-> NULL, child |-> [s \in Side |-> [k \in Key |-> NULL]], parent |-> [k \in Key |-> NULL]]

-----------------------------------------------------------------------------
(* Walks down from the root.                                               *)

Toward(t, z, key) == t.child[IF key > z THEN "right" ELSE "left"][z]

\* The node with that key, or NULL.
Search(t, key) ==
    LET found[z \in Node] == IF z \in {NULL, key} THEN z ELSE found[Toward(t, z, key)]
    IN  found[t.root]

\* tree_find_nearest: the node with the greatest key up to that one; n is the
\* best node met so far.
FindNearest(t, key) ==
    LET nearest[w \in Node \X Node] ==
          LET z == w[1]
              n == w[2]
          IN  IF z = NULL THEN n
              ELSE IF z = key THEN z
              ELSE nearest[<<Toward(t, z, key), IF key > z /\ (n = NULL \/ n < z) THEN z ELSE n>>]
    IN  nearest[<<t.root, NULL>>]

\* subtree_minimum.
SubtreeMinimum(t, u) ==
    LET least[z \in Key] == IF t.child["left"][z] = NULL THEN z ELSE least[t.child["left"][z]]
    IN  least[u]

\* The node that a new node with that key is hung on.
LeafFor(t, key) ==
    LET leaf[z \in Key] == IF Toward(t, z, key) = NULL THEN z ELSE leaf[Toward(t, z, key)]
    IN  leaf[t.root]

-----------------------------------------------------------------------------
(* Changes.                                                                *)

\* c becomes the child of p on side s.
Attach(t, s, p, c) ==
    [t EXCEPT !.child[s][p] = c, !.parent = IF c = NULL THEN @ ELSE [@ EXCEPT ![c] = p]]

\* The side of its parent that x is on.
SideOf(t, x) == IF t.child["left"][t.parent[x]] = x THEN "left" ELSE "right"

\* replace: v takes the place of u.
Replace(t, u, v) ==
    LET p == t.parent[u] IN
    IF p # NULL THEN Attach(t, SideOf(t, u), p, v)
    ELSE [t EXCEPT !.root = v, !.parent = IF v = NULL THEN @ ELSE [@ EXCEPT ![v] = NULL]]

\* left_rotate and right_rotate: x goes down on side s, its other child up.
Rotate(t, x, s) ==
    LET y == t.child[Other(s)][x]
    IN  Attach(Replace(Attach(t, Other(s), x, t.child[s][y]), x, y), s, y, x)

\* One turn of the loop of splay.
Turn(t, x) ==
    LET p == t.parent[x]
        g == t.parent[p]
        s == SideOf(t, x)
    IN  IF p = NULL THEN t
        ELSE IF g = NULL THEN Rotate(t, p, Other(s))
        ELSE IF SideOf(t, p) = s THEN Rotate(Rotate(t, g, Other(s)), p, Other(s))
        ELSE Rotate(Rotate(t, p, Other(s)), g, s)

\* splay: x is turned up to the root.  No way up is longer than there are keys.
Splay(t, x) ==
    LET turned[n \in 0 .. Cardinality(Key)] == IF n = 0 THEN t ELSE Turn(turned[n - 1], x)
    IN  turned[Cardinality(Key)]

\* tree_insert, which does nothing when the key is there.
TreeInsert(t, key) ==
    LET p == LeafFor(t, key) IN
    IF t.root = NULL THEN [t EXCEPT !.root = key]
    ELSE IF Search(t, key) = key THEN t
    ELSE Splay(Attach(t, IF p < key THEN "right" ELSE "left", p, key), key)

\* The fields of a node that is freed.
Freed(t, z) == [t EXCEPT !.child["left"][z] = NULL, !.child["right"][z] = NULL, !.parent[z] = NULL]

\* tree_remove, where the successor does not take over the left subtree.
FaultyTreeRemove(t, key) ==
    LET z == key
        u == Splay(t, z)
        l == u.child["left"][z]
        r == u.child["right"][z]
        y == SubtreeMinimum(u, r)
        v == IF y = r THEN u ELSE Attach(Replace(u, y, u.child["right"][y]), "right", y, r)
    IN  IF Search(t, key) = NULL THEN t
        ELSE Freed(CASE l = NULL -> Replace(u, z, r)
                     [] r = NULL -> Replace(u, z, l)
                     [] OTHER    -> Replace(v, z, y), z)

\* tree_remove: the node is turned up to the root, then replaced by its only
\* child or by its successor.
TreeRemove(t, key) ==
    LET z == key
        u == Splay(t, z)
        l == u.child["left"][z]
        r == u.child["right"][z]
        y == SubtreeMinimum(u, r)
        v == IF y = r THEN u ELSE Attach(Replace(u, y, u.child["right"][y]), "right", y, r)
    IN  IF Search(t, key) = NULL THEN t
        ELSE Freed(CASE l = NULL -> Replace(u, z, r)
                     [] r = NULL -> Replace(u, z, l)
                     [] OTHER    -> Attach(Replace(v, z, y), "left", y, l), z)
=============================================================================
