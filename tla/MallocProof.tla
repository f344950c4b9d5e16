----------------------------- MODULE MallocProof -----------------------------
(***************************************************************************)
(* Proofs about the allocator under its driver, for any chunk size, any    *)
(* limit of the heap, any ids and any sizes asked for.                     *)
(*                                                                         *)
(* Good(h, B) is the heap between two calls: the blocks B tile it up to    *)
(* the epilogue with headers and footers that tell the truth, no two free  *)
(* blocks are neighbours, the lists hold each free block once, no footer   *)
(* looks like an epilogue, and heap_end is the last block or, when it is   *)
(* stale, lies strictly inside it.  Each routine of mm.c has a lemma that  *)
(* takes a good heap to a good one and says which blocks of the user's it  *)
(* spares: pop, push, write_block, coalesce_block, mm_free, split_block,   *)
(* find_fit, extend_heap, mm_init, malloc, realloc.  extend_heap is the    *)
(* one that may go wrong, and its lemma says from where.                   *)
(*                                                                         *)
(* The invariant DriverInv adds that the allocated blocks are those of the *)
(* driver's ids, with the user's data (Owns), and that the driver's ranges *)
(* are their payloads (Ranged).                                            *)
(*                                                                         *)
(* The tiling B is existential in the invariant.  That it is what a walk   *)
(* over the heap meets is shown of the recursive function Met at the end:  *)
(* any two functions that satisfy its equation agree (HeadersAre).         *)
(***************************************************************************)
EXTENDS MallocDriver, FiniteSetTheorems, SequenceTheorems, WellFoundedInduction, TLAPS

-----------------------------------------------------------------------------
(* The memory.                                                             *)

Word == [kind : {"tag", "link", "user"}, size : Nat,
         prev_min : BOOLEAN, prev_alloc : BOOLEAN, alloc : BOOLEAN]
Memory == [Address -> Word]

Succ(m, b) == b + m[b].size

\* A block b of the tiling B, which ends at e: its tag, its footer, and what the
\* header after it says of it.  (A free minimum block may come before an epilogue
\* with or without that flag.)
BlockOK(m, e, B, b) ==
    LET n == Succ(m, b) IN
    /\ b % 2 = 1 /\ m[b].kind = "tag" /\ m[b].size >= 2 /\ m[b].size % 2 = 0
    /\ n \in B \cup {e}
    /\ \A c \in B : c <= b \/ c >= n
    /\ ~m[b].alloc /\ m[b].size > 2 => m[n - 1].kind = "tag" /\ m[n - 1].size = m[b].size
    /\ m[n].prev_alloc <=> m[b].alloc
    /\ (n # e \/ m[b].alloc \/ m[b].size > 2) => (m[n].prev_min <=> m[b].size = 2)

\* B are the blocks, from heap_start to the epilogue at e.
Tiled(m, e, B) ==
    /\ e \in Address /\ e % 2 = 1
    /\ 1 \in B /\ B \subseteq 1 .. e - 1
    /\ \A b \in B : BlockOK(m, e, B, b)
    /\ \A c \in B \cup {e} : c # 1 => \E b \in B : Succ(m, b) = c
    /\ m[e].kind = "tag" /\ m[e].size = 0 /\ m[e].alloc
    /\ m[1].prev_alloc

\* What a tiling says of addresses.
Plain(m, e, B) ==
    /\ Address = 0 .. MaxHeap - 1 /\ MaxHeap \in Nat
    /\ e \in Nat /\ e \in Address /\ e % 2 = 1 /\ e > 1
    /\ B \subseteq Address /\ B \subseteq 1 .. e - 1 /\ 1 \in B
    /\ m[e] \in Word
    /\ \A b \in B : /\ b \in Nat /\ b % 2 = 1 /\ m[b] \in Word
                    /\ m[b].size \in Nat /\ m[b].size >= 2 /\ m[b].size % 2 = 0
                    /\ Succ(m, b) \in Nat /\ Succ(m, b) \in B \cup {e}
                    /\ b + 2 <= Succ(m, b) /\ Succ(m, b) <= e /\ Succ(m, b) % 2 = 1

\* In a tiled heap every header is an odd address below the epilogue, every size
\* even and at least the minimum, and the next header a header again.
LEMMA TiledTypes ==
    ASSUME NEW m \in Memory, NEW e, NEW B, Tiled(m, e, B)
    PROVE  Plain(m, e, B)
<1>1. Address = 0 .. MaxHeap - 1 /\ MaxHeap \in Nat
  BY MallocAssumption DEF Address
<1>2. e \in Nat /\ e \in Address /\ e % 2 = 1 /\ B \subseteq 1 .. e - 1 /\ 1 \in B
  BY <1>1 DEF Tiled
<1>3. B \subseteq Address /\ e > 1
  BY <1>1, <1>2
<1>4. m[e] \in Word
  BY <1>2 DEF Memory
<1>5. ASSUME NEW b \in B
      PROVE  /\ b \in Nat /\ b % 2 = 1 /\ m[b] \in Word
             /\ m[b].size \in Nat /\ m[b].size >= 2 /\ m[b].size % 2 = 0
             /\ Succ(m, b) \in Nat /\ Succ(m, b) \in B \cup {e}
             /\ b + 2 <= Succ(m, b) /\ Succ(m, b) <= e /\ Succ(m, b) % 2 = 1
  <2>1. m[b] \in Word /\ b \in Nat
    BY <1>1, <1>3 DEF Memory
  <2>2. m[b].size \in Nat
    BY <2>1 DEF Word
  <2>3. BlockOK(m, e, B, b)
    BY DEF Tiled
  <2>4. /\ m[b].size >= 2 /\ m[b].size % 2 = 0 /\ b % 2 = 1
        /\ Succ(m, b) = b + m[b].size /\ Succ(m, b) \in B \cup {e}
    BY <2>3 DEF BlockOK, Succ
  <2> QED
    BY <2>1, <2>2, <2>4, <1>2
<1> QED
  BY <1>1, <1>2, <1>3, <1>4, <1>5 DEF Plain

\* Part of the memory, from the block x up to y, is tiled anew with the blocks N.
Retiling(m, m2, e, B, x, y, N, B2) ==
    /\ m \in Memory /\ m2 \in Memory /\ Tiled(m, e, B)
    /\ x \in B /\ y \in B \cup {e} /\ x < y /\ N \subseteq x .. y - 1 /\ x \in N
    /\ \A w \in Address : w < x \/ w > y => m2[w] = m[w]
    /\ m2[y].kind = m[y].kind /\ m2[y].size = m[y].size /\ m2[y].alloc = m[y].alloc
    /\ m2[x].prev_min = m[x].prev_min /\ m2[x].prev_alloc = m[x].prev_alloc
    /\ B2 = {c \in B : c < x \/ c >= y} \cup N
    /\ \A b \in N : BlockOK(m2, e, B2, b)
    /\ \A c \in N \cup {y} : c # x => \E b \in N : Succ(m2, b) = c

\* Replacing the blocks from x to y by the blocks N tiles the heap again, when N
\* tiles that stretch and the rest is untouched.
LEMMA Retiled ==
    ASSUME NEW m, NEW m2, NEW e, NEW B, NEW x, NEW y, NEW N, NEW B2,
           Retiling(m, m2, e, B, x, y, N, B2)
    PROVE  Tiled(m2, e, B2)
<1>A. /\ m \in Memory /\ m2 \in Memory /\ Tiled(m, e, B)
      /\ x \in B /\ y \in B \cup {e} /\ x < y /\ N \subseteq x .. y - 1 /\ x \in N
      /\ \A w \in Address : w < x \/ w > y => m2[w] = m[w]
      /\ m2[y].kind = m[y].kind /\ m2[y].size = m[y].size /\ m2[y].alloc = m[y].alloc
      /\ m2[x].prev_min = m[x].prev_min /\ m2[x].prev_alloc = m[x].prev_alloc
      /\ B2 = {c \in B : c < x \/ c >= y} \cup N
      /\ \A b \in N : BlockOK(m2, e, B2, b)
      /\ \A c \in N \cup {y} : c # x => \E b \in N : Succ(m2, b) = c
  BY DEF Retiling
<1> USE <1>A
<1>0. Address = 0 .. MaxHeap - 1 /\ MaxHeap \in Nat
  BY MallocAssumption DEF Address
<1>1. e \in Nat /\ e \in Address /\ e % 2 = 1 /\ B \subseteq 1 .. e - 1 /\ x \in Nat /\ y \in Nat
      /\ x \in Address /\ y \in Address /\ y <= e
  BY <1>0 DEF Tiled
<1>2. B \subseteq Address /\ B2 \subseteq Address /\ B2 \subseteq 1 .. e - 1
  <2>1. N \subseteq 1 .. e - 1
    BY <1>1
  <2>2. 1 .. e - 1 \subseteq Address
    BY <1>0, <1>1
  <2> QED
    BY <2>1, <2>2, <1>1
<1>3. \A b \in B : m[b].size \in Nat /\ Succ(m, b) \in Nat /\ Succ(m, b) <= e /\ b < Succ(m, b)
  <2> TAKE b \in B
  <2>1. m[b] \in Word /\ b \in Nat
    BY <1>0, <1>2 DEF Memory
  <2>2. m[b].size \in Nat
    BY <2>1 DEF Word
  <2>3. BlockOK(m, e, B, b)
    BY DEF Tiled
  <2> QED
    BY <2>1, <2>2, <2>3, <1>1 DEF BlockOK, Succ
<1>4. \A b \in B : b < x => Succ(m, b) <= x
  BY <1>1, <1>2, <1>0, <1>3 DEF Tiled, BlockOK
<1>5. ASSUME NEW b \in B, b < x PROVE BlockOK(m2, e, B2, b) /\ Succ(m2, b) = Succ(m, b)
  <2>0. b \in Address /\ b \in Nat
    BY <1>0, <1>2
  <2>a. BlockOK(m, e, B, b)
    BY DEF Tiled
  <2>b. m2[b] = m[b]
    BY <1>5, <2>0
  <2>1. BlockOK(m, e, B, b) /\ m2[b] = m[b] /\ b \in Nat
    BY <2>0, <2>a, <2>b
  <2>2. Succ(m2, b) = Succ(m, b)
    BY <2>1 DEF Succ
  <2> DEFINE n == Succ(m, b)
  <2>3. n \in Nat /\ n <= x /\ b < n /\ n # e
    BY <1>3, <1>4, <1>5, <1>1, <1>0
  <2>4. n \in B /\ n \in Address /\ n - 1 \in Address
    BY <2>1, <2>3, <1>2, <1>0 DEF BlockOK
  <2>5. m2[n - 1] = m[n - 1]
    BY <2>3, <2>4
  <2>6. m2[n].prev_alloc = m[n].prev_alloc /\ m2[n].prev_min = m[n].prev_min
    <3>1. CASE n < x
      BY <3>1, <2>4
    <3>2. CASE n = x
      BY <3>2
    <3> QED
      BY <3>1, <3>2, <2>3, <1>1
  <2>7. n \in B2
    BY <2>3, <2>4, <1>1
  <2>8. \A c \in B2 : c <= b \/ c >= n
    <3> TAKE c \in B2
    <3>1. CASE c \in B
      BY <3>1, <2>1 DEF BlockOK
    <3>2. CASE c \in N
      BY <3>2, <2>3, <1>1
    <3> QED
      BY <3>1, <3>2
  <2> HIDE DEF n
  <2> QED
    BY <2>1, <2>2, <2>5, <2>6, <2>7, <2>8 DEF BlockOK, n
<1>6. ASSUME NEW b \in B, b >= y PROVE BlockOK(m2, e, B2, b) /\ Succ(m2, b) = Succ(m, b)
  <2>1. BlockOK(m, e, B, b) /\ b \in Nat
    BY <1>2, <1>0 DEF Tiled
  <2>2. m2[b].kind = m[b].kind /\ m2[b].size = m[b].size /\ m2[b].alloc = m[b].alloc
    <3>1. CASE b = y
      BY <3>1
    <3>2. CASE b > y
      BY <3>2, <1>2
    <3> QED
      BY <3>1, <3>2, <1>6, <1>1, <2>1
  <2>3. Succ(m2, b) = Succ(m, b)
    BY <2>2 DEF Succ
  <2> DEFINE n == Succ(m, b)
  <2>4. n \in Nat /\ n > y /\ n - 1 >= b /\ n <= e
    BY <1>3, <1>6, <1>1, <2>1
  <2>5. n \in B \cup {e} /\ n \in Address
    BY <2>1, <1>2, <1>1 DEF BlockOK
  <2>6. m2[n] = m[n]
    BY <2>4, <2>5
  <2>7. m[b].size > 2 => m2[n - 1] = m[n - 1]
    <3> HAVE m[b].size > 2
    <3>1. n - 1 > b
      BY <1>3, <2>1, <2>4 DEF Succ
    <3>2. n - 1 \in Address /\ n - 1 > y
      BY <3>1, <2>4, <2>5, <1>6, <1>1, <1>0, <2>1
    <3> QED
      BY <3>2
  <2>8. n \in B2 \cup {e}
    BY <2>4, <2>5, <1>1
  <2>9. \A c \in B2 : c <= b \/ c >= n
    <3> TAKE c \in B2
    <3>1. CASE c \in B
      BY <3>1, <2>1 DEF BlockOK
    <3>2. CASE c \in N
      BY <3>2, <1>6, <1>1, <2>1
    <3> QED
      BY <3>1, <3>2
  <2> HIDE DEF n
  <2> QED
    BY <2>1, <2>2, <2>3, <2>6, <2>7, <2>8, <2>9 DEF BlockOK, n
<1>7. \A b \in B2 : BlockOK(m2, e, B2, b)
  BY <1>5, <1>6
<1>8. ASSUME NEW c \in B2 \cup {e}, c # 1 PROVE \E b \in B2 : Succ(m2, b) = c
  <2>1. CASE c \in N \cup {y} /\ c # x
    BY <2>1
  <2>2. CASE c \in B \cup {e} /\ (c <= x \/ c > y)
    <3>1. PICK p \in B : Succ(m, p) = c
      BY <2>2, <1>8 DEF Tiled
    <3>2. CASE c <= x
      <4>1. p < x
        BY <3>1, <3>2, <1>3, <1>2, <1>1, <1>0
      <4> QED
        BY <4>1, <3>1, <1>5
    <3>3. CASE c > y
      <4>1. p >= y
        <5>1. y \in B
          BY <3>3, <2>2, <1>1
        <5>2. y <= p \/ y >= c
          BY <5>1, <3>1 DEF Tiled, BlockOK
        <5>3. p \in Nat /\ c \in Nat
          BY <3>1, <1>3, <1>2, <1>0
        <5> QED
          BY <5>2, <3>3, <1>1, <5>3
      <4> QED
        BY <4>1, <3>1, <1>6
    <3> QED
      BY <3>2, <3>3, <2>2
  <2>3. c \in B \cup N \cup {e} /\ (c \in B => c < x \/ c >= y \/ c \in N)
    <3>1. CASE c \in N
      BY <3>1
    <3>2. CASE c \in {k \in B : k < x \/ k >= y}
      BY <3>2
    <3>3. CASE c = e
      <4>1. ~(e \in B)
        BY <1>1
      <4> QED
        BY <3>3, <4>1
    <3> QED
      BY <3>1, <3>2, <3>3, <1>8
  <2> QED
    BY <2>1, <2>2, <2>3, <1>1, <1>2, <1>0
<1>9. 1 \in B2 /\ m2[1].prev_alloc
  <2>1. 1 \in B /\ m[1].prev_alloc /\ 1 <= x
    BY <1>1 DEF Tiled
  <2>2. CASE 1 < x
    BY <2>1, <2>2, <1>2
  <2>3. CASE x = 1
    BY <2>1, <2>3
  <2> QED
    BY <2>1, <2>2, <2>3, <1>1
<1>10. m2[e].kind = "tag" /\ m2[e].size = 0 /\ m2[e].alloc
  <2>1. CASE y = e
    BY <2>1 DEF Tiled
  <2>2. CASE e > y
    BY <2>2, <1>1 DEF Tiled
  <2> QED
    BY <2>1, <2>2, <1>1
<1> QED
  BY <1>1, <1>2, <1>7, <1>8, <1>9, <1>10 DEF Tiled

-----------------------------------------------------------------------------
(* The lists.                                                              *)

\* pop_block's unlinking takes one block out of a list that holds it once.
LEMMA Unlinking ==
    ASSUME NEW s \in Seq(Nat), IsInjective(s), NEW b \in ToSet(s)
    PROVE  /\ Unlinked(s, b) \in Seq(Nat) /\ IsInjective(Unlinked(s, b))
           /\ ToSet(Unlinked(s, b)) = ToSet(s) \ {b}
<1> DEFINE i == CHOOSE i \in DOMAIN s : s[i] = b
           u == Unlinked(s, b)
<1>1. i \in DOMAIN s /\ s[i] = b
  BY DEF ToSet
<1> HIDE DEF i
<1>2. u = SubSeq(s, 1, i - 1) \o SubSeq(s, i + 1, Len(s))
  BY DEF Unlinked, RemoveAt, i
<1> HIDE DEF u
<1>3. i \in 1 .. Len(s) /\ Len(s) \in Nat
  BY <1>1
<1>4. /\ u \in Seq(Nat) /\ Len(u) = Len(s) - 1
      /\ \A k \in 1 .. Len(s) - 1 : u[k] = IF k < i THEN s[k] ELSE s[k + 1]
  <2>1. SubSeq(s, 1, i - 1) \in Seq(Nat) /\ Len(SubSeq(s, 1, i - 1)) = i - 1
    BY <1>3
  <2>2. SubSeq(s, i + 1, Len(s)) \in Seq(Nat) /\ Len(SubSeq(s, i + 1, Len(s))) = Len(s) - i
    BY <1>3
  <2>3. \A k \in 1 .. i - 1 : SubSeq(s, 1, i - 1)[k] = s[k]
    BY <1>3
  <2>4. \A k \in 1 .. Len(s) - i : SubSeq(s, i + 1, Len(s))[k] = s[k + i]
    BY <1>3
  <2> DEFINE p == SubSeq(s, 1, i - 1)
             q == SubSeq(s, i + 1, Len(s))
  <2> HIDE DEF p, q
  <2>5. p \in Seq(Nat) /\ Len(p) = i - 1 /\ q \in Seq(Nat) /\ Len(q) = Len(s) - i /\ u = p \o q
    BY <2>1, <2>2, <1>2 DEF p, q
  <2>6. u \in Seq(Nat) /\ Len(u) = Len(s) - 1
    BY <2>5, <1>3
  <2>7. ASSUME NEW k \in 1 .. Len(s) - 1 PROVE u[k] = IF k < i THEN s[k] ELSE s[k + 1]
    <3>1. CASE k < i
      <4>1. u[k] = p[k]
        BY <2>5, <1>3, <3>1
      <4> QED
        BY <4>1, <2>3, <3>1, <1>3 DEF p
    <3>2. CASE ~(k < i)
      <4>1. u[k] = q[k - (i - 1)]
        <5>1. k \in Int /\ Len(p) + 1 <= k /\ k <= Len(p) + Len(q)
          BY <2>5, <1>3, <3>2
        <5>2. (p \o q)[k] = q[k - Len(p)]
          <6>1. k \in 1 .. Len(p) + Len(q) /\ ~(k <= Len(p))
            BY <5>1, <2>5, <1>3
          <6> QED
            BY <6>1, <2>5, ConcatProperties
        <5> QED
          BY <5>2, <2>5
      <4>2. k - (i - 1) \in 1 .. Len(s) - i /\ (k - (i - 1)) + i = k + 1
        BY <1>3, <3>2
      <4>3. q[k - (i - 1)] = s[(k - (i - 1)) + i]
        BY <4>2, <2>4 DEF q
      <4> QED
        BY <4>1, <4>2, <4>3, <3>2
    <3> QED
      BY <3>1, <3>2
  <2> QED
    BY <2>6, <2>7
<1>5. DOMAIN u = 1 .. Len(s) - 1
  BY <1>4
<1>6. \A k, l \in 1 .. Len(s) : s[k] = s[l] => k = l
  BY DEF IsInjective
<1>7. IsInjective(u)
  <2> SUFFICES ASSUME NEW k \in 1 .. Len(s) - 1, NEW l \in 1 .. Len(s) - 1, u[k] = u[l]
               PROVE  k = l
    BY <1>5, Zenon DEF IsInjective
  <2> DEFINE k2 == IF k < i THEN k ELSE k + 1
             l2 == IF l < i THEN l ELSE l + 1
  <2>0. k2 \in 1 .. Len(s) /\ l2 \in 1 .. Len(s)
    BY <1>3
  <2>1. s[k2] = s[l2]
    <3>1. u[k] = s[k2]
      BY <1>3, <1>4
    <3>2. u[l] = s[l2]
      BY <1>3, <1>4
    <3> QED
      BY <3>1, <3>2
  <2>2. k2 = l2
    <3> HIDE DEF k2, l2
    <3> QED
      BY <2>0, <2>1, <1>6
  <2> QED
    BY <2>2, <1>3
<1>8. ToSet(u) = ToSet(s) \ {b}
  <2>1. ASSUME NEW k \in 1 .. Len(s) - 1 PROVE u[k] \in ToSet(s) /\ u[k] # b
    <3> DEFINE k2 == IF k < i THEN k ELSE k + 1
    <3>1. k2 \in 1 .. Len(s) /\ u[k] = s[k2] /\ k2 # i
      BY SMTT(30), <1>3, <1>4
    <3>2. s[k2] # s[i]
      BY <3>1, <1>3, <1>6
    <3> QED
      BY <3>1, <3>2, <1>1, <1>3 DEF ToSet
  <2>2. ASSUME NEW k \in 1 .. Len(s), s[k] # b PROVE \E l \in 1 .. Len(s) - 1 : u[l] = s[k]
    <3>1. CASE k < i
      <4>1. k \in 1 .. Len(s) - 1 /\ u[k] = s[k]
        BY <3>1, <1>3, <1>4
      <4> QED
        BY <4>1
    <3>2. CASE k > i
      <4>1. k - 1 \in 1 .. Len(s) - 1 /\ ~(k - 1 < i) /\ (k - 1) + 1 = k
        BY <3>2, <1>3
      <4> QED
        BY <4>1, <1>4
    <3> QED
      BY <3>1, <3>2, <1>1, <2>2, <1>3
  <2> QED
    <3>1. \A z \in ToSet(u) : z \in ToSet(s) \ {b}
      BY <2>1, <1>5 DEF ToSet
    <3>2. \A z \in ToSet(s) \ {b} : z \in ToSet(u)
      <4> TAKE z \in ToSet(s) \ {b}
      <4>1. PICK k \in 1 .. Len(s) : z = s[k]
        BY <1>3 DEF ToSet
      <4>2. PICK l \in 1 .. Len(s) - 1 : u[l] = s[k]
        BY <4>1, <2>2
      <4> QED
        BY <4>1, <4>2, <1>5 DEF ToSet
    <3> QED
      BY <3>1, <3>2
<1> QED
  BY <1>4, <1>7, <1>8 DEF u

\* push's <<b>> in front adds one block to a list that does not hold it.
LEMMA Prepending ==
    ASSUME NEW s \in Seq(Nat), IsInjective(s), NEW b \in Nat, b \notin ToSet(s)
    PROVE  /\ <<b>> \o s \in Seq(Nat) /\ IsInjective(<<b>> \o s)
           /\ ToSet(<<b>> \o s) = ToSet(s) \cup {b}
<1> DEFINE u == <<b>> \o s
<1>1. /\ u \in Seq(Nat) /\ Len(u) = Len(s) + 1 /\ u[1] = b
      /\ \A k \in 1 .. Len(s) : u[k + 1] = s[k]
  OBVIOUS
<1> HIDE DEF u
<1>2. DOMAIN u = 1 .. Len(s) + 1 /\ Len(s) \in Nat /\ DOMAIN s = 1 .. Len(s)
  BY <1>1
<1>3. \A k \in 1 .. Len(s) + 1 : k = 1 \/ (k - 1 \in 1 .. Len(s) /\ u[k] = s[k - 1])
  <2> TAKE k \in 1 .. Len(s) + 1
  <2>1. CASE k # 1
    <3>1. k - 1 \in 1 .. Len(s) /\ (k - 1) + 1 = k
      BY <2>1, <1>2
    <3> QED
      BY <3>1, <1>1
  <2> QED
    BY <2>1
<1>4. \A k \in 1 .. Len(s) : s[k] # b
  BY <1>2 DEF ToSet
<1>5. \A k, l \in 1 .. Len(s) : s[k] = s[l] => k = l
  BY <1>2 DEF IsInjective
<1>6. IsInjective(u)
  <2> SUFFICES ASSUME NEW k \in 1 .. Len(s) + 1, NEW l \in 1 .. Len(s) + 1, u[k] = u[l]
               PROVE  k = l
    BY <1>2 DEF IsInjective
  <2> QED
    <3>1. CASE k = 1 /\ l = 1
      BY <3>1
    <3>2. CASE k = 1 /\ l # 1
      BY <3>2, <1>1, <1>3, <1>4
    <3>3. CASE k # 1 /\ l = 1
      BY <3>3, <1>1, <1>3, <1>4
    <3>4. CASE k # 1 /\ l # 1
      <4>1. s[k - 1] = s[l - 1] /\ k - 1 \in 1 .. Len(s) /\ l - 1 \in 1 .. Len(s)
        BY <3>4, <1>3
      <4>2. k - 1 = l - 1
        BY <4>1, <1>5
      <4> QED
        BY <4>2
    <3> QED
      BY <3>1, <3>2, <3>3, <3>4
<1>7. ToSet(u) = ToSet(s) \cup {b}
  <2>1. \A k \in 1 .. Len(s) + 1 : u[k] \in ToSet(s) \cup {b}
    BY <1>1, <1>2, <1>3 DEF ToSet
  <2>2. \A k \in 1 .. Len(s) : s[k] \in ToSet(u)
    <3> TAKE k \in 1 .. Len(s)
    <3>1. k + 1 \in DOMAIN u /\ u[k + 1] = s[k]
      BY <1>1, <1>2
    <3> QED
      BY <3>1 DEF ToSet
  <2>3. b \in ToSet(u)
    BY <1>1, <1>2 DEF ToSet
  <2> QED
    BY <2>1, <2>2, <2>3, <1>2 DEF ToSet
<1> QED
  BY <1>1, <1>6, <1>7 DEF u

\* get_index never leaves seg_list.
LEMMA IndexIsClass == \A size : GetIndex(size) \in Classes
<1> TAKE size
<1> DEFINE K == {k \in 3 .. 9 : size >= 2 ^ k}
<1>1. IsFiniteSet(3 .. 9) /\ Cardinality(3 .. 9) = 7
  <2>1. 3 \in Int /\ 9 \in Int
    OBVIOUS
  <2>2. IsFiniteSet(3 .. 9) /\ Cardinality(3 .. 9) = IF 3 > 9 THEN 0 ELSE 9 - 3 + 1
    BY <2>1, FS_Interval
  <2> QED
    BY <2>2
<1>2. K \subseteq 3 .. 9
  OBVIOUS
<1> HIDE DEF K
<1>3. Cardinality(K) <= 7 /\ IsFiniteSet(K)
  BY <1>1, <1>2, FS_Subset
<1>4. Cardinality(K) \in Nat
  BY <1>3, FS_CardinalityType
<1> QED
  BY <1>3, <1>4 DEF K, GetIndex, Classes

\* The index of pop_min_block never leaves its array.
LEMMA MinIndexIsClass == \A b \in Nat : MinIndex(b) \in MinLists
BY DEF MinIndex, MinLists

HeapRecord == [mem : Memory, brk : Nat, seg : [Classes -> Seq(Nat)], min : [MinLists -> Seq(Nat)],
               end : Nat, fault : {"none", "pop", "footer", "end"}]

SameLists(h, g) == g.seg = h.seg /\ g.min = h.min
SameRest(h, g) == g.brk = h.brk /\ g.end = h.end /\ g.fault = h.fault

\* The lists hold the blocks of S, each once and in its class.
Listed(h, S) ==
    /\ \A c \in Classes : /\ IsInjective(h.seg[c])
                          /\ ToSet(h.seg[c]) = {b \in S : Size(h, b) > 2 /\ GetIndex(Size(h, b)) = c}
    /\ \A c \in MinLists : /\ IsInjective(h.min[c])
                           /\ ToSet(h.min[c]) = {b \in S : Size(h, b) = 2 /\ MinIndex(b) = c}

\* The lists stay exact while neither they nor the sizes of their blocks change.
LEMMA ListedFrame ==
    ASSUME NEW h, NEW g, NEW S, Listed(h, S), SameLists(h, g), \A b \in S : Size(g, b) = Size(h, b)
    PROVE  Listed(g, S)
<1>1. \A c \in Classes : {b \in S : Size(g, b) > 2 /\ GetIndex(Size(g, b)) = c}
                         = {b \in S : Size(h, b) > 2 /\ GetIndex(Size(h, b)) = c}
  OBVIOUS
<1>2. \A c \in MinLists : {b \in S : Size(g, b) = 2 /\ MinIndex(b) = c}
                          = {b \in S : Size(h, b) = 2 /\ MinIndex(b) = c}
  OBVIOUS
<1> QED
  BY <1>1, <1>2 DEF Listed, SameLists

\* pop takes one block out.
Popped(h, g, b, S) ==
    g \in HeapRecord /\ g.mem = h.mem /\ SameRest(h, g) /\ Listed(g, S \ {b})

\* pop takes a free block out of its list, and changes nothing else.
LEMMA PopEffect ==
    ASSUME NEW h \in HeapRecord, NEW S, Listed(h, S), NEW b \in S, b \in Nat,
           Size(h, b) \in Nat, Size(h, b) >= 2
    PROVE  Popped(h, Pop(h, b), b, S)
<1> DEFINE g == Pop(h, b)
           i == GetIndex(Size(h, b))
           j == MinIndex(b)
<1>0. i \in Classes /\ j \in MinLists
  BY IndexIsClass, MinIndexIsClass
<1> HIDE DEF i, j
<1>1. CASE Size(h, b) = 2
  <2>1. b \in ToSet(h.min[j])
    BY <1>1, <1>0 DEF Listed, j
  <2>2. g = [h EXCEPT !.min = [h.min EXCEPT ![j] = Unlinked(h.min[j], b)]]
    BY <1>1, <2>1 DEF Pop, MinBlock, j, HeapRecord
  <2>3. h.min[j] \in Seq(Nat) /\ IsInjective(h.min[j])
    BY <1>0 DEF HeapRecord, Listed
  <2>4. /\ Unlinked(h.min[j], b) \in Seq(Nat) /\ IsInjective(Unlinked(h.min[j], b))
        /\ ToSet(Unlinked(h.min[j], b)) = ToSet(h.min[j]) \ {b}
    BY <2>1, <2>3, Unlinking
  <2> DEFINE u == Unlinked(h.min[j], b)
  <2> HIDE DEF g, u
  <2>5. /\ g \in HeapRecord /\ g.mem = h.mem /\ SameRest(h, g) /\ g.seg = h.seg
        /\ g.min = [h.min EXCEPT ![j] = u]
    BY <2>2, <2>4, <1>0 DEF HeapRecord, SameRest, u
  <2>6. \A x : Size(g, x) = Size(h, x)
    BY <2>5 DEF Size
  <2>7. ASSUME NEW c \in Classes
        PROVE  /\ IsInjective(g.seg[c])
               /\ ToSet(g.seg[c]) = {x \in S \ {b} : Size(g, x) > 2 /\ GetIndex(Size(g, x)) = c}
    <3>1. {x \in S \ {b} : Size(g, x) > 2 /\ GetIndex(Size(g, x)) = c}
          = {x \in S : Size(h, x) > 2 /\ GetIndex(Size(h, x)) = c}
      BY <1>1, <2>6
    <3> QED
      BY <3>1, <2>5 DEF Listed
  <2>8. ASSUME NEW c \in MinLists
        PROVE  /\ IsInjective(g.min[c])
               /\ ToSet(g.min[c]) = {x \in S \ {b} : Size(g, x) = 2 /\ MinIndex(x) = c}
    <3>1. {x \in S \ {b} : Size(g, x) = 2 /\ MinIndex(x) = c}
          = {x \in S : Size(h, x) = 2 /\ MinIndex(x) = c} \ {b}
      BY <2>6
    <3>2. ToSet(h.min[c]) = {x \in S : Size(h, x) = 2 /\ MinIndex(x) = c} /\ IsInjective(h.min[c])
      BY DEF Listed
    <3>3. CASE c = j
      <4>1. g.min[c] = u
        BY <3>3, <2>5, <1>0 DEF HeapRecord
      <4> QED
        BY <4>1, <3>1, <3>2, <3>3, <2>4 DEF u
    <3>4. CASE c # j
      <4>1. g.min[c] = h.min[c]
        BY <3>4, <2>5 DEF HeapRecord
      <4>2. ~(b \in {x \in S : Size(h, x) = 2 /\ MinIndex(x) = c})
        BY <3>4 DEF j
      <4> QED
        BY <4>1, <4>2, <3>1, <3>2
    <3> QED
      BY <3>3, <3>4
  <2> QED
    BY <2>5, <2>7, <2>8 DEF Listed, g, Popped
<1>2. CASE Size(h, b) # 2
  <2>1. b \in ToSet(h.seg[i])
    <3>1. Size(h, b) > 2
      BY <1>2
    <3> QED
      BY <3>1, <1>0 DEF Listed, i
  <2>2. g = [h EXCEPT !.seg = [h.seg EXCEPT ![i] = Unlinked(h.seg[i], b)]]
    BY <1>2, <2>1 DEF Pop, MinBlock, i, HeapRecord
  <2>3. h.seg[i] \in Seq(Nat) /\ IsInjective(h.seg[i])
    BY <1>0 DEF HeapRecord, Listed
  <2>4. /\ Unlinked(h.seg[i], b) \in Seq(Nat) /\ IsInjective(Unlinked(h.seg[i], b))
        /\ ToSet(Unlinked(h.seg[i], b)) = ToSet(h.seg[i]) \ {b}
    BY <2>1, <2>3, Unlinking
  <2> DEFINE u == Unlinked(h.seg[i], b)
  <2> HIDE DEF g, u
  <2>5. /\ g \in HeapRecord /\ g.mem = h.mem /\ SameRest(h, g) /\ g.min = h.min
        /\ g.seg = [h.seg EXCEPT ![i] = u]
    BY <2>2, <2>4, <1>0 DEF HeapRecord, SameRest, u
  <2>6. \A x : Size(g, x) = Size(h, x)
    BY <2>5 DEF Size
  <2>7. ASSUME NEW c \in MinLists
        PROVE  /\ IsInjective(g.min[c])
               /\ ToSet(g.min[c]) = {x \in S \ {b} : Size(g, x) = 2 /\ MinIndex(x) = c}
    <3>1. {x \in S \ {b} : Size(g, x) = 2 /\ MinIndex(x) = c}
          = {x \in S : Size(h, x) = 2 /\ MinIndex(x) = c}
      BY <1>2, <2>6
    <3> QED
      BY <3>1, <2>5 DEF Listed
  <2>8. ASSUME NEW c \in Classes
        PROVE  /\ IsInjective(g.seg[c])
               /\ ToSet(g.seg[c]) = {x \in S \ {b} : Size(g, x) > 2 /\ GetIndex(Size(g, x)) = c}
    <3>1. {x \in S \ {b} : Size(g, x) > 2 /\ GetIndex(Size(g, x)) = c}
          = {x \in S : Size(h, x) > 2 /\ GetIndex(Size(h, x)) = c} \ {b}
      BY <2>6
    <3>2. /\ ToSet(h.seg[c]) = {x \in S : Size(h, x) > 2 /\ GetIndex(Size(h, x)) = c}
          /\ IsInjective(h.seg[c])
      BY DEF Listed
    <3>3. CASE c = i
      <4>1. g.seg[c] = u
        BY <3>3, <2>5, <1>0 DEF HeapRecord
      <4> QED
        BY <4>1, <3>1, <3>2, <3>3, <2>4 DEF u
    <3>4. CASE c # i
      <4>1. g.seg[c] = h.seg[c]
        BY <3>4, <2>5 DEF HeapRecord
      <4>2. ~(b \in {x \in S : Size(h, x) > 2 /\ GetIndex(Size(h, x)) = c})
        BY <3>4 DEF i
      <4> QED
        BY <4>1, <4>2, <3>1, <3>2
    <3> QED
      BY <3>3, <3>4
  <2> QED
    BY <2>5, <2>7, <2>8 DEF Listed, g, Popped
<1> QED
  BY <1>1, <1>2

\* push puts a block in, and writes its links.
Pushable(h, b, S) ==
    /\ h \in HeapRecord /\ S \in SUBSET Address /\ Listed(h, S) /\ b \in Address /\ b \notin S
    /\ Size(h, b) \in Nat /\ Size(h, b) >= 2
    /\ b + 1 \in Address /\ (Size(h, b) > 2 => b + 2 \in Address)
    /\ b + 1 \notin S /\ (Size(h, b) > 2 => b + 2 \notin S)

Pushed(h, g, b, S) ==
    /\ g \in HeapRecord /\ SameRest(h, g) /\ Listed(g, S \cup {b})
    /\ \A w \in Address : w # b + 1 /\ w # b + 2 => g.mem[w] = h.mem[w]
    /\ g.mem[b + 1] = Link
    /\ b + 2 \in Address => g.mem[b + 2] = IF Size(h, b) = 2 THEN h.mem[b + 2] ELSE Link

\* push puts a free block into the list of its class; it writes only the links.
LEMMA PushEffect ==
    ASSUME NEW h, NEW S, NEW b, Pushable(h, b, S)
    PROVE  Pushed(h, Push(h, b), b, S)
<1>A. /\ h \in HeapRecord /\ S \in SUBSET Address /\ Listed(h, S) /\ b \in Address /\ b \notin S
      /\ Size(h, b) \in Nat /\ Size(h, b) >= 2
      /\ b + 1 \in Address /\ (Size(h, b) > 2 => b + 2 \in Address)
      /\ b + 1 \notin S /\ (Size(h, b) > 2 => b + 2 \notin S)
  BY DEF Pushable
<1> USE <1>A
<1> DEFINE g == Push(h, b)
           i == GetIndex(Size(h, b))
           j == MinIndex(b)
<1>a. b \in Nat /\ b # b + 1 /\ b # b + 2 /\ b + 1 # b + 2
  BY MallocAssumption DEF Address
<1>0. i \in Classes /\ j \in MinLists
  BY <1>a, IndexIsClass, MinIndexIsClass
<1>b. Link \in Word
  BY DEF Link, Other, Word
<1> HIDE DEF i, j
<1>1. CASE Size(h, b) = 2
  <2>2. g = [h EXCEPT !.min = [h.min EXCEPT ![j] = <<b>> \o h.min[j]],
                      !.mem = [h.mem EXCEPT ![b + 1] = Link]]
    BY <1>1 DEF Push, MinBlock, j, HeapRecord
  <2>3. h.min[j] \in Seq(Nat) /\ IsInjective(h.min[j]) /\ b \notin ToSet(h.min[j])
    BY <1>0 DEF HeapRecord, Listed
  <2> DEFINE u == <<b>> \o h.min[j]
  <2>4. u \in Seq(Nat) /\ IsInjective(u) /\ ToSet(u) = ToSet(h.min[j]) \cup {b}
    BY <2>3, <1>a, Prepending
  <2> HIDE DEF g, u
  <2>5. /\ g \in HeapRecord /\ SameRest(h, g) /\ g.seg = h.seg
        /\ g.min = [h.min EXCEPT ![j] = u] /\ g.mem = [h.mem EXCEPT ![b + 1] = Link]
    BY <2>2, <2>4, <1>0, <1>b DEF HeapRecord, SameRest, u, Memory
  <2>6. \A x \in S \cup {b} : Size(g, x) = Size(h, x)
    BY <2>5, <1>a DEF Size, HeapRecord, Memory
  <2>7. ASSUME NEW c \in Classes
        PROVE  /\ IsInjective(g.seg[c])
               /\ ToSet(g.seg[c]) = {x \in S \cup {b} : Size(g, x) > 2 /\ GetIndex(Size(g, x)) = c}
    <3>1. {x \in S \cup {b} : Size(g, x) > 2 /\ GetIndex(Size(g, x)) = c}
          = {x \in S : Size(h, x) > 2 /\ GetIndex(Size(h, x)) = c}
      BY <1>1, <2>6
    <3> QED
      BY <3>1, <2>5 DEF Listed
  <2>8. ASSUME NEW c \in MinLists
        PROVE  /\ IsInjective(g.min[c])
               /\ ToSet(g.min[c]) = {x \in S \cup {b} : Size(g, x) = 2 /\ MinIndex(x) = c}
    <3>2. ToSet(h.min[c]) = {x \in S : Size(h, x) = 2 /\ MinIndex(x) = c} /\ IsInjective(h.min[c])
      BY DEF Listed
    <3>3. CASE c = j
      <4>1. g.min[c] = u
        BY <3>3, <2>5, <1>0 DEF HeapRecord
      <4>2. {x \in S \cup {b} : Size(g, x) = 2 /\ MinIndex(x) = c}
            = {x \in S : Size(h, x) = 2 /\ MinIndex(x) = c} \cup {b}
        BY <2>6, <3>3, <1>1 DEF j
      <4> QED
        BY <4>1, <4>2, <3>2, <3>3, <2>4
    <3>4. CASE c # j
      <4>1. g.min[c] = h.min[c]
        BY <3>4, <2>5 DEF HeapRecord
      <4>2. {x \in S \cup {b} : Size(g, x) = 2 /\ MinIndex(x) = c}
            = {x \in S : Size(h, x) = 2 /\ MinIndex(x) = c}
        BY <2>6, <3>4 DEF j
      <4> QED
        BY <4>1, <4>2, <3>2
    <3> QED
      BY <3>3, <3>4
  <2>9. Listed(g, S \cup {b})
    BY <2>7, <2>8 DEF Listed
  <2>10. \A w \in Address : g.mem[w] = IF w = b + 1 THEN Link ELSE h.mem[w]
    BY <2>5 DEF HeapRecord, Memory
  <2> QED
    BY <2>5, <2>9, <2>10, <1>1, <1>a DEF g, Pushed
<1>2. CASE Size(h, b) # 2
  <2>1. Size(h, b) > 2
    BY <1>2
  <2>2. g = [h EXCEPT !.seg = [h.seg EXCEPT ![i] = <<b>> \o h.seg[i]],
                      !.mem = [h.mem EXCEPT ![b + 1] = Link, ![b + 2] = Link]]
    BY <1>2, <1>a DEF Push, MinBlock, i, HeapRecord
  <2>3. h.seg[i] \in Seq(Nat) /\ IsInjective(h.seg[i]) /\ b \notin ToSet(h.seg[i])
    BY <1>0 DEF HeapRecord, Listed
  <2> DEFINE u == <<b>> \o h.seg[i]
  <2>4. u \in Seq(Nat) /\ IsInjective(u) /\ ToSet(u) = ToSet(h.seg[i]) \cup {b}
    BY <2>3, <1>a, Prepending
  <2> HIDE DEF g, u
  <2>5. /\ g \in HeapRecord /\ SameRest(h, g) /\ g.min = h.min
        /\ g.seg = [h.seg EXCEPT ![i] = u]
        /\ g.mem = [h.mem EXCEPT ![b + 1] = Link, ![b + 2] = Link]
    BY <2>2, <2>4, <1>0, <1>b DEF HeapRecord, SameRest, u, Memory
  <2>6. \A x \in S \cup {b} : Size(g, x) = Size(h, x)
    <3> TAKE x \in S \cup {b}
    <3>1. x \in Address /\ x # b + 1 /\ x # b + 2
      BY <2>1, <1>a
    <3>2. g.mem[x] = h.mem[x]
      BY <3>1, <2>5 DEF HeapRecord, Memory
    <3> QED
      BY <3>2 DEF Size
  <2>7. ASSUME NEW c \in MinLists
        PROVE  /\ IsInjective(g.min[c])
               /\ ToSet(g.min[c]) = {x \in S \cup {b} : Size(g, x) = 2 /\ MinIndex(x) = c}
    <3>1. {x \in S \cup {b} : Size(g, x) = 2 /\ MinIndex(x) = c}
          = {x \in S : Size(h, x) = 2 /\ MinIndex(x) = c}
      BY <1>2, <2>6
    <3> QED
      BY <3>1, <2>5 DEF Listed
  <2>8. ASSUME NEW c \in Classes
        PROVE  /\ IsInjective(g.seg[c])
               /\ ToSet(g.seg[c]) = {x \in S \cup {b} : Size(g, x) > 2 /\ GetIndex(Size(g, x)) = c}
    <3>2. /\ ToSet(h.seg[c]) = {x \in S : Size(h, x) > 2 /\ GetIndex(Size(h, x)) = c}
          /\ IsInjective(h.seg[c])
      BY DEF Listed
    <3>3. CASE c = i
      <4>1. g.seg[c] = u
        BY <3>3, <2>5, <1>0 DEF HeapRecord
      <4>2. {x \in S \cup {b} : Size(g, x) > 2 /\ GetIndex(Size(g, x)) = c}
            = {x \in S : Size(h, x) > 2 /\ GetIndex(Size(h, x)) = c} \cup {b}
        BY <2>6, <3>3, <2>1 DEF i
      <4> QED
        BY <4>1, <4>2, <3>2, <3>3, <2>4
    <3>4. CASE c # i
      <4>1. g.seg[c] = h.seg[c]
        BY <3>4, <2>5 DEF HeapRecord
      <4>2. {x \in S \cup {b} : Size(g, x) > 2 /\ GetIndex(Size(g, x)) = c}
            = {x \in S : Size(h, x) > 2 /\ GetIndex(Size(h, x)) = c}
        BY <2>6, <3>4 DEF i
      <4> QED
        BY <4>1, <4>2, <3>2
    <3> QED
      BY <3>3, <3>4
  <2>9. Listed(g, S \cup {b})
    BY <2>7, <2>8 DEF Listed
  <2>10. \A w \in Address : g.mem[w] = IF w = b + 1 \/ w = b + 2 THEN Link ELSE h.mem[w]
    BY <2>5, <2>1 DEF HeapRecord, Memory
  <2> QED
    BY <2>5, <2>9, <2>10, <1>2, <2>1, <1>a DEF g, Pushed
<1> QED
  BY <1>1, <1>2

-----------------------------------------------------------------------------
(* What the tiling is good for.                                            *)

FreeSet(m, B) == {b \in B : ~m[b].alloc}
AllocSet(m, B) == {b \in B : m[b].alloc}

\* No two neighbours are free.
Apart(m, B) == \A b \in B : Succ(m, b) \in B => m[b].alloc \/ m[Succ(m, b)].alloc

\* heap_end is the last block, or lies within it: then the last block is free, and
\* what heap_end points to is no header of an allocated block.
EndOK(m, e, B, end) ==
    \E last \in B : /\ Succ(m, last) = e
                    /\ \/ end = last
                       \/ /\ ~m[last].alloc /\ last < end /\ end < e /\ end % 2 = 1
                          /\ ~m[end].alloc

\* No footer passes for an epilogue.
EvenOK(m) == \A w \in Address : w > 0 /\ w % 2 = 0 => m[w] # One

\* The allocated blocks stay where they are, and so does what is in them.
Kept(m, B, m2, B2) ==
    \A c \in B : m[c].alloc =>
        /\ c \in B2 /\ m2[c].alloc /\ m2[c].size = m[c].size
        /\ \A w \in Address : c < w /\ w < Succ(m, c) => m2[w] = m[w]

\* pack makes a tag.
LEMMA TagIsWord ==
    \A size \in Nat, pm, pa, al \in BOOLEAN : Tag(size, pm, pa, al) \in Word
BY DEF Tag, Word

Wrote(h, g, b, size, pm, pa, al) ==
    /\ g \in HeapRecord /\ SameLists(h, g) /\ SameRest(h, g)
    /\ \A w \in Address : g.mem[w] = IF w = b \/ (~al /\ size # 2 /\ w = b + size - 1)
                                     THEN Tag(size, pm, pa, al) ELSE h.mem[w]

\* write_block writes a header, a footer where there is room for one, and no more.
LEMMA WriteEffect ==
    ASSUME NEW h \in HeapRecord, NEW b \in Address, NEW size \in Nat,
           NEW pm \in BOOLEAN, NEW pa \in BOOLEAN, NEW al \in BOOLEAN,
           ~al /\ size # 2 => b + size - 1 \in Address
    PROVE  Wrote(h, WriteBlock(h, b, size, pm, pa, al), b, size, pm, pa, al)
<1> DEFINE t == Tag(size, pm, pa, al)
           g == WriteBlock(h, b, size, pm, pa, al)
<1>1. t \in Word
  BY TagIsWord
<1> HIDE DEF t
<1>2. CASE al \/ size = 2
  <2>1. g = [h EXCEPT !.mem = [h.mem EXCEPT ![b] = t]]
    BY <1>2 DEF WriteBlock, MinBlock, t, HeapRecord
  <2> HIDE DEF g
  <2>2. g \in HeapRecord /\ SameLists(h, g) /\ SameRest(h, g) /\ g.mem = [h.mem EXCEPT ![b] = t]
    BY <2>1, <1>1 DEF HeapRecord, SameLists, SameRest, Memory
  <2>3. \A w \in Address : g.mem[w] = IF w = b THEN t ELSE h.mem[w]
    BY <2>2 DEF HeapRecord, Memory
  <2> QED
    BY <2>2, <2>3, <1>2 DEF g, t, Wrote
<1>3. CASE ~al /\ size # 2
  <2>1. g = [h EXCEPT !.mem = [h.mem EXCEPT ![b] = t, ![b + size - 1] = t]]
    BY <1>3 DEF WriteBlock, MinBlock, t, HeapRecord
  <2> HIDE DEF g
  <2>2. /\ g \in HeapRecord /\ SameLists(h, g) /\ SameRest(h, g)
        /\ g.mem = [h.mem EXCEPT ![b] = t, ![b + size - 1] = t]
    BY <2>1, <1>1, <1>3 DEF HeapRecord, SameLists, SameRest, Memory
  <2>3. \A w \in Address : g.mem[w] = IF w = b \/ w = b + size - 1 THEN t ELSE h.mem[w]
    BY <2>2, <1>3 DEF HeapRecord, Memory
  <2> QED
    BY <2>2, <2>3, <1>3 DEF g, t, Wrote
<1> QED
  BY <1>2, <1>3

\* The free blocks from x up to y become one; or there is just one, whose links are
\* written.
Merging(m, m2, e, B, x, y) ==
    /\ m \in Memory /\ m2 \in Memory /\ Tiled(m, e, B)
    /\ x \in B /\ y \in B \cup {e} /\ x + 2 <= y
    /\ \A c \in B : x <= c /\ c < y => ~m[c].alloc
    /\ m2[x].kind = "tag" /\ m2[x].size = y - x /\ ~m2[x].alloc
    /\ m2[x].prev_min = m[x].prev_min /\ m2[x].prev_alloc = m[x].prev_alloc
    /\ y - x > 2 => m2[y - 1].kind = "tag" /\ m2[y - 1].size = y - x
    /\ \A w \in Address : w < x \/ w > y => m2[w] = m[w]
    /\ m2[y].kind = m[y].kind /\ m2[y].size = m[y].size /\ m2[y].alloc = m[y].alloc
    /\ m2[y].prev_alloc = m[y].prev_alloc
    /\ IF y - x = 2 THEN m2[y] = m[y] ELSE ~m2[y].prev_min
    /\ \A w \in Address : x < w /\ w < y => m2[w] = m[w] \/ ~m2[w].alloc

\* Making one free block of neighbouring ones leaves the heap tiled.
LEMMA Merged ==
    ASSUME NEW m, NEW m2, NEW e, NEW B, NEW x, NEW y, Merging(m, m2, e, B, x, y)
    PROVE  Tiled(m2, e, {c \in B : c <= x \/ c >= y})
<1> DEFINE B2 == {c \in B : c <= x \/ c >= y}
<1>0. m \in Memory /\ m2 \in Memory /\ Tiled(m, e, B) /\ x \in B /\ y \in B \cup {e} /\ x + 2 <= y
  BY DEF Merging
<1>P. Plain(m, e, B)
  BY <1>0, TiledTypes
<1>1. Address = 0 .. MaxHeap - 1 /\ MaxHeap \in Nat
  BY MallocAssumption DEF Address
<1>2. e \in Nat /\ e \in Address /\ e % 2 = 1 /\ B \subseteq 1 .. e - 1 /\ x \in Nat /\ y \in Nat
      /\ x \in Address /\ y \in Address /\ y <= e /\ x % 2 = 1 /\ y % 2 = 1
  <2>1. /\ e \in Nat /\ e \in Address /\ e % 2 = 1 /\ B \subseteq 1 .. e - 1 /\ B \subseteq Address
        /\ \A b \in B : b \in Nat /\ b % 2 = 1
    BY <1>P DEF Plain
  <2>2. x \in Nat /\ x % 2 = 1 /\ x \in Address /\ x \in 1 .. e - 1
    BY <1>0, <2>1
  <2>3. CASE y \in B
    <3>1. y \in Nat /\ y % 2 = 1 /\ y \in Address /\ y \in 1 .. e - 1
      BY <2>1, <2>3
    <3> QED
      BY <3>1, <2>1, <2>2
  <2>4. CASE y = e
    BY <1>0, <2>1, <2>2, <2>4
  <2> QED
    BY <1>0, <2>3, <2>4
<1>3. m2[x].size = y - x /\ m2[x].kind = "tag" /\ ~m2[x].alloc
      /\ m2[x].prev_min = m[x].prev_min /\ m2[x].prev_alloc = m[x].prev_alloc
  BY DEF Merging
<1>5. m2[y].kind = m[y].kind /\ m2[y].size = m[y].size /\ m2[y].alloc = m[y].alloc
      /\ m2[y].prev_alloc = m[y].prev_alloc
  BY DEF Merging
<1>6. ~m[y].prev_alloc
  <2>1. y # 1
    BY <1>0, <1>2
  <2>2. PICK p \in B : Succ(m, p) = y
    BY <1>0, <2>1 DEF Tiled
  <2>3. BlockOK(m, e, B, p)
    BY <1>0 DEF Tiled
  <2>4. p < y /\ x <= p
    <3>1. p \in Nat /\ p < y
      BY <1>P, <2>2 DEF Plain
    <3>2. x <= p \/ x >= y
      BY <1>0, <2>2, <2>3 DEF BlockOK
    <3> QED
      BY <3>1, <3>2, <1>0, <1>2
  <2>5. ~m[p].alloc
    BY <2>4 DEF Merging
  <2>6. m[p] \in Word /\ (m[y].prev_alloc <=> m[p].alloc)
    BY <1>P, <2>2, <2>3 DEF BlockOK, Plain
  <2> QED
    BY <2>5, <2>6
<1>7. B2 = {c \in B : c < x \/ c >= y} \cup {x}
  <2>1. \A c \in B : c <= x <=> c < x \/ c = x
    BY <1>2, <1>P DEF Plain
  <2>2. x <= x
    BY <1>2
  <2> QED
    BY <1>0, <2>1, <2>2
<1>8. (y - x) % 2 = 0 /\ y - x \in Nat /\ y - x >= 2 /\ x + (y - x) = y
  BY <1>0, <1>2
<1>9. Succ(m2, x) = y
  BY <1>3, <1>8 DEF Succ
<1>10. BlockOK(m2, e, B2, x)
  <2>1. y \in B2 \cup {e}
    BY <1>0, <1>2
  <2>2. \A c \in B2 : c <= x \/ c >= y
    OBVIOUS
  <2> HIDE DEF B2
  <2>3. m2[y].prev_alloc <=> m2[x].alloc
    BY <1>3, <1>5, <1>6
  <2>4. (y # e \/ m2[x].alloc \/ m2[x].size > 2) => (m2[y].prev_min <=> m2[x].size = 2)
    <3>1. CASE y - x = 2
      <4>1. BlockOK(m, e, B, x)
        BY <1>0 DEF Tiled
      <4>2. /\ Succ(m, x) \in Nat /\ x + 2 <= Succ(m, x) /\ Succ(m, x) <= e
            /\ m[x].size \in Nat
        BY <1>0, <1>P DEF Plain
      <4>3. Succ(m, x) = y
        BY <4>1, <4>2, <3>1, <1>0, <1>2 DEF BlockOK
      <4>4. m[x].size = 2
        BY <4>2, <4>3, <3>1, <1>2 DEF Succ
      <4>5. ~m[x].alloc /\ m2[y] = m[y]
        BY <3>1, <1>0, <1>2 DEF Merging
      <4>6. (y # e \/ m[x].alloc \/ m[x].size > 2) => (m[y].prev_min <=> m[x].size = 2)
        BY <4>1, <4>3 DEF BlockOK
      <4> QED
        BY <4>4, <4>5, <4>6, <3>1, <1>3
    <3>2. CASE y - x # 2
      BY <3>2, <1>3, <1>8 DEF Merging
    <3> QED
      BY <3>1, <3>2
  <2>5. x % 2 = 1 /\ m2[x].kind = "tag" /\ m2[x].size >= 2 /\ m2[x].size % 2 = 0
    BY <1>2, <1>3, <1>8
  <2>6. m2[x].size > 2 => m2[y - 1].kind = "tag" /\ m2[y - 1].size = m2[x].size
    BY <1>3 DEF Merging
  <2> QED
    BY <2>1, <2>2, <2>3, <2>4, <2>5, <2>6, <1>9 DEF BlockOK
<1>11. {x} \subseteq x .. y - 1 /\ x < y
  BY <1>0, <1>2
<1>12. \A b \in {x} : BlockOK(m2, e, B2, b)
  BY <1>10
<1>13. \A c \in {x} \cup {y} : c # x => \E b \in {x} : Succ(m2, b) = c
  BY <1>9
<1> HIDE DEF B2
<1>14. Tiled(m2, e, B2)
  <2>1. Retiling(m, m2, e, B, x, y, {x}, B2)
    BY <1>0, <1>3, <1>5, <1>7, <1>11, <1>12, <1>13 DEF Retiling, Merging
  <2> QED
    BY <2>1, Retiled
<1> QED
  BY <1>14 DEF B2

\* The merged block is free; the other blocks are what and where they were.
LEMMA MergedBlocks ==
    ASSUME NEW m, NEW m2, NEW e, NEW B, NEW x, NEW y, Merging(m, m2, e, B, x, y),
           NEW B2, B2 = {c \in B : c <= x \/ c >= y}
    PROVE  /\ ~m2[x].alloc /\ m2[x].size = y - x
           /\ \A c \in B2 : c # x => m2[c].size = m[c].size /\ m2[c].alloc = m[c].alloc
           /\ FreeSet(m2, B2) = {c \in FreeSet(m, B) : c <= x \/ c >= y}
           /\ AllocSet(m2, B2) = AllocSet(m, B)
           /\ Kept(m, B, m2, B2)
           /\ EvenOK(m) => EvenOK(m2)
<1>0. /\ m \in Memory /\ m2 \in Memory /\ Tiled(m, e, B) /\ x \in B /\ y \in B \cup {e}
      /\ x + 2 <= y
  BY DEF Merging
<1>P. Plain(m, e, B)
  BY <1>0, TiledTypes
<1>1. /\ Address = 0 .. MaxHeap - 1 /\ MaxHeap \in Nat
      /\ x \in Nat /\ y \in Nat /\ y \in Address /\ x \in Address /\ x % 2 = 1 /\ y % 2 = 1
  BY <1>0, <1>P DEF Plain
<1>2. ~m2[x].alloc /\ m2[x].size = y - x
  BY DEF Merging
<1>3. m2[y].size = m[y].size /\ m2[y].alloc = m[y].alloc
  BY DEF Merging
<1>4. \A w \in Address : w < x \/ w > y => m2[w] = m[w]
  BY DEF Merging
<1>5. \A c \in B2 : c # x => m2[c].size = m[c].size /\ m2[c].alloc = m[c].alloc
  <2> SUFFICES ASSUME NEW c \in B2, c # x
               PROVE  m2[c].size = m[c].size /\ m2[c].alloc = m[c].alloc
    OBVIOUS
  <2>1. c \in Address /\ c \in Nat /\ (c < x \/ c = y \/ c > y)
    BY <1>1, <1>P DEF Plain
  <2> QED
    BY <2>1, <1>3, <1>4
<1>6. \A c \in B : x <= c /\ c < y => ~m[c].alloc
  BY DEF Merging
<1>7. \A c \in B : c \in Nat
  BY <1>P DEF Plain
<1>8. x \in B2
  BY <1>0, <1>1
<1>9. FreeSet(m2, B2) = {c \in FreeSet(m, B) : c <= x \/ c >= y}
  <2>1. ~m[x].alloc
    BY <1>0, <1>1, <1>6
  <2>2. \A c \in B2 : ~m2[c].alloc <=> ~m[c].alloc
    BY <2>1, <1>2, <1>5
  <2> QED
    BY <2>2 DEF FreeSet
<1>10. AllocSet(m2, B2) = AllocSet(m, B)
  <2>1. \A c \in B : m[c].alloc => c \in B2 /\ m2[c].alloc
    BY <1>0, <1>1, <1>5, <1>6, <1>7
  <2>2. \A c \in B2 : m2[c].alloc => m[c].alloc
    BY <1>2, <1>5
  <2> QED
    BY <2>1, <2>2 DEF AllocSet
<1>11. Kept(m, B, m2, B2)
  <2> SUFFICES ASSUME NEW c \in B, m[c].alloc
               PROVE  /\ c \in B2 /\ m2[c].alloc /\ m2[c].size = m[c].size
                      /\ \A w \in Address : c < w /\ w < Succ(m, c) => m2[w] = m[w]
    BY DEF Kept
  <2>1. c \in B2 /\ c # x /\ (c < x \/ c >= y) /\ c \in Nat
    BY <1>0, <1>1, <1>6, <1>7
  <2>2. m2[c].alloc /\ m2[c].size = m[c].size
    BY <2>1, <1>5
  <2>3. ASSUME NEW w \in Address, c < w, w < Succ(m, c) PROVE m2[w] = m[w]
    <3>1. w \in Nat /\ Succ(m, c) \in Nat
      BY <1>1, <1>P DEF Plain
    <3>2. CASE c < x
      <4>1. Succ(m, c) <= x
        <5>1. BlockOK(m, e, B, c)
          BY <1>0 DEF Tiled
        <5> QED
          BY <5>1, <3>2, <1>0, <1>1, <2>1 DEF BlockOK
      <4> QED
        BY <4>1, <2>3, <3>1, <1>1, <1>4
    <3>3. CASE c >= y
      BY <3>1, <3>3, <2>1, <2>3, <1>1, <1>4
    <3> QED
      BY <3>2, <3>3, <2>1
  <2> QED
    BY <2>1, <2>2, <2>3
<1>12. EvenOK(m) => EvenOK(m2)
  <2> SUFFICES ASSUME EvenOK(m), NEW w \in Address, w > 0, w % 2 = 0
               PROVE  m2[w] # One
    BY DEF EvenOK
  <2>1. w \in Nat /\ w # x /\ w # y
    BY <1>1
  <2>2. m2[w] = m[w] \/ ~m2[w].alloc
    <3>1. CASE w < x \/ w > y
      BY <3>1, <1>4
    <3>2. CASE x < w /\ w < y
      BY <3>2 DEF Merging
    <3> QED
      BY <3>1, <3>2, <2>1, <1>1
  <2>3. One.alloc
    BY DEF One, Tag
  <2> QED
    BY <2>2, <2>3 DEF EvenOK
<1> QED
  BY <1>2, <1>5, <1>9, <1>10, <1>11, <1>12

\* No two free blocks are neighbours once all free neighbours are merged.
LEMMA MergedApart ==
    ASSUME NEW m, NEW m2, NEW e, NEW B, NEW x, NEW y, Merging(m, m2, e, B, x, y),
           NEW B2, B2 = {c \in B : c <= x \/ c >= y}, m[x].prev_alloc, m[y].alloc,
           \A c \in B : Succ(m, c) \in B =>
               \/ m[c].alloc \/ m[Succ(m, c)].alloc
               \/ (x <= c /\ c < y) \/ (x <= Succ(m, c) /\ Succ(m, c) < y)
    PROVE  Apart(m2, B2)
<1>0. /\ m \in Memory /\ m2 \in Memory /\ Tiled(m, e, B) /\ x \in B /\ y \in B \cup {e}
      /\ x + 2 <= y
  BY DEF Merging
<1>P. Plain(m, e, B)
  BY <1>0, TiledTypes
<1>1. x \in Nat /\ y \in Nat
  BY <1>0, <1>P DEF Plain
<1>2. /\ m2[x].size = y - x
      /\ \A c \in B2 : c # x => m2[c].size = m[c].size /\ m2[c].alloc = m[c].alloc
  BY MergedBlocks
<1> SUFFICES ASSUME NEW b \in B2, Succ(m2, b) \in B2
             PROVE  m2[b].alloc \/ m2[Succ(m2, b)].alloc
  BY DEF Apart
<1>3. b \in Nat /\ b \in B /\ Succ(m, b) \in Nat /\ b < Succ(m, b)
  BY <1>P DEF Plain
<1>4. CASE b = x
  <2>1. Succ(m2, b) = y
    BY <1>1, <1>2, <1>4 DEF Succ
  <2>2. y # x
    BY <1>0, <1>1
  <2> QED
    BY <2>1, <2>2, <1>2
<1>5. CASE b # x
  <2>1. Succ(m2, b) = Succ(m, b) /\ m2[b].alloc = m[b].alloc
    BY <1>2, <1>5 DEF Succ
  <2>2. BlockOK(m, e, B, b)
    BY <1>0, <1>3 DEF Tiled
  <2> DEFINE n == Succ(m, b)
  <2>3. n \in B2 /\ n \in B /\ (b < x => n <= x)
    BY <2>1, <2>2, <1>0, <1>1, <1>3 DEF BlockOK
  <2>4. CASE n = x
    <3>1. m[b].alloc
      BY <2>4, <2>2 DEF BlockOK
    <3> QED
      BY <3>1, <2>1
  <2>5. CASE n # x
    <3>1. m2[n].alloc = m[n].alloc
      BY <2>3, <2>5, <1>2
    <3>2. m[b].alloc \/ m[n].alloc
      BY <2>3, <2>5, <1>0, <1>1, <1>3, <1>5
    <3> QED
      BY <3>1, <3>2, <2>1
  <2> QED
    BY <2>4, <2>5
<1> QED
  BY <1>4, <1>5

\* After a merge heap_end is the last block, or lies within it, where no allocated
\* header is.
LEMMA MergedEnd ==
    ASSUME NEW m, NEW m2, NEW e, NEW B, NEW x, NEW y, Merging(m, m2, e, B, x, y),
           NEW B2, B2 = {c \in B : c <= x \/ c >= y},
           NEW end \in Nat, EndOK(m, e, B, end), NEW end2,
           y # e => end2 = end, y = e => end2 \in {x, end}
    PROVE  EndOK(m2, e, B2, end2)
<1>0. /\ m \in Memory /\ m2 \in Memory /\ Tiled(m, e, B) /\ x \in B /\ y \in B \cup {e}
      /\ x + 2 <= y
  BY DEF Merging
<1>P. Plain(m, e, B)
  BY <1>0, TiledTypes
<1>1. /\ x \in Nat /\ y \in Nat /\ y <= e /\ e \in Nat /\ x \in B2
      /\ Address = 0 .. MaxHeap - 1 /\ MaxHeap \in Nat /\ e \in Address
  BY <1>0, <1>P DEF Plain
<1>2. /\ m2[x].size = y - x /\ ~m2[x].alloc
      /\ \A c \in B2 : c # x => m2[c].size = m[c].size /\ m2[c].alloc = m[c].alloc
  BY MergedBlocks
<1>3. PICK last \in B : /\ Succ(m, last) = e
                        /\ \/ end = last
                           \/ /\ ~m[last].alloc /\ last < end /\ end < e /\ end % 2 = 1
                              /\ ~m[end].alloc
  BY DEF EndOK
<1>4. last \in Nat /\ last < e /\ BlockOK(m, e, B, last) /\ last % 2 = 1 /\ x % 2 = 1
      /\ \A c \in B : c <= last
  <2>0. BlockOK(m, e, B, last)
    BY <1>0 DEF Tiled
  <2>1. last \in Nat /\ last < e /\ last % 2 = 1 /\ x % 2 = 1
    <3>1. \A c \in B : c \in Nat /\ c % 2 = 1 /\ c \in 1 .. e - 1
      BY <1>P DEF Plain
    <3> QED
      BY <1>0, <1>1, <3>1
  <2>2. \A c \in B : c \in Nat /\ c < e
    BY <1>P DEF Plain
  <2> QED
    BY <2>0, <2>1, <2>2, <1>1, <1>3 DEF BlockOK
<1>5. end < e /\ end >= last
  BY <1>3, <1>4, <1>1
<1>6. CASE y # e
  <2>1. last >= y /\ last # x /\ last \in B2
    BY <1>0, <1>1, <1>4, <1>6
  <2>2. Succ(m2, last) = e /\ m2[last].alloc = m[last].alloc
    BY <2>1, <1>2, <1>3 DEF Succ
  <2>3. ~m[end].alloc /\ end # last => ~m2[end].alloc
    <3> HAVE ~m[end].alloc /\ end # last
    <3>1. end > y /\ end \in Address
      BY <2>1, <1>1, <1>5
    <3> QED
      BY <3>1 DEF Merging
  <2>4. end2 = end
    BY <1>6
  <2> QED
    BY <2>1, <2>2, <2>3, <2>4, <1>1, <1>3, <1>4 DEF EndOK
<1>7. CASE y = e
  <2>1. Succ(m2, x) = e
    BY <1>1, <1>2, <1>7 DEF Succ
  <2>2. CASE end2 = x
    BY <2>1, <2>2, <1>1 DEF EndOK
  <2>3. CASE end2 # x
    <3>1. end2 = end /\ x < end /\ x <= last
      BY <2>3, <1>7, <1>0, <1>1, <1>4, <1>5
    <3>2. ~m[end].alloc /\ end % 2 = 1
      <4>1. ~m[last].alloc
        BY <3>1, <1>4, <1>7, <1>1 DEF Merging
      <4> QED
        BY <4>1, <1>3, <1>4
    <3>3. end \in Address
      BY <1>1, <1>5
    <3>4. ~m2[end].alloc
      BY <3>1, <3>2, <3>3, <1>5, <1>7 DEF Merging
    <3> QED
      BY <3>1, <3>2, <3>4, <2>1, <1>1, <1>2, <1>5 DEF EndOK
  <2> QED
    BY <2>2, <2>3
<1> QED
  BY <1>6, <1>7

-----------------------------------------------------------------------------
(* Merging.                                                                *)

\* A block that is in no list gets its new size and goes into the list for it.
Grown(h, g, x, k, S) ==
    /\ g \in HeapRecord /\ SameRest(h, g) /\ Listed(g, S \cup {x})
    /\ \A w \in Address : w < x \/ w >= x + k => g.mem[w] = h.mem[w]
    /\ g.mem[x] = Tag(k, h.mem[x].prev_min, h.mem[x].prev_alloc, FALSE)
    /\ g.mem[x + k - 1].kind = "tag" /\ g.mem[x + k - 1].size = k
    /\ \A w \in Address : x < w /\ w < x + k => g.mem[w] = h.mem[w] \/ ~g.mem[w].alloc

\* The merged block gets its header, its footer and its place in a list.
LEMMA RunEffect ==
    ASSUME NEW h \in HeapRecord, NEW x \in Address, NEW k \in Nat, k >= 4, x + k \in Address,
           NEW S \in SUBSET Address, Listed(h, S), \A s \in S : s < x \/ s >= x + k
    PROVE  Grown(h, Push(Resize(h, x, k), x), x, k, S)
<1> DEFINE r == Resize(h, x, k)
           g == Push(r, x)
           t == Tag(k, h.mem[x].prev_min, h.mem[x].prev_alloc, FALSE)
<1>1. Address = 0 .. MaxHeap - 1 /\ MaxHeap \in Nat
  BY MallocAssumption DEF Address
<1>2. h.mem[x].prev_min \in BOOLEAN /\ h.mem[x].prev_alloc \in BOOLEAN
  BY DEF HeapRecord, Memory, Word
<1>3. x \in Nat /\ x + k - 1 \in Address /\ x + 1 \in Address /\ x + 2 \in Address
      /\ x + k - 1 > x + 2 /\ \A s \in S : s \in Nat
  BY <1>1
<1>4. /\ r \in HeapRecord /\ SameLists(h, r) /\ SameRest(h, r)
      /\ \A w \in Address : r.mem[w] = IF w = x \/ (~FALSE /\ k # 2 /\ w = x + k - 1) THEN t ELSE h.mem[w]
  <2>1. ~FALSE /\ k # 2 => x + k - 1 \in Address
    BY <1>3
  <2>2. r = WriteBlock(h, x, k, h.mem[x].prev_min, h.mem[x].prev_alloc, FALSE)
    BY DEF Resize
  <2>3. FALSE \in BOOLEAN
    OBVIOUS
  <2>4. Wrote(h, WriteBlock(h, x, k, h.mem[x].prev_min, h.mem[x].prev_alloc, FALSE), x, k,
              h.mem[x].prev_min, h.mem[x].prev_alloc, FALSE)
    BY <1>2, <2>1, <2>3, WriteEffect
  <2> HIDE DEF r
  <2> QED
    BY <2>2, <2>4 DEF Wrote
<1>t. t.kind = "tag" /\ t.size = k /\ ~t.alloc
  BY DEF Tag
<1> HIDE DEF r, t
<1>5. \A w \in Address : r.mem[w] = IF w = x \/ w = x + k - 1 THEN t ELSE h.mem[w]
  BY <1>4
<1>6. Size(r, x) = k
  BY <1>5, <1>t DEF Size
<1>7. Listed(r, S)
  <2>1. \A s \in S : Size(r, s) = Size(h, s)
    BY <1>1, <1>3, <1>5 DEF Size
  <2> QED
    BY <2>1, <1>4, ListedFrame
<1>8. x \notin S /\ x + 1 \notin S /\ x + 2 \notin S
  BY <1>3
<1>9. /\ g \in HeapRecord /\ SameRest(r, g) /\ Listed(g, S \cup {x})
      /\ \A w \in Address : w # x + 1 /\ w # x + 2 => g.mem[w] = r.mem[w]
      /\ g.mem[x + 1] = Link
      /\ x + 2 \in Address => g.mem[x + 2] = IF Size(r, x) = 2 THEN r.mem[x + 2] ELSE Link
  <2>1. Pushable(r, x, S)
    BY <1>3, <1>4, <1>6, <1>7, <1>8 DEF Pushable
  <2>2. Pushed(r, g, x, S)
    BY <2>1, PushEffect
  <2> HIDE DEF g
  <2> QED
    BY <2>2 DEF Pushed
<1> HIDE DEF g
<1>10. ~Link.alloc
  BY DEF Link, Other
<1>11. \A w \in Address : g.mem[w] = IF w = x \/ w = x + k - 1 THEN t
                                     ELSE IF w = x + 1 \/ w = x + 2 THEN Link ELSE h.mem[w]
  BY <1>3, <1>5, <1>6, <1>9
<1>12. SameRest(h, g)
  BY <1>4, <1>9 DEF SameRest
<1>13. \A w \in Address : w < x \/ w >= x + k => g.mem[w] = h.mem[w]
  BY SMTT(30), <1>1, <1>3, <1>11
<1>14. \A w \in Address : x < w /\ w < x + k => g.mem[w] = h.mem[w] \/ ~g.mem[w].alloc
  BY <1>t, <1>10, <1>11
<1>15. g.mem[x] = t /\ g.mem[x + k - 1] = t
  BY <1>3, <1>11
<1> QED
  BY <1>9, <1>12, <1>13, <1>14, <1>15, <1>t DEF g, r, t, Grown

\* prev_min is cleared in the header at n.
Cleared(h, g, n) ==
    /\ g \in HeapRecord /\ SameLists(h, g) /\ SameRest(h, g)
    /\ \A w \in Address : w # n => g.mem[w] = h.mem[w]
    /\ g.mem[n].kind = h.mem[n].kind /\ g.mem[n].size = h.mem[n].size
    /\ g.mem[n].alloc = h.mem[n].alloc /\ g.mem[n].prev_alloc = h.mem[n].prev_alloc
    /\ ~g.mem[n].prev_min

\* Clearing prev_min changes that flag of one header.
LEMMA ClearEffect ==
    ASSUME NEW h \in HeapRecord, NEW n \in Address
    PROVE  Cleared(h, ClearPrevMin(h, n), n)
<1> DEFINE g == ClearPrevMin(h, n)
           t == [h.mem[n] EXCEPT !.prev_min = FALSE]
<1>1. h.mem[n] \in Word
  BY DEF HeapRecord, Memory
<1>2. /\ t \in Word /\ t.kind = h.mem[n].kind /\ t.size = h.mem[n].size
      /\ t.alloc = h.mem[n].alloc /\ t.prev_alloc = h.mem[n].prev_alloc /\ ~t.prev_min
  BY <1>1 DEF Word
<1>3. g = [h EXCEPT !.mem = [h.mem EXCEPT ![n] = t]]
  BY DEF ClearPrevMin
<1> HIDE DEF g, t
<1>4. g \in HeapRecord /\ SameLists(h, g) /\ SameRest(h, g) /\ g.mem = [h.mem EXCEPT ![n] = t]
  BY <1>2, <1>3 DEF HeapRecord, SameLists, SameRest, Memory
<1>5. \A w \in Address : g.mem[w] = IF w = n THEN t ELSE h.mem[w]
  BY <1>4 DEF HeapRecord, Memory
<1> QED
  BY <1>2, <1>4, <1>5 DEF Cleared, g

\* The heap between two calls.
Good(h, B) ==
    /\ h \in HeapRecord /\ h.fault = "none"
    /\ Tiled(h.mem, h.brk - 1, B) /\ EndOK(h.mem, h.brk - 1, B, h.end)
    /\ EvenOK(h.mem) /\ Apart(h.mem, B) /\ Listed(h, FreeSet(h.mem, B))

\* The same within a call of coalesce_block: b is free, in no list, and may have
\* free neighbours.
GoodBut(h, B, b) ==
    /\ h \in HeapRecord /\ h.fault = "none"
    /\ Tiled(h.mem, h.brk - 1, B) /\ EndOK(h.mem, h.brk - 1, B, h.end)
    /\ EvenOK(h.mem) /\ b \in B /\ ~h.mem[b].alloc
    /\ Listed(h, FreeSet(h.mem, B) \ {b})
    /\ \A c \in B : Succ(h.mem, c) \in B =>
          h.mem[c].alloc \/ h.mem[Succ(h.mem, c)].alloc \/ c = b \/ Succ(h.mem, c) = b

\* A heap with the same allocated blocks.
SameUse(h, B, g, B2) ==
    /\ Kept(h.mem, B, g.mem, B2) /\ AllocSet(g.mem, B2) = AllocSet(h.mem, B) /\ g.brk = h.brk

Coalesced(h, B, b, g, x, y) ==
    /\ GoodBut(h, B, b) /\ x <= b /\ b < y
    /\ Merging(h.mem, g.mem, h.brk - 1, B, x, y)
    /\ h.mem[x].prev_alloc /\ h.mem[y].alloc
    /\ g \in HeapRecord /\ g.fault = "none" /\ g.brk = h.brk
    /\ Listed(g, {c \in FreeSet(h.mem, B) : c <= x \/ c >= y})
    /\ y # h.brk - 1 => g.end = h.end
    /\ y = h.brk - 1 => g.end \in {x, h.end}

\* A heap in which b and its free neighbours have become one block is good.
LEMMA CoalescedIsGood ==
    ASSUME NEW h, NEW B, NEW b, NEW g, NEW x, NEW y, Coalesced(h, B, b, g, x, y)
    PROVE  \E B2 : Good(g, B2) /\ SameUse(h, B, g, B2)
<1> DEFINE B2 == {c \in B : c <= x \/ c >= y}
           m == h.mem
           m2 == g.mem
           e == h.brk - 1
<1>1. Merging(m, m2, e, B, x, y) /\ h \in HeapRecord /\ Tiled(m, e, B) /\ EndOK(m, e, B, h.end)
      /\ EvenOK(m) /\ g.brk = h.brk /\ g \in HeapRecord /\ g.fault = "none"
      /\ Listed(g, {c \in FreeSet(m, B) : c <= x \/ c >= y})
      /\ m[x].prev_alloc /\ m[y].alloc
  BY DEF Coalesced, GoodBut
<1>e. (y # e => g.end = h.end) /\ (y = e => g.end \in {x, h.end})
  BY DEF Coalesced
<1>p. \A c \in B : Succ(m, c) \in B =>
         m[c].alloc \/ m[Succ(m, c)].alloc \/ (x <= c /\ c < y) \/ (x <= Succ(m, c) /\ Succ(m, c) < y)
  BY DEF Coalesced, GoodBut
<1> HIDE DEF B2, m, m2, e
<1>b. B2 = {c \in B : c <= x \/ c >= y}
  BY DEF B2
<1>2. Tiled(m2, e, B2)
  <2>1. Tiled(m2, e, {c \in B : c <= x \/ c >= y})
    BY <1>1, Merged
  <2> QED
    BY <2>1, <1>b, Zenon
<1>3. /\ FreeSet(m2, B2) = {c \in FreeSet(m, B) : c <= x \/ c >= y}
      /\ AllocSet(m2, B2) = AllocSet(m, B) /\ Kept(m, B, m2, B2) /\ EvenOK(m2)
  BY <1>1, <1>b, MergedBlocks
<1>4. Apart(m2, B2)
  BY <1>1, <1>b, <1>p, MergedApart
<1>5. EndOK(m2, e, B2, g.end)
  <2>1. h.end \in Nat
    BY <1>1 DEF HeapRecord
  <2> QED
    BY <1>1, <1>b, <1>e, <2>1, MergedEnd
<1>6. Good(g, B2)
  BY <1>1, <1>2, <1>3, <1>4, <1>5 DEF Good, m2, e
<1>7. SameUse(h, B, g, B2)
  BY <1>1, <1>3 DEF SameUse, m, m2
<1> QED
  BY <1>6, <1>7

\* coalesce_block finds the block before b, if that is free.
LEMMA PrevFound ==
    ASSUME NEW m \in Memory, NEW e, NEW B, Tiled(m, e, B), NEW b \in B, ~m[b].prev_alloc
    PROVE  \E p \in B :
              /\ Succ(m, p) = b /\ ~m[p].alloc /\ m[p].size # 0
              /\ m[b].prev_min => p = b - 2
              /\ ~m[b].prev_min => /\ m[b - 1].kind = "tag" /\ m[b - 1].size = m[p].size
                                   /\ p = b - m[p].size
<1>P. Plain(m, e, B)
  BY TiledTypes
<1>1. b # 1 /\ b # e /\ b \in Nat
  BY <1>P DEF Tiled, Plain
<1>2. PICK p \in B : Succ(m, p) = b
  BY <1>1 DEF Tiled
<1>3. BlockOK(m, e, B, p)
  BY DEF Tiled
<1>4. p \in Nat /\ m[p].size \in Nat /\ m[p].size >= 2
  BY <1>P DEF Plain
<1>5. ~m[p].alloc /\ (m[b].prev_min <=> m[p].size = 2)
  BY <1>1, <1>2, <1>3 DEF BlockOK
<1>6. m[p].size > 2 => m[b - 1].kind = "tag" /\ m[b - 1].size = m[p].size
  BY <1>2, <1>3, <1>5 DEF BlockOK
<1>7. b = p + m[p].size
  BY <1>2 DEF Succ
<1> QED
  BY <1>2, <1>4, <1>5, <1>6, <1>7

\* Only blocks at the end of the heap are found by heap_end.
LEMMA EndAbove ==
    ASSUME NEW m \in Memory, NEW e, NEW B, Tiled(m, e, B), NEW end \in Nat, EndOK(m, e, B, end),
           NEW c \in B, Succ(m, c) # e
    PROVE  end # c
<1>P. Plain(m, e, B)
  BY TiledTypes
<1>1. PICK last \in B : Succ(m, last) = e /\ (end = last \/ last < end)
  BY DEF EndOK
<1>2. BlockOK(m, e, B, last) /\ BlockOK(m, e, B, c)
  BY DEF Tiled
<1>3. c \in Nat /\ last \in Nat /\ c < e /\ e \in Nat
  BY <1>P DEF Plain
<1>4. c <= last /\ c # last
  BY <1>1, <1>2, <1>3 DEF BlockOK
<1> QED
  BY <1>1, <1>3, <1>4

\* The run of free blocks around b, from x up to y.
Run(h, B, b, x, y) ==
    LET m == h.mem IN
    /\ GoodBut(h, B, b)
    /\ x \in B /\ y \in B \cup {h.brk - 1} /\ x <= b /\ Succ(m, b) <= y
    /\ m[x].prev_alloc /\ m[y].alloc
    /\ \A c \in B : x <= c /\ c < y => ~m[c].alloc

\* What coalesce_block leaves of such a run.
Joined(h, B, b, g, x, y) ==
    /\ Run(h, B, b, x, y) /\ y - x > 2
    /\ g \in HeapRecord /\ g.fault = "none" /\ g.brk = h.brk
    /\ Listed(g, {c \in FreeSet(h.mem, B) : c <= x \/ c >= y})
    /\ \A w \in Address : w < x \/ w > y => g.mem[w] = h.mem[w]
    /\ g.mem[x] = Tag(y - x, h.mem[x].prev_min, h.mem[x].prev_alloc, FALSE)
    /\ g.mem[y - 1].kind = "tag" /\ g.mem[y - 1].size = y - x
    /\ \A w \in Address : x < w /\ w < y => g.mem[w] = h.mem[w] \/ ~g.mem[w].alloc
    /\ g.mem[y].kind = h.mem[y].kind /\ g.mem[y].size = h.mem[y].size
    /\ g.mem[y].alloc = h.mem[y].alloc /\ g.mem[y].prev_alloc = h.mem[y].prev_alloc
    /\ ~g.mem[y].prev_min
    /\ y # h.brk - 1 => g.end = h.end
    /\ y = h.brk - 1 => g.end \in {x, h.end}

\* What the three merging cases of coalesce_block do to the memory and the lists
\* makes one block of b and its free neighbours.
LEMMA JoinedIsCoalesced ==
    ASSUME NEW h, NEW B, NEW b, NEW g, NEW x, NEW y, Joined(h, B, b, g, x, y)
    PROVE  Coalesced(h, B, b, g, x, y)
<1> DEFINE m == h.mem
           m2 == g.mem
           e == h.brk - 1
<1>1. /\ GoodBut(h, B, b) /\ m \in Memory /\ m2 \in Memory /\ Tiled(m, e, B)
      /\ x \in B /\ y \in B \cup {e} /\ x <= b /\ Succ(m, b) <= y /\ b \in B
  BY DEF Joined, Run, GoodBut, HeapRecord
<1>2. b \in Nat /\ x \in Nat /\ b < Succ(m, b) /\ Succ(m, b) \in Nat /\ y \in Nat
  <2>1. Plain(m, e, B)
    BY <1>1, TiledTypes
  <2> HIDE DEF m, e
  <2>2. e \in Nat /\ \A c \in B : c \in Nat /\ Succ(m, c) \in Nat /\ c + 2 <= Succ(m, c)
    BY <2>1 DEF Plain
  <2> QED
    BY <2>2, <1>1
<1>3. x <= b /\ b < y /\ x + 2 <= y
  <2> HIDE DEF m, m2, e
  <2>1. y - x > 2
    BY DEF Joined
  <2> QED
    BY <1>1, <1>2, <2>1
<1>4. /\ \A c \in B : x <= c /\ c < y => ~m[c].alloc
      /\ m[x].prev_alloc /\ m[y].alloc
  BY DEF Joined, Run
<1>5. /\ m2[x].kind = "tag" /\ m2[x].size = y - x /\ ~m2[x].alloc
      /\ m2[x].prev_min = m[x].prev_min /\ m2[x].prev_alloc = m[x].prev_alloc
  BY DEF Joined, Tag
<1>6. /\ m2[y - 1].kind = "tag" /\ m2[y - 1].size = y - x
      /\ \A w \in Address : w < x \/ w > y => m2[w] = m[w]
      /\ m2[y].kind = m[y].kind /\ m2[y].size = m[y].size /\ m2[y].alloc = m[y].alloc
      /\ m2[y].prev_alloc = m[y].prev_alloc /\ ~m2[y].prev_min
      /\ \A w \in Address : x < w /\ w < y => m2[w] = m[w] \/ ~m2[w].alloc
      /\ y - x # 2
  BY DEF Joined
<1> HIDE DEF m, m2, e
<1>7. Merging(m, m2, e, B, x, y)
  BY <1>1, <1>3, <1>4, <1>5, <1>6 DEF Merging
<1>8. /\ g \in HeapRecord /\ g.fault = "none" /\ g.brk = h.brk
      /\ Listed(g, {c \in FreeSet(m, B) : c <= x \/ c >= y})
      /\ y # e => g.end = h.end
      /\ y = e => g.end \in {x, h.end}
  BY DEF Joined, m, e
<1> QED
  BY <1>1, <1>3, <1>4, <1>7, <1>8 DEF Coalesced, m, m2, e

\* A block that cannot merge goes into its list.
LEMMA AloneIsCoalesced ==
    ASSUME NEW h, NEW B, NEW b, Run(h, B, b, b, Succ(h.mem, b))
    PROVE  Coalesced(h, B, b, Push(h, b), b, Succ(h.mem, b))
<1> DEFINE m == h.mem
           e == h.brk - 1
           y == Succ(m, b)
           g == Push(h, b)
           S == FreeSet(m, B) \ {b}
<1>1. /\ GoodBut(h, B, b) /\ m \in Memory /\ Tiled(m, e, B) /\ b \in B /\ h \in HeapRecord
      /\ ~m[b].alloc /\ Listed(h, S) /\ h.fault = "none"
      /\ y \in B \cup {e} /\ m[b].prev_alloc /\ m[y].alloc
      /\ \A c \in B : b <= c /\ c < y => ~m[c].alloc
  BY DEF Run, GoodBut, HeapRecord
<1> HIDE DEF m, e, y, S
<1>P. Plain(m, e, B)
  BY <1>1, TiledTypes
<1>2. /\ Address = 0 .. MaxHeap - 1 /\ MaxHeap \in Nat /\ e \in Address /\ B \subseteq Address
      /\ b \in Nat /\ b \in Address /\ b % 2 = 1 /\ y \in Nat /\ b + 2 <= y /\ y <= e
      /\ m[b].size \in Nat /\ m[b].size >= 2 /\ y = b + m[b].size /\ m[b].size % 2 = 0
      /\ \A c \in B : c \in Nat /\ c % 2 = 1
  <2>1. /\ Address = 0 .. MaxHeap - 1 /\ MaxHeap \in Nat /\ e \in Address /\ B \subseteq Address
        /\ \A c \in B : c \in Nat /\ c % 2 = 1
    BY <1>P DEF Plain
  <2>2. /\ b \in Nat /\ Succ(m, b) \in Nat /\ b + 2 <= Succ(m, b) /\ Succ(m, b) <= e /\ m[b].size \in Nat
        /\ m[b].size >= 2 /\ m[b].size % 2 = 0
    BY <1>P, <1>1 DEF Plain
  <2> QED
    BY <2>1, <2>2, <1>1 DEF y, Succ
<1>3. BlockOK(m, e, B, b)
  BY <1>1 DEF Tiled
<1>4. Size(h, b) = m[b].size
  BY DEF Size, m
<1>5. S \subseteq B /\ b \notin S /\ S \in SUBSET Address
  BY <1>2 DEF S, FreeSet
<1>6. Pushable(h, b, S)
  <2>1. b + 1 \in Address /\ (Size(h, b) > 2 => b + 2 \in Address)
    BY <1>2, <1>4
  <2>2. b + 1 \notin S
    BY <1>2, <1>5
  <2>3. Size(h, b) > 2 => b + 2 \notin S
    <3>1. \A c \in B : c <= b \/ c >= y
      BY <1>3 DEF BlockOK, y
    <3> QED
      BY <3>1, <1>2, <1>4, <1>5
  <2> QED
    BY <1>1, <1>2, <1>4, <1>5, <2>1, <2>2, <2>3 DEF Pushable
<1>7. Pushed(h, g, b, S)
  BY <1>6, PushEffect
<1> HIDE DEF g
<1>8. /\ g \in HeapRecord /\ SameRest(h, g) /\ Listed(g, S \cup {b})
      /\ \A w \in Address : w # b + 1 /\ w # b + 2 => g.mem[w] = m[w]
      /\ g.mem[b + 1] = Link
      /\ b + 2 \in Address => g.mem[b + 2] = IF Size(h, b) = 2 THEN m[b + 2] ELSE Link
  BY <1>7 DEF Pushed, m
<1>9. S \cup {b} = {c \in FreeSet(m, B) : c <= b \/ c >= y}
  <2>1. \A c \in B : c <= b \/ c >= y
    BY <1>3 DEF BlockOK, y
  <2> QED
    BY <2>1, <1>1 DEF S, FreeSet
<1>10. ~Link.alloc
  BY DEF Link, Other
<1>11. \A w \in Address : w < b \/ w > y => g.mem[w] = m[w]
  <2> SUFFICES ASSUME NEW w \in Address, w < b \/ w > y PROVE g.mem[w] = m[w]
    OBVIOUS
  <2>1. w # b + 1 /\ w # b + 2
    BY <1>2
  <2> QED
    BY <1>8, <2>1
<1>12. g.mem[b] = m[b]
  BY <1>2, <1>8
<1>13. g.mem[y] = m[y] /\ y \in Address
  <2>0. y \in Address
    BY <1>2
  <2>1. CASE m[b].size = 2
    BY <2>1, <2>0, <1>2, <1>4, <1>8
  <2>2. CASE m[b].size > 2
    BY SMTT(30), <2>2, <2>0, <1>2, <1>8
  <2> QED
    BY <2>0, <2>1, <2>2, <1>2
<1>14. y - b > 2 => g.mem[y - 1].kind = "tag" /\ g.mem[y - 1].size = y - b
  <2> HAVE y - b > 2
  <2>1. m[b].size > 2 /\ y - 1 \in Address /\ y - 1 # b + 1 /\ y - 1 # b + 2 /\ y - b = m[b].size
    <3>1. \A k \in Nat : k > 2 /\ k % 2 = 0 => k >= 4
      OBVIOUS
    <3>2. m[b].size > 2 /\ y - b = m[b].size
      BY <1>2
    <3>3. m[b].size >= 4
      BY <3>1, <3>2, <1>2
    <3>4. y - 1 \in Address
      BY SMTT(30), <1>2
    <3>5. y = b + m[b].size /\ b \in Nat /\ m[b].size \in Nat
      BY <1>2
    <3>6. y - 1 # b + 1 /\ y - 1 # b + 2
      <4> DEFINE k == m[b].size
      <4>1. y = b + k /\ b \in Nat /\ k \in Nat /\ k >= 4
        BY <3>3, <3>5
      <4> HIDE DEF k
      <4> QED
        BY <4>1
    <3> QED
      BY <3>2, <3>4, <3>6
  <2>2. m[y - 1].kind = "tag" /\ m[y - 1].size = m[b].size
    BY <2>1, <1>1, <1>3 DEF BlockOK, y
  <2> QED
    BY <2>1, <2>2, <1>8
<1>15. IF y - b = 2 THEN g.mem[y] = m[y] ELSE ~g.mem[y].prev_min
  <2>1. y - b # 2 => m[b].size > 2
    BY <1>2
  <2> QED
    BY <2>1, <1>3, <1>13 DEF BlockOK, y
<1>16. \A w \in Address : b < w /\ w < y => g.mem[w] = m[w] \/ ~g.mem[w].alloc
  <2> SUFFICES ASSUME NEW w \in Address, b < w, w < y, g.mem[w] # m[w] PROVE ~g.mem[w].alloc
    OBVIOUS
  <2>1. w = b + 1 \/ w = b + 2
    BY <1>8
  <2>2. w # b + 1 => Size(h, b) # 2
    BY <2>1, <1>2, <1>4
  <2> QED
    BY <2>1, <2>2, <1>8, <1>10
<1>17. Merging(m, g.mem, e, B, b, y)
  <2>1. g.mem \in Memory
    BY <1>8 DEF HeapRecord
  <2>2. m[b].kind = "tag" /\ m[b].size = y - b
    BY <1>2, <1>3 DEF BlockOK
  <2>3. b + 2 <= y
    BY <1>2
  <2>4. /\ g.mem[b].kind = "tag" /\ g.mem[b].size = y - b /\ ~g.mem[b].alloc
        /\ g.mem[b].prev_min = m[b].prev_min /\ g.mem[b].prev_alloc = m[b].prev_alloc
    BY <1>1, <1>12, <2>2
  <2>5. /\ g.mem[y].kind = m[y].kind /\ g.mem[y].size = m[y].size /\ g.mem[y].alloc = m[y].alloc
        /\ g.mem[y].prev_alloc = m[y].prev_alloc
    BY <1>13
  <2> QED
    BY <1>1, <1>11, <1>14, <1>15, <1>16, <2>1, <2>3, <2>4, <2>5 DEF Merging
<1>18. b <= b /\ b < y
  BY <1>2
<1>19. /\ g.fault = "none" /\ g.brk = h.brk /\ g.end = h.end
       /\ Listed(g, {c \in FreeSet(m, B) : c <= b \/ c >= y})
  BY <1>1, <1>8, <1>9 DEF SameRest
<1> QED
  BY <1>1, <1>8, <1>17, <1>18, <1>19 DEF Coalesced, m, e, y, g

\* The two ends of the run.
RunBefore(h, B, b, x) ==
    /\ x \in B /\ x <= b /\ h.mem[x].prev_alloc
    /\ \A c \in B : x <= c /\ c <= b => ~h.mem[c].alloc
RunAfter(h, B, b, y) ==
    /\ y \in B \cup {h.brk - 1} /\ Succ(h.mem, b) <= y /\ h.mem[y].alloc
    /\ \A c \in B : b <= c /\ c < y => ~h.mem[c].alloc

\* b with its free neighbours is a stretch of the heap that merges into one block.
LEMMA RunEnds ==
    ASSUME NEW h, NEW B, NEW b, GoodBut(h, B, b), NEW x, NEW y,
           RunBefore(h, B, b, x), RunAfter(h, B, b, y)
    PROVE  Run(h, B, b, x, y)
<1>1. \A c \in B : x <= c /\ c < y => ~h.mem[c].alloc
  <2>0. h.mem \in Memory /\ Tiled(h.mem, h.brk - 1, B)
    BY DEF GoodBut, HeapRecord
  <2>1. Plain(h.mem, h.brk - 1, B)
    BY <2>0, TiledTypes
  <2>2. b \in Nat /\ \A c \in B : c \in Nat
    BY <2>1 DEF Plain, GoodBut
  <2>3. \A c \in B : c <= b \/ b <= c
    BY <2>2
  <2> QED
    BY <2>3 DEF RunBefore, RunAfter
<1> QED
  BY <1>1 DEF Run, RunBefore, RunAfter

\* prev_alloc tells coalesce_block where that stretch begins.
LEMMA BeforeRun ==
    ASSUME NEW h, NEW B, NEW b, GoodBut(h, B, b)
    PROVE  /\ h.mem[b].prev_alloc => RunBefore(h, B, b, b)
           /\ \A p \in B : Succ(h.mem, p) = b /\ ~h.mem[p].alloc => RunBefore(h, B, b, p)
<1> DEFINE m == h.mem
           e == h.brk - 1
<1>1. m \in Memory /\ Tiled(m, e, B) /\ b \in B /\ ~m[b].alloc
  BY DEF GoodBut, HeapRecord
<1>2. \A c \in B : Succ(m, c) \in B => m[c].alloc \/ m[Succ(m, c)].alloc \/ c = b \/ Succ(m, c) = b
  BY DEF GoodBut
<1> HIDE DEF m, e
<1>P. Plain(m, e, B)
  BY <1>1, TiledTypes
<1>3. \A c \in B : c \in Nat /\ Succ(m, c) \in Nat /\ c < Succ(m, c) /\ m[c] \in Word
  BY <1>P DEF Plain
<1>4. m[b].prev_alloc => RunBefore(h, B, b, b)
  <2>1. \A c \in B : b <= c /\ c <= b => c = b
    BY <1>1, <1>3
  <2>2. b <= b
    BY <1>1, <1>3
  <2> QED
    BY <1>1, <2>1, <2>2 DEF RunBefore, m
<1>5. ASSUME NEW p \in B, Succ(m, p) = b, ~m[p].alloc PROVE RunBefore(h, B, b, p)
  <2>1. BlockOK(m, e, B, p)
    BY <1>1 DEF Tiled
  <2>2. p < b /\ p <= b
    BY <1>3, <1>5
  <2>3. \A c \in B : p <= c /\ c <= b => c = p \/ c = b
    BY <2>1, <1>1, <1>3, <1>5 DEF BlockOK
  <2>4. m[p].prev_alloc
    <3>1. CASE p = 1
      BY <3>1, <1>1 DEF Tiled
    <3>2. CASE p # 1
      <4>1. PICK q \in B : Succ(m, q) = p
        BY <3>2, <1>1 DEF Tiled
      <4>2. BlockOK(m, e, B, q) /\ q < p
        BY <4>1, <1>1, <1>3 DEF Tiled
      <4>3. q # b /\ p # b
        BY <4>2, <2>2, <1>1, <1>3
      <4>4. m[q].alloc
        BY <4>1, <4>3, <1>2, <1>5
      <4> QED
        BY <4>1, <4>2, <4>4 DEF BlockOK
    <3> QED
      BY <3>1, <3>2
  <2> QED
    BY <2>2, <2>3, <2>4, <1>1, <1>5 DEF RunBefore, m
<1> QED
  BY <1>4, <1>5 DEF m

\* The tag of the next block tells coalesce_block where it ends.
LEMMA AfterRun ==
    ASSUME NEW h, NEW B, NEW b, GoodBut(h, B, b), NEW next, next = Succ(h.mem, b)
    PROVE  /\ next \in Nat /\ b < next /\ next \in Address
           /\ h.mem[next].alloc => RunAfter(h, B, b, next)
           /\ ~h.mem[next].alloc => /\ next \in B /\ next < Succ(h.mem, next)
                                    /\ Succ(h.mem, next) \in Nat /\ Succ(h.mem, next) \in Address
                                    /\ RunAfter(h, B, b, Succ(h.mem, next))
<1> DEFINE m == h.mem
           e == h.brk - 1
<1>1. m \in Memory /\ Tiled(m, e, B) /\ b \in B /\ ~m[b].alloc
  BY DEF GoodBut, HeapRecord
<1>2. \A c \in B : Succ(m, c) \in B => m[c].alloc \/ m[Succ(m, c)].alloc \/ c = b \/ Succ(m, c) = b
  BY DEF GoodBut
<1> HIDE DEF m, e
<1>P. Plain(m, e, B)
  BY <1>1, TiledTypes
<1>3. \A c \in B : /\ c \in Nat /\ Succ(m, c) \in Nat /\ c < Succ(m, c) /\ m[c] \in Word
                   /\ Succ(m, c) \in B \cup {e} /\ Succ(m, c) \in Address
  BY <1>P DEF Plain
<1>4. next = Succ(m, b) /\ next \in Nat /\ b < next /\ next \in B \cup {e} /\ next <= next
  BY <1>1, <1>3 DEF m
<1>5. BlockOK(m, e, B, b) /\ m[e].alloc
  BY <1>1 DEF Tiled
<1>6. \A c \in B : b <= c /\ c < next => c = b
  BY <1>1, <1>3, <1>4, <1>5 DEF BlockOK
<1>7. m[next].alloc => RunAfter(h, B, b, next)
  BY <1>1, <1>4, <1>6 DEF RunAfter, m, e
<1>8. ASSUME ~m[next].alloc
      PROVE  /\ next \in B /\ next < Succ(m, next) /\ Succ(m, next) \in Nat /\ Succ(m, next) \in Address
             /\ RunAfter(h, B, b, Succ(m, next))
  <2>1. next \in B
    BY <1>4, <1>5, <1>8
  <2> DEFINE y == Succ(m, next)
  <2>2. next < y /\ y \in Nat /\ y \in B \cup {e} /\ y \in Address
    BY <2>1, <1>3
  <2>3. BlockOK(m, e, B, next)
    BY <2>1, <1>1 DEF Tiled
  <2>4. \A c \in B : b <= c /\ c < y => c = b \/ c = next
    <3>1. \A c \in B : c <= next \/ c >= y
      BY <2>3 DEF BlockOK
    <3> HIDE DEF y
    <3> QED
      BY <3>1, <2>1, <2>2, <1>3, <1>4, <1>6
  <2>5. m[y].alloc
    <3>1. CASE y = e
      BY <3>1, <1>5
    <3>2. CASE y # e
      <4>1. y \in B /\ y # b /\ next # b
        BY <3>2, <2>2, <1>1, <1>3, <1>4
      <4> QED
        BY <4>1, <2>1, <1>2, <1>8
    <3> QED
      BY <3>1, <3>2
  <2>6. Succ(m, b) <= y
    BY <2>2, <1>4
  <2> HIDE DEF y
  <2>7. RunAfter(h, B, b, y)
    BY <2>2, <2>4, <2>5, <2>6, <1>1, <1>8 DEF RunAfter, m, e
  <2> QED
    BY <2>1, <2>2, <2>7 DEF y
<1>9. next \in Address
  BY <1>1, <1>3, <1>4
<1> QED
  BY <1>4, <1>7, <1>8, <1>9 DEF m

\* The run is out of the lists, and becomes one block.
Loose(h, B, b, h0, x, y) ==
    /\ Run(h, B, b, x, y) /\ y - x > 2
    /\ h0 \in HeapRecord /\ SameRest(h, h0)
    /\ Listed(h0, {c \in FreeSet(h.mem, B) : c < x \/ c >= y})
    /\ \A w \in Address : w # y => h0.mem[w] = h.mem[w]

Grew(h, B, b, h0, g, x, y) ==
    /\ Run(h, B, b, x, y) /\ y - x > 2
    /\ g \in HeapRecord /\ SameRest(h, g)
    /\ Listed(g, {c \in FreeSet(h.mem, B) : c <= x \/ c >= y})
    /\ \A w \in Address : w < x \/ w > y => g.mem[w] = h.mem[w]
    /\ g.mem[x] = Tag(y - x, h.mem[x].prev_min, h.mem[x].prev_alloc, FALSE)
    /\ g.mem[y - 1].kind = "tag" /\ g.mem[y - 1].size = y - x
    /\ \A w \in Address : x < w /\ w < y => g.mem[w] = h.mem[w] \/ ~g.mem[w].alloc
    /\ g.mem[y] = h0.mem[y]

\* Types of the addresses in such a stretch.
LEMMA RunPlain ==
    ASSUME NEW h, NEW B, NEW b, NEW x, NEW y, Run(h, B, b, x, y)
    PROVE  /\ h \in HeapRecord /\ h.mem \in Memory /\ B \subseteq Address
           /\ x \in Nat /\ y \in Nat /\ x < y /\ x \in Address /\ y \in Address
           /\ (y - x) % 2 = 0 /\ h.fault = "none" /\ h.end \in Nat
           /\ \A c \in B : c \in Nat
<1> DEFINE m == h.mem
           e == h.brk - 1
<1>1. /\ h \in HeapRecord /\ m \in Memory /\ Tiled(m, e, B) /\ b \in B /\ h.fault = "none"
      /\ x \in B /\ y \in B \cup {e} /\ x <= b /\ Succ(m, b) <= y /\ h.end \in Nat
  BY DEF GoodBut, Run, HeapRecord
<1> HIDE DEF m, e
<1>P. Plain(m, e, B)
  BY <1>1, TiledTypes
<1>2. /\ B \subseteq Address /\ e \in Nat /\ e \in Address /\ e % 2 = 1
      /\ \A c \in B : c \in Nat /\ c % 2 = 1 /\ Succ(m, c) \in Nat /\ c < Succ(m, c)
  BY <1>P DEF Plain
<1>3. x \in Nat /\ y \in Nat /\ x < y /\ x \in Address /\ y \in Address /\ x % 2 = 1 /\ y % 2 = 1
  BY <1>1, <1>2
<1>4. (y - x) % 2 = 0
  BY <1>3
<1> QED
  BY <1>1, <1>2, <1>3, <1>4 DEF m

\* Once the free neighbours are out of their lists, the block is resized and pushed.
LEMMA LooseGrows ==
    ASSUME NEW h, NEW B, NEW b, NEW h0, NEW x, NEW y, Loose(h, B, b, h0, x, y)
    PROVE  Grew(h, B, b, h0, Push(Resize(h0, x, y - x), x), x, y)
<1> DEFINE k == y - x
           g == Push(Resize(h0, x, k), x)
           S == {c \in FreeSet(h.mem, B) : c < x \/ c >= y}
<1>1. /\ Run(h, B, b, x, y) /\ y - x > 2 /\ h0 \in HeapRecord /\ SameRest(h, h0) /\ Listed(h0, S)
      /\ \A w \in Address : w # y => h0.mem[w] = h.mem[w]
  BY DEF Loose
<1>2. /\ B \subseteq Address /\ x \in Nat /\ y \in Nat /\ x < y /\ x \in Address /\ y \in Address
      /\ (y - x) % 2 = 0 /\ \A c \in B : c \in Nat
  BY <1>1, RunPlain
<1>3. k \in Nat /\ k >= 4 /\ x + k = y /\ x + k \in Address
  BY <1>1, <1>2
<1> HIDE DEF k, S
<1>4. S \in SUBSET Address /\ \A s \in S : s < x \/ s >= x + k
  BY <1>2, <1>3 DEF S, FreeSet
<1>5. Grown(h0, g, x, k, S)
  BY <1>1, <1>2, <1>3, <1>4, RunEffect
<1> HIDE DEF g
<1>6. /\ g \in HeapRecord /\ SameRest(h0, g) /\ Listed(g, S \cup {x})
      /\ \A w \in Address : w < x \/ w >= y => g.mem[w] = h0.mem[w]
      /\ g.mem[x] = Tag(k, h0.mem[x].prev_min, h0.mem[x].prev_alloc, FALSE)
      /\ g.mem[y - 1].kind = "tag" /\ g.mem[y - 1].size = k
      /\ \A w \in Address : x < w /\ w < y => g.mem[w] = h0.mem[w] \/ ~g.mem[w].alloc
  <2>1. /\ g \in HeapRecord /\ SameRest(h0, g) /\ Listed(g, S \cup {x})
        /\ \A w \in Address : w < x \/ w >= x + k => g.mem[w] = h0.mem[w]
        /\ g.mem[x] = Tag(k, h0.mem[x].prev_min, h0.mem[x].prev_alloc, FALSE)
        /\ g.mem[x + k - 1].kind = "tag" /\ g.mem[x + k - 1].size = k
        /\ \A w \in Address : x < w /\ w < x + k => g.mem[w] = h0.mem[w] \/ ~g.mem[w].alloc
    BY <1>5 DEF Grown
  <2>2. x + k = y
    BY <1>3
  <2>3. \A w \in Address : w < x \/ w >= y => g.mem[w] = h0.mem[w]
    BY <2>1, <2>2
  <2>4. g.mem[y - 1].kind = "tag" /\ g.mem[y - 1].size = k
    <3>1. x + k - 1 = y - 1
      BY <1>2, <1>3
    <3> QED
      BY <2>1, <3>1
  <2>5. \A w \in Address : x < w /\ w < y => g.mem[w] = h0.mem[w] \/ ~g.mem[w].alloc
    BY <2>1, <2>2
  <2> QED
    BY <2>1, <2>3, <2>4, <2>5
<1>7. S \cup {x} = {c \in FreeSet(h.mem, B) : c <= x \/ c >= y}
  <2>1. x \in FreeSet(h.mem, B)
    <3>1. x <= x /\ x < y
      BY <1>2
    <3> QED
      BY <1>1, <3>1 DEF Run, FreeSet
  <2>2. \A c \in FreeSet(h.mem, B) : c <= x <=> c < x \/ c = x
    BY <1>2 DEF FreeSet
  <2> QED
    BY <1>2, <2>1, <2>2 DEF S
<1>8. SameRest(h, g)
  BY <1>1, <1>6 DEF SameRest
<1>9. h0.mem[x] = h.mem[x]
  BY <1>1, <1>2
<1>10. \A w \in Address : w < x \/ w > y => g.mem[w] = h.mem[w]
  <2> SUFFICES ASSUME NEW w \in Address, w < x \/ w > y PROVE g.mem[w] = h.mem[w]
    OBVIOUS
  <2>1. w # y /\ (w < x \/ w >= y)
    BY <1>2
  <2> QED
    BY <1>1, <1>6, <2>1
<1>11. \A w \in Address : x < w /\ w < y => g.mem[w] = h.mem[w] \/ ~g.mem[w].alloc
  BY <1>1, <1>2, <1>6
<1>12. g.mem[y] = h0.mem[y]
  BY <1>2, <1>6
<1>13. g.mem[x] = Tag(k, h.mem[x].prev_min, h.mem[x].prev_alloc, FALSE)
  BY <1>6, <1>9
<1> QED
  <2>1. Listed(g, {c \in FreeSet(h.mem, B) : c <= x \/ c >= y})
    BY <1>6, <1>7
  <2> QED
    BY <1>1, <1>6, <1>8, <1>10, <1>11, <1>12, <1>13, <2>1 DEF Grew, g, k

\* The end of coalesce_block, when the next block was free.
Trimmed(h, y, g) == IF h.mem[y] = One THEN g ELSE ClearPrevMin(g, y)

\* Clearing prev_min of the block that follows, and moving heap_end, complete the
\* merge.
LEMMA TrimmedIsJoined ==
    ASSUME NEW h, NEW B, NEW b, NEW h0, NEW g1, NEW x, NEW y, Grew(h, B, b, h0, g1, x, y),
           h0.mem = h.mem, NEW g, NEW v \in Nat, g = [Trimmed(h, y, g1) EXCEPT !.end = v],
           y # h.brk - 1 => v = h.end, y = h.brk - 1 => v \in {x, h.end}
    PROVE  Joined(h, B, b, g, x, y)
<1> DEFINE g2 == Trimmed(h, y, g1)
           S == {c \in FreeSet(h.mem, B) : c <= x \/ c >= y}
<1>1. /\ Run(h, B, b, x, y) /\ y - x > 2 /\ g1 \in HeapRecord /\ SameRest(h, g1) /\ Listed(g1, S)
      /\ \A w \in Address : w < x \/ w > y => g1.mem[w] = h.mem[w]
      /\ g1.mem[x] = Tag(y - x, h.mem[x].prev_min, h.mem[x].prev_alloc, FALSE)
      /\ g1.mem[y - 1].kind = "tag" /\ g1.mem[y - 1].size = y - x
      /\ \A w \in Address : x < w /\ w < y => g1.mem[w] = h.mem[w] \/ ~g1.mem[w].alloc
      /\ g1.mem[y] = h.mem[y]
  BY DEF Grew
<1>2. /\ B \subseteq Address /\ x \in Nat /\ y \in Nat /\ x < y /\ x \in Address /\ y \in Address
      /\ h.fault = "none" /\ \A c \in B : c \in Nat
  BY <1>1, RunPlain
<1> HIDE DEF S
<1>3. /\ g2 \in HeapRecord /\ SameLists(g1, g2) /\ SameRest(g1, g2)
      /\ \A w \in Address : w # y => g2.mem[w] = g1.mem[w]
      /\ g2.mem[y].kind = g1.mem[y].kind /\ g2.mem[y].size = g1.mem[y].size
      /\ g2.mem[y].alloc = g1.mem[y].alloc /\ g2.mem[y].prev_alloc = g1.mem[y].prev_alloc
      /\ ~g2.mem[y].prev_min
  <2>1. CASE h.mem[y] = One
    <3>1. ~One.prev_min
      BY DEF One, Tag
    <3> QED
      BY <1>1, <2>1, <3>1 DEF Trimmed, SameLists, SameRest
  <2>2. CASE h.mem[y] # One
    <3>1. Cleared(g1, ClearPrevMin(g1, y), y)
      BY <1>1, <1>2, ClearEffect
    <3> QED
      BY <2>2, <3>1 DEF Trimmed, Cleared
  <2> QED
    BY <2>1, <2>2
<1> HIDE DEF g2
<1>4. /\ g \in HeapRecord /\ SameLists(g2, g) /\ g.mem = g2.mem /\ g.brk = g2.brk
      /\ g.fault = g2.fault /\ g.end = v
  <2>1. g = [g2 EXCEPT !.end = v]
    BY DEF g2
  <2> QED
    BY <1>3, <2>1 DEF HeapRecord, SameLists
<1>5. Listed(g, S)
  <2>1. SameLists(g1, g)
    BY <1>3, <1>4 DEF SameLists
  <2>2. \A c \in S : Size(g, c) = Size(g1, c)
    <3> TAKE c \in S
    <3>1. c \in Address
      BY <1>2 DEF S, FreeSet
    <3> QED
      BY <3>1, <1>3, <1>4 DEF Size
  <2> QED
    BY <1>1, <2>1, <2>2, ListedFrame
<1>6. g.fault = "none" /\ g.brk = h.brk
  BY <1>1, <1>2, <1>3, <1>4 DEF SameRest
<1>7. \A w \in Address : w # y => g.mem[w] = g1.mem[w]
  BY <1>3, <1>4
<1>8. y - 1 \in Address /\ y - 1 # y /\ x # y
  BY <1>2, MallocAssumption DEF Address
<1>9. \A w \in Address : w < x \/ w > y => g.mem[w] = h.mem[w]
  BY <1>1, <1>2, <1>7
<1>10. \A w \in Address : x < w /\ w < y => g.mem[w] = h.mem[w] \/ ~g.mem[w].alloc
  BY <1>1, <1>2, <1>7
<1>11. /\ g.mem[x] = Tag(y - x, h.mem[x].prev_min, h.mem[x].prev_alloc, FALSE)
       /\ g.mem[y - 1].kind = "tag" /\ g.mem[y - 1].size = y - x
  BY <1>1, <1>2, <1>7, <1>8
<1>12. /\ g.mem[y].kind = h.mem[y].kind /\ g.mem[y].size = h.mem[y].size
       /\ g.mem[y].alloc = h.mem[y].alloc /\ g.mem[y].prev_alloc = h.mem[y].prev_alloc
       /\ ~g.mem[y].prev_min
  BY <1>1, <1>3, <1>4
<1>13. /\ y # h.brk - 1 => g.end = h.end
       /\ y = h.brk - 1 => g.end \in {x, h.end}
  BY <1>4
<1> QED
  BY <1>1, <1>4, <1>5, <1>6, <1>9, <1>10, <1>11, <1>12, <1>13 DEF Joined, S

\* No header lies inside a block.
LEMMA NoneWithin ==
    ASSUME NEW m \in Memory, NEW e, NEW B, Tiled(m, e, B), NEW b \in B
    PROVE  \A c \in B : b <= c /\ c < Succ(m, b) => c = b
<1>P. Plain(m, e, B)
  BY TiledTypes
<1>1. BlockOK(m, e, B, b)
  BY DEF Tiled
<1>2. b \in Nat /\ Succ(m, b) \in Nat /\ \A c \in B : c \in Nat
  BY <1>P DEF Plain
<1>3. \A c \in B : c <= b \/ c >= Succ(m, b)
  BY <1>1 DEF BlockOK
<1> QED
  BY <1>2, <1>3

\* Clearing prev_min does not move heap_end.
LEMMA TrimmedEnd ==
    ASSUME NEW h, NEW g \in HeapRecord, NEW y \in Address
    PROVE  Trimmed(h, y, g).end = g.end
<1>1. Cleared(g, ClearPrevMin(g, y), y)
  BY ClearEffect
<1> QED
  BY <1>1 DEF Trimmed, Cleared, SameRest

\* A free block of the run other than b leaves its list.
LEMMA RunPops ==
    ASSUME NEW h, NEW B, NEW b, GoodBut(h, B, b), NEW g \in HeapRecord, NEW S \in SUBSET FreeSet(h.mem, B),
           Listed(g, S), NEW c \in S, g.mem[c].size = h.mem[c].size
    PROVE  Popped(g, Pop(g, c), c, S)
<1>1. h.mem \in Memory /\ Tiled(h.mem, h.brk - 1, B)
  BY DEF GoodBut, HeapRecord
<1>2. Plain(h.mem, h.brk - 1, B)
  BY <1>1, TiledTypes
<1>3. c \in B
  BY DEF FreeSet
<1>4. c \in Nat /\ h.mem[c].size \in Nat /\ h.mem[c].size >= 2
  BY <1>2, <1>3 DEF Plain
<1>5. Size(g, c) \in Nat /\ Size(g, c) >= 2
  BY <1>4 DEF Size
<1> QED
  BY <1>4, <1>5, PopEffect

\* coalesce_block, when only the next block is free.
LEMMA CoalesceNext ==
    ASSUME NEW h, NEW B, NEW b, GoodBut(h, B, b), RunBefore(h, B, b, b),
           NEW next, next = Succ(h.mem, b), ~h.mem[next].alloc, NEW y, y = Succ(h.mem, next),
           NEW g, g = [Trimmed(h, y, Push(Resize(Pop(h, next), b, Size(h, b) + Size(h, next)), b))
                          EXCEPT !.end = IF @ = next THEN b ELSE @]
    PROVE  Coalesced(h, B, b, g, b, y)
<1> DEFINE m == h.mem
           e == h.brk - 1
           S == FreeSet(m, B) \ {b}
           h0 == Pop(h, next)
           g1 == Push(Resize(h0, b, y - b), b)
           g2 == Trimmed(h, y, g1)
           v == IF h.end = next THEN b ELSE h.end
<1>1. /\ h \in HeapRecord /\ m \in Memory /\ Tiled(m, e, B) /\ Listed(h, S) /\ b \in B
      /\ EndOK(m, e, B, h.end)
  BY DEF GoodBut, HeapRecord
<1>2. /\ next \in Nat /\ b < next /\ next \in B /\ next < y /\ y \in Nat /\ y \in Address
      /\ RunAfter(h, B, b, y) /\ y = Succ(m, next)
  BY AfterRun
<1>3. Run(h, B, b, b, y)
  BY <1>2, RunEnds
<1>4. b \in Nat /\ h.end \in Nat /\ \A c \in B : c \in Nat /\ m[c].size \in Nat
  <2>1. Plain(m, e, B)
    BY <1>1, TiledTypes
  <2> QED
    BY <1>3, <1>1, <2>1, RunPlain DEF Plain
<1>5. next = b + m[b].size /\ y = next + m[next].size
  BY <1>2 DEF Succ, m
<1>6. Size(h, b) + Size(h, next) = y - b /\ y - b > 2
  <2>1. m[b].size >= 2
    BY <1>1 DEF Tiled, BlockOK
  <2>2. m[b].size \in Nat /\ m[next].size \in Nat
    BY <1>1, <1>2, <1>4
  <2>3. Size(h, b) = m[b].size /\ Size(h, next) = m[next].size
    BY DEF Size, m
  <2> HIDE DEF m
  <2> QED
    BY <2>1, <2>2, <2>3, <1>2, <1>4, <1>5
<1> HIDE DEF S, m, e
<1>7. Popped(h, h0, next, S)
  <2>1. next \in S /\ S \in SUBSET FreeSet(m, B)
    BY <1>2, <1>4, <1>1 DEF S, FreeSet, m
  <2> QED
    BY <1>1, <2>1, RunPops DEF m
<1> HIDE DEF h0
<1>8. /\ h0 \in HeapRecord /\ h0.mem = m /\ SameRest(h, h0) /\ Listed(h0, S \ {next})
  BY <1>7 DEF Popped, m
<1>9. S \ {next} = {c \in FreeSet(m, B) : c < b \/ c >= y}
  <2>1. \A c \in B : (b <= c /\ c < next => c = b) /\ (next <= c /\ c < y => c = next)
    BY <1>1, <1>2, NoneWithin DEF m
  <2>2. \A c \in B : c < b \/ c >= y <=> c # b /\ c # next
    BY <2>1, <1>1, <1>2, <1>4
  <2> QED
    BY <2>2 DEF S, FreeSet
<1>10. Loose(h, B, b, h0, b, y)
  <2>1. Listed(h0, {c \in FreeSet(m, B) : c < b \/ c >= y})
    BY <1>8, <1>9
  <2> QED
    BY <1>3, <1>6, <1>8, <2>1 DEF Loose, m
<1>11. Grew(h, B, b, h0, g1, b, y)
  BY <1>10, LooseGrows
<1>12. g1 \in HeapRecord /\ g1.end = h.end
  BY <1>11 DEF Grew, SameRest
<1>13. g = [g2 EXCEPT !.end = v]
  <2>1. g2.end = h.end
    BY <1>2, <1>12, TrimmedEnd
  <2>2. g = [g2 EXCEPT !.end = IF g2.end = next THEN b ELSE g2.end]
    BY <1>6 DEF h0
  <2> QED
    BY <2>1, <2>2
<1>14. y # e => h.end # next
  BY <1>1, <1>2, <1>4, EndAbove
<1>15. Joined(h, B, b, g, b, y)
  <2>1. v \in Nat /\ (y # e => v = h.end) /\ (y = e => v \in {b, h.end})
    BY <1>4, <1>14
  <2> HIDE DEF v, g1
  <2> QED
    BY <2>1, <1>8, <1>11, <1>13, TrimmedIsJoined DEF m, e
<1> QED
  BY <1>15, JoinedIsCoalesced

\* coalesce_block, when only the previous block is free.
LEMMA CoalescePrev ==
    ASSUME NEW h, NEW B, NEW b, GoodBut(h, B, b),
           NEW p \in B, Succ(h.mem, p) = b, ~h.mem[p].alloc, RunBefore(h, B, b, p),
           NEW y, y = Succ(h.mem, b), h.mem[y].alloc,
           NEW g, g = Push(Resize(Pop(ClearPrevMin(h, y), p), p, Size(h, p) + Size(h, b)), p)
    PROVE  Coalesced(h, B, b, g, p, y)
<1> DEFINE m == h.mem
           e == h.brk - 1
           S == FreeSet(m, B) \ {b}
           h1 == ClearPrevMin(h, y)
           h0 == Pop(h1, p)
<1>1. /\ h \in HeapRecord /\ m \in Memory /\ Tiled(m, e, B) /\ Listed(h, S) /\ b \in B
      /\ EndOK(m, e, B, h.end) /\ h.fault = "none"
  BY DEF GoodBut, HeapRecord
<1>2. y \in Nat /\ b < y /\ y \in Address /\ RunAfter(h, B, b, y)
  BY AfterRun
<1>3. Run(h, B, b, p, y)
  BY <1>2, RunEnds
<1>4. p < b /\ \A c \in B : c \in Nat /\ m[c].size \in Nat /\ c \in Address
  <2>1. Plain(m, e, B)
    BY <1>1, TiledTypes
  <2>2. Succ(m, p) = b
    OBVIOUS
  <2> HIDE DEF m, e
  <2> QED
    BY <1>1, <2>1, <2>2 DEF Plain
<1>5. b = p + m[p].size /\ y = b + m[b].size
  BY DEF Succ, m
<1>6. Size(h, p) + Size(h, b) = y - p /\ y - p > 2
  <2>1. m[b].size >= 2
    BY <1>1 DEF Tiled, BlockOK
  <2>2. m[b].size \in Nat /\ m[p].size \in Nat /\ p \in Nat /\ b \in Nat
    BY <1>1, <1>4
  <2>3. Size(h, b) = m[b].size /\ Size(h, p) = m[p].size
    BY DEF Size, m
  <2> HIDE DEF m
  <2> QED
    BY <2>1, <2>2, <2>3, <1>2, <1>4, <1>5
<1> HIDE DEF S, m, e
<1>7. /\ h1 \in HeapRecord /\ SameLists(h, h1) /\ SameRest(h, h1)
      /\ \A w \in Address : w # y => h1.mem[w] = m[w]
      /\ h1.mem[y].kind = m[y].kind /\ h1.mem[y].size = m[y].size
      /\ h1.mem[y].alloc = m[y].alloc /\ h1.mem[y].prev_alloc = m[y].prev_alloc
      /\ ~h1.mem[y].prev_min
  <2>1. Cleared(h, ClearPrevMin(h, y), y)
    BY <1>1, <1>2, ClearEffect
  <2> QED
    BY <2>1 DEF Cleared, m
<1> HIDE DEF h1
<1>8. \A c \in B : h1.mem[c].size = m[c].size
  <2> TAKE c \in B
  <2>1. CASE c = y
    BY <2>1, <1>7
  <2>2. CASE c # y
    BY <2>2, <1>4, <1>7
  <2> QED
    BY <2>1, <2>2
<1>9. Popped(h1, h0, p, S)
  <2>1. p \in S /\ S \in SUBSET FreeSet(m, B)
    BY <1>1, <1>4 DEF S, FreeSet, m
  <2>2. \A c \in S : Size(h1, c) = Size(h, c)
    BY <1>8 DEF S, FreeSet, Size, m
  <2>3. Listed(h1, S)
    BY <2>2, <1>1, <1>7, ListedFrame
  <2>4. h1.mem[p].size = m[p].size
    BY <1>8
  <2> QED
    BY <1>7, <2>1, <2>3, <2>4, RunPops DEF m
<1> HIDE DEF h0
<1>10. /\ h0 \in HeapRecord /\ h0.mem = h1.mem /\ SameRest(h, h0) /\ Listed(h0, S \ {p})
  BY <1>7, <1>9 DEF Popped, SameRest
<1>11. S \ {p} = {c \in FreeSet(m, B) : c < p \/ c >= y}
  <2>1. \A c \in B : (b <= c /\ c < y => c = b) /\ (p <= c /\ c < b => c = p)
    BY <1>1, NoneWithin DEF m
  <2>2. \A c \in B : c < p \/ c >= y <=> c # p /\ c # b
    BY <2>1, <1>1, <1>2, <1>4
  <2> QED
    BY <2>2 DEF S, FreeSet
<1>12. Loose(h, B, b, h0, p, y)
  <2>1. Listed(h0, {c \in FreeSet(m, B) : c < p \/ c >= y})
    BY <1>10, <1>11
  <2> QED
    BY <1>3, <1>6, <1>7, <1>10, <2>1 DEF Loose, m
<1>13. g = Push(Resize(h0, p, y - p), p)
  BY <1>6 DEF h0, h1
<1>14. Grew(h, B, b, h0, g, p, y)
  BY <1>12, <1>13, LooseGrows
<1>15. Joined(h, B, b, g, p, y)
  <2>1. /\ g.mem[y] = h1.mem[y] /\ g.fault = "none" /\ g.brk = h.brk /\ g.end = h.end
    BY <1>1, <1>10, <1>14 DEF Grew, SameRest
  <2>2. g.end \in {p, h.end}
    BY <2>1
  <2> QED
    BY ZenonT(60), <1>7, <1>14, <2>1, <2>2 DEF Grew, Joined, m
<1> QED
  BY <1>15, JoinedIsCoalesced

\* coalesce_block, when both neighbours are free.
LEMMA CoalesceBoth ==
    ASSUME NEW h, NEW B, NEW b, GoodBut(h, B, b),
           NEW p \in B, Succ(h.mem, p) = b, ~h.mem[p].alloc, RunBefore(h, B, b, p),
           NEW next, next = Succ(h.mem, b), ~h.mem[next].alloc, NEW y, y = Succ(h.mem, next),
           NEW g, g = [Trimmed(h, y, Push(Resize(Pop(Pop(h, p), next), p,
                                   Size(h, p) + (Size(h, b) + Size(h, next))), p))
                          EXCEPT !.end = EndAfterMerge(@, b, next, p)]
    PROVE  Coalesced(h, B, b, g, p, y)
<1> DEFINE m == h.mem
           e == h.brk - 1
           S == FreeSet(m, B) \ {b}
           h1 == Pop(h, p)
           h0 == Pop(h1, next)
           g1 == Push(Resize(h0, p, y - p), p)
           g2 == Trimmed(h, y, g1)
           v == EndAfterMerge(h.end, b, next, p)
<1>1. /\ h \in HeapRecord /\ m \in Memory /\ Tiled(m, e, B) /\ Listed(h, S) /\ b \in B
      /\ EndOK(m, e, B, h.end)
  BY DEF GoodBut, HeapRecord
<1>2. /\ next \in Nat /\ b < next /\ next \in B /\ next < y /\ y \in Nat /\ y \in Address
      /\ RunAfter(h, B, b, y) /\ y = Succ(m, next)
  BY AfterRun
<1>3. Run(h, B, b, p, y)
  BY <1>2, RunEnds
<1>4. p < b /\ h.end \in Nat /\ e \notin B /\ \A c \in B : c \in Nat /\ m[c].size \in Nat
  <2>1. Plain(m, e, B)
    BY <1>1, TiledTypes
  <2>2. Succ(m, p) = b
    OBVIOUS
  <2>3. h.end \in Nat
    BY <1>3, RunPlain
  <2> HIDE DEF m, e
  <2> QED
    BY SMTT(30), <1>1, <2>1, <2>2, <2>3 DEF Plain
<1>5. b = p + m[p].size /\ next = b + m[b].size /\ y = next + m[next].size
  BY <1>2 DEF Succ, m
<1>6. Size(h, p) + (Size(h, b) + Size(h, next)) = y - p /\ y - p > 2
  <2>1. m[b].size >= 2
    BY <1>1 DEF Tiled, BlockOK
  <2>2. m[b].size \in Nat /\ m[p].size \in Nat /\ m[next].size \in Nat /\ p \in Nat /\ b \in Nat
    BY <1>1, <1>2, <1>4
  <2>3. Size(h, b) = m[b].size /\ Size(h, p) = m[p].size /\ Size(h, next) = m[next].size
    BY DEF Size, m
  <2>4. /\ next = (p + m[p].size) + m[b].size
        /\ y = ((p + m[p].size) + m[b].size) + m[next].size
    BY <1>5
  <2>5. \A z, k, l, r \in Nat : l >= 2 /\ (z + k) + l < ((z + k) + l) + r =>
          /\ k + (l + r) = (((z + k) + l) + r) - z
          /\ (((z + k) + l) + r) - z > 2
    OBVIOUS
  <2> HIDE DEF m
  <2> QED
    BY <2>1, <2>2, <2>3, <2>4, <2>5, <1>2
<1> HIDE DEF S, m, e
<1>7. Popped(h, h1, p, S)
  <2>1. p \in S /\ S \in SUBSET FreeSet(m, B)
    BY <1>4, <1>1 DEF S, FreeSet, m
  <2> QED
    BY <1>1, <2>1, RunPops DEF m
<1> HIDE DEF h1
<1>8. /\ h1 \in HeapRecord /\ h1.mem = m /\ SameRest(h, h1) /\ Listed(h1, S \ {p})
  BY <1>7 DEF Popped, m
<1>9. Popped(h1, h0, next, S \ {p})
  <2>1. next \in S \ {p} /\ S \ {p} \in SUBSET FreeSet(m, B)
    BY <1>2, <1>4, <1>1 DEF S, FreeSet, m
  <2>2. h1.mem[next].size = m[next].size
    BY <1>8
  <2> QED
    BY <1>8, <2>1, <2>2, RunPops DEF m
<1> HIDE DEF h0
<1>10. /\ h0 \in HeapRecord /\ h0.mem = m /\ SameRest(h, h0) /\ Listed(h0, (S \ {p}) \ {next})
  BY <1>8, <1>9 DEF Popped, SameRest
<1>11. (S \ {p}) \ {next} = {c \in FreeSet(m, B) : c < p \/ c >= y}
  <2>1. \A c \in B : /\ (b <= c /\ c < next => c = b) /\ (next <= c /\ c < y => c = next)
                     /\ (p <= c /\ c < b => c = p)
    BY <1>1, <1>2, NoneWithin DEF m
  <2>2. \A c \in B : c < p \/ c >= y <=> c # b /\ c # next /\ c # p
    BY <2>1, <1>1, <1>2, <1>4
  <2> QED
    BY <2>2 DEF S, FreeSet
<1>12. Loose(h, B, b, h0, p, y)
  <2>1. Listed(h0, {c \in FreeSet(m, B) : c < p \/ c >= y})
    BY <1>10, <1>11
  <2> QED
    BY <1>3, <1>6, <1>10, <2>1 DEF Loose, m
<1>13. Grew(h, B, b, h0, g1, p, y)
  BY <1>12, LooseGrows
<1>14. g1 \in HeapRecord /\ g1.end = h.end
  BY <1>13, <1>10 DEF Grew, SameRest
<1>15. g = [g2 EXCEPT !.end = v]
  <2>1. g2.end = h.end
    BY <1>2, <1>14, TrimmedEnd
  <2>2. g = [g2 EXCEPT !.end = EndAfterMerge(g2.end, b, next, p)]
    BY <1>6 DEF h0, h1
  <2> QED
    BY <2>1, <2>2
<1>16. y # e => h.end # next /\ h.end # b
  <2>1. Succ(m, b) # e
    BY <1>2, <1>4 DEF m
  <2>2. h.end # b
    BY <1>1, <1>4, <2>1, EndAbove
  <2> QED
    BY <1>1, <1>2, <1>4, <2>2, EndAbove
<1>17. Joined(h, B, b, g, p, y)
  <2>1. v \in Nat /\ (y # e => v = h.end) /\ (y = e => v \in {p, h.end})
    BY <1>4, <1>16 DEF EndAfterMerge
  <2> HIDE DEF v, g1
  <2> QED
    BY <2>1, <1>10, <1>13, <1>15, TrimmedIsJoined DEF m, e
<1> QED
  BY <1>17, JoinedIsCoalesced

\* coalesce_block leaves the heap good, and the allocated blocks as they were.
LEMMA CoalesceEffect ==
    ASSUME NEW h, NEW B, NEW b, GoodBut(h, B, b)
    PROVE  \E B2 : Good(Coalesce(h, b), B2) /\ SameUse(h, B, Coalesce(h, b), B2)
<1> DEFINE m == h.mem
           e == h.brk - 1
           next == NextBlock(h, b)
           after == NextBlock(h, next)
           prev == PrevBlock(h, b)
           g == Coalesce(h, b)
<1>1. m \in Memory /\ Tiled(m, e, B) /\ b \in B
  BY DEF GoodBut, HeapRecord
<1>2. next = Succ(m, b) /\ after = Succ(m, next)
  BY DEF NextBlock, Size, Succ
<1>3. ~m[b].prev_alloc =>
         /\ prev \in B /\ Succ(m, prev) = b /\ ~m[prev].alloc
         /\ m[b].prev_min \/ ~(m[b - 1].kind # "tag" \/ Size(h, b - 1) = 0)
  <2> HAVE ~m[b].prev_alloc
  <2>1. PICK p \in B :
              /\ Succ(m, p) = b /\ ~m[p].alloc /\ m[p].size # 0
              /\ m[b].prev_min => p = b - 2
              /\ ~m[b].prev_min => /\ m[b - 1].kind = "tag" /\ m[b - 1].size = m[p].size
                                   /\ p = b - m[p].size
    BY <1>1, PrevFound
  <2>2. prev = p
    BY <2>1 DEF PrevBlock, Size
  <2> QED
    BY <2>1, <2>2 DEF Size
<1> HIDE DEF next, after, prev
<1>4. \E x, y : Coalesced(h, B, b, g, x, y)
  <2>1. CASE m[b].prev_alloc /\ m[next].alloc
    <3>1. g = Push(h, b)
      BY <2>1 DEF Coalesce, next
    <3>2. Run(h, B, b, b, Succ(m, b))
      <4>1. RunBefore(h, B, b, b)
        BY <2>1, BeforeRun
      <4>2. RunAfter(h, B, b, Succ(m, b))
        BY <2>1, <1>2, AfterRun
      <4> QED
        BY <4>1, <4>2, RunEnds
    <3> QED
      BY <3>1, <3>2, AloneIsCoalesced
  <2>2. CASE m[b].prev_alloc /\ ~m[next].alloc
    <3>1. g = [Trimmed(h, after, Push(Resize(Pop(h, next), b, Size(h, b) + Size(h, next)), b))
                  EXCEPT !.end = IF @ = next THEN b ELSE @]
      BY <2>2 DEF Coalesce, Trimmed, next, after
    <3>2. RunBefore(h, B, b, b)
      BY <2>2, BeforeRun
    <3> QED
      BY <3>1, <3>2, <2>2, <1>2, CoalesceNext
  <2>3. CASE ~m[b].prev_alloc /\ m[next].alloc
    <3>1. g = Push(Resize(Pop(ClearPrevMin(h, next), prev), prev, Size(h, prev) + Size(h, b)), prev)
      BY <2>3, <1>3 DEF Coalesce, next, prev
    <3>2. RunBefore(h, B, b, prev)
      BY <2>3, <1>3, BeforeRun
    <3> QED
      BY <3>1, <3>2, <2>3, <1>2, <1>3, CoalescePrev
  <2>4. CASE ~m[b].prev_alloc /\ ~m[next].alloc
    <3>1. g = [Trimmed(h, after, Push(Resize(Pop(Pop(h, prev), next), prev,
                                         Size(h, prev) + (Size(h, b) + Size(h, next))), prev))
                  EXCEPT !.end = EndAfterMerge(@, b, next, prev)]
      BY <2>4, <1>3 DEF Coalesce, Trimmed, next, after, prev
    <3>2. RunBefore(h, B, b, prev)
      BY <2>4, <1>3, BeforeRun
    <3> QED
      BY <3>1, <3>2, <2>4, <1>2, <1>3, CoalesceBoth
  <2> QED
    BY <2>1, <2>2, <2>3, <2>4
<1> QED
  BY <1>4, CoalescedIsGood

-----------------------------------------------------------------------------
(* Splitting and freeing.                                                  *)

\* The words of block b become the blocks N.
Redone(m, m2, e, B, b, N) ==
    /\ Retiling(m, m2, e, B, b, Succ(m, b), N, B \cup N)
    /\ \A w \in Address : b < w /\ w < Succ(m, b) => m2[w] = m[w] \/ ~m2[w].alloc

Reframed(m, m2, e, B, b, N) ==
    /\ m \in Memory /\ m2 \in Memory /\ Tiled(m, e, B) /\ Tiled(m2, e, B \cup N)
    /\ b \in B /\ b \in N
    /\ \A c \in B : c # b => /\ c \notin N /\ m2[c].size = m[c].size /\ m2[c].alloc = m[c].alloc
                             /\ Succ(m2, c) = Succ(m, c)
                             /\ \A w \in Address : c < w /\ w < Succ(m, c) => m2[w] = m[w]
    /\ EvenOK(m) => EvenOK(m2)
    /\ \A w \in Address : w > Succ(m, b) => m2[w] = m[w]

\* Writing a block anew, whole or in two parts, keeps the heap tiled and the other
\* blocks as they were.
LEMMA RedoneFrame ==
    ASSUME NEW m, NEW m2, NEW e, NEW B, NEW b, NEW N, Redone(m, m2, e, B, b, N)
    PROVE  Reframed(m, m2, e, B, b, N)
<1> DEFINE y == Succ(m, b)
<1>1. /\ m \in Memory /\ m2 \in Memory /\ Tiled(m, e, B) /\ b \in B /\ b \in N /\ N \subseteq b .. y - 1
      /\ y \in B \cup {e}
      /\ \A w \in Address : w < b \/ w > y => m2[w] = m[w]
      /\ m2[y].kind = m[y].kind /\ m2[y].size = m[y].size /\ m2[y].alloc = m[y].alloc
  BY DEF Redone, Retiling
<1>2. Tiled(m2, e, B \cup N)
  BY Retiled DEF Redone
<1>3. \A w \in Address : b < w /\ w < y => m2[w] = m[w] \/ ~m2[w].alloc
  BY DEF Redone
<1>P. Plain(m, e, B)
  BY <1>1, TiledTypes
<1>4. /\ Address = 0 .. MaxHeap - 1 /\ MaxHeap \in Nat /\ e \in Address /\ e % 2 = 1
      /\ \A c \in B : c \in Nat /\ c \in Address /\ c % 2 = 1 /\ Succ(m, c) \in Nat /\ c < Succ(m, c)
                      /\ Succ(m, c) % 2 = 1
  BY <1>P DEF Plain
<1>5. b \in Nat /\ y \in Nat /\ b < y /\ b % 2 = 1 /\ y % 2 = 1
  BY <1>1, <1>4
<1> HIDE DEF y
<1>6. ASSUME NEW c \in B, c # b
      PROVE  /\ c \notin N /\ m2[c].size = m[c].size /\ m2[c].alloc = m[c].alloc
             /\ Succ(m2, c) = Succ(m, c)
             /\ \A w \in Address : c < w /\ w < Succ(m, c) => m2[w] = m[w]
  <2>1. BlockOK(m, e, B, b) /\ BlockOK(m, e, B, c)
    BY <1>1 DEF Tiled
  <2>2. c \in Nat /\ c \in Address /\ Succ(m, c) \in Nat
    BY <1>4
  <2>3. c < b \/ c >= y
    BY <2>1, <2>2, <1>5, <1>6 DEF BlockOK, y
  <2>4. c \notin N
    BY <2>2, <2>3, <1>1, <1>5
  <2>5. m2[c].size = m[c].size /\ m2[c].alloc = m[c].alloc
    <3>1. CASE c = y
      BY <3>1, <1>1
    <3>2. CASE c # y
      BY <3>2, <2>2, <2>3, <1>1, <1>5
    <3> QED
      BY <3>1, <3>2
  <2>6. c < b => Succ(m, c) <= b
    BY <2>1, <2>2, <1>1, <1>5 DEF BlockOK
  <2>7. \A w \in Address : c < w /\ w < Succ(m, c) => m2[w] = m[w]
    <3> SUFFICES ASSUME NEW w \in Address, c < w, w < Succ(m, c) PROVE m2[w] = m[w]
      OBVIOUS
    <3>1. w \in Nat
      BY <1>4
    <3>2. w < b \/ w > y
      BY <3>1, <2>2, <2>3, <2>6, <1>5
    <3> QED
      BY <3>2, <1>1
  <2> QED
    BY <2>4, <2>5, <2>7 DEF Succ
<1>7. EvenOK(m) => EvenOK(m2)
  <2> SUFFICES ASSUME EvenOK(m), NEW w \in Address, w > 0, w % 2 = 0
               PROVE  m2[w] # One
    BY DEF EvenOK
  <2>1. w \in Nat /\ w # b /\ w # y
    BY <1>4, <1>5
  <2>2. m2[w] = m[w] \/ ~m2[w].alloc
    <3>1. w < b \/ w > y \/ (b < w /\ w < y)
      BY <2>1, <1>5
    <3> QED
      BY <3>1, <1>1, <1>3
  <2>3. One.alloc
    BY DEF One, Tag
  <2> QED
    BY <2>2, <2>3 DEF EvenOK
<1> QED
  BY <1>1, <1>2, <1>6, <1>7 DEF Reframed, y

\* heap_end is not touched when another block than the last one is redone.
LEMMA RedoneEnd ==
    ASSUME NEW m, NEW m2, NEW e, NEW B, NEW b, NEW N, Reframed(m, m2, e, B, b, N),
           NEW end \in Nat, EndOK(m, e, B, end), Succ(m, b) # e
    PROVE  EndOK(m2, e, B \cup N, end)
<1>1. /\ m \in Memory /\ m2 \in Memory /\ Tiled(m, e, B) /\ b \in B
      /\ \A c \in B : c # b => /\ m2[c].alloc = m[c].alloc /\ Succ(m2, c) = Succ(m, c)
      /\ \A w \in Address : w > Succ(m, b) => m2[w] = m[w]
  BY DEF Reframed
<1>P. Plain(m, e, B)
  BY <1>1, TiledTypes
<1>2. PICK last \in B : /\ Succ(m, last) = e
                        /\ \/ end = last
                           \/ /\ ~m[last].alloc /\ last < end /\ end < e /\ end % 2 = 1
                              /\ ~m[end].alloc
  BY DEF EndOK
<1>3. last # b
  BY <1>2
<1>4. Succ(m2, last) = e /\ m2[last].alloc = m[last].alloc
  BY <1>1, <1>2, <1>3
<1>5. CASE end = last
  BY <1>4, <1>5 DEF EndOK
<1>6. CASE end # last
  <2>1. BlockOK(m, e, B, b) /\ BlockOK(m, e, B, last)
    BY <1>1 DEF Tiled
  <2>2. /\ Address = 0 .. MaxHeap - 1 /\ MaxHeap \in Nat /\ e \in Address
        /\ b \in Nat /\ Succ(m, b) \in Nat /\ last \in Nat /\ b < e /\ last < e
    BY <1>1, <1>P DEF Plain
  <2>3. Succ(m, b) <= last
    BY <2>1, <2>2, <1>1, <1>2, <1>3 DEF BlockOK
  <2>4. end \in Address /\ end > Succ(m, b)
    BY <2>2, <2>3, <1>2, <1>6
  <2>5. m2[end] = m[end]
    BY <2>4, <1>1
  <2> QED
    BY <2>5, <1>2, <1>4, <1>6 DEF EndOK
<1> QED
  BY <1>5, <1>6

\* All allocated blocks but b stay.
KeptBut(m, B, m2, B2, b) ==
    \A c \in B : m[c].alloc /\ c # b =>
        /\ c \in B2 /\ m2[c].alloc /\ m2[c].size = m[c].size
        /\ \A w \in Address : c < w /\ w < Succ(m, c) => m2[w] = m[w]

Freed(h, B, g, B2, b) ==
    /\ Good(g, B2) /\ KeptBut(h.mem, B, g.mem, B2, b) /\ g.brk = h.brk
    /\ AllocSet(g.mem, B2) = AllocSet(h.mem, B) \ {b}

\* One word is written.
Setting(h, n, t, g) ==
    /\ h \in HeapRecord /\ n \in Address /\ t \in Word
    /\ g = [h EXCEPT !.mem = [h.mem EXCEPT ![n] = t]]
WordSet(h, n, t, g) ==
    /\ g \in HeapRecord /\ SameLists(h, g) /\ SameRest(h, g)
    /\ \A w \in Address : g.mem[w] = IF w = n THEN t ELSE h.mem[w]

\* Writing one tag changes one word and no list.
LEMMA SetWord ==
    ASSUME NEW h, NEW n, NEW t, NEW g, Setting(h, n, t, g)
    PROVE  WordSet(h, n, t, g)
<1>0. h \in HeapRecord /\ n \in Address /\ t \in Word /\ g = [h EXCEPT !.mem = [h.mem EXCEPT ![n] = t]]
  BY DEF Setting
<1>1. g \in HeapRecord /\ SameLists(h, g) /\ SameRest(h, g) /\ g.mem = [h.mem EXCEPT ![n] = t]
  BY <1>0 DEF HeapRecord, SameLists, SameRest, Memory
<1>2. \A w \in Address : g.mem[w] = IF w = n THEN t ELSE h.mem[w]
  BY <1>0, <1>1 DEF HeapRecord, Memory
<1> QED
  BY <1>1, <1>2 DEF WordSet

\* free marks the block and the header after it.
MarkedFree(h, b) ==
    LET g1 == WriteBlock(h, b, Size(h, b), h.mem[b].prev_min, h.mem[b].prev_alloc, FALSE)
    IN  [g1 EXCEPT !.mem[NextBlock(g1, b)].prev_alloc = FALSE]

\* The first half of mm_free, which makes b a free block in no list.
LEMMA MarkFree ==
    ASSUME NEW h, NEW B, Good(h, B), NEW b \in B, h.mem[b].alloc,
           NEW g, g = MarkedFree(h, b)
    PROVE  /\ GoodBut(g, B, b) /\ g.brk = h.brk
           /\ KeptBut(h.mem, B, g.mem, B, b)
           /\ AllocSet(g.mem, B) = AllocSet(h.mem, B) \ {b}
<1> DEFINE m == h.mem
           e == h.brk - 1
           k == m[b].size
           y == Succ(m, b)
           m2 == g.mem
           t == Tag(k, m[b].prev_min, m[b].prev_alloc, FALSE)
           g1 == WriteBlock(h, b, Size(h, b), h.mem[b].prev_min, h.mem[b].prev_alloc, FALSE)
<1>0. g = [g1 EXCEPT !.mem[NextBlock(g1, b)].prev_alloc = FALSE]
  BY DEF MarkedFree
<1>1. /\ h \in HeapRecord /\ m \in Memory /\ Tiled(m, e, B) /\ Listed(h, FreeSet(m, B))
      /\ EndOK(m, e, B, h.end) /\ h.fault = "none" /\ EvenOK(m) /\ Apart(m, B) /\ h.end \in Nat
  BY DEF Good, HeapRecord
<1> HIDE DEF m, e
<1>P. Plain(m, e, B)
  BY <1>1, TiledTypes
<1>2. /\ Address = 0 .. MaxHeap - 1 /\ MaxHeap \in Nat /\ e \in Address /\ e \in Nat
      /\ B \subseteq Address
      /\ b \in Nat /\ b \in Address /\ b % 2 = 1 /\ y \in Nat /\ b + 2 <= y /\ y <= e
      /\ k \in Nat /\ k >= 2 /\ k % 2 = 0 /\ y \in B \cup {e} /\ y % 2 = 1 /\ y \in Address
      /\ m[b] \in Word
  BY <1>P DEF Plain
<1>3. y = b + k
  BY DEF Succ
<1>4. BlockOK(m, e, B, b) /\ m[b].alloc
  BY <1>1 DEF Tiled, m
<1>5. Size(h, b) = k
  BY DEF Size, m
<1>6. t \in Word /\ t.kind = "tag" /\ t.size = k /\ ~t.alloc
      /\ t.prev_min = m[b].prev_min /\ t.prev_alloc = m[b].prev_alloc
  <2>1. m[b].prev_min \in BOOLEAN /\ m[b].prev_alloc \in BOOLEAN
    BY <1>2 DEF Word
  <2>2. t \in Word
    BY <2>1, <1>2, TagIsWord
  <2> QED
    BY <2>2 DEF Tag
<1> HIDE DEF k, y
<1>7. /\ g1 \in HeapRecord /\ SameLists(h, g1) /\ SameRest(h, g1)
      /\ \A w \in Address : g1.mem[w] = IF w = b \/ (k # 2 /\ w = y - 1) THEN t ELSE m[w]
  <2>1. ~FALSE /\ k # 2 => b + k - 1 \in Address
    BY <1>2, <1>3
  <2>2. FALSE \in BOOLEAN /\ m[b].prev_min \in BOOLEAN /\ m[b].prev_alloc \in BOOLEAN
    BY <1>2 DEF Word
  <2>3. Wrote(h, WriteBlock(h, b, k, m[b].prev_min, m[b].prev_alloc, FALSE), b, k,
              m[b].prev_min, m[b].prev_alloc, FALSE)
    BY ZenonT(60), <1>1, <1>2, <2>1, <2>2, WriteEffect
  <2>4. g1 = WriteBlock(h, b, k, m[b].prev_min, m[b].prev_alloc, FALSE)
    BY <1>5 DEF m
  <2> HIDE DEF g1
  <2>5. b + k - 1 = y - 1
    BY <1>2, <1>3
  <2> QED
    BY <2>3, <2>4, <2>5 DEF Wrote, m
<1> HIDE DEF t, g1
<1>8. NextBlock(g1, b) = y
  <2>1. g1.mem[b] = t
    BY <1>2, <1>7
  <2> QED
    BY <2>1, <1>3, <1>6 DEF NextBlock, Size
<1> DEFINE f == [m[y] EXCEPT !.prev_alloc = FALSE]
<1>9. /\ f \in Word /\ f.kind = m[y].kind /\ f.size = m[y].size /\ f.alloc = m[y].alloc
      /\ f.prev_min = m[y].prev_min /\ ~f.prev_alloc
  <2>1. m[y] \in Word
    BY <1>1, <1>2 DEF Memory
  <2> QED
    BY <2>1 DEF Word
<1>a. y # b /\ y # y - 1 /\ b \in Nat /\ y \in Nat /\ b + 2 <= y /\ y \in Address
      /\ Address = 0 .. MaxHeap - 1
  BY <1>2
<1>10. g1.mem[y] = m[y]
  BY <1>a, <1>7
<1> HIDE DEF f
<1>11. /\ g \in HeapRecord /\ SameLists(g1, g) /\ SameRest(g1, g)
       /\ \A w \in Address : g.mem[w] = IF w = y THEN f ELSE g1.mem[w]
  <2>1. g = [g1 EXCEPT !.mem = [g1.mem EXCEPT ![y] = f]]
    BY <1>0, <1>8, <1>10 DEF f
  <2>2. Setting(g1, y, f, g)
    BY <2>1, <1>2, <1>7, <1>9 DEF Setting
  <2> QED
    BY <2>2, SetWord DEF WordSet
<1>12. /\ g \in HeapRecord /\ SameLists(h, g) /\ SameRest(h, g) /\ m2 \in Memory
       /\ \A w \in Address : m2[w] = IF w = y THEN f
                                     ELSE IF w = b \/ (k # 2 /\ w = y - 1) THEN t ELSE m[w]
  <2>1. m2 \in Memory
    BY <1>11 DEF HeapRecord
  <2>2. SameLists(h, g) /\ SameRest(h, g)
    BY <1>7, <1>11 DEF SameLists, SameRest
  <2> QED
    BY <2>1, <2>2, <1>7, <1>11
<1> HIDE DEF m2
<1>13. m2[b] = t /\ m2[y] = f /\ (k # 2 => m2[y - 1] = t)
  <2>1. y - 1 \in Address /\ y - 1 # y /\ b # y
    BY <1>2
  <2> QED
    BY <2>1, <1>2, <1>12
<1>14. Succ(m2, b) = y
  BY <1>3, <1>6, <1>13 DEF Succ
<1>15. BlockOK(m2, e, B, b)
  <2>1. \A c \in B : c <= b \/ c >= y
    BY <1>4 DEF BlockOK, y
  <2>2. m2[b].size > 2 => m2[y - 1].kind = "tag" /\ m2[y - 1].size = m2[b].size
    BY <1>2, <1>6, <1>13
  <2>3. m2[y].prev_alloc <=> m2[b].alloc
    BY <1>6, <1>9, <1>13
  <2>4. m2[y].prev_min <=> m2[b].size = 2
    <3>1. m[y].prev_min <=> k = 2
      BY <1>4 DEF BlockOK, y, k
    <3> QED
      BY <3>1, <1>6, <1>9, <1>13
  <2>5. b % 2 = 1 /\ m2[b].kind = "tag" /\ m2[b].size >= 2 /\ m2[b].size % 2 = 0
    BY <1>2, <1>6, <1>13
  <2> QED
    BY <2>1, <2>2, <2>3, <2>4, <2>5, <1>2, <1>14 DEF BlockOK
<1>16. Reframed(m, m2, e, B, b, {b})
  <2>1. B = {c \in B : c < b \/ c >= y} \cup {b}
    <3>1. \A c \in B : b <= c /\ c < y => c = b
      BY <1>1, NoneWithin DEF y
    <3>2. \A c \in B : c \in Nat
      BY <1>P DEF Plain
    <3>3. \A c \in B : c < b \/ c >= y \/ c = b
      BY <3>1, <3>2, <1>a
    <3> QED
      BY <3>3
  <2>2. B \cup {b} = B
    OBVIOUS
  <2>3. {b} \subseteq b .. y - 1 /\ b < y
    BY <1>2
  <2>4. \A w \in Address : w < b \/ w > y => m2[w] = m[w]
    <3> SUFFICES ASSUME NEW w \in Address, w < b \/ w > y PROVE m2[w] = m[w]
      OBVIOUS
    <3>1. w # b /\ w # y /\ w # y - 1
      BY <1>a
    <3> QED
      BY <3>1, <1>12
  <2>5. \A c \in {b} \cup {y} : c # b => \E d \in {b} : Succ(m2, d) = c
    BY <1>14
  <2>6. /\ m2[y].kind = m[y].kind /\ m2[y].size = m[y].size /\ m2[y].alloc = m[y].alloc
        /\ m2[b].prev_min = m[b].prev_min /\ m2[b].prev_alloc = m[b].prev_alloc
    BY <1>6, <1>9, <1>13
  <2>7. Retiling(m, m2, e, B, b, y, {b}, B)
    BY <2>1, <2>3, <2>4, <2>5, <2>6, <1>1, <1>2, <1>12, <1>15 DEF Retiling
  <2>8. \A w \in Address : b < w /\ w < y => m2[w] = m[w] \/ ~m2[w].alloc
    <3> SUFFICES ASSUME NEW w \in Address, b < w, w < y, m2[w] # m[w] PROVE ~m2[w].alloc
      OBVIOUS
    <3>1. w # b /\ w # y
      BY <1>a
    <3>2. m2[w] = t
      BY <3>1, <1>12
    <3> QED
      BY <3>2, <1>6
  <2> QED
    BY <2>2, <2>7, <2>8, RedoneFrame DEF Redone, y
<1>17. /\ Tiled(m2, e, B) /\ EvenOK(m2)
       /\ \A c \in B : c # b => /\ m2[c].size = m[c].size /\ m2[c].alloc = m[c].alloc
                                /\ Succ(m2, c) = Succ(m, c)
                                /\ \A w \in Address : c < w /\ w < Succ(m, c) => m2[w] = m[w]
  <2>1. B \cup {b} = B
    OBVIOUS
  <2> QED
    BY <2>1, <1>1, <1>16 DEF Reframed
<1>18. EndOK(m2, e, B, h.end)
  <2>1. CASE y # e
    <3>1. B \cup {b} = B
      OBVIOUS
    <3>2. EndOK(m2, e, B \cup {b}, h.end)
      BY <2>1, <1>1, <1>16, RedoneEnd DEF y
    <3> QED
      BY <3>1, <3>2
  <2>2. CASE y = e
    <3>1. PICK last \in B : Succ(m, last) = e /\ (h.end = last \/ ~m[last].alloc)
      BY <1>1 DEF EndOK
    <3>2. last = b
      <4>1. BlockOK(m, e, B, last)
        BY <1>1 DEF Tiled
      <4>2. last \in Nat /\ last < e
        BY <1>P DEF Plain
      <4>3. b <= last
        BY <4>1, <4>2, <3>1, <1>2, <2>2 DEF BlockOK
      <4> QED
        BY <4>2, <4>3, <1>1, <2>2, NoneWithin DEF y
    <3>3. h.end = b
      BY <3>1, <3>2, <1>4
    <3> QED
      BY <3>3, <2>2, <1>14 DEF EndOK
  <2> QED
    BY <2>1, <2>2
<1>19. FreeSet(m2, B) \ {b} = FreeSet(m, B) /\ AllocSet(m2, B) = AllocSet(m, B) \ {b}
  <2>1. ~m2[b].alloc
    BY <1>6, <1>13
  <2> QED
    BY <2>1, <1>4, <1>17 DEF FreeSet, AllocSet
<1>20. Listed(g, FreeSet(m2, B) \ {b})
  <2>1. \A c \in FreeSet(m, B) : Size(g, c) = Size(h, c)
    BY <1>4, <1>17 DEF FreeSet, Size, m, m2
  <2>2. Listed(g, FreeSet(m, B))
    BY <2>1, <1>1, <1>12, ListedFrame
  <2> QED
    BY <2>2, <1>19
<1>21. \A c \in B : Succ(m2, c) \in B =>
          m2[c].alloc \/ m2[Succ(m2, c)].alloc \/ c = b \/ Succ(m2, c) = b
  BY <1>1, <1>17 DEF Apart
<1>22. KeptBut(m, B, m2, B, b)
  BY <1>17 DEF KeptBut
<1>23. g.brk = h.brk /\ g.end = h.end /\ g.fault = "none" /\ ~m2[b].alloc
  BY <1>1, <1>6, <1>12, <1>13 DEF SameRest
<1>24. GoodBut(g, B, b)
  BY <1>12, <1>17, <1>18, <1>20, <1>21, <1>23 DEF GoodBut, m2, e
<1> QED
  BY <1>19, <1>22, <1>23, <1>24 DEF m, m2

\* mm_free leaves the heap good, and takes no other block from its owner.
LEMMA FreeEffect ==
    ASSUME NEW h, NEW B, Good(h, B), NEW b \in B, h.mem[b].alloc, NEW bp \in Nat, bp = b + 1
    PROVE  \E B2 : Freed(h, B, FreeBlock(h, bp), B2, b)
<1> DEFINE g2 == MarkedFree(h, b)
           g == Coalesce(g2, b)
<1>0. b \in Nat
  <2>1. h.mem \in Memory /\ Tiled(h.mem, h.brk - 1, B)
    BY DEF Good, HeapRecord
  <2> QED
    BY <2>1, TiledTypes DEF Plain
<1>1. FreeBlock(h, bp) = g
  <2>1. bp - 1 = b /\ bp # 0
    BY <1>0
  <2> QED
    BY <2>1 DEF FreeBlock, MarkedFree
<1>2. /\ GoodBut(g2, B, b) /\ g2.brk = h.brk
      /\ KeptBut(h.mem, B, g2.mem, B, b)
      /\ AllocSet(g2.mem, B) = AllocSet(h.mem, B) \ {b}
  BY MarkFree
<1> HIDE DEF g2
<1>3. PICK B2 : Good(g, B2) /\ SameUse(g2, B, g, B2)
  BY <1>2, CoalesceEffect
<1> HIDE DEF g
<1>4. KeptBut(h.mem, B, g.mem, B2, b)
  <2> SUFFICES ASSUME NEW c \in B, h.mem[c].alloc, c # b
               PROVE  /\ c \in B2 /\ g.mem[c].alloc /\ g.mem[c].size = h.mem[c].size
                      /\ \A w \in Address : c < w /\ w < Succ(h.mem, c) => g.mem[w] = h.mem[w]
    BY DEF KeptBut
  <2>1. /\ g2.mem[c].alloc /\ g2.mem[c].size = h.mem[c].size
        /\ \A w \in Address : c < w /\ w < Succ(h.mem, c) => g2.mem[w] = h.mem[w]
    BY <1>2 DEF KeptBut
  <2>2. /\ c \in B2 /\ g.mem[c].alloc /\ g.mem[c].size = g2.mem[c].size
        /\ \A w \in Address : c < w /\ w < Succ(g2.mem, c) => g.mem[w] = g2.mem[w]
    BY <2>1, <1>3 DEF SameUse, Kept
  <2>3. Succ(g2.mem, c) = Succ(h.mem, c)
    BY <2>1 DEF Succ
  <2> QED
    BY <2>1, <2>2, <2>3
<1> QED
  BY <1>1, <1>2, <1>3, <1>4 DEF Freed, SameUse

\* A free block is given away, with what the heap keeps of it.
Taken(h, B, g, B2, b, asize) ==
    /\ Good(g, B2) /\ Kept(h.mem, B, g.mem, B2) /\ g.brk = h.brk
    /\ AllocSet(g.mem, B2) = AllocSet(h.mem, B) \cup {b}
    /\ g.mem[b].size >= asize

Fitting(h, B, b, asize) ==
    /\ Good(h, B) /\ b \in B /\ ~h.mem[b].alloc
    /\ asize \in Nat /\ asize >= 2 /\ asize % 2 = 0 /\ asize <= h.mem[b].size

Reshaped(h, B, b, asize, N, g) ==
    LET m == h.mem   m2 == g.mem   y == Succ(m, b)   e == h.brk - 1 IN
    /\ Fitting(h, B, b, asize) /\ Reframed(m, m2, e, B, b, N)
    /\ g \in HeapRecord /\ g.fault = "none" /\ g.brk = h.brk
    /\ m2[b].alloc /\ m2[b].size >= asize
    /\ \A c \in N \ {b} : ~m2[c].alloc /\ Succ(m2, c) = y
    /\ Listed(g, (FreeSet(m, B) \ {b}) \cup (N \ {b}))
    /\ y # e => g.end = h.end
    /\ y = e => g.end \in N /\ Succ(m2, g.end) = e

\* A free block that has been written anew as an allocated one, with or without a
\* rest, has been taken from the free blocks.
LEMMA ReshapedIsTaken ==
    ASSUME NEW h, NEW B, NEW b, NEW asize, NEW N, NEW g, Reshaped(h, B, b, asize, N, g)
    PROVE  Taken(h, B, g, B \cup N, b, asize)
<1> DEFINE m == h.mem
           m2 == g.mem
           e == h.brk - 1
           y == Succ(m, b)
           B2 == B \cup N
<1>1. /\ h \in HeapRecord /\ m \in Memory /\ Tiled(m, e, B) /\ Listed(h, FreeSet(m, B))
      /\ EndOK(m, e, B, h.end) /\ EvenOK(m) /\ Apart(m, B) /\ h.end \in Nat
      /\ b \in B /\ ~m[b].alloc
  BY DEF Reshaped, Fitting, Good, HeapRecord
<1>2. /\ Reframed(m, m2, e, B, b, N) /\ g \in HeapRecord /\ g.fault = "none" /\ g.brk = h.brk
      /\ m2[b].alloc /\ m2[b].size >= asize
      /\ \A c \in N \ {b} : ~m2[c].alloc /\ Succ(m2, c) = y
      /\ Listed(g, (FreeSet(m, B) \ {b}) \cup (N \ {b}))
      /\ y # e => g.end = h.end
      /\ y = e => g.end \in N /\ Succ(m2, g.end) = e
  BY DEF Reshaped
<1> HIDE DEF m, m2, e
<1>3. /\ m2 \in Memory /\ Tiled(m2, e, B2) /\ b \in N /\ EvenOK(m2)
      /\ \A c \in B : c # b => /\ c \notin N /\ m2[c].size = m[c].size /\ m2[c].alloc = m[c].alloc
                               /\ Succ(m2, c) = Succ(m, c)
                               /\ \A w \in Address : c < w /\ w < Succ(m, c) => m2[w] = m[w]
  BY <1>1, <1>2 DEF Reframed
<1>P. Plain(m, e, B) /\ Plain(m2, e, B2)
  BY <1>1, <1>3, TiledTypes
<1>4. e \notin B2 /\ \A c \in B : Succ(m, c) \in B \cup {e} /\ c \in Nat /\ c < Succ(m, c)
  BY <1>P DEF Plain
<1>5. y # b
  BY <1>1, <1>4
<1>6. \A c \in B2 : m2[c].alloc <=> c = b \/ (c \in B /\ m[c].alloc)
  BY <1>1, <1>2, <1>3
<1>7. AllocSet(m2, B2) = AllocSet(m, B) \cup {b}
  BY <1>1, <1>6 DEF AllocSet
<1>8. FreeSet(m2, B2) = (FreeSet(m, B) \ {b}) \cup (N \ {b})
  <2>1. \A c \in B2 : ~m2[c].alloc <=> c # b /\ (c \in N \/ (c \in B /\ ~m[c].alloc))
    BY <1>1, <1>2, <1>3
  <2> QED
    BY <2>1 DEF FreeSet
<1>9. Kept(m, B, m2, B2)
  BY <1>1, <1>3 DEF Kept
<1>10. Apart(m2, B2)
  <2> SUFFICES ASSUME NEW c \in B2, Succ(m2, c) \in B2, ~m2[c].alloc
               PROVE  m2[Succ(m2, c)].alloc
    BY DEF Apart
  <2>1. c # b
    BY <1>2
  <2>2. CASE c \in N
    <3>1. Succ(m2, c) = y /\ y # e
      BY <2>1, <2>2, <1>2, <1>4
    <3>2. y \in B
      BY <3>1, <1>1, <1>4
    <3>3. m[y].alloc
      BY <3>2, <1>1 DEF Apart
    <3> QED
      BY <3>1, <3>2, <3>3, <1>3, <1>5
  <2>3. CASE c \in B
    <3>1. Succ(m2, c) = Succ(m, c) /\ ~m[c].alloc /\ Succ(m, c) \in B
      BY <2>1, <2>3, <1>3, <1>4
    <3>2. m[Succ(m, c)].alloc
      BY <2>3, <3>1, <1>1 DEF Apart
    <3> QED
      BY <3>1, <3>2, <1>1, <1>3
  <2> QED
    BY <2>2, <2>3
<1>11. EndOK(m2, e, B2, g.end)
  <2>1. CASE y # e
    BY <2>1, <1>1, <1>2, RedoneEnd
  <2>2. CASE y = e
    BY <2>2, <1>2 DEF EndOK
  <2> QED
    BY <2>1, <2>2
<1>12. Good(g, B2)
  <2>1. Listed(g, FreeSet(m2, B2))
    BY <1>2, <1>8
  <2> QED
    BY <2>1, <1>2, <1>3, <1>10, <1>11 DEF Good, m2, e
<1> QED
  BY <1>2, <1>7, <1>9, <1>12 DEF Taken, m, m2

\* What one may use of a fitting block.
FittingFacts(h, B, b, asize, m, e, y, k) ==
    /\ m = h.mem /\ e = h.brk - 1 /\ y = Succ(m, b) /\ k = m[b].size
    /\ h \in HeapRecord /\ m \in Memory /\ Tiled(m, e, B) /\ Listed(h, FreeSet(m, B))
    /\ EndOK(m, e, B, h.end) /\ h.fault = "none" /\ h.end \in Nat
    /\ Address = 0 .. MaxHeap - 1 /\ MaxHeap \in Nat
    /\ b \in B /\ b \in Nat /\ b \in Address /\ b % 2 = 1 /\ m[b] \in Word /\ ~m[b].alloc
    /\ k \in Nat /\ k >= 2 /\ k % 2 = 0 /\ y = b + k /\ y \in B \cup {e}
    /\ y \in Nat /\ y \in Address /\ y % 2 = 1 /\ m[y] \in Word
    /\ Size(h, b) = k /\ NextBlock(h, b) = y
    /\ ~m[y].prev_alloc /\ (y # e \/ k > 2 => (m[y].prev_min <=> k = 2))
    /\ \A c \in B : c \in Nat /\ c % 2 = 1 /\ c \in Address /\ (c <= b \/ c >= y)
    /\ m[y] = One => y = e
    /\ y = e /\ m[y] # One => k = 2
    /\ y = e /\ k = 2 => h.end = b

\* Types and bounds of a free block that is to be split.
LEMMA FittingPlain ==
    ASSUME NEW h, NEW B, NEW b, NEW asize, Fitting(h, B, b, asize)
    PROVE  FittingFacts(h, B, b, asize, h.mem, h.brk - 1, Succ(h.mem, b), h.mem[b].size)
<1> DEFINE m == h.mem
           e == h.brk - 1
           k == m[b].size
           y == Succ(m, b)
<1>1. /\ h \in HeapRecord /\ m \in Memory /\ Tiled(m, e, B) /\ Listed(h, FreeSet(m, B))
      /\ EndOK(m, e, B, h.end) /\ h.fault = "none" /\ h.end \in Nat /\ b \in B /\ ~m[b].alloc
  BY DEF Fitting, Good, HeapRecord
<1>1a. Size(h, b) = k /\ NextBlock(h, b) = y
  BY DEF Size, NextBlock, Succ
<1> HIDE DEF m, e
<1>P. Plain(m, e, B)
  BY <1>1, TiledTypes
<1>2. /\ Address = 0 .. MaxHeap - 1 /\ MaxHeap \in Nat /\ e \in Address /\ e \in Nat
      /\ b \in Nat /\ b \in Address /\ b % 2 = 1 /\ y \in Nat /\ b + 2 <= y /\ y <= e
      /\ k \in Nat /\ k >= 2 /\ k % 2 = 0 /\ y \in B \cup {e} /\ y % 2 = 1 /\ y \in Address
      /\ m[b] \in Word /\ m[y] \in Word /\ \A c \in B : c \in Nat /\ c % 2 = 1 /\ c \in Address
  BY <1>1, <1>P DEF Plain
<1>3. y = b + k
  BY DEF Succ
<1>4. BlockOK(m, e, B, b)
  BY <1>1 DEF Tiled
<1> HIDE DEF y, k
<1>5. ~m[y].prev_alloc /\ (y # e \/ k > 2 => (m[y].prev_min <=> k = 2))
      /\ \A c \in B : c <= b \/ c >= y
  BY <1>1, <1>4 DEF BlockOK, y, k
<1>6. m[y] = One => y = e
  <2>1. One.size = 0
    BY DEF One, Tag
  <2>2. \A c \in B : m[c].size >= 2
    BY <1>1 DEF Tiled, BlockOK
  <2> QED
    BY <2>1, <2>2, <1>2
<1>7. y = e /\ m[y] # One => k = 2
  <2> SUFFICES ASSUME y = e, k # 2 PROVE m[y] = One
    OBVIOUS
  <2>1. k > 2
    BY <1>2
  <2>2. ~m[y].prev_alloc /\ ~m[y].prev_min
    BY <2>1, <1>5
  <2>3. m[y].kind = "tag" /\ m[y].size = 0 /\ m[y].alloc
    BY <1>1 DEF Tiled
  <2>4. m[y] = [kind |-> "tag", size |-> 0, prev_min |-> FALSE, prev_alloc |-> FALSE, alloc |-> TRUE]
    BY <2>2, <2>3, <1>2 DEF Word
  <2> QED
    BY <2>4 DEF One, Tag
<1>8. y = e /\ k = 2 => h.end = b
  <2> SUFFICES ASSUME y = e, k = 2 PROVE h.end = b
    OBVIOUS
  <2>1. PICK last \in B : /\ Succ(m, last) = e
                          /\ \/ h.end = last
                             \/ last < h.end /\ h.end < e /\ h.end % 2 = 1
    BY <1>1 DEF EndOK
  <2>2. last = b
    <3>1. BlockOK(m, e, B, last) /\ last \in Nat /\ last < e
      BY <2>1, <1>1, <1>2, <1>P DEF Tiled, Plain
    <3>2. b <= last
      BY <3>1, <2>1, <1>1, <1>2 DEF BlockOK
    <3> QED
      BY <3>1, <3>2, <1>2, <1>5
  <2>3. ~(b < h.end /\ h.end < b + 2 /\ h.end % 2 = 1)
    <3>1. b \in Nat /\ h.end \in Nat /\ b % 2 = 1
      BY <1>1, <1>2
    <3> QED
      BY <3>1
  <2> QED
    BY <2>1, <2>2, <2>3, <1>3
<1> QED
  BY <1>1, <1>1a, <1>2, <1>3, <1>5, <1>6, <1>7, <1>8 DEF FittingFacts, m, e, y, k

\* split_block finds the block in its list.
LEMMA FittingPops ==
    ASSUME NEW h, NEW B, NEW b, NEW asize, Fitting(h, B, b, asize)
    PROVE  Popped(h, Pop(h, b), b, FreeSet(h.mem, B))
<1>1. FittingFacts(h, B, b, asize, h.mem, h.brk - 1, Succ(h.mem, b), h.mem[b].size)
  BY FittingPlain
<1>2. /\ h \in HeapRecord /\ Listed(h, FreeSet(h.mem, B)) /\ b \in FreeSet(h.mem, B) /\ b \in Nat
      /\ Size(h, b) \in Nat /\ Size(h, b) >= 2
  BY <1>1 DEF FittingFacts, FreeSet
<1> QED
  BY <1>2, PopEffect

\* split_block, when the rest is too small for a block.
WholeTaken(h, b) ==
    LET size  == Size(h, b)
        next  == b + size
        taken == WriteBlock(Pop(h, b), b, size, h.mem[b].prev_min, h.mem[b].prev_alloc, TRUE)
        g     == [taken EXCEPT !.mem[next].prev_alloc = TRUE,
                               !.mem[next].prev_min = @ \/ size = MinBlock]
    IN  IF h.mem[NextBlock(h, b)] = One THEN [g EXCEPT !.end = b] ELSE g

\* The end is moved, or not.
EndMoved(h, g, end) ==
    /\ g \in HeapRecord /\ SameLists(h, g) /\ g.mem = h.mem /\ g.brk = h.brk
    /\ g.fault = h.fault /\ g.end = end

\* split_block's choice of heap_end changes nothing else.
LEMMA EndChosen ==
    ASSUME NEW h \in HeapRecord, NEW x \in Nat, NEW P \in BOOLEAN
    PROVE  EndMoved(h, IF P THEN [h EXCEPT !.end = x] ELSE h, IF P THEN x ELSE h.end)
BY DEF EndMoved, HeapRecord, SameLists

\* split_block, when the rest would be too small.
LEMMA WholeIsReshaped ==
    ASSUME NEW h, NEW B, NEW b, NEW asize, Fitting(h, B, b, asize)
    PROVE  Reshaped(h, B, b, asize, {b}, WholeTaken(h, b))
<1> DEFINE m == h.mem
           e == h.brk - 1
           k == m[b].size
           y == Succ(m, b)
           h1 == Pop(h, b)
           t == Tag(k, m[b].prev_min, m[b].prev_alloc, TRUE)
           taken == WriteBlock(h1, b, k, m[b].prev_min, m[b].prev_alloc, TRUE)
           f == [m[y] EXCEPT !.prev_alloc = TRUE, !.prev_min = m[y].prev_min \/ k = 2]
           g0 == [taken EXCEPT !.mem[y].prev_alloc = TRUE, !.mem[y].prev_min = @ \/ k = 2]
           g == IF m[y] = One THEN [g0 EXCEPT !.end = b] ELSE g0
<1>1. FittingFacts(h, B, b, asize, m, e, y, k)
  BY FittingPlain
<1>2. asize \in Nat /\ asize <= k
  BY DEF Fitting
<1>3. WholeTaken(h, b) = g
  <2>1. Size(h, b) = k /\ NextBlock(h, b) = y /\ b + k = y
    BY <1>1 DEF FittingFacts
  <2> HIDE DEF y, k
  <2>2. WholeTaken(h, b) =
          LET tk == WriteBlock(Pop(h, b), b, k, m[b].prev_min, m[b].prev_alloc, TRUE)
              gg == [tk EXCEPT !.mem[b + k].prev_alloc = TRUE, !.mem[b + k].prev_min = @ \/ k = MinBlock]
          IN  IF m[y] = One THEN [gg EXCEPT !.end = b] ELSE gg
    BY <2>1 DEF WholeTaken, m
  <2> QED
    BY <2>1, <2>2 DEF MinBlock
<1> HIDE DEF m, e, k, y
<1>4. Popped(h, h1, b, FreeSet(m, B))
  BY FittingPops DEF m
<1> HIDE DEF h1
<1>5. /\ h1 \in HeapRecord /\ h1.mem = m /\ SameRest(h, h1) /\ Listed(h1, FreeSet(m, B) \ {b})
  BY <1>4 DEF Popped, m
<1>6. t \in Word /\ t.kind = "tag" /\ t.size = k /\ t.alloc
      /\ t.prev_min = m[b].prev_min /\ t.prev_alloc = m[b].prev_alloc
      /\ m[b].prev_min \in BOOLEAN /\ m[b].prev_alloc \in BOOLEAN
  <2>1. m[b].prev_min \in BOOLEAN /\ m[b].prev_alloc \in BOOLEAN /\ k \in Nat
    BY <1>1 DEF FittingFacts, Word
  <2>2. t \in Word
    BY <2>1, TagIsWord
  <2> QED
    BY <2>1, <2>2 DEF Tag
<1>7. /\ taken \in HeapRecord /\ SameLists(h1, taken) /\ SameRest(h1, taken)
      /\ \A w \in Address : taken.mem[w] = IF w = b THEN t ELSE m[w]
  <2>1. b \in Address /\ k \in Nat
    BY <1>1 DEF FittingFacts
  <2>2. TRUE \in BOOLEAN
    OBVIOUS
  <2>3. Wrote(h1, taken, b, k, m[b].prev_min, m[b].prev_alloc, TRUE)
    BY ZenonT(60), <1>5, <1>6, <2>1, <2>2, WriteEffect
  <2> HIDE DEF taken
  <2> QED
    BY <2>3, <1>5 DEF Wrote
<1> HIDE DEF t, taken
<1>8. b \in Address /\ y \in Address /\ b # y /\ b \in Nat /\ y \in Nat /\ b < y
  <2>1. b \in Address /\ y \in Address /\ b \in Nat /\ y \in Nat /\ y = b + k /\ k \in Nat /\ k >= 2
    BY <1>1 DEF FittingFacts
  <2> QED
    BY <2>1
<1>9. /\ f \in Word /\ f.kind = m[y].kind /\ f.size = m[y].size /\ f.alloc = m[y].alloc
      /\ (f.prev_min <=> m[y].prev_min \/ k = 2) /\ f.prev_alloc
  <2>1. m[y] \in Word
    BY <1>1 DEF FittingFacts
  <2> QED
    BY <2>1 DEF Word
<1>10. /\ g0 \in HeapRecord /\ SameLists(taken, g0) /\ SameRest(taken, g0)
       /\ \A w \in Address : g0.mem[w] = IF w = y THEN f ELSE taken.mem[w]
  <2>1. taken.mem[y] = m[y]
    BY <1>7, <1>8
  <2>2. g0 = [taken EXCEPT !.mem = [taken.mem EXCEPT ![y] = f]]
    BY <2>1, <1>7, <1>8 DEF f, HeapRecord, Memory, Word
  <2> HIDE DEF g0, f
  <2>3. Setting(taken, y, f, g0)
    BY <2>2, <1>7, <1>8, <1>9 DEF Setting
  <2> QED
    BY <2>3, SetWord DEF WordSet
<1> HIDE DEF g0, f
<1>11. EndMoved(g0, g, IF m[y] = One THEN b ELSE g0.end)
  BY <1>8, <1>10, EndChosen
<1> HIDE DEF g
<1>12. /\ g \in HeapRecord /\ SameLists(h1, g) /\ g.brk = h.brk /\ g.fault = "none"
       /\ g.end = (IF m[y] = One THEN b ELSE h.end)
       /\ g.mem \in Memory
       /\ \A w \in Address : g.mem[w] = IF w = y THEN f ELSE IF w = b THEN t ELSE m[w]
  <2>1. h.fault = "none"
    BY <1>1 DEF FittingFacts
  <2>2. /\ g \in HeapRecord /\ SameLists(h1, g) /\ g.brk = h.brk /\ g.fault = "none"
        /\ g.end = (IF m[y] = One THEN b ELSE h.end) /\ g.mem = g0.mem
    BY <2>1, <1>5, <1>7, <1>10, <1>11 DEF EndMoved, SameLists, SameRest
  <2>3. g.mem \in Memory
    BY <2>2 DEF HeapRecord
  <2> QED
    BY <2>2, <2>3, <1>7, <1>10
<1> DEFINE m2 == g.mem
<1> HIDE DEF m2
<1>13. m2[b] = t /\ m2[y] = f /\ m2 \in Memory /\ \A w \in Address : w # b /\ w # y => m2[w] = m[w]
  BY <1>8, <1>12 DEF m2
<1>14. Succ(m2, b) = y
  BY <1>1, <1>6, <1>13 DEF Succ, FittingFacts
<1>15. BlockOK(m2, e, B, b)
  <2>1. /\ \A c \in B : c <= b \/ c >= y
        /\ b % 2 = 1 /\ k >= 2 /\ k % 2 = 0 /\ y \in B \cup {e} /\ k \in Nat
        /\ (y # e \/ k > 2 => (m[y].prev_min <=> k = 2))
    BY <1>1 DEF FittingFacts
  <2>2. f.prev_min <=> k = 2
    <3>1. k # 2 => k > 2
      BY <2>1
    <3> QED
      BY <3>1, <2>1, <1>9
  <2> QED
    BY <2>1, <2>2, <1>6, <1>9, <1>13, <1>14 DEF BlockOK
<1>16. Reframed(m, m2, e, B, b, {b})
  <2>1. \A c \in B : c < b \/ c >= y \/ c = b
    BY <1>1 DEF FittingFacts
  <2>2. B = {c \in B : c < b \/ c >= y} \cup {b} /\ B \cup {b} = B
    BY <1>1, <2>1 DEF FittingFacts
  <2>3. {b} \subseteq b .. y - 1 /\ b < y
    BY <1>8
  <2>4. \A w \in Address : w < b \/ w > y => m2[w] = m[w]
    <3> SUFFICES ASSUME NEW w \in Address, w < b \/ w > y PROVE m2[w] = m[w]
      OBVIOUS
    <3>1. w # b /\ w # y
      BY <1>8
    <3> QED
      BY <3>1, <1>13
  <2>5. \A c \in {b} \cup {y} : c # b => \E d \in {b} : Succ(m2, d) = c
    BY <1>14
  <2>6. /\ m2[y].kind = m[y].kind /\ m2[y].size = m[y].size /\ m2[y].alloc = m[y].alloc
        /\ m2[b].prev_min = m[b].prev_min /\ m2[b].prev_alloc = m[b].prev_alloc
    BY <1>6, <1>9, <1>13
  <2>7. m \in Memory /\ Tiled(m, e, B) /\ b \in B /\ y \in B \cup {e}
    BY <1>1 DEF FittingFacts
  <2>8. Retiling(m, m2, e, B, b, y, {b}, B)
    BY <2>2, <2>3, <2>4, <2>5, <2>6, <2>7, <1>13, <1>15 DEF Retiling
  <2>9. \A w \in Address : b < w /\ w < y => m2[w] = m[w] \/ ~m2[w].alloc
    BY <1>8, <1>13
  <2> QED
    BY <2>2, <2>8, <2>9, RedoneFrame DEF Redone, y
<1>17. Listed(g, (FreeSet(m, B) \ {b}) \cup ({b} \ {b}))
  <2>1. \A c \in FreeSet(m, B) \ {b} : Size(g, c) = Size(h1, c)
    BY <1>5, <1>16 DEF FreeSet, Size, m2, Reframed
  <2>2. Listed(g, FreeSet(m, B) \ {b})
    BY <2>1, <1>5, <1>12, ListedFrame
  <2>3. (FreeSet(m, B) \ {b}) \cup ({b} \ {b}) = FreeSet(m, B) \ {b}
    OBVIOUS
  <2> QED
    BY <2>2, <2>3
<1>18. /\ y # e => g.end = h.end
       /\ y = e => g.end \in {b} /\ Succ(m2, g.end) = e
  <2>1. /\ m[y] = One => y = e
        /\ y = e /\ m[y] # One => h.end = b
    BY <1>1 DEF FittingFacts
  <2> QED
    BY <2>1, <1>12, <1>14
<1> QED
  <2>1. m2[b].alloc /\ m2[b].size >= asize
    BY <1>2, <1>6, <1>13
  <2>2. Reshaped(h, B, b, asize, {b}, g)
    BY <2>1, <1>12, <1>16, <1>17, <1>18 DEF Reshaped, m, e, y, m2
  <2> QED
    BY <2>2, <1>3

\* split_block, when the rest is a block.
PartTaken(h, b, asize) ==
    LET size  == Size(h, b)
        rest  == b + asize
        next  == b + size
        taken == WriteBlock(Pop(h, b), b, asize, h.mem[b].prev_min, h.mem[b].prev_alloc, TRUE)
        split == Push(WriteBlock(taken, rest, size - asize, MinStatus(asize), TRUE, FALSE), rest)
        g     == [split EXCEPT !.mem[next].prev_min =
                     split.mem[next] # One /\ size - asize = MinBlock]
    IN  IF h.mem[NextBlock(h, b)] = One THEN [g EXCEPT !.end = rest] ELSE g

\* What the memory is then.
PartMemory(m, m2, b, r, y, t, u, f) ==
    \A w \in Address : m2[w] =
        IF w = y THEN f ELSE IF w = b THEN t
        ELSE IF w = r + 1 \/ (y - r # 2 /\ w = r + 2) THEN Link
        ELSE IF w = r \/ (y - r # 2 /\ w = y - 1) THEN u ELSE m[w]

\* split_block, when the rest becomes a free block of its own.
LEMMA PartIsReshaped ==
    ASSUME NEW h, NEW B, NEW b, NEW asize, Fitting(h, B, b, asize), h.mem[b].size - asize >= 2
    PROVE  Reshaped(h, B, b, asize, {b, b + asize}, PartTaken(h, b, asize))
<1> DEFINE m == h.mem
           e == h.brk - 1
           k == m[b].size
           y == Succ(m, b)
           r == b + asize
           j == k - asize
           S == FreeSet(m, B) \ {b}
           h1 == Pop(h, b)
           t == Tag(asize, m[b].prev_min, m[b].prev_alloc, TRUE)
           taken == WriteBlock(h1, b, asize, m[b].prev_min, m[b].prev_alloc, TRUE)
           u == Tag(j, MinStatus(asize), TRUE, FALSE)
           laid == WriteBlock(taken, r, j, MinStatus(asize), TRUE, FALSE)
           split == Push(laid, r)
           f == [m[y] EXCEPT !.prev_min = (m[y] # One /\ j = 2)]
           g0 == [split EXCEPT !.mem[y].prev_min = (split.mem[y] # One /\ j = 2)]
           g == IF m[y] = One THEN [g0 EXCEPT !.end = r] ELSE g0
<1>1. FittingFacts(h, B, b, asize, m, e, y, k)
  BY FittingPlain
<1>2. asize \in Nat /\ asize >= 2 /\ asize % 2 = 0 /\ k - asize >= 2
  BY DEF Fitting
<1>3. PartTaken(h, b, asize) = g
  <2>1. Size(h, b) = k /\ NextBlock(h, b) = y /\ b + k = y
    BY <1>1 DEF FittingFacts
  <2> HIDE DEF y, k
  <2>2. PartTaken(h, b, asize) =
          LET tk == WriteBlock(Pop(h, b), b, asize, m[b].prev_min, m[b].prev_alloc, TRUE)
              sp == Push(WriteBlock(tk, b + asize, k - asize, MinStatus(asize), TRUE, FALSE), b + asize)
              gg == [sp EXCEPT !.mem[b + k].prev_min = (sp.mem[b + k] # One /\ k - asize = MinBlock)]
          IN  IF m[y] = One THEN [gg EXCEPT !.end = b + asize] ELSE gg
    BY <2>1 DEF PartTaken, m
  <2> QED
    BY <2>1, <2>2 DEF MinBlock
<1> HIDE DEF m, e, k, y
<1>4. Popped(h, h1, b, FreeSet(m, B))
  BY FittingPops DEF m
<1> HIDE DEF h1
<1>5. /\ h1 \in HeapRecord /\ h1.mem = m /\ SameRest(h, h1) /\ Listed(h1, S)
  BY <1>4 DEF Popped, m
<1> HIDE DEF S
<1>6. /\ b \in Address /\ y \in Address /\ r \in Address /\ y - 1 \in Address
      /\ b \in Nat /\ y \in Nat /\ r \in Nat /\ j \in Nat /\ b + 2 <= r /\ r + 2 <= y
      /\ r + j = y /\ j >= 2 /\ y - r = j /\ r + 1 \in Address /\ (j > 2 => r + 2 \in Address)
      /\ Address = 0 .. MaxHeap - 1
  <2>1. /\ b \in Address /\ y \in Address /\ b \in Nat /\ y \in Nat /\ y = b + k /\ k \in Nat /\ k >= 2
        /\ Address = 0 .. MaxHeap - 1 /\ MaxHeap \in Nat
    BY <1>1 DEF FittingFacts
  <2> QED
    BY <2>1, <1>2
<1>7. b % 2 = 1 /\ y % 2 = 1 /\ k % 2 = 0 /\ r % 2 = 1 /\ j % 2 = 0 /\ (j # 2 => j >= 4)
  <2>1. b % 2 = 1 /\ y % 2 = 1 /\ k % 2 = 0 /\ k \in Nat
    BY <1>1 DEF FittingFacts
  <2>2. r % 2 = 1
    BY <2>1, <1>2, <1>6
  <2>3. j % 2 = 0
    BY <2>1, <1>2, <1>6
  <2>4. j # 2 => j >= 4
    <3> HIDE DEF j
    <3> QED
      BY SMTT(30), <2>3, <1>6
  <2> QED
    BY <2>1, <2>2, <2>3, <2>4
<1>8. /\ t \in Word /\ t.kind = "tag" /\ t.size = asize /\ t.alloc
      /\ t.prev_min = m[b].prev_min /\ t.prev_alloc = m[b].prev_alloc
      /\ m[b].prev_min \in BOOLEAN /\ m[b].prev_alloc \in BOOLEAN
  <2>1. m[b].prev_min \in BOOLEAN /\ m[b].prev_alloc \in BOOLEAN
    BY <1>1 DEF FittingFacts, Word
  <2>2. t \in Word
    BY <2>1, <1>2, TagIsWord
  <2> QED
    BY <2>1, <2>2 DEF Tag
<1>9. /\ u \in Word /\ u.kind = "tag" /\ u.size = j /\ ~u.alloc /\ u.prev_alloc
      /\ (u.prev_min <=> asize = 2) /\ MinStatus(asize) \in BOOLEAN
  <2>1. MinStatus(asize) \in BOOLEAN /\ (MinStatus(asize) <=> asize = 2)
    BY DEF MinStatus, MinBlock
  <2>2. u \in Word
    BY <2>1, <1>6, TagIsWord
  <2> QED
    BY <2>1, <2>2 DEF Tag
<1> HIDE DEF r, j
<1>10. /\ taken \in HeapRecord /\ SameLists(h1, taken) /\ SameRest(h1, taken)
       /\ \A w \in Address : taken.mem[w] = IF w = b THEN t ELSE m[w]
  <2>2. TRUE \in BOOLEAN
    OBVIOUS
  <2>1. h1 \in HeapRecord /\ b \in Address /\ asize \in Nat
        /\ m[b].prev_min \in BOOLEAN /\ m[b].prev_alloc \in BOOLEAN
    BY <1>2, <1>5, <1>6, <1>8
  <2>3. Wrote(h1, taken, b, asize, m[b].prev_min, m[b].prev_alloc, TRUE)
    BY <2>1, <2>2, WriteEffect
  <2> HIDE DEF taken
  <2> QED
    BY <2>3, <1>5 DEF Wrote
<1> HIDE DEF t, taken
<1>11. /\ laid \in HeapRecord /\ SameLists(h1, laid) /\ SameRest(h1, laid)
       /\ \A w \in Address : laid.mem[w] =
             IF w = r \/ (j # 2 /\ w = y - 1) THEN u ELSE IF w = b THEN t ELSE m[w]
  <2>1. r + j - 1 = y - 1 /\ (~FALSE /\ j # 2 => r + j - 1 \in Address)
    BY <1>6
  <2>2. TRUE \in BOOLEAN /\ FALSE \in BOOLEAN
    OBVIOUS
  <2>4. taken \in HeapRecord /\ r \in Address /\ j \in Nat /\ MinStatus(asize) \in BOOLEAN
    BY <1>6, <1>9, <1>10
  <2>5. ~FALSE /\ j # 2 => r + j - 1 \in Address
    BY <2>1
  <2>3. Wrote(taken, laid, r, j, MinStatus(asize), TRUE, FALSE)
    BY <2>2, <2>4, <2>5, WriteEffect
  <2> HIDE DEF laid
  <2> QED
    BY <2>3, <2>1, <1>10 DEF Wrote, SameLists, SameRest
<1> HIDE DEF u, laid
<1>12. S \subseteq B /\ b \notin S /\ \A c \in S : c \in Address /\ (c < b \/ c >= y)
  <2>1. S \subseteq B /\ b \notin S
    BY DEF S, FreeSet
  <2>2. \A c \in B : c \in Nat /\ c \in Address /\ (c <= b \/ c >= y)
    BY <1>1 DEF FittingFacts
  <2> QED
    BY <2>1, <2>2, <1>6
<1>13. Listed(laid, S)
  <2>1. \A c \in S : Size(laid, c) = Size(h1, c)
    <3> SUFFICES ASSUME NEW c \in S PROVE laid.mem[c] = m[c]
      BY <1>5 DEF Size
    <3>1. c \in Nat /\ c \in Address /\ (c < b \/ c >= y)
      BY <1>6, <1>12
    <3>2. c # r /\ c # y - 1 /\ c # b
      BY <3>1, <1>6
    <3> QED
      BY <3>1, <3>2, <1>11
  <2> QED
    BY <2>1, <1>5, <1>11, ListedFrame
<1>14. Pushed(laid, split, r, S)
  <2>1. Size(laid, r) = j
    BY <1>6, <1>9, <1>11 DEF Size
  <2>2. r \notin S /\ r + 1 \notin S /\ (j > 2 => r + 2 \notin S)
    <3>1. \A c \in S : c \in Nat /\ (c < b \/ c >= y)
      BY <1>6, <1>12
    <3>2. j > 2 => r + 2 < y
      BY <1>6
    <3> QED
      BY <3>1, <3>2, <1>6
  <2>3. S \in SUBSET Address
    BY <1>12
  <2>4. Pushable(laid, r, S)
    BY <2>1, <2>2, <2>3, <1>6, <1>11, <1>13 DEF Pushable
  <2> QED
    BY <2>4, PushEffect
<1>15. Size(laid, r) = j
  BY <1>6, <1>9, <1>11 DEF Size
<1> HIDE DEF split
<1>16. /\ split \in HeapRecord /\ SameRest(laid, split) /\ Listed(split, S \cup {r})
       /\ \A w \in Address : split.mem[w] = IF w = r + 1 \/ (j # 2 /\ w = r + 2) THEN Link ELSE laid.mem[w]
  BY <1>6, <1>14, <1>15 DEF Pushed
<1>17. y # b /\ y # r /\ y # r + 1 /\ y # y - 1 /\ (j # 2 => y # r + 2) /\ b # r /\ b # r + 1 /\ b # r + 2
       /\ b # y - 1
  BY <1>6
<1>18. split.mem[y] = m[y]
  BY <1>6, <1>11, <1>16, <1>17
<1>19. /\ f \in Word /\ f.kind = m[y].kind /\ f.size = m[y].size /\ f.alloc = m[y].alloc
       /\ (f.prev_min <=> m[y] # One /\ j = 2) /\ f.prev_alloc = m[y].prev_alloc
  <2>1. m[y] \in Word
    BY <1>1 DEF FittingFacts
  <2> QED
    BY <2>1 DEF Word
<1>20. /\ g0 \in HeapRecord /\ SameLists(split, g0) /\ SameRest(split, g0)
       /\ \A w \in Address : g0.mem[w] = IF w = y THEN f ELSE split.mem[w]
  <2>2. g0 = [split EXCEPT !.mem = [split.mem EXCEPT ![y] = f]]
    BY <1>18, <1>16, <1>6 DEF f, HeapRecord, Memory, Word
  <2> HIDE DEF g0, f
  <2>3. Setting(split, y, f, g0)
    BY <2>2, <1>6, <1>16, <1>19 DEF Setting
  <2> QED
    BY <2>3, SetWord DEF WordSet
<1> HIDE DEF g0, f
<1>21. EndMoved(g0, g, IF m[y] = One THEN r ELSE g0.end)
  BY <1>6, <1>20, EndChosen
<1> HIDE DEF g
<1> DEFINE m2 == g.mem
<1>22. /\ g \in HeapRecord /\ SameLists(split, g) /\ g.brk = h.brk /\ g.fault = "none"
       /\ g.end = (IF m[y] = One THEN r ELSE h.end)
       /\ m2 \in Memory /\ m2 = g0.mem
  <2>1. h.fault = "none"
    BY <1>1 DEF FittingFacts
  <2>2. /\ g \in HeapRecord /\ SameLists(split, g) /\ g.brk = h.brk /\ g.fault = "none"
        /\ g.end = (IF m[y] = One THEN r ELSE h.end) /\ g.mem = g0.mem
    BY <2>1, <1>5, <1>11, <1>16, <1>20, <1>21 DEF EndMoved, SameLists, SameRest
  <2> QED
    BY <2>2 DEF HeapRecord
<1> HIDE DEF m2
<1>23. PartMemory(m, m2, b, r, y, t, u, f)
  <2> SUFFICES ASSUME NEW w \in Address
               PROVE  m2[w] = IF w = y THEN f ELSE IF w = b THEN t
                              ELSE IF w = r + 1 \/ (j # 2 /\ w = r + 2) THEN Link
                              ELSE IF w = r \/ (j # 2 /\ w = y - 1) THEN u ELSE m[w]
    BY <1>6 DEF PartMemory
  <2> QED
    BY <1>11, <1>16, <1>17, <1>20, <1>22
<1>24. /\ m2[b] = t /\ m2[r] = u /\ m2[y] = f /\ (j # 2 => m2[y - 1] = u)
       /\ \A w \in Address : w < b \/ w > y => m2[w] = m[w]
       /\ \A w \in Address : b < w /\ w < y => m2[w] = m[w] \/ ~m2[w].alloc
  <2>1. r # r + 1 /\ r # r + 2 /\ (j # 2 => y - 1 # r + 1 /\ y - 1 # r + 2)
    BY <1>6, <1>7
  <2>2. m2[b] = t /\ m2[r] = u /\ m2[y] = f /\ (j # 2 => m2[y - 1] = u)
    BY <2>1, <1>6, <1>17, <1>23 DEF PartMemory
  <2>3. ASSUME NEW w \in Address, w < b \/ w > y PROVE m2[w] = m[w]
    <3>1. w # y /\ w # b /\ w # r /\ w # r + 1 /\ w # y - 1 /\ (j # 2 => w # r + 2)
      BY <2>3, <1>6
    <3> QED
      BY <3>1, <1>6, <1>23 DEF PartMemory
  <2>4. ASSUME NEW w \in Address, b < w, w < y PROVE m2[w] = m[w] \/ ~m2[w].alloc
    <3>1. w # y /\ w # b
      BY <2>4, <1>6
    <3>2. ~Link.alloc
      BY DEF Link, Other
    <3> QED
      BY <3>1, <3>2, <1>9, <1>23 DEF PartMemory
  <2> QED
    BY <2>2, <2>3, <2>4
<1>25. Succ(m2, b) = r /\ Succ(m2, r) = y
  BY <1>6, <1>8, <1>9, <1>24 DEF Succ, r
<1> DEFINE N == {b, r}
           B2 == B \cup N
<1>26. /\ \A c \in B : c \in Nat /\ (c <= b \/ c >= y)
       /\ y \in B \cup {e} /\ m \in Memory /\ Tiled(m, e, B) /\ b \in B
       /\ ~m[y].prev_alloc /\ (m[y] = One => y = e)
  BY <1>1 DEF FittingFacts
<1>27. BlockOK(m2, e, B2, b)
  <2>1. \A c \in B2 : c <= b \/ c >= r
    BY <1>6, <1>26
  <2>2. r \in B2 \cup {e}
    OBVIOUS
  <2> HIDE DEF B2
  <2> QED
    BY <2>1, <2>2, <1>2, <1>7, <1>8, <1>9, <1>24, <1>25 DEF BlockOK
<1>28. BlockOK(m2, e, B2, r)
  <2>1. \A c \in B2 : c <= r \/ c >= y
    BY <1>6, <1>26
  <2>2. y \in B2 \cup {e}
    BY <1>26
  <2> HIDE DEF B2
  <2>3. (y # e \/ j > 2) => (f.prev_min <=> j = 2)
    BY <1>6, <1>19, <1>26
  <2>4. j > 2 => m2[y - 1].kind = "tag" /\ m2[y - 1].size = j
    BY <1>9, <1>24
  <2>5. r % 2 = 1 /\ j >= 2 /\ j % 2 = 0
    BY <1>6, <1>7
  <2> QED
    BY <2>1, <2>2, <2>3, <2>4, <2>5, <1>9, <1>19, <1>24, <1>25, <1>26 DEF BlockOK
<1>29. Reframed(m, m2, e, B, b, N)
  <2>1. B2 = {c \in B : c < b \/ c >= y} \cup N
    <3>1. \A c \in B : c < b \/ c >= y \/ c = b
      BY <1>6, <1>26
    <3> QED
      BY <3>1, <1>26
  <2>2. N \subseteq b .. y - 1 /\ b < y /\ b \in N
    BY <1>6
  <2>3. \A c \in N \cup {y} : c # b => \E d \in N : Succ(m2, d) = c
    BY <1>25
  <2>4. /\ m2[y].kind = m[y].kind /\ m2[y].size = m[y].size /\ m2[y].alloc = m[y].alloc
        /\ m2[b].prev_min = m[b].prev_min /\ m2[b].prev_alloc = m[b].prev_alloc
    BY <1>8, <1>19, <1>24
  <2>5. \A c \in N : BlockOK(m2, e, B2, c)
    BY <1>27, <1>28
  <2> HIDE DEF N, B2
  <2>6. Retiling(m, m2, e, B, b, y, N, B2)
    BY <2>1, <2>2, <2>3, <2>4, <2>5, <1>22, <1>24, <1>26 DEF Retiling
  <2>7. Retiling(m, m2, e, B, b, y, N, B \cup N)
    BY <2>6 DEF B2
  <2> QED
    BY <2>7, <1>24, RedoneFrame DEF Redone, y
<1>30. Listed(g, S \cup (N \ {b}))
  <2>1. N \ {b} = {r}
    BY <1>17
  <2>2. \A c \in S \cup {r} : Size(g, c) = Size(split, c)
    <3> SUFFICES ASSUME NEW c \in S \cup {r} PROVE g.mem[c].size = split.mem[c].size
      BY DEF Size
    <3>1. c \in Address
      BY <1>6, <1>12
    <3>2. CASE c = y
      BY <3>2, <1>18, <1>19, <1>24 DEF m2
    <3>3. CASE c # y
      BY <3>1, <3>3, <1>20, <1>22 DEF m2
    <3> QED
      BY <3>2, <3>3
  <2>3. Listed(g, S \cup {r})
    BY <2>2, <1>16, <1>22, ListedFrame
  <2> QED
    BY <2>1, <2>3
<1>31. /\ y # e => g.end = h.end
       /\ y = e => g.end \in N /\ Succ(m2, g.end) = e
  <2>1. y = e => m[y] = One
    <3>1. y = e /\ m[y] # One => k = 2
      BY <1>1 DEF FittingFacts
    <3>2. k # 2
      <4>1. k \in Nat
        BY <1>1 DEF FittingFacts
      <4> QED
        BY <4>1, <1>2
    <3> QED
      BY <3>1, <3>2
  <2> QED
    BY <2>1, <1>22, <1>25, <1>26
<1> QED
  <2>1. m2[b].alloc /\ m2[b].size >= asize
    BY <1>2, <1>8, <1>24
  <2>2. \A c \in N \ {b} : ~m2[c].alloc /\ Succ(m2, c) = y
    BY <1>9, <1>24, <1>25
  <2> HIDE DEF N
  <2>3. Reshaped(h, B, b, asize, N, g)
    BY <2>1, <2>2, <1>22, <1>29, <1>30, <1>31 DEF Reshaped, m, e, y, m2, S
  <2> QED
    BY <2>3, <1>3 DEF N, r

\* split_block leaves the heap good, with a block of the size asked for allocated.
LEMMA SplitEffect ==
    ASSUME NEW h, NEW B, NEW b, NEW asize, Fitting(h, B, b, asize)
    PROVE  \E B2 : Taken(h, B, SplitBlock(h, b, asize), B2, b, asize)
<1> DEFINE k == h.mem[b].size
<1>1. Size(h, b) = k
  BY DEF Size
<1>2. CASE k - asize >= 2
  <2>1. SplitBlock(h, b, asize) = PartTaken(h, b, asize)
    BY <1>1, <1>2 DEF SplitBlock, PartTaken, MinBlock
  <2> QED
    BY <1>2, <2>1, PartIsReshaped, ReshapedIsTaken
<1>3. CASE ~(k - asize >= 2)
  <2>1. SplitBlock(h, b, asize) = WholeTaken(h, b)
    BY <1>1, <1>3 DEF SplitBlock, WholeTaken, MinBlock
  <2> QED
    BY <2>1, WholeIsReshaped, ReshapedIsTaken
<1> QED
  BY <1>2, <1>3

-----------------------------------------------------------------------------
(* Finding a block.                                                        *)

\* A set of naturals that is not empty has a least element.
LEMMA LeastNatural ==
    ASSUME NEW T \in SUBSET Nat, T # {}
    PROVE  Min(T) \in T /\ \A j \in T : Min(T) <= j
<1>1. PICK R : IsWellFoundedOn(R, Nat) /\ \A x, y \in Nat : x < y => <<x, y>> \in R
  BY NatLessThanWellFounded DEF OpToRel
<1>2. IsWellFoundedOn(R, Nat)
  BY <1>1
<1>3. PICK x \in T : \A y \in T : ~(<<y, x>> \in R)
  BY <1>2, WFMin
<1>4. ASSUME NEW y \in T PROVE x <= y
  <2>1. x \in Nat /\ y \in Nat
    OBVIOUS
  <2>2. ~(y < x)
    BY <1>1, <1>3, <2>1
  <2> QED
    BY <2>1, <2>2
<1> QED
  BY <1>4 DEF Min

\* A request comes as an even number of words.
Asked(asize) == asize \in Nat /\ asize >= 2 /\ asize % 2 = 0

\* find_fit returns a free block that is large enough, or none.
LEMMA FitIsFree ==
    ASSUME NEW h, NEW B, Good(h, B), NEW asize, Asked(asize), FindFit(h, asize) # 0
    PROVE  Fitting(h, B, FindFit(h, asize), asize)
<1> DEFINE minima  == {i \in MinLists : h.min[i] # <<>>}
           classes == {i \in GetIndex(asize) .. 7 : FirstFit(h, h.seg[i], asize) # 0}
           fit == FindFit(h, asize)
<1>1. /\ h \in HeapRecord /\ Listed(h, FreeSet(h.mem, B)) /\ Tiled(h.mem, h.brk - 1, B)
      /\ asize \in Nat /\ asize >= 2 /\ asize % 2 = 0
  BY DEF Good, Asked
<1> SUFFICES fit \in FreeSet(h.mem, B) /\ asize <= h.mem[fit].size
  BY <1>1 DEF Fitting, FreeSet
<1>2. CASE asize = MinBlock /\ minima # {}
  <2>1. fit = Head(h.min[Min(minima)])
    BY <1>2 DEF FindFit
  <2>2. Min(minima) \in minima
    <3>1. minima \in SUBSET Nat
      BY DEF MinLists
    <3> QED
      BY <1>2, <3>1, LeastNatural
  <2> DEFINE i == Min(minima)
             s == h.min[i]
  <2>3. i \in MinLists /\ s # <<>>
    BY <2>2
  <2> HIDE DEF i
  <2>4. s \in Seq(Nat)
    BY <1>1, <2>3 DEF HeapRecord
  <2>5. Head(s) \in ToSet(s)
    <3>1. 1 \in DOMAIN s /\ Head(s) = s[1]
      BY <2>3, <2>4
    <3> QED
      BY <3>1 DEF ToSet
  <2>6. ToSet(s) = {b \in FreeSet(h.mem, B) : Size(h, b) = 2 /\ MinIndex(b) = i}
    BY <1>1, <2>3 DEF Listed
  <2>7. fit = Head(s)
    BY <2>1 DEF i
  <2> QED
    BY <2>5, <2>6, <2>7, <1>2 DEF MinBlock, Size
<1>3. CASE ~(asize = MinBlock /\ minima # {})
  <2>1. classes # {} /\ fit = FirstFit(h, h.seg[Min(classes)], asize)
    BY <1>3 DEF FindFit
  <2>2. classes \in SUBSET Nat /\ classes \in SUBSET Classes
    BY IndexIsClass DEF Classes
  <2>3. Min(classes) \in classes
    BY <2>1, <2>2, LeastNatural
  <2> DEFINE i == Min(classes)
             s == h.seg[i]
             fits == {k \in DOMAIN s : asize <= Size(h, s[k])}
  <2>4. i \in Classes /\ FirstFit(h, s, asize) # 0
    BY <2>2, <2>3
  <2>a. fit = FirstFit(h, s, asize)
    BY <2>1
  <2> HIDE DEF i
  <2>5. fits # {} /\ fit = s[Min(fits)]
    BY <2>4, <2>a DEF FirstFit
  <2>6. s \in Seq(Nat)
    BY <1>1, <2>4 DEF HeapRecord
  <2>7. Min(fits) \in fits
    <3>1. fits \in SUBSET Nat
      BY <2>6
    <3> QED
      BY <2>5, <3>1, LeastNatural
  <2>8. fit \in ToSet(s) /\ asize <= Size(h, fit)
    BY <2>5, <2>7 DEF ToSet
  <2>9. ToSet(s) = {b \in FreeSet(h.mem, B) : Size(h, b) > 2 /\ GetIndex(Size(h, b)) = i}
    BY <1>1, <2>4 DEF Listed
  <2> QED
    BY <2>8, <2>9 DEF Size
<1> QED
  BY <1>2, <1>3

-----------------------------------------------------------------------------
(* Extending the heap.                                                     *)

\* The heap gets a new last block x, at the old epilogue or where the last block was,
\* and a new epilogue at e2.
Lengthened(m, m2, e, B, x, e2) ==
    /\ m \in Memory /\ m2 \in Memory /\ Tiled(m, e, B)
    /\ x \in B \cup {e} /\ e2 \in Address /\ e2 % 2 = 1 /\ e < e2 /\ x < e2
    /\ x # e => Succ(m, x) = e /\ ~m[x].alloc
    /\ \A w \in Address : w < x \/ w > e2 => m2[w] = m[w]
    /\ m2[x].kind = "tag" /\ m2[x].size = e2 - x /\ ~m2[x].alloc
    /\ x # e => m2[x].prev_min = m[x].prev_min /\ m2[x].prev_alloc = m[x].prev_alloc
    /\ x = e => /\ m2[e].prev_alloc
                /\ \A c \in B : Succ(m, c) = e => m[c].alloc /\ (m2[e].prev_min <=> m[c].size = 2)
    /\ e2 - x > 2 => m2[e2 - 1].kind = "tag" /\ m2[e2 - 1].size = e2 - x
    /\ m2[e2] = One
    /\ \A w \in Address : x < w /\ w < e2 => m2[w] = m[w] \/ ~m2[w].alloc

LengthFrame(m, m2, e, B, x, e2) ==
    /\ Tiled(m2, e2, B \cup {x}) /\ x \notin AllocSet(m, B)
    /\ ~m2[x].alloc /\ Succ(m2, x) = e2
    /\ \A c \in B : c # x => /\ m2[c].size = m[c].size /\ m2[c].alloc = m[c].alloc
                             /\ Succ(m2, c) = Succ(m, c)
                             /\ \A w \in Address : c < w /\ w < Succ(m, c) => m2[w] = m[w]
    /\ EvenOK(m) => EvenOK(m2)
    /\ EndOK(m2, e2, B \cup {x}, x)
    /\ Apart(m, B) => Apart(m2, B \cup {x})

\* Putting new memory behind the last block, into it or as a block of its own,
\* keeps the heap tiled up to the new epilogue.
LEMMA LengthenedFrame ==
    ASSUME NEW m, NEW m2, NEW e, NEW B, NEW x, NEW e2, Lengthened(m, m2, e, B, x, e2)
    PROVE  LengthFrame(m, m2, e, B, x, e2)
<1> DEFINE B2 == B \cup {x}
<1>1. /\ m \in Memory /\ m2 \in Memory /\ Tiled(m, e, B)
      /\ x \in B \cup {e} /\ e2 \in Address /\ e2 % 2 = 1 /\ e < e2 /\ x < e2
      /\ x # e => Succ(m, x) = e /\ ~m[x].alloc
  BY DEF Lengthened
<1>2. /\ \A w \in Address : w < x \/ w > e2 => m2[w] = m[w]
      /\ \A w \in Address : x < w /\ w < e2 => m2[w] = m[w] \/ ~m2[w].alloc
      /\ m2[e2] = One
  BY DEF Lengthened
<1>3. /\ m2[x].kind = "tag" /\ m2[x].size = e2 - x /\ ~m2[x].alloc
      /\ x # e => m2[x].prev_min = m[x].prev_min /\ m2[x].prev_alloc = m[x].prev_alloc
      /\ x = e => /\ m2[e].prev_alloc
                  /\ \A c \in B : Succ(m, c) = e => m[c].alloc /\ (m2[e].prev_min <=> m[c].size = 2)
      /\ e2 - x > 2 => m2[e2 - 1].kind = "tag" /\ m2[e2 - 1].size = e2 - x
  BY DEF Lengthened
<1>P. Plain(m, e, B)
  BY <1>1, TiledTypes
<1>4. /\ Address = 0 .. MaxHeap - 1 /\ MaxHeap \in Nat /\ e \in Nat /\ e \in Address /\ e % 2 = 1 /\ e > 1
      /\ B \subseteq Address /\ B \subseteq 1 .. e - 1 /\ 1 \in B /\ e \notin B
      /\ \A c \in B : /\ c \in Nat /\ c % 2 = 1 /\ c \in Address /\ Succ(m, c) \in Nat /\ c < Succ(m, c)
                      /\ Succ(m, c) \in B \cup {e} /\ m[c].size \in Nat
  BY <1>P DEF Plain
<1>5. x \in Nat /\ e2 \in Nat /\ x % 2 = 1 /\ x <= e /\ x \in Address /\ x > 0
  BY <1>1, <1>4
<1>6. (e2 - x) % 2 = 0 /\ e2 - x >= 2 /\ e2 - x \in Nat
  <2>1. x \in Nat /\ e2 \in Nat /\ x % 2 = 1 /\ e2 % 2 = 1 /\ x < e2
    BY <1>1, <1>5
  <2> QED
    BY <2>1
<1>7. Succ(m2, x) = e2
  BY <1>3, <1>5 DEF Succ
<1>8. ASSUME NEW c \in B, c # x
      PROVE  c < x /\ Succ(m, c) <= x /\ Succ(m, c) \in B2 /\ (Succ(m, c) = e => x = e)
  <2>1. BlockOK(m, e, B, c)
    BY <1>1 DEF Tiled
  <2>2. c \in Nat /\ c < e /\ Succ(m, c) \in Nat /\ c < Succ(m, c) /\ Succ(m, c) \in B \cup {e}
    BY <1>4
  <2>3. CASE x = e
    BY <2>2, <2>3, <1>4
  <2>4. CASE x # e
    <3>1. x \in B /\ Succ(m, x) = e
      BY <2>4, <1>1
    <3>2. BlockOK(m, e, B, x)
      BY <3>1, <1>1 DEF Tiled
    <3>3a. c <= x \/ c >= e
      BY <3>1, <3>2 DEF BlockOK
    <3>3. c < x
      BY <3>3a, <2>2, <1>4, <1>5, <1>8
    <3>4. Succ(m, c) <= x
      BY <3>1, <3>3, <2>1, <2>2, <1>5 DEF BlockOK
    <3>5. Succ(m, c) # e
      BY <3>4, <2>4, <1>4, <1>5
    <3> QED
      BY <3>3, <3>4, <3>5, <2>2
  <2> QED
    BY <2>3, <2>4
<1>9. ASSUME NEW c \in B, c # x
      PROVE  /\ m2[c] = m[c] /\ Succ(m2, c) = Succ(m, c)
             /\ \A w \in Address : c < w /\ w < Succ(m, c) => m2[w] = m[w]
  <2>1. c < x /\ Succ(m, c) <= x /\ c \in Address /\ c \in Nat /\ Succ(m, c) \in Nat
    BY <1>4, <1>8, <1>9
  <2>2. m2[c] = m[c]
    BY <2>1, <1>2
  <2>3. \A w \in Address : c < w /\ w < Succ(m, c) => m2[w] = m[w]
    <3> SUFFICES ASSUME NEW w \in Address, c < w, w < Succ(m, c) PROVE m2[w] = m[w]
      OBVIOUS
    <3>1. w \in Nat
      BY <1>4
    <3>2. w < x
      BY <3>1, <2>1, <1>5
    <3> QED
      BY <3>2, <1>2
  <2> QED
    BY <2>2, <2>3 DEF Succ
<1>10. ASSUME NEW c \in B, c # x PROVE BlockOK(m2, e2, B2, c)
  <2> DEFINE n == Succ(m, c)
  <2>1. BlockOK(m, e, B, c)
    BY <1>1 DEF Tiled
  <2>2. /\ c < x /\ n <= x /\ n \in B2 /\ (n = e => x = e) /\ n \in Nat /\ c \in Nat /\ c < n
        /\ m2[c] = m[c] /\ Succ(m2, c) = n /\ m[c].size \in Nat
    BY <1>4, <1>8, <1>9, <1>10
  <2> HIDE DEF n
  <2>w. /\ n \in Nat /\ n > 0 /\ n <= x /\ x \in Nat /\ Address = 0 .. MaxHeap - 1 /\ MaxHeap \in Nat
        /\ x <= MaxHeap - 1
    <3>1. x \in 0 .. MaxHeap - 1 /\ MaxHeap \in Nat /\ Address = 0 .. MaxHeap - 1
      BY <1>4, <1>5
    <3>2. n > 0
      BY <2>2
    <3> QED
      BY <2>2, <3>1, <3>2
  <2>3. n # e2
    BY <2>2, <1>1, <1>5
  <2>4. m2[n - 1] = m[n - 1]
    <3>1. n - 1 \in Address /\ n - 1 < x
      BY <2>w
    <3> QED
      BY <3>1, <1>2
  <2>5. m2[n].prev_alloc <=> m[c].alloc
    <3>1. CASE n = x /\ x = e
      BY <3>1, <1>3 DEF n
    <3>2. CASE n = x /\ x # e
      BY <3>2, <2>1, <2>2, <1>3 DEF BlockOK, n
    <3>3. CASE n # x
      <4>1. n < x /\ n \in Address
        BY <3>3, <2>w
      <4> QED
        BY <4>1, <2>1, <1>2 DEF BlockOK, n
    <3> QED
      BY <3>1, <3>2, <3>3
  <2>6. m2[n].prev_min <=> m[c].size = 2
    <3>1. CASE n = x /\ x = e
      BY <3>1, <1>3 DEF n
    <3>2. CASE n = x /\ x # e
      BY <3>2, <2>1, <2>2, <1>3 DEF BlockOK, n
    <3>3. CASE n # x
      <4>1. n < x /\ n \in Address /\ n # e
        BY <3>3, <2>w, <2>2
      <4> QED
        BY <4>1, <2>1, <1>2 DEF BlockOK, n
    <3> QED
      BY <3>1, <3>2, <3>3
  <2>7. \A d \in B2 : d <= c \/ d >= n
    <3>1. \A d \in B : d <= c \/ d >= n
      BY <2>1 DEF BlockOK, n
    <3> QED
      BY <3>1, <2>2
  <2>8. c % 2 = 1 /\ m[c].kind = "tag" /\ m[c].size >= 2 /\ m[c].size % 2 = 0
        /\ (~m[c].alloc /\ m[c].size > 2 => m[n - 1].kind = "tag" /\ m[n - 1].size = m[c].size)
    BY <2>1 DEF BlockOK, n
  <2> HIDE DEF B2
  <2> QED
    BY <2>2, <2>4, <2>5, <2>6, <2>7, <2>8 DEF BlockOK
<1>11. BlockOK(m2, e2, B2, x)
  <2>1. \A c \in B2 : c <= x \/ c >= e2
    BY <1>4, <1>5, <1>8
  <2>2. m2[e2].prev_alloc <=> m2[x].alloc
    BY <1>2, <1>3 DEF One, Tag
  <2>3. m2[x].size > 2 => (m2[e2].prev_min <=> m2[x].size = 2)
    BY <1>2, <1>3, <1>6 DEF One, Tag
  <2> HIDE DEF B2
  <2> QED
    BY <2>1, <2>2, <2>3, <1>3, <1>5, <1>6, <1>7 DEF BlockOK
<1>12. Tiled(m2, e2, B2)
  <2>1. 1 \in B2 /\ B2 \subseteq 1 .. e2 - 1
    <3>1. \A c \in B : c \in 1 .. e2 - 1
      BY <1>1, <1>4, <1>5
    <3>2. x \in 1 .. e2 - 1
      BY <1>1, <1>5
    <3> QED
      BY <3>1, <3>2, <1>4
  <2>2. ASSUME NEW c \in B2 \cup {e2}, c # 1 PROVE \E d \in B2 : Succ(m2, d) = c
    <3>1. CASE c = e2
      BY <3>1, <1>7
    <3>2. CASE c # e2
      <4>1. c \in B \cup {e} /\ c <= x
        <5>1. c = x \/ c \in B
          BY <3>2
        <5> QED
          BY <5>1, <1>1, <1>5, <1>8
      <4>2. PICK d \in B : Succ(m, d) = c
        BY <4>1, <2>2, <1>1 DEF Tiled
      <4>3. d # x
        <5>1. d < c /\ d \in Nat /\ c \in Nat
          BY <4>2, <1>4
        <5> QED
          BY <5>1, <4>1, <1>5
      <4> QED
        BY <4>2, <4>3, <1>9
    <3> QED
      BY <3>1, <3>2
  <2>3. m2[1].prev_alloc
    <3>1. m[1].prev_alloc
      BY <1>1 DEF Tiled
    <3>2. CASE x = 1
      BY <3>1, <3>2, <1>3, <1>4
    <3>3. CASE x # 1
      BY <3>1, <3>3, <1>4, <1>9
    <3> QED
      BY <3>2, <3>3
  <2>4. m2[e2].kind = "tag" /\ m2[e2].size = 0 /\ m2[e2].alloc
    BY <1>2 DEF One, Tag
  <2>5. \A c \in B2 : BlockOK(m2, e2, B2, c)
    BY <1>10, <1>11
  <2> HIDE DEF B2
  <2> QED
    BY <2>1, <2>2, <2>3, <2>4, <2>5, <1>1 DEF Tiled
<1>13. EvenOK(m) => EvenOK(m2)
  <2> SUFFICES ASSUME EvenOK(m), NEW w \in Address, w > 0, w % 2 = 0
               PROVE  m2[w] # One
    BY DEF EvenOK
  <2>1. w \in Nat /\ w # x /\ w # e2
    BY <1>1, <1>4, <1>5
  <2>2. m2[w] = m[w] \/ ~m2[w].alloc
    <3>1. w < x \/ w > e2 \/ (x < w /\ w < e2)
      BY <2>1, <1>5
    <3> QED
      BY <3>1, <1>2
  <2>3. One.alloc
    BY DEF One, Tag
  <2> QED
    BY <2>2, <2>3 DEF EvenOK
<1>14. EndOK(m2, e2, B2, x)
  BY <1>7 DEF EndOK
<1>15. Apart(m, B) => Apart(m2, B2)
  <2> SUFFICES ASSUME Apart(m, B), NEW c \in B2, Succ(m2, c) \in B2
               PROVE  m2[c].alloc \/ m2[Succ(m2, c)].alloc
    BY DEF Apart
  <2>1. c # x
    <3>1. e2 \notin B2
      BY <1>1, <1>4, <1>5
    <3> QED
      BY <3>1, <1>7
  <2>2. c \in B /\ Succ(m2, c) = Succ(m, c) /\ m2[c] = m[c]
    BY <2>1, <1>9
  <2>3. CASE Succ(m, c) = x
    <3>1. CASE x = e
      BY <3>1, <2>2, <2>3, <1>3
    <3>2. CASE x # e
      BY <3>2, <2>2, <2>3, <1>1 DEF Apart
    <3> QED
      BY <3>1, <3>2
  <2>4. CASE Succ(m, c) # x
    <3>1. Succ(m, c) \in B
      BY <2>2, <2>4
    <3> QED
      BY <3>1, <2>2, <2>4, <1>9 DEF Apart
  <2> QED
    BY <2>3, <2>4
<1>16. x \notin AllocSet(m, B)
  BY <1>1, <1>4 DEF AllocSet
<1> QED
  BY <1>3, <1>7, <1>9, <1>12, <1>13, <1>14, <1>15, <1>16 DEF LengthFrame

\* The last block of the heap is laid out, and pushed.
LayLast(h, x, k, pm, pa) == Push(WriteBlock(h, x, k, pm, pa, FALSE), x)

Laying(h, x, k, pm, pa, S) ==
    /\ h \in HeapRecord /\ x \in Address /\ k \in Nat /\ (k = 2 \/ k >= 4) /\ x + k \in Address
    /\ pm \in BOOLEAN /\ pa \in BOOLEAN
    /\ S \in SUBSET Address /\ Listed(h, S) /\ \A s \in S : s < x

Laid(h, g, x, k, pm, pa, S) ==
    /\ g \in HeapRecord /\ SameRest(h, g) /\ Listed(g, S \cup {x})
    /\ \A w \in Address : w < x \/ w >= x + k => g.mem[w] = h.mem[w]
    /\ g.mem[x] = Tag(k, pm, pa, FALSE)
    /\ k > 2 => g.mem[x + k - 1] = Tag(k, pm, pa, FALSE)
    /\ \A w \in Address : x < w /\ w < x + k => g.mem[w] = h.mem[w] \/ ~g.mem[w].alloc

\* extend_heap's block at the end is written and pushed.
LEMMA LaidEffect ==
    ASSUME NEW h, NEW x, NEW k, NEW pm, NEW pa, NEW S, Laying(h, x, k, pm, pa, S)
    PROVE  Laid(h, LayLast(h, x, k, pm, pa), x, k, pm, pa, S)
<1> DEFINE r == WriteBlock(h, x, k, pm, pa, FALSE)
           g == Push(r, x)
           t == Tag(k, pm, pa, FALSE)
<1>0. /\ h \in HeapRecord /\ x \in Address /\ k \in Nat /\ (k = 2 \/ k >= 4) /\ x + k \in Address
      /\ pm \in BOOLEAN /\ pa \in BOOLEAN
      /\ S \in SUBSET Address /\ Listed(h, S) /\ \A s \in S : s < x
  BY DEF Laying
<1>1. Address = 0 .. MaxHeap - 1 /\ MaxHeap \in Nat
  BY MallocAssumption DEF Address
<1>3. /\ x \in Nat /\ x + k - 1 \in Address /\ x + 1 \in Address /\ x + 2 \in Address
      /\ (k # 2 => x + k - 1 > x + 2) /\ \A s \in S : s \in Nat /\ s < x
  BY <1>0, <1>1
<1>4. /\ r \in HeapRecord /\ SameLists(h, r) /\ SameRest(h, r)
      /\ \A w \in Address : r.mem[w] = IF w = x \/ (~FALSE /\ k # 2 /\ w = x + k - 1) THEN t ELSE h.mem[w]
  <2>1. ~FALSE /\ k # 2 => x + k - 1 \in Address
    BY <1>3
  <2>3. FALSE \in BOOLEAN
    OBVIOUS
  <2>4. Wrote(h, WriteBlock(h, x, k, pm, pa, FALSE), x, k, pm, pa, FALSE)
    BY <1>0, <2>1, <2>3, WriteEffect
  <2> HIDE DEF r
  <2> QED
    BY <2>4 DEF Wrote, r
<1>t. t.kind = "tag" /\ t.size = k /\ ~t.alloc
  BY DEF Tag
<1> HIDE DEF r, t
<1>5. \A w \in Address : r.mem[w] = IF w = x \/ (k # 2 /\ w = x + k - 1) THEN t ELSE h.mem[w]
  BY <1>4
<1>6. Size(r, x) = k
  BY <1>0, <1>5, <1>t DEF Size
<1>7. Listed(r, S)
  <2>1. \A s \in S : s \in Address /\ s # x /\ s # x + k - 1
    BY <1>0, <1>3
  <2>2. \A s \in S : Size(r, s) = Size(h, s)
    BY <2>1, <1>5 DEF Size
  <2> QED
    BY <2>2, <1>0, <1>4, ListedFrame
<1>8. x \notin S /\ x + 1 \notin S /\ x + 2 \notin S
  BY <1>3
<1>9. /\ g \in HeapRecord /\ SameRest(r, g) /\ Listed(g, S \cup {x})
      /\ \A w \in Address : w # x + 1 /\ w # x + 2 => g.mem[w] = r.mem[w]
      /\ g.mem[x + 1] = Link
      /\ x + 2 \in Address => g.mem[x + 2] = IF Size(r, x) = 2 THEN r.mem[x + 2] ELSE Link
  <2>1. k >= 2
    BY <1>0
  <2>2. Pushable(r, x, S)
    BY <2>1, <1>0, <1>3, <1>4, <1>6, <1>7, <1>8 DEF Pushable
  <2>3. Pushed(r, g, x, S)
    BY <2>2, PushEffect
  <2> HIDE DEF g
  <2> QED
    BY <2>3 DEF Pushed
<1> HIDE DEF g
<1>10. ~Link.alloc
  BY DEF Link, Other
<1>11. \A w \in Address : g.mem[w] = IF w = x \/ (k # 2 /\ w = x + k - 1) THEN t
                          ELSE IF w = x + 1 \/ (k # 2 /\ w = x + 2) THEN Link ELSE h.mem[w]
  <2> TAKE w \in Address
  <2>1. CASE k = 2
    BY <2>1, <1>3, <1>5, <1>6, <1>9
  <2>2. CASE k # 2
    BY <2>2, <1>3, <1>5, <1>6, <1>9
  <2> QED
    BY <2>1, <2>2
<1>12. SameRest(h, g)
  BY <1>4, <1>9 DEF SameRest
<1>13. \A w \in Address : w < x \/ w >= x + k => g.mem[w] = h.mem[w]
  <2> SUFFICES ASSUME NEW w \in Address, w < x \/ w >= x + k PROVE g.mem[w] = h.mem[w]
    OBVIOUS
  <2>1. w \in Nat
    BY <1>1
  <2>2. w # x /\ w # x + k - 1 /\ w # x + 1 /\ (k # 2 => w # x + 2)
    BY <2>1, <1>0, <1>3
  <2> QED
    BY <2>2, <1>11
<1>14. \A w \in Address : x < w /\ w < x + k => g.mem[w] = h.mem[w] \/ ~g.mem[w].alloc
  BY <1>t, <1>10, <1>11
<1>15. g.mem[x] = t /\ (k > 2 => g.mem[x + k - 1] = t)
  BY <1>0, <1>3, <1>11
<1> QED
  BY <1>9, <1>12, <1>13, <1>14, <1>15 DEF g, r, t, Laid, LayLast

\* And so is the epilogue behind it.
EndWith(h, x, k, pm, pa) == WriteEpilogue([LayLast(h, x, k, pm, pa) EXCEPT !.end = x], x + k)

Ended(h, g, x, k, pm, pa, S) ==
    /\ g \in HeapRecord /\ g.brk = h.brk /\ g.fault = h.fault /\ g.end = x
    /\ Listed(g, S \cup {x})
    /\ \A w \in Address : w < x \/ w > x + k => g.mem[w] = h.mem[w]
    /\ g.mem[x] = Tag(k, pm, pa, FALSE) /\ g.mem[x + k] = One
    /\ k > 2 => g.mem[x + k - 1] = Tag(k, pm, pa, FALSE)
    /\ \A w \in Address : x < w /\ w < x + k => g.mem[w] = h.mem[w] \/ ~g.mem[w].alloc

\* With the epilogue after it and heap_end at it, the extension is complete.
LEMMA EndedEffect ==
    ASSUME NEW h, NEW x, NEW k, NEW pm, NEW pa, NEW S, Laying(h, x, k, pm, pa, S)
    PROVE  Ended(h, EndWith(h, x, k, pm, pa), x, k, pm, pa, S)
<1> DEFINE f == LayLast(h, x, k, pm, pa)
           f2 == [f EXCEPT !.end = x]
           g == WriteEpilogue(f2, x + k)
<1>0. /\ h \in HeapRecord /\ x \in Address /\ k \in Nat /\ (k = 2 \/ k >= 4) /\ x + k \in Address
      /\ S \in SUBSET Address /\ \A s \in S : s < x
  BY DEF Laying
<1>1. Address = 0 .. MaxHeap - 1 /\ MaxHeap \in Nat
  BY MallocAssumption DEF Address
<1>2. Laid(h, f, x, k, pm, pa, S)
  BY LaidEffect
<1>G. EndWith(h, x, k, pm, pa) = g
  BY DEF EndWith
<1> HIDE DEF f
<1>3. /\ f \in HeapRecord /\ SameRest(h, f) /\ Listed(f, S \cup {x})
      /\ \A w \in Address : w < x \/ w >= x + k => f.mem[w] = h.mem[w]
      /\ f.mem[x] = Tag(k, pm, pa, FALSE)
      /\ k > 2 => f.mem[x + k - 1] = Tag(k, pm, pa, FALSE)
      /\ \A w \in Address : x < w /\ w < x + k => f.mem[w] = h.mem[w] \/ ~f.mem[w].alloc
  BY <1>2 DEF Laid
<1>4. x \in Nat /\ \A s \in S \cup {x} : s \in Nat /\ s # x + k
  BY <1>0, <1>1
<1>5. f2 \in HeapRecord /\ SameLists(f, f2) /\ f2.mem = f.mem /\ f2.brk = f.brk /\ f2.fault = f.fault /\ f2.end = x
  BY <1>3, <1>4 DEF HeapRecord, SameLists
<1> HIDE DEF f2
<1>6. One \in Word
  BY TagIsWord DEF One
<1>7. WordSet(f2, x + k, One, g)
  <2>1. g = [f2 EXCEPT !.mem = [f2.mem EXCEPT ![x + k] = One]]
    BY DEF WriteEpilogue
  <2> HIDE DEF g
  <2>2. Setting(f2, x + k, One, g)
    BY <2>1, <1>0, <1>5, <1>6 DEF Setting
  <2> QED
    BY <2>2, SetWord
<1> HIDE DEF g
<1>8. /\ g \in HeapRecord /\ SameLists(f, g) /\ g.brk = f.brk /\ g.fault = f.fault /\ g.end = x
      /\ \A w \in Address : g.mem[w] = IF w = x + k THEN One ELSE f.mem[w]
  BY <1>5, <1>7 DEF WordSet, SameLists, SameRest
<1>9. Listed(g, S \cup {x})
  <2>1. \A s \in S \cup {x} : s \in Address /\ s # x + k
    BY <1>0, <1>4
  <2>2. \A s \in S \cup {x} : Size(g, s) = Size(f, s)
    BY <2>1, <1>8 DEF Size
  <2> QED
    BY <2>2, <1>3, <1>8, ListedFrame
<1>10. g.brk = h.brk /\ g.fault = h.fault
  BY <1>3, <1>8 DEF SameRest
<1>11. \A w \in Address : w < x \/ w > x + k => g.mem[w] = h.mem[w]
  <2> SUFFICES ASSUME NEW w \in Address, w < x \/ w > x + k PROVE g.mem[w] = h.mem[w]
    OBVIOUS
  <2>1. w # x + k /\ (w < x \/ w >= x + k)
    BY <1>0, <1>1, <1>4
  <2> QED
    BY <2>1, <1>3, <1>8
<1>12. g.mem[x] = Tag(k, pm, pa, FALSE) /\ g.mem[x + k] = One
  BY <1>0, <1>3, <1>4, <1>8
<1>13. k > 2 => g.mem[x + k - 1] = Tag(k, pm, pa, FALSE)
  <2> SUFFICES ASSUME k > 2 PROVE g.mem[x + k - 1] = Tag(k, pm, pa, FALSE)
    OBVIOUS
  <2>1. x + k - 1 \in Address /\ x + k - 1 # x + k
    BY <1>0, <1>1, <1>4
  <2> QED
    BY <2>1, <1>3, <1>8
<1>14. \A w \in Address : x < w /\ w < x + k => g.mem[w] = h.mem[w] \/ ~g.mem[w].alloc
  <2> SUFFICES ASSUME NEW w \in Address, x < w, w < x + k PROVE g.mem[w] = h.mem[w] \/ ~g.mem[w].alloc
    OBVIOUS
  <2>1. w # x + k
    BY <1>0, <1>1, <1>4
  <2>2. g.mem[w] = f.mem[w]
    BY <2>1, <1>8
  <2> QED
    BY <2>2, <1>3
<1> QED
  BY <1>G, <1>8, <1>9, <1>10, <1>11, <1>12, <1>13, <1>14 DEF Ended

\* There is room for that many words.
Room(h, words) ==
    /\ words \in Nat /\ words >= 2 /\ words % 2 = 0 /\ h.brk + words <= MaxHeap

\* The heap has grown, and x is its last block.
Extended(h, B, g, B2, x, words) ==
    /\ Good(g, B2) /\ Kept(h.mem, B, g.mem, B2) /\ AllocSet(g.mem, B2) = AllocSet(h.mem, B)
    /\ g.brk = h.brk + words
    /\ x \in B2 /\ ~g.mem[x].alloc /\ g.mem[x].size >= words

\* h0 is the heap with its new size, and without x in a list.
Extending(h, B, h0, x, words, pm, pa) ==
    LET e == h.brk - 1   m == h.mem IN
    /\ Good(h, B) /\ Room(h, words)
    /\ h0 \in HeapRecord /\ h0.mem = m /\ h0.brk = h.brk + words /\ h0.fault = "none"
    /\ Listed(h0, FreeSet(m, B) \ {x})
    /\ x \in B \cup {e} /\ pm \in BOOLEAN /\ pa \in BOOLEAN
    /\ x # e => Succ(m, x) = e /\ ~m[x].alloc /\ pm = m[x].prev_min /\ pa = m[x].prev_alloc
    /\ x = e => pa /\ \A c \in B : Succ(m, c) = e => m[c].alloc /\ (pm <=> m[c].size = 2)

\* The old epilogue, the new one, and the size of the last block.
Measured(h, x, words, e, e2, k) ==
    /\ e \in Nat /\ e2 \in Nat /\ x \in Nat /\ e = h.brk - 1
    /\ e2 = e + words /\ k = e2 - x /\ x + k = e2 /\ x + k - 1 = e2 - 1
    /\ e < e2 /\ x < e2 /\ e2 <= MaxHeap - 1 /\ h.brk + words - 1 = e2

\* The sizes and addresses extend_heap computes, as naturals.
LEMMA Measures ==
    ASSUME NEW h, NEW x \in Nat, NEW words, Room(h, words), h.brk \in Nat, h.brk > 0, x < h.brk
    PROVE  Measured(h, x, words, h.brk - 1, h.brk - 1 + words, h.brk - 1 + words - x)
<1>1. words \in Nat /\ words >= 2 /\ h.brk + words <= MaxHeap
  BY DEF Room
<1> QED
  BY <1>1, MallocAssumption DEF Measured

\* extend_heap leaves the heap good when heap_end is the last block.
LEMMA ExtendingIsGood ==
    ASSUME NEW h, NEW B, NEW h0, NEW x, NEW words, NEW pm, NEW pa, Extending(h, B, h0, x, words, pm, pa),
           NEW e, NEW e2, NEW k, Measured(h, x, words, e, e2, k),
           NEW g, g = EndWith(h0, x, k, pm, pa)
    PROVE  /\ Extended(h, B, g, B \cup {x}, x, words)
           /\ Laid(h0, LayLast(h0, x, k, pm, pa), x, k, pm, pa, FreeSet(h.mem, B) \ {x})
<1> DEFINE m == h.mem
           m2 == g.mem
           S == FreeSet(m, B) \ {x}
           B2 == B \cup {x}
<1>e. /\ e \in Nat /\ e2 \in Nat /\ x \in Nat /\ e = h.brk - 1
      /\ e2 = e + words /\ k = e2 - x /\ x + k = e2
      /\ e < e2 /\ x < e2 /\ e2 <= MaxHeap - 1
  BY DEF Measured
<1>1. /\ h \in HeapRecord /\ m \in Memory /\ Tiled(m, e, B) /\ EvenOK(m) /\ Apart(m, B)
      /\ h0 \in HeapRecord /\ h0.mem = m /\ h0.brk = h.brk + words /\ h0.fault = "none"
      /\ Listed(h0, S) /\ x \in B \cup {e} /\ pm \in BOOLEAN /\ pa \in BOOLEAN
  BY <1>e DEF Extending, Good, HeapRecord
<1>2. /\ x # e => Succ(m, x) = e /\ ~m[x].alloc /\ pm = m[x].prev_min /\ pa = m[x].prev_alloc
      /\ x = e => pa /\ \A c \in B : Succ(m, c) = e => m[c].alloc /\ (pm <=> m[c].size = 2)
  BY <1>e DEF Extending
<1>3. words \in Nat /\ words >= 2 /\ words % 2 = 0
  BY DEF Extending, Room
<1> HIDE DEF m, m2
<1>P. Plain(m, e, B)
  BY <1>1, TiledTypes
<1>4. /\ Address = 0 .. MaxHeap - 1 /\ MaxHeap \in Nat /\ e \in Nat /\ e \in Address /\ e % 2 = 1
      /\ B \subseteq Address /\ e \notin B
      /\ \A c \in B : c \in Nat /\ c % 2 = 1 /\ c < e /\ Succ(m, c) \in Nat /\ c < Succ(m, c)
  BY <1>P DEF Plain
<1>5. x \in Nat /\ x \in Address /\ x <= e /\ x % 2 = 1
  BY <1>1, <1>4
<1>6. e2 \in Address
  BY <1>4, <1>e
<1>7. e2 % 2 = 1
  <2>1. e2 = e + words /\ e \in Nat /\ words \in Nat /\ e % 2 = 1 /\ words % 2 = 0
    BY <1>e, <1>3, <1>4
  <2> QED
    BY <2>1
<1>9. k \in Nat /\ (k = 2 \/ k >= 4) /\ k >= words /\ k >= 2
  <2>1. k % 2 = 0
    BY <1>5, <1>7, <1>e
  <2>2. k \in Nat /\ k >= words
    BY SMTT(30), <1>e, <1>3, <1>4, <1>5
  <2>3. k >= 2
    BY <2>2, <1>3
  <2> QED
    BY <2>1, <2>2, <2>3
<1>10. \A c \in B : c # x => c < x /\ Succ(m, c) <= x
  <2> SUFFICES ASSUME NEW c \in B, c # x PROVE c < x /\ Succ(m, c) <= x
    OBVIOUS
  <2>0. BlockOK(m, e, B, c) /\ Succ(m, c) \in Nat /\ Succ(m, c) <= e
    BY <1>1, <1>P DEF Tiled, Plain
  <2>1. CASE x = e
    BY <2>0, <2>1, <1>4
  <2>2. CASE x # e
    <3>1. x \in B /\ Succ(m, x) = e
      BY <2>2, <1>1, <1>2
    <3>2. BlockOK(m, e, B, x)
      BY <3>1, <1>1 DEF Tiled
    <3>3. c <= x \/ c >= e
      BY <3>1, <3>2 DEF BlockOK
    <3>4. c < x
      BY <3>3, <1>4, <1>5
    <3>5. x <= c \/ x >= Succ(m, c)
      BY <3>1, <2>0 DEF BlockOK
    <3> QED
      BY <3>4, <3>5, <2>0, <1>4, <1>5
  <2> QED
    BY <2>1, <2>2
<1>11. Laying(h0, x, k, pm, pa, S)
  <2>1. S \in SUBSET Address /\ \A s \in S : s < x
    BY <1>4, <1>10 DEF S, FreeSet
  <2> HIDE DEF S
  <2> QED
    BY <2>1, <1>1, <1>5, <1>6, <1>e, <1>9 DEF Laying
<1>11a. Laid(h0, LayLast(h0, x, k, pm, pa), x, k, pm, pa, FreeSet(h.mem, B) \ {x})
  BY <1>11, LaidEffect DEF S, m
<1> HIDE DEF S
<1>12. Ended(h0, g, x, k, pm, pa, S)
  BY <1>11, EndedEffect
<1>13. /\ g \in HeapRecord /\ g.brk = h.brk + words /\ g.fault = "none" /\ g.end = x
       /\ Listed(g, S \cup {x})
       /\ \A w \in Address : w < x \/ w > e2 => m2[w] = m[w]
       /\ m2[x] = Tag(k, pm, pa, FALSE) /\ m2[e2] = One
       /\ k > 2 => m2[e2 - 1] = Tag(k, pm, pa, FALSE)
       /\ \A w \in Address : x < w /\ w < e2 => m2[w] = m[w] \/ ~m2[w].alloc
  <2>1. x + k = e2 /\ x + k - 1 = e2 - 1
    BY DEF Measured
  <2>2. /\ \A w \in Address : w < x \/ w > x + k => m2[w] = h0.mem[w]
        /\ m2[x + k] = One
        /\ k > 2 => m2[x + k - 1] = Tag(k, pm, pa, FALSE)
        /\ \A w \in Address : x < w /\ w < x + k => m2[w] = h0.mem[w] \/ ~m2[w].alloc
    BY <1>12 DEF Ended, m2
  <2>3. /\ \A w \in Address : w < x \/ w > e2 => m2[w] = m[w]
        /\ m2[e2] = One
        /\ k > 2 => m2[e2 - 1] = Tag(k, pm, pa, FALSE)
        /\ \A w \in Address : x < w /\ w < e2 => m2[w] = m[w] \/ ~m2[w].alloc
    <3>1. h0.mem = m
      BY <1>1
    <3> QED
      BY <2>1, <2>2, <3>1
  <2>4. /\ g \in HeapRecord /\ g.brk = h.brk + words /\ g.fault = "none" /\ g.end = x
        /\ Listed(g, S \cup {x}) /\ m2[x] = Tag(k, pm, pa, FALSE)
    BY <1>1, <1>12 DEF Ended, m2
  <2> QED
    BY <2>3, <2>4
<1>14. m2 \in Memory
  BY <1>13 DEF HeapRecord, m2
<1>15. /\ m2[x].kind = "tag" /\ m2[x].size = k /\ ~m2[x].alloc
       /\ m2[x].prev_min = pm /\ m2[x].prev_alloc = pa
  BY <1>13 DEF Tag
<1>16. k > 2 => m2[e2 - 1].kind = "tag" /\ m2[e2 - 1].size = k
  BY <1>13 DEF Tag
<1>17. Lengthened(m, m2, e, B, x, e2)
  BY <1>1, <1>2, <1>e, <1>6, <1>7, <1>13, <1>14, <1>15, <1>16 DEF Lengthened
<1>18. LengthFrame(m, m2, e, B, x, e2)
  BY <1>17, LengthenedFrame
<1>19. /\ Tiled(m2, e2, B2) /\ EvenOK(m2) /\ EndOK(m2, e2, B2, x) /\ Apart(m2, B2)
       /\ \A c \in B : c # x => /\ m2[c].size = m[c].size /\ m2[c].alloc = m[c].alloc
                                /\ Succ(m2, c) = Succ(m, c)
                                /\ \A w \in Address : c < w /\ w < Succ(m, c) => m2[w] = m[w]
  BY <1>1, <1>18 DEF LengthFrame
<1>20. x \notin AllocSet(m, B)
  BY <1>18 DEF LengthFrame
<1>21. FreeSet(m2, B2) = S \cup {x}
  BY <1>15, <1>19 DEF FreeSet, S
<1>22. AllocSet(m2, B2) = AllocSet(m, B)
  BY <1>15, <1>19, <1>20 DEF AllocSet
<1>23. Kept(m, B, m2, B2)
  BY <1>19, <1>20 DEF Kept, AllocSet
<1>24. g.brk - 1 = e2
  <2>1. h.brk + words - 1 = e2
    BY DEF Measured
  <2>2. g.brk = h.brk + words /\ g.brk \in Nat /\ h.brk \in Nat /\ words \in Nat
    BY <1>1, <1>3, <1>13 DEF HeapRecord
  <2> QED
    BY <2>1, <2>2
<1>25. Good(g, B2)
  BY <1>13, <1>19, <1>21, <1>24 DEF Good, m2
<1> QED
  BY <1>9, <1>11a, <1>13, <1>15, <1>22, <1>23, <1>25 DEF Extended, m, m2

\* pop on a block in no list.
LEMMA PopMisses ==
    ASSUME NEW h, NEW S, Listed(h, S), NEW b \in Nat, b \notin S
    PROVE  Pop(h, b) = Faulted(h, "pop")
<1>1. GetIndex(Size(h, b)) \in Classes /\ MinIndex(b) \in MinLists
  BY IndexIsClass, MinIndexIsClass
<1>2. b \notin ToSet(h.seg[GetIndex(Size(h, b))]) /\ b \notin ToSet(h.min[MinIndex(b)])
  BY <1>1 DEF Listed
<1> QED
  BY <1>2 DEF Pop

\* What heap_end may be: the last block, or a place within it.
LastIs(h, B, last) ==
    /\ last \in B /\ last \in Nat /\ Succ(h.mem, last) = h.brk - 1
    /\ h.mem[last].kind = "tag" /\ h.mem[last].size \in Nat /\ h.mem[last].size >= 2
    /\ \A c \in B : Succ(h.mem, c) = h.brk - 1 => c = last

StaleEnd(h, last) ==
    /\ ~h.mem[last].alloc /\ last < h.end /\ h.end < h.brk - 1 /\ h.end % 2 = 1
    /\ ~h.mem[h.end].alloc

\* heap_end is the last block, or points inside it: then it is no header at all.
LEMMA TheLast ==
    ASSUME NEW h, NEW B, Good(h, B)
    PROVE  \E last : LastIs(h, B, last) /\ (h.end = last \/ (StaleEnd(h, last) /\ h.end \notin B))
<1> DEFINE m == h.mem
           e == h.brk - 1
<1>1. h \in HeapRecord /\ m \in Memory /\ Tiled(m, e, B) /\ EndOK(m, e, B, h.end) /\ h.end \in Nat
  BY DEF Good, HeapRecord
<1> HIDE DEF m, e
<1>P. Plain(m, e, B)
  BY <1>1, TiledTypes
<1>2. PICK last \in B : /\ Succ(m, last) = e
                        /\ \/ h.end = last
                           \/ ~m[last].alloc /\ last < h.end /\ h.end < e /\ h.end % 2 = 1 /\ ~m[h.end].alloc
  BY <1>1 DEF EndOK
<1>3. \A c \in B : c \in Nat /\ c < e /\ BlockOK(m, e, B, c) /\ m[c].size \in Nat
  BY <1>1, <1>P DEF Tiled, Plain
<1>4. e \in Nat
  BY <1>P DEF Plain
<1>5. \A c \in B : Succ(m, c) = e => c = last
  <2> SUFFICES ASSUME NEW c \in B, Succ(m, c) = e PROVE c = last
    OBVIOUS
  <2>1. last <= c \/ last >= e
    BY <1>3 DEF BlockOK
  <2>2. c <= last \/ c >= e
    BY <1>2, <1>3 DEF BlockOK
  <2> QED
    BY <2>1, <2>2, <1>3, <1>4
<1>6. last < h.end /\ h.end < e => h.end \notin B
  <2>1. \A c \in B : c <= last \/ c >= e
    BY <1>2, <1>3 DEF BlockOK
  <2> QED
    BY <2>1, <1>1, <1>3, <1>4
<1>7. LastIs(h, B, last)
  <2>1. BlockOK(m, e, B, last) /\ last \in Nat /\ m[last].size \in Nat
    BY <1>3
  <2>2. m[last].kind = "tag" /\ m[last].size >= 2
    BY <2>1 DEF BlockOK
  <2> QED
    BY <2>1, <2>2, <1>2, <1>5 DEF LastIs, m, e
<1> QED
  BY <1>2, <1>6, <1>7 DEF StaleEnd, m, e

\* The heap has grown in size only.
Enlarged(h, words) == [h EXCEPT !.brk = @ + words]

\* mem_sbrk moves the break and changes nothing else.
LEMMA Enlarging ==
    ASSUME NEW h \in HeapRecord, NEW words \in Nat, NEW S, Listed(h, S)
    PROVE  /\ Enlarged(h, words) \in HeapRecord /\ Enlarged(h, words).brk = h.brk + words
           /\ Enlarged(h, words).mem = h.mem /\ SameLists(h, Enlarged(h, words))
           /\ Enlarged(h, words).end = h.end /\ Enlarged(h, words).fault = h.fault
           /\ Listed(Enlarged(h, words), S)
<1> DEFINE g == Enlarged(h, words)
<1>1. /\ g \in HeapRecord /\ g.brk = h.brk + words /\ g.mem = h.mem /\ SameLists(h, g)
      /\ g.end = h.end /\ g.fault = h.fault
  <2> DEFINE n == h.brk + words
  <2>1. n \in Nat
    BY DEF HeapRecord
  <2>2. g = [h EXCEPT !.brk = n]
    BY DEF Enlarged
  <2> HIDE DEF n, g
  <2>3. /\ g \in HeapRecord /\ g.brk = n /\ g.mem = h.mem /\ SameLists(h, g)
        /\ g.end = h.end /\ g.fault = h.fault
    BY <2>1, <2>2 DEF HeapRecord, SameLists
  <2> QED
    BY <2>3 DEF n
<1> HIDE DEF g
<1>2. Listed(g, S)
  BY <1>1, ListedFrame DEF Size
<1> QED
  BY <1>1, <1>2 DEF g

\* extend_heap went wrong over a heap_end that is no block.
WentStale(h, B, r, words) ==
    /\ r.heap \in HeapRecord /\ r.heap.fault # "none" /\ r.heap.brk = h.brk + words
    /\ r.block = h.end
    /\ \E last : LastIs(h, B, last) /\ StaleEnd(h, last)

ExtendedOrStale(h, B, r, words) ==
    \/ WentStale(h, B, r, words)
    \/ \E B2 : Extended(h, B, r.heap, B2, r.block, words)

\* If extend_heap fails, the reason is a stale heap_end.
LEMMA WrongIsStale ==
    ASSUME NEW h, NEW B, Good(h, B), NEW words \in Nat, NEW last, LastIs(h, B, last), StaleEnd(h, last),
           NEW f \in {"pop", "end"}, NEW r, r = [heap |-> Faulted(Enlarged(h, words), f), block |-> h.end]
    PROVE  WentStale(h, B, r, words)
<1> DEFINE g == Enlarged(h, words)
           g2 == Faulted(g, f)
<1>1. h \in HeapRecord /\ h.fault = "none" /\ Listed(h, FreeSet(h.mem, B))
  BY DEF Good
<1>2. g \in HeapRecord /\ g.brk = h.brk + words /\ g.fault = "none"
  BY <1>1, Enlarging
<1> HIDE DEF g
<1>3. g2 = [g EXCEPT !.fault = f]
  BY <1>2 DEF Faulted, HeapRecord
<1>4. g2 \in HeapRecord /\ g2.fault = f /\ g2.brk = g.brk
  BY <1>2, <1>3 DEF HeapRecord
<1> HIDE DEF g2
<1>5. r.heap = g2 /\ r.block = h.end
  BY DEF g2, g
<1> QED
  BY <1>2, <1>4, <1>5 DEF WentStale

\* extend_heap behind an allocated last block.
LEMMA ExtendFresh ==
    ASSUME NEW h, NEW B, Good(h, B), NEW words, Room(h, words), h.mem[h.end].alloc,
           NEW last, LastIs(h, B, last), h.end = last,
           NEW r, r = ExtendHeap(h, words), h.mem[h.brk - 2] # One
    PROVE  \E B2 : Extended(h, B, r.heap, B2, r.block, words)
<1> DEFINE m == h.mem
           e == h.brk - 1
           g == Enlarged(h, words)
           pm == MinStatus(Size(h, last))
           f == LayLast(g, e, words, pm, TRUE)
           f2 == [f EXCEPT !.end = e]
<1>1. /\ h \in HeapRecord /\ m \in Memory /\ Tiled(m, e, B) /\ Listed(h, FreeSet(m, B))
      /\ h.fault = "none" /\ h.brk \in Nat /\ words \in Nat
  BY DEF Good, HeapRecord, Room
<1>2. e \in Nat /\ e \notin B /\ h.brk > 0 /\ e < h.brk /\ e > 1
  <2>1. Plain(m, e, B)
    BY <1>1, TiledTypes
  <2>2. e \in Nat /\ B \subseteq 1 .. e - 1 /\ e > 1
    BY <2>1 DEF Plain
  <2>3. e \notin B
    BY <2>2
  <2> QED
    BY <2>2, <2>3, <1>1
<1>3. /\ g \in HeapRecord /\ g.mem = m /\ g.brk = h.brk + words /\ g.fault = "none"
      /\ Listed(g, FreeSet(m, B) \ {e})
  <2>1. FreeSet(m, B) \ {e} = FreeSet(m, B)
    BY <1>2 DEF FreeSet
  <2> QED
    BY <2>1, <1>1, Enlarging
<1>4. /\ last \in B /\ Succ(m, last) = e /\ m[last].alloc /\ m[last].kind = "tag"
      /\ \A c \in B : Succ(m, c) = e => c = last
  BY DEF LastIs
<1>5. pm \in BOOLEAN /\ (pm <=> m[last].size = 2)
  BY DEF MinStatus, MinBlock, Size
<1> HIDE DEF pm, g, f, f2
<1>6. Extending(h, B, g, e, words, pm, TRUE)
  BY <1>2, <1>3, <1>4, <1>5 DEF Extending
<1>7. Measured(h, e, words, e, e + words, words)
  <2>1. Measured(h, e, words, h.brk - 1, h.brk - 1 + words, h.brk - 1 + words - e)
    BY <1>1, <1>2, Measures
  <2>2. e + words - e = words
    BY <1>1, <1>2
  <2> QED
    BY <2>1, <2>2
<1>8. /\ Extended(h, B, EndWith(g, e, words, pm, TRUE), B \cup {e}, e, words)
      /\ Laid(g, f, e, words, pm, TRUE, FreeSet(m, B) \ {e})
  BY <1>6, <1>7, ExtendingIsGood DEF f
<1>9. Size(f2, e) = words
  <2>1. f \in HeapRecord /\ f.mem[e].size = words
    BY <1>8 DEF Laid, Tag
  <2>2. f2.mem = f.mem
    BY <2>1 DEF f2, HeapRecord
  <2> QED
    BY <2>1, <2>2 DEF Size
<1>10. EndWith(g, e, words, pm, TRUE) = WriteEpilogue(f2, e + words)
  BY DEF EndWith, f2, f
<1>11. r = [heap |-> WriteEpilogue(f2, e + Size(f2, e)), block |-> e]
  <2>1. h.mem[e - 1] # One
    <3>1. e - 1 = h.brk - 2
      BY <1>1
    <3> QED
      BY <3>1
  <2>2. h.mem[h.end].kind = "tag" /\ h.mem[h.end].alloc
    BY <1>4 DEF m
  <2> DEFINE f3 == [Push(WriteBlock([h EXCEPT !.brk = @ + words], e, words, MinStatus(Size(h, h.end)), TRUE, FALSE), e)
                       EXCEPT !.end = e]
  <2>3. f2 = f3
    BY DEF f2, f, LayLast, pm, g, Enlarged
  <2>4. ~(h.mem[e - 1] = One /\ h.mem[e] = One) /\ ~(h.mem[h.end].kind # "tag") /\ h.mem[h.end].alloc =>
          ExtendHeap(h, words) = [heap |-> WriteEpilogue(f3, e + Size(f3, e)), block |-> e]
    BY Zenon DEF ExtendHeap
  <2> HIDE DEF f3
  <2>5. r = [heap |-> WriteEpilogue(f3, e + Size(f3, e)), block |-> e]
    BY <2>1, <2>2, <2>4
  <2> QED
    BY <2>3, <2>5
<1>12. r.heap = EndWith(g, e, words, pm, TRUE) /\ r.block = e
  <2>1. r.heap = WriteEpilogue(f2, e + Size(f2, e)) /\ r.block = e
    BY <1>11
  <2> QED
    BY <2>1, <1>9, <1>10
<1> QED
  BY <1>8, <1>12

\* extend_heap of a free last block.
LEMMA ExtendOld ==
    ASSUME NEW h, NEW B, Good(h, B), NEW words, Room(h, words), ~h.mem[h.end].alloc,
           NEW last, LastIs(h, B, last), h.end = last,
           NEW r, r = ExtendHeap(h, words), h.mem[h.brk - 2] # One
    PROVE  \E B2 : Extended(h, B, r.heap, B2, r.block, words)
<1> DEFINE m == h.mem
           e == h.brk - 1
           g == Enlarged(h, words)
           h0 == Pop(g, last)
           pm == m[last].prev_min
           pa == m[last].prev_alloc
           k == words + Size(h, last)
           f == LayLast(h0, last, k, pm, pa)
           f2 == [f EXCEPT !.end = last]
<1>1. /\ h \in HeapRecord /\ m \in Memory /\ Tiled(m, e, B) /\ Listed(h, FreeSet(m, B))
      /\ h.fault = "none" /\ h.brk \in Nat /\ words \in Nat
  BY DEF Good, HeapRecord, Room
<1>4. /\ last \in B /\ last \in Nat /\ Succ(m, last) = e /\ ~m[last].alloc /\ m[last].kind = "tag"
      /\ m[last].size \in Nat /\ m[last].size >= 2
  BY DEF LastIs
<1>2. e \in Nat /\ h.brk > 0 /\ last < e /\ e < h.brk /\ last # e /\ m[last] \in Word
  <2>1. Plain(m, e, B)
    BY <1>1, TiledTypes
  <2>2. e \in Nat /\ B \subseteq 1 .. e - 1 /\ e > 1 /\ m[last] \in Word
    BY <2>1, <1>4 DEF Plain
  <2>3. last < e
    BY <2>2, <1>4
  <2> QED
    BY <2>2, <2>3, <1>1, <1>4
<1>5. pm \in BOOLEAN /\ pa \in BOOLEAN
  BY <1>2 DEF Word
<1>s. Size(h, last) = m[last].size
  BY DEF Size
<1> HIDE DEF g
<1>6. /\ g \in HeapRecord /\ g.mem = m /\ g.brk = h.brk + words /\ g.fault = "none" /\ g.end = last
      /\ Listed(g, FreeSet(m, B))
  BY <1>1, Enlarging DEF g
<1>7. Popped(g, h0, last, FreeSet(m, B))
  <2>1. last \in FreeSet(m, B) /\ Size(g, last) \in Nat /\ Size(g, last) >= 2
    BY <1>4, <1>6 DEF FreeSet, Size
  <2> QED
    BY <2>1, <1>4, <1>6, PopEffect
<1> HIDE DEF h0
<1>8. /\ h0 \in HeapRecord /\ h0.mem = m /\ h0.brk = h.brk + words /\ h0.fault = "none" /\ h0.end = last
      /\ Listed(h0, FreeSet(m, B) \ {last})
  BY <1>6, <1>7 DEF Popped, SameRest
<1>9. Extending(h, B, h0, last, words, pm, pa)
  BY <1>2, <1>4, <1>5, <1>8 DEF Extending
<1>10. Measured(h, last, words, e, e + words, k)
  <2>1. Measured(h, last, words, h.brk - 1, h.brk - 1 + words, h.brk - 1 + words - last)
    <3>1. last < h.brk
      BY <1>1, <1>2, <1>4
    <3> QED
      BY <3>1, <1>1, <1>2, <1>4, Measures
  <2>2. e = last + m[last].size
    BY <1>4 DEF Succ
  <2>3. e + words - last = k
    BY <2>2, <1>1, <1>2, <1>4, <1>s
  <2> QED
    BY <2>1, <2>3
<1> HIDE DEF k, f, f2
<1>11. /\ Extended(h, B, EndWith(h0, last, k, pm, pa), B \cup {last}, last, words)
       /\ Laid(h0, f, last, k, pm, pa, FreeSet(m, B) \ {last})
  BY <1>9, <1>10, ExtendingIsGood DEF f
<1>12. f \in HeapRecord /\ f.end = last /\ Size(f, last) = k
  BY <1>8, <1>11 DEF Laid, Tag, Size, SameRest
<1>13. f2 = f
  BY <1>12 DEF f2, HeapRecord
<1>14. EndWith(h0, last, k, pm, pa) = WriteEpilogue(f, last + k)
  BY <1>13 DEF EndWith, f2, f
<1>15. r.heap = WriteEpilogue(f, last + Size(f, last)) /\ r.block = last
  <2>1. h.mem[e - 1] # One
    <3>1. e - 1 = h.brk - 2
      BY <1>1
    <3> QED
      BY <3>1
  <2>2. h.mem[last].kind = "tag"
    BY <1>4 DEF m
  <2> DEFINE g2 == [h EXCEPT !.brk = @ + words]
             f3 == Push(Resize(Pop(g2, h.end), h.end, words + Size(h, h.end)), h.end)
  <2>3. f = f3
    <3>1. g2 = g /\ Pop(g2, h.end) = h0
      BY DEF g, Enlarged, h0
    <3>2. Resize(h0, last, k) = WriteBlock(h0, last, k, pm, pa, FALSE)
      BY <1>8 DEF Resize
    <3> HIDE DEF g2
    <3> QED
      BY <3>1, <3>2 DEF f, LayLast, k
  <2>4. Pop(g2, h.end).fault = "none"
    BY <1>8 DEF g, Enlarged, h0
  <2>5. ~(h.mem[e - 1] = One /\ h.mem[e] = One) /\ ~(h.mem[h.end].kind # "tag") /\ ~h.mem[h.end].alloc
        /\ ~(Pop(g2, h.end).fault # "none") =>
          ExtendHeap(h, words) = [heap |-> WriteEpilogue(f3, h.end + Size(f3, h.end)), block |-> h.end]
    BY Zenon DEF ExtendHeap
  <2> HIDE DEF f3, g2
  <2>6. r = [heap |-> WriteEpilogue(f3, h.end + Size(f3, h.end)), block |-> h.end]
    BY <2>1, <2>2, <2>4, <2>5
  <2> QED
    BY <2>3, <2>6
<1>16. r.heap = EndWith(h0, last, k, pm, pa) /\ r.block = last
  BY <1>12, <1>14, <1>15
<1> QED
  BY <1>11, <1>16

\* extend_heap leaves the heap good with a large enough free block at its end, or
\* goes wrong, and that only from a stale heap_end.
LEMMA ExtendEffect ==
    ASSUME NEW h, NEW B, Good(h, B), NEW words, Room(h, words), NEW r, r = ExtendHeap(h, words)
    PROVE  ExtendedOrStale(h, B, r, words)
<1>1. h \in HeapRecord /\ h.fault = "none" /\ Listed(h, FreeSet(h.mem, B)) /\ EvenOK(h.mem)
      /\ h.mem \in Memory /\ Tiled(h.mem, h.brk - 1, B) /\ h.end \in Nat /\ h.brk \in Nat /\ words \in Nat
  BY DEF Good, Room, HeapRecord
<1>2. PICK last : LastIs(h, B, last) /\ (h.end = last \/ (StaleEnd(h, last) /\ h.end \notin B))
  BY TheLast
<1>3. h.mem[h.brk - 2] # One
  <2>1. Plain(h.mem, h.brk - 1, B)
    BY <1>1, TiledTypes
  <2> DEFINE e == h.brk - 1
  <2>2. e \in Nat /\ e % 2 = 1 /\ e > 1 /\ e \in 0 .. MaxHeap - 1 /\ Address = 0 .. MaxHeap - 1 /\ MaxHeap \in Nat
    BY <2>1 DEF Plain
  <2>3. h.brk - 2 = e - 1
    BY <1>1
  <2> HIDE DEF e
  <2>4. e - 1 \in Address /\ e - 1 > 0 /\ (e - 1) % 2 = 0
    BY <2>2
  <2> QED
    BY <2>3, <2>4, <1>1 DEF EvenOK
<1>4. CASE h.end = last
  <2>1. CASE h.mem[h.end].alloc
    BY <2>1, <1>2, <1>3, <1>4, ExtendFresh DEF ExtendedOrStale
  <2>2. CASE ~h.mem[h.end].alloc
    BY <2>2, <1>2, <1>3, <1>4, ExtendOld DEF ExtendedOrStale
  <2> QED
    BY <2>1, <2>2
<1>5. CASE StaleEnd(h, last) /\ h.end \notin B
  <2> DEFINE g == Enlarged(h, words)
  <2>0. ~h.mem[h.end].alloc /\ h.mem[h.brk - 1 - 1] # One
    <3>1. h.brk - 1 - 1 = h.brk - 2
      BY <1>1
    <3> QED
      BY <3>1, <1>3, <1>5 DEF StaleEnd
  <2>1. CASE h.mem[h.end].kind # "tag"
    <3>1. r = [heap |-> Faulted(g, "end"), block |-> h.end]
      BY <2>0, <2>1, Zenon DEF ExtendHeap, Enlarged
    <3> HIDE DEF g
    <3>2. WentStale(h, B, r, words)
      BY <3>1, <1>1, <1>2, <1>5, WrongIsStale DEF g
    <3> QED
      BY <3>2 DEF ExtendedOrStale
  <2>2. CASE h.mem[h.end].kind = "tag"
    <3>1. Pop(g, h.end) = Faulted(g, "pop")
      <4>1. h.end \notin FreeSet(h.mem, B)
        BY <1>5 DEF FreeSet
      <4>2. Listed(g, FreeSet(h.mem, B))
        BY <1>1, Enlarging
      <4> QED
        BY <4>1, <4>2, <1>1, PopMisses
    <3>2. Faulted(g, "pop").fault = "pop"
      <4>1. g.fault = "none" /\ g \in HeapRecord
        BY <1>1, Enlarging
      <4> HIDE DEF g
      <4> QED
        BY <4>1 DEF Faulted, HeapRecord
    <3>3. Pop(g, h.end).fault # "none"
      BY <3>1, <3>2
    <3>4. r = [heap |-> Pop(g, h.end), block |-> h.end]
      <4>1. ~(h.mem[h.end].kind # "tag")
        BY <2>2
      <4> QED
        BY <2>0, <4>1, <3>3, Zenon DEF ExtendHeap, Enlarged
    <3> HIDE DEF g
    <3>5. r = [heap |-> Faulted(g, "pop"), block |-> h.end]
      BY <3>1, <3>4
    <3>6. WentStale(h, B, r, words)
      BY <3>5, <1>1, <1>2, <1>5, WrongIsStale DEF g
    <3> QED
      BY <3>6 DEF ExtendedOrStale
  <2> QED
    BY <2>1, <2>2
<1> QED
  BY <1>2, <1>4, <1>5

-----------------------------------------------------------------------------
(* The first heap.                                                         *)

\* The heap before it is extended for the first time.
EmptyHeap(mem) ==
    [mem |-> [mem EXCEPT ![0] = One, ![1] = One], brk |-> 2,
     seg |-> [i \in Classes |-> <<>>], min |-> [i \in MinLists |-> <<>>],
     end |-> HeapStart, fault |-> "none"]

EmptyFacts(mem, h) ==
    /\ h \in HeapRecord /\ h.brk = 2 /\ h.fault = "none" /\ h.end = 1 /\ Listed(h, {})
    /\ h.mem[0] = One /\ h.mem[1] = One /\ EvenOK(h.mem)

\* The heap mm_init writes, before it is extended, is a heap of no blocks.
LEMMA EmptyIsHeap ==
    ASSUME NEW mem \in Memory, EvenOK(mem)
    PROVE  EmptyFacts(mem, EmptyHeap(mem))
<1> DEFINE h == EmptyHeap(mem)
           m == [mem EXCEPT ![0] = One, ![1] = One]
           seg == [i \in Classes |-> <<>>]
           min == [i \in MinLists |-> <<>>]
<1>1. Address = 0 .. MaxHeap - 1 /\ MaxHeap \in Nat /\ 0 \in Address /\ 1 \in Address
  BY MallocAssumption DEF Address
<1>2. One \in Word
  BY TagIsWord DEF One
<1>3. m \in Memory /\ m[0] = One /\ m[1] = One /\ \A w \in Address : w > 1 => m[w] = mem[w]
  BY <1>1, <1>2 DEF Memory
<1>4. seg \in [Classes -> Seq(Nat)] /\ min \in [MinLists -> Seq(Nat)]
  OBVIOUS
<1>5. h.mem = m /\ h.brk = 2 /\ h.seg = seg /\ h.min = min /\ h.end = 1 /\ h.fault = "none"
  BY DEF EmptyHeap, HeapStart
<1>6. h = [mem |-> m, brk |-> 2, seg |-> seg, min |-> min, end |-> 1, fault |-> "none"]
  BY DEF EmptyHeap, HeapStart
<1> HIDE DEF m, h
<1>7. h \in HeapRecord
  <2> HIDE DEF seg, min
  <2> QED
    BY <1>3, <1>4, <1>6 DEF HeapRecord
<1>8. Listed(h, {})
  <2>1. \A c \in Classes : h.seg[c] = <<>>
    BY <1>5
  <2>2. \A c \in MinLists : h.min[c] = <<>>
    BY <1>5
  <2>3. IsInjective(<<>>) /\ ToSet(<<>>) = {}
    BY DEF IsInjective, ToSet
  <2> QED
    BY <2>1, <2>2, <2>3 DEF Listed
<1>9. EvenOK(m)
  <2> SUFFICES ASSUME NEW w \in Address, w > 0, w % 2 = 0 PROVE m[w] # One
    BY DEF EvenOK
  <2>1. w > 1
    BY <1>1
  <2> QED
    BY <2>1, <1>3 DEF EvenOK
<1> QED
  BY <1>3, <1>5, <1>7, <1>8, <1>9 DEF EmptyFacts, h

\* mm_init makes a good heap of one free block, whatever the last trace left in
\* memory.
LEMMA InitEffect ==
    ASSUME NEW mem \in Memory, EvenOK(mem)
    PROVE  Good(InitHeap(mem), {1}) /\ AllocSet(InitHeap(mem).mem, {1}) = {}
<1> DEFINE s == EmptyHeap(mem)
           h == Enlarged(s, ChunkSize)
           f == LayLast(h, 1, ChunkSize, FALSE, TRUE)
           f2 == [f EXCEPT !.end = 1]
           g == EndWith(h, 1, ChunkSize, FALSE, TRUE)
           e2 == 1 + ChunkSize
<1>1. EmptyFacts(mem, s)
  BY EmptyIsHeap
<1>2. InitHeap(mem) = ExtendHeap(s, ChunkSize).heap
  BY DEF InitHeap, EmptyHeap
<1> HIDE DEF s, h
<1>3. /\ s \in HeapRecord /\ s.brk = 2 /\ s.fault = "none" /\ s.end = 1 /\ Listed(s, {})
      /\ s.mem[0] = One /\ s.mem[1] = One /\ EvenOK(s.mem)
  BY <1>1 DEF EmptyFacts
<1>4. /\ ChunkSize \in Nat /\ ChunkSize > 0 /\ ChunkSize % 2 = 0
      /\ MaxHeap \in Nat /\ ChunkSize + 2 <= MaxHeap /\ Address = 0 .. MaxHeap - 1
  BY MallocAssumption DEF Address
<1>5. /\ h \in HeapRecord /\ h.brk = 2 + ChunkSize /\ h.mem = s.mem /\ h.fault = "none"
      /\ Listed(h, {})
  BY ZenonT(60), <1>3, <1>4, Enlarging DEF h
<1>6. /\ 1 \in Address /\ (ChunkSize = 2 \/ ChunkSize >= 4) /\ e2 \in Address /\ e2 \in Nat
      /\ e2 % 2 = 1 /\ ChunkSize >= 2
  BY <1>4
<1>7. Laying(h, 1, ChunkSize, FALSE, TRUE, {})
  BY <1>4, <1>5, <1>6 DEF Laying
<1> HIDE DEF f, g
<1>8. /\ Laid(h, f, 1, ChunkSize, FALSE, TRUE, {})
      /\ Ended(h, g, 1, ChunkSize, FALSE, TRUE, {})
  BY <1>7, LaidEffect, EndedEffect DEF f, g
<1>9. f2.mem = f.mem /\ Size(f2, 1) = ChunkSize
  <2>1. f \in HeapRecord /\ f.mem[1].size = ChunkSize
    BY <1>8 DEF Laid, Tag
  <2>2. f2.mem = f.mem
    BY <2>1 DEF HeapRecord
  <2> QED
    BY <2>1, <2>2 DEF Size
<1>10. g = WriteEpilogue(f2, 1 + ChunkSize)
  BY DEF g, f, EndWith
<1> HIDE DEF f2
<1>11. ExtendHeap(s, ChunkSize).heap = g
  <2>0. s.brk - 1 = 1 /\ s.brk - 1 - 1 = 0
    BY <1>3
  <2> DEFINE f3 == [Push(WriteBlock([s EXCEPT !.brk = @ + ChunkSize], s.brk - 1, ChunkSize, FALSE, TRUE, FALSE), s.brk - 1)
                       EXCEPT !.end = s.brk - 1]
  <2>1. f3 = f2
    BY <2>0 DEF f2, f, LayLast, h, Enlarged
  <2>2. s.mem[s.brk - 1 - 1] = One /\ s.mem[s.brk - 1] = One =>
          ExtendHeap(s, ChunkSize) = [heap |-> WriteEpilogue(f3, s.brk - 1 + Size(f3, s.brk - 1)), block |-> s.brk - 1]
    BY Zenon DEF ExtendHeap
  <2> HIDE DEF f3
  <2>3. ExtendHeap(s, ChunkSize) = [heap |-> WriteEpilogue(f3, s.brk - 1 + Size(f3, s.brk - 1)), block |-> s.brk - 1]
    BY <2>0, <2>2, <1>3
  <2>4. ExtendHeap(s, ChunkSize).heap = WriteEpilogue(f2, 1 + Size(f2, 1))
    BY <2>0, <2>1, <2>3
  <2> QED
    BY <2>4, <1>9, <1>10
<1> DEFINE m == g.mem
<1>12. /\ g \in HeapRecord /\ g.brk = 2 + ChunkSize /\ g.fault = "none" /\ g.end = 1 /\ Listed(g, {1})
       /\ \A w \in Address : w < 1 \/ w > e2 => m[w] = s.mem[w]
       /\ m[1] = Tag(ChunkSize, FALSE, TRUE, FALSE) /\ m[e2] = One
       /\ ChunkSize > 2 => m[e2 - 1] = Tag(ChunkSize, FALSE, TRUE, FALSE)
       /\ \A w \in Address : 1 < w /\ w < e2 => m[w] = s.mem[w] \/ ~m[w].alloc
  <2>1. {} \cup {1} = {1} /\ e2 - 1 = 1 + ChunkSize - 1
    BY <1>4
  <2> QED
    BY <2>1, <1>5, <1>8 DEF Ended
<1> HIDE DEF m
<1>13. /\ m[1].kind = "tag" /\ m[1].size = ChunkSize /\ ~m[1].prev_min /\ m[1].prev_alloc /\ ~m[1].alloc
       /\ m[e2].kind = "tag" /\ m[e2].size = 0 /\ ~m[e2].prev_min /\ ~m[e2].prev_alloc /\ m[e2].alloc
       /\ ChunkSize > 2 => m[e2 - 1].kind = "tag" /\ m[e2 - 1].size = ChunkSize
  BY <1>12 DEF Tag, One
<1>14. Succ(m, 1) = e2
  BY <1>13 DEF Succ
<1> HIDE DEF e2
<1>e. e2 > 1 /\ 1 # e2
  BY <1>4 DEF e2
<1>15. BlockOK(m, e2, {1}, 1)
  <2>1. m[1].size > 2 => (m[e2].prev_min <=> m[1].size = 2)
    BY <1>13
  <2>2. 1 % 2 = 1
    OBVIOUS
  <2> QED
    BY <2>1, <2>2, <1>4, <1>6, <1>13, <1>14 DEF BlockOK
<1>16. Tiled(m, e2, {1})
  BY <1>6, <1>e, <1>13, <1>14, <1>15 DEF Tiled
<1>17. EvenOK(m)
  <2> SUFFICES ASSUME NEW w \in Address, w > 0, w % 2 = 0 PROVE m[w] # One
    BY DEF EvenOK
  <2>1. w \in Nat /\ w # 1 /\ w # e2
    BY <1>4, <1>6
  <2>2. m[w] = s.mem[w] \/ ~m[w].alloc
    <3>1. w < 1 \/ w > e2 \/ (1 < w /\ w < e2)
      BY <2>1, <1>6
    <3> QED
      BY <3>1, <1>12
  <2>3. One.alloc
    BY DEF One, Tag
  <2> QED
    BY <2>2, <2>3, <1>3 DEF EvenOK
<1>18. EndOK(m, e2, {1}, g.end) /\ Apart(m, {1})
  BY <1>12, <1>14, <1>e DEF EndOK, Apart
<1>19. FreeSet(m, {1}) = {1} /\ AllocSet(m, {1}) = {}
  BY <1>13 DEF FreeSet, AllocSet
<1>20. g.brk - 1 = e2
  BY <1>4, <1>12 DEF e2
<1>21. Good(g, {1})
  BY <1>12, <1>16, <1>17, <1>18, <1>19, <1>20 DEF Good, m
<1> QED
  BY <1>2, <1>11, <1>19, <1>21 DEF m

-----------------------------------------------------------------------------
(* Requests.                                                               *)

\* The words that many bytes take.
Words(bytes) == (bytes + 7) \div 8

\* The size malloc computes is even, at least the minimum, and leaves room for the
\* header.
LEMMA AdjustedIsAsked ==
    ASSUME NEW bytes \in Nat, bytes > 0
    PROVE  Asked(AdjustedSize(bytes)) /\ 8 * (AdjustedSize(bytes) - 1) >= bytes
<1>1. CASE bytes <= 8
  BY <1>1 DEF AdjustedSize, MinBlock, Asked
<1>2. CASE bytes > 8
  <2> DEFINE q == (bytes + 23) \div 16
  <2>1. q \in Nat /\ 16 * q <= bytes + 23 /\ bytes + 23 < 16 * q + 16
    OBVIOUS
  <2>2. AdjustedSize(bytes) = 2 * q
    <3>1. bytes + 8 + 15 = bytes + 23
      OBVIOUS
    <3> QED
      BY <1>2, <3>1 DEF AdjustedSize
  <2> HIDE DEF q
  <2>3. q >= 1 /\ 8 * (2 * q - 1) >= bytes
    BY <1>2, <2>1
  <2>4. (2 * q) % 2 = 0 /\ 2 * q \in Nat /\ 2 * q >= 2
    BY <2>1, <2>3
  <2> QED
    BY <2>2, <2>3, <2>4 DEF Asked
<1> QED
  BY <1>1, <1>2

\* The words of a payload are within its block.
LEMMA WordsFit ==
    ASSUME NEW bytes \in Nat, NEW size \in Nat, 8 * (size - 1) >= bytes
    PROVE  Words(bytes) \in Nat /\ Words(bytes) <= size - 1
<1>1. Words(bytes) \in Nat /\ 8 * Words(bytes) <= bytes + 7
  BY DEF Words
<1> QED
  BY <1>1

-----------------------------------------------------------------------------
(* What a call leaves alone.                                               *)

\* The allocated blocks but those of O stay.
Spared(m, B, m2, B2, O) ==
    \A c \in B : m[c].alloc /\ c \notin O =>
        /\ c \in B2 /\ m2[c].alloc /\ m2[c].size = m[c].size
        /\ \A w \in Address : c < w /\ w < Succ(m, c) => m2[w] = m[w]

\* Keeping all blocks, or all but one, in the terms of the driver.
LEMMA SparedOnce ==
    ASSUME NEW m, NEW B, NEW m2, NEW B2
    PROVE  /\ Kept(m, B, m2, B2) => Spared(m, B, m2, B2, {})
           /\ \A b : KeptBut(m, B, m2, B2, b) => Spared(m, B, m2, B2, {b})
<1>1. Kept(m, B, m2, B2) => Spared(m, B, m2, B2, {})
  BY DEF Kept, Spared
<1>2. \A b : KeptBut(m, B, m2, B2, b) => Spared(m, B, m2, B2, {b})
  BY DEF KeptBut, Spared
<1> QED
  BY <1>1, <1>2

\* Blocks that two steps keep are kept by both.
LEMMA SparedTwice ==
    ASSUME NEW m, NEW B, NEW m1, NEW B1, NEW m2, NEW B2, NEW O, NEW P,
           Spared(m, B, m1, B1, O), Spared(m1, B1, m2, B2, P)
    PROVE  Spared(m, B, m2, B2, O \cup P)
<1> SUFFICES ASSUME NEW c \in B, m[c].alloc, c \notin O \cup P
             PROVE  /\ c \in B2 /\ m2[c].alloc /\ m2[c].size = m[c].size
                    /\ \A w \in Address : c < w /\ w < Succ(m, c) => m2[w] = m[w]
  BY DEF Spared
<1>1. /\ c \in B1 /\ m1[c].alloc /\ m1[c].size = m[c].size
      /\ \A w \in Address : c < w /\ w < Succ(m, c) => m1[w] = m[w]
  BY DEF Spared
<1>2. /\ c \in B2 /\ m2[c].alloc /\ m2[c].size = m1[c].size
      /\ \A w \in Address : c < w /\ w < Succ(m1, c) => m2[w] = m1[w]
  BY <1>1 DEF Spared
<1>3. Succ(m1, c) = Succ(m, c)
  BY <1>1 DEF Succ
<1> QED
  BY <1>1, <1>2, <1>3

\* A block that is left out may as well be spared.
LEMMA SparedLess ==
    ASSUME NEW m, NEW B, NEW m2, NEW B2, NEW O, NEW P, Spared(m, B, m2, B2, O),
           \A c \in O : c \in AllocSet(m, B) => c \in P
    PROVE  Spared(m, B, m2, B2, P)
BY DEF Spared, AllocSet

-----------------------------------------------------------------------------
(* The user writes.                                                        *)

\* b is an allocated block, large enough for that many bytes.
Holding(h, B, b, bytes) ==
    /\ Good(h, B) /\ b \in B /\ h.mem[b].alloc /\ bytes \in Nat /\ 8 * (h.mem[b].size - 1) >= bytes

Filled(h, B, g, b, bytes) ==
    /\ Holding(g, B, b, bytes) /\ Spared(h.mem, B, g.mem, B, {b})
    /\ AllocSet(g.mem, B) = AllocSet(h.mem, B) /\ g.brk = h.brk
    /\ \A w \in b + 1 .. b + Words(bytes) : g.mem[w] = User

\* The user's writes to a payload touch no tag, no link and no other payload.
LEMMA FillEffect ==
    ASSUME NEW h, NEW B, NEW b, NEW bytes, Holding(h, B, b, bytes), NEW bp, bp = b + 1
    PROVE  Filled(h, B, Fill(h, bp, bytes), b, bytes)
<1> DEFINE m == h.mem
           e == h.brk - 1
           y == Succ(m, b)
           g == Fill(h, bp, bytes)
           m2 == g.mem
           n == Words(bytes)
<1>1. /\ h \in HeapRecord /\ m \in Memory /\ Tiled(m, e, B) /\ Listed(h, FreeSet(m, B))
      /\ EndOK(m, e, B, h.end) /\ h.fault = "none" /\ EvenOK(m) /\ Apart(m, B) /\ h.end \in Nat
      /\ b \in B /\ m[b].alloc /\ bytes \in Nat /\ 8 * (m[b].size - 1) >= bytes
  BY DEF Holding, Good, HeapRecord
<1>2. g = [h EXCEPT !.mem = [w \in Address |-> IF w \in bp .. bp + n - 1 THEN User ELSE h.mem[w]]]
  BY DEF Fill, Words
<1>u. User \in Word /\ ~User.alloc
  BY DEF User, Other, Word
<1> HIDE DEF g, m, e, n
<1>P. Plain(m, e, B)
  BY <1>1, TiledTypes
<1>3. /\ Address = 0 .. MaxHeap - 1 /\ MaxHeap \in Nat /\ e \in Address /\ e \in Nat
      /\ \A c \in B : c \in Nat /\ c \in Address /\ c < e
      /\ b \in Nat /\ m[b].size \in Nat /\ m[b].size >= 2 /\ y \in B \cup {e} /\ y \in Nat /\ y <= e
  <2>1. /\ Address = 0 .. MaxHeap - 1 /\ MaxHeap \in Nat /\ e \in Address /\ e \in Nat
        /\ B \subseteq Address /\ B \subseteq 1 .. e - 1
        /\ b \in Nat /\ m[b].size \in Nat /\ m[b].size >= 2 /\ y \in B \cup {e} /\ y \in Nat /\ y <= e
    BY <1>1, <1>P DEF Plain
  <2>2. \A c \in B : c \in Nat /\ c < e
    BY <2>1
  <2> QED
    BY <2>1, <2>2
<1>4. y = b + m[b].size
  BY DEF Succ
<1> HIDE DEF y
<1>5. n \in Nat /\ n <= m[b].size - 1
  BY <1>1, <1>3, WordsFit DEF n
<1>6. \A w \in Nat : w \in bp .. bp + n - 1 <=> (b < w /\ w <= b + n)
  BY <1>3, <1>5
<1>7. \A w \in Nat : w \in bp .. bp + n - 1 => b < w /\ w < y
  BY <1>3, <1>4, <1>5, <1>6
<1> DEFINE mm == [w \in Address |-> IF w \in bp .. bp + n - 1 THEN User ELSE h.mem[w]]
<1>8. mm \in Memory
  <2>1. \A w \in Address : h.mem[w] \in Word
    BY <1>1 DEF Memory, m
  <2> QED
    BY <2>1, <1>u DEF Memory
<1>9. g \in HeapRecord /\ SameLists(h, g) /\ SameRest(h, g) /\ m2 = mm
  <2> HIDE DEF mm
  <2>1. g = [h EXCEPT !.mem = mm]
    BY <1>2 DEF mm
  <2> QED
    BY <2>1, <1>1, <1>8 DEF HeapRecord, SameLists, SameRest
<1> HIDE DEF m2
<1>10. \A w \in Address : m2[w] = IF w \in bp .. bp + n - 1 THEN User ELSE m[w]
  BY <1>9 DEF m
<1> HIDE DEF mm
<1>11. \A w \in Address : w <= b \/ w >= y => m2[w] = m[w]
  <2> SUFFICES ASSUME NEW w \in Address, w <= b \/ w >= y PROVE m2[w] = m[w]
    OBVIOUS
  <2>1. w \in Nat /\ ~(b < w /\ w < y)
    BY <1>3
  <2> QED
    BY <2>1, <1>7, <1>10
<1>12. BlockOK(m, e, B, b)
  BY <1>1 DEF Tiled
<1>13. m2[b] = m[b] /\ m2[y] = m[y] /\ Succ(m2, b) = y
  <2>1. b \in Address /\ y \in Address /\ b <= b /\ y >= y
    BY <1>1, <1>3
  <2>2. m2[b] = m[b] /\ m2[y] = m[y]
    BY <2>1, <1>11
  <2> QED
    BY <2>2 DEF Succ, y
<1>14. BlockOK(m2, e, B, b)
  BY <1>1, <1>12, <1>13 DEF BlockOK, y
<1>15. Redone(m, m2, e, B, b, {b})
  <2>1. B \cup {b} = {c \in B : c < b \/ c >= y} \cup {b}
    <3>1. \A c \in B : c <= b \/ c >= y
      BY <1>12 DEF BlockOK, y
    <3>2. \A c \in B : c \in Nat
      BY <1>3
    <3>3. \A c \in B : c = b \/ c < b \/ c >= y
      BY <3>1, <3>2, <1>3
    <3> QED
      BY <3>3
  <2>2. B \cup {b} = B
    BY <1>1
  <2>3. {b} \subseteq b .. y - 1 /\ b < y
    BY <1>3, <1>4
  <2>4. \A w \in Address : w < b \/ w > y => m2[w] = m[w]
    <3> SUFFICES ASSUME NEW w \in Address, w < b \/ w > y PROVE m2[w] = m[w]
      OBVIOUS
    <3>1. w <= b \/ w >= y
      BY <1>3
    <3> QED
      BY <3>1, <1>11
  <2>5. \A c \in {b} \cup {y} : c # b => \E d \in {b} : Succ(m2, d) = c
    BY <1>13
  <2>6. m2 \in Memory
    BY <1>8, <1>9
  <2>7. \A d \in {b} : BlockOK(m2, e, B \cup {b}, d)
    BY <2>2, <1>14
  <2>8. Retiling(m, m2, e, B, b, y, {b}, B \cup {b})
    BY <2>1, <2>3, <2>4, <2>5, <2>6, <2>7, <1>1, <1>3, <1>13 DEF Retiling
  <2>9. \A w \in Address : b < w /\ w < y => m2[w] = m[w] \/ ~m2[w].alloc
    BY <1>10, <1>u
  <2> QED
    BY <2>8, <2>9 DEF Redone, y
<1>16. Reframed(m, m2, e, B, b, {b})
  BY <1>15, RedoneFrame
<1>17. B \cup {b} = B
  BY <1>1
<1>18. /\ Tiled(m2, e, B) /\ EvenOK(m2)
       /\ \A c \in B : /\ m2[c].size = m[c].size /\ m2[c].alloc = m[c].alloc
                       /\ Succ(m2, c) = Succ(m, c)
  BY <1>1, <1>13, <1>16, <1>17 DEF Reframed, y
<1>19. Spared(m, B, m2, B, {b})
  BY <1>16, <1>17 DEF Reframed, Spared
<1>20. FreeSet(m2, B) = FreeSet(m, B) /\ AllocSet(m2, B) = AllocSet(m, B)
  BY <1>18 DEF FreeSet, AllocSet
<1>21. Apart(m2, B)
  BY <1>1, <1>18 DEF Apart
<1>22. Listed(g, FreeSet(m2, B))
  <2>1. \A c \in FreeSet(m, B) : Size(g, c) = Size(h, c)
    BY <1>18 DEF FreeSet, Size, m, m2
  <2> QED
    BY <2>1, <1>1, <1>9, <1>20, ListedFrame
<1>23. EndOK(m2, e, B, h.end)
  <2>1. CASE y # e
    BY <2>1, <1>1, <1>16, <1>17, RedoneEnd DEF y
  <2>2. CASE y = e
    <3>1. PICK last \in B : Succ(m, last) = e /\ (h.end = last \/ ~m[last].alloc)
      BY <1>1 DEF EndOK
    <3>2. last = b
      <4>1. BlockOK(m, e, B, last)
        BY <1>1 DEF Tiled
      <4>2. b <= last \/ b >= e
        BY <4>1, <3>1, <1>1 DEF BlockOK
      <4>3. last <= b \/ last >= e
        BY <2>2, <1>12 DEF BlockOK, y
      <4> QED
        BY <4>2, <4>3, <1>3, <1>1
    <3> QED
      BY <2>2, <3>1, <3>2, <1>1, <1>18, <1>13 DEF EndOK
  <2> QED
    BY <2>1, <2>2
<1>24. g.brk = h.brk /\ g.end = h.end /\ g.fault = "none"
  BY <1>1, <1>9 DEF SameRest
<1>25. Good(g, B)
  BY <1>9, <1>18, <1>21, <1>22, <1>23, <1>24 DEF Good, m2, e
<1>26. \A w \in b + 1 .. b + n : m2[w] = User
  <2> TAKE w \in b + 1 .. b + n
  <2>1. w \in Address /\ w \in Nat /\ b < w /\ w <= b + n
    BY <1>3, <1>4, <1>5
  <2> QED
    BY <2>1, <1>6, <1>10
<1>27. Holding(g, B, b, bytes)
  BY <1>1, <1>13, <1>25 DEF Holding, m2
<1> QED
  BY <1>19, <1>20, <1>24, <1>26, <1>27 DEF Filled, g, n, m, m2

-----------------------------------------------------------------------------
(* malloc and realloc.                                                     *)

\* A call has returned the new block b, and has freed those of O.
Granted(h, B, O, g, B2, b, bytes) ==
    /\ Holding(g, B2, b, bytes) /\ b \in Nat /\ b \notin AllocSet(h.mem, B)
    /\ AllocSet(g.mem, B2) = (AllocSet(h.mem, B) \ O) \cup {b}
    /\ Spared(h.mem, B, g.mem, B2, O)

\* A call has gone wrong over a heap_end that is no block.
Astray(h, B, res, bytes) ==
    /\ res.heap \in HeapRecord /\ res.heap.fault # "none" /\ res.bp = h.end + 1
    /\ 8 * (res.heap.brk - h.brk - 1) >= bytes
    /\ \E last : LastIs(h, B, last) /\ StaleEnd(h, last)

Answered(h, B, O, res, bytes) ==
    \/ res.bp = 0 /\ res.heap = h
    \/ Astray(h, B, res, bytes)
    \/ \E B2, b : res.bp = b + 1 /\ Granted(h, B, O, res.heap, B2, b, bytes)

\* A free block that fits becomes the new one.
LEMMA TakenIsGranted ==
    ASSUME NEW h, NEW B, NEW h1, NEW B1, NEW b, NEW bytes \in Nat, NEW asize,
           Spared(h.mem, B, h1.mem, B1, {}), AllocSet(h1.mem, B1) = AllocSet(h.mem, B),
           Fitting(h1, B1, b, asize), 8 * (asize - 1) >= bytes
    PROVE  \E B2 : Granted(h, B, {}, SplitBlock(h1, b, asize), B2, b, bytes)
<1> DEFINE g == SplitBlock(h1, b, asize)
<1>1. FittingFacts(h1, B1, b, asize, h1.mem, h1.brk - 1, Succ(h1.mem, b), h1.mem[b].size)
  BY FittingPlain
<1>2. b \in Nat /\ b \in B1 /\ ~h1.mem[b].alloc
  BY <1>1 DEF FittingFacts
<1>3. PICK B2 : Taken(h1, B1, g, B2, b, asize)
  BY SplitEffect
<1> HIDE DEF g
<1>4. /\ Good(g, B2) /\ Kept(h1.mem, B1, g.mem, B2)
      /\ AllocSet(g.mem, B2) = AllocSet(h1.mem, B1) \cup {b} /\ g.mem[b].size >= asize
  BY <1>3 DEF Taken
<1>5. b \in AllocSet(g.mem, B2)
  BY <1>4
<1>6. b \in B2 /\ g.mem[b].alloc
  BY <1>5 DEF AllocSet
<1>7. Plain(g.mem, g.brk - 1, B2)
  BY <1>4, TiledTypes DEF Good, HeapRecord
<1>8. g.mem[b].size \in Nat
  BY <1>6, <1>7 DEF Plain
<1>9. asize \in Nat
  BY DEF Fitting
<1>10. 8 * (g.mem[b].size - 1) >= bytes
  <2> DEFINE s == g.mem[b].size
  <2>1. s \in Nat /\ s >= asize
    BY <1>4, <1>8
  <2> HIDE DEF s
  <2>2. 8 * (s - 1) >= bytes
    BY <2>1, <1>9
  <2> QED
    BY <2>2 DEF s
<1>11. Holding(g, B2, b, bytes)
  BY <1>4, <1>6, <1>10 DEF Holding
<1>12. b \notin AllocSet(h.mem, B)
  BY <1>2 DEF AllocSet
<1>13. Spared(h.mem, B, g.mem, B2, {})
  <2>1. Spared(h1.mem, B1, g.mem, B2, {})
    BY <1>4, SparedOnce
  <2>2. Spared(h.mem, B, g.mem, B2, {} \cup {})
    BY <2>1, SparedTwice
  <2>3. {} \cup {} = {}
    OBVIOUS
  <2> QED
    BY <2>2, <2>3
<1>14. AllocSet(g.mem, B2) = (AllocSet(h.mem, B) \ {}) \cup {b}
  BY <1>4
<1> QED
  BY <1>2, <1>11, <1>12, <1>13, <1>14 DEF Granted, g

\* What does nothing keeps everything.
LEMMA SparedSelf ==
    ASSUME NEW m, NEW B
    PROVE  Spared(m, B, m, B, {})
BY DEF Spared

\* malloc answers with a new block that is large enough, with NULL and an untouched
\* heap, or has gone wrong over a stale heap_end.
LEMMA MallocEffect ==
    ASSUME NEW h, NEW B, Good(h, B), NEW bytes \in Nat, bytes > 0
    PROVE  Answered(h, B, {}, MallocBlock(h, bytes), bytes)
<1> DEFINE asize == AdjustedSize(bytes)
           fit == FindFit(h, asize)
           more == IF asize > ChunkSize THEN asize ELSE ChunkSize
           r == ExtendHeap(h, more)
           res == MallocBlock(h, bytes)
<1>1. Asked(asize) /\ 8 * (asize - 1) >= bytes
  BY AdjustedIsAsked
<1>2. asize \in Nat /\ asize >= 2 /\ asize % 2 = 0
  BY <1>1 DEF Asked
<1>3. h \in HeapRecord /\ h.brk \in Nat /\ h.fault = "none"
  BY DEF Good, HeapRecord
<1> HIDE DEF asize
<1>4. CASE fit = 0 /\ ~CanExtend(h, more)
  <2>1. res = [heap |-> h, bp |-> 0]
    BY <1>4 DEF MallocBlock, asize
  <2> HIDE DEF res
  <2>2. res.bp = 0 /\ res.heap = h
    BY <2>1
  <2> QED
    BY <2>2 DEF Answered, res
<1>5. CASE fit # 0
  <2>1. res = [heap |-> SplitBlock(h, fit, asize), bp |-> fit + 1]
    <3> HIDE DEF fit, more
    <3>1. MallocBlock(h, bytes) = LET found == [heap |-> h, block |-> fit]
                                  IN [heap |-> IF found.heap.fault # "none" THEN found.heap
                                               ELSE SplitBlock(found.heap, found.block, asize),
                                      bp |-> found.block + 1]
      BY <1>5 DEF MallocBlock, asize, fit, more
    <3> QED
      BY <3>1, <1>3
  <2>2. Fitting(h, B, fit, asize)
    BY <1>1, <1>5, FitIsFree
  <2>3. Spared(h.mem, B, h.mem, B, {})
    BY SparedSelf
  <2> HIDE DEF res, fit
  <2>4. \E B2 : Granted(h, B, {}, SplitBlock(h, fit, asize), B2, fit, bytes)
    BY <2>2, <2>3, <1>1, TakenIsGranted
  <2>5. res.heap = SplitBlock(h, fit, asize) /\ res.bp = fit + 1
    BY <2>1
  <2> QED
    BY <2>4, <2>5 DEF Answered, res
<1>6. CASE fit = 0 /\ CanExtend(h, more)
  <2>1. more \in Nat /\ more >= asize /\ more % 2 = 0 /\ more >= 2
    BY <1>2, MallocAssumption
  <2>2. Room(h, more)
    BY <2>1, <1>6 DEF Room, CanExtend
  <2>3. ExtendedOrStale(h, B, r, more)
    BY <2>2, ExtendEffect
  <2>4. res = [heap |-> IF r.heap.fault # "none" THEN r.heap ELSE SplitBlock(r.heap, r.block, asize),
               bp |-> r.block + 1]
    <3> HIDE DEF fit, more
    <3> QED
      BY <1>6 DEF MallocBlock, asize, fit, more
  <2> HIDE DEF res, fit, more, r
  <2>5. CASE WentStale(h, B, r, more)
    <3>1. /\ r.heap \in HeapRecord /\ r.heap.fault # "none" /\ r.heap.brk = h.brk + more
          /\ r.block = h.end /\ \E last : LastIs(h, B, last) /\ StaleEnd(h, last)
      BY <2>5 DEF WentStale
    <3>2. res.heap = r.heap /\ res.bp = h.end + 1
      BY <2>4, <3>1
    <3>3. 8 * (res.heap.brk - h.brk - 1) >= bytes
      <4>1. res.heap.brk - h.brk - 1 = more - 1
        BY <3>1, <3>2, <2>1, <1>3
      <4> QED
        BY <4>1, <2>1, <1>1, <1>2
    <3> QED
      BY <3>1, <3>2, <3>3 DEF Answered, Astray, res
  <2>6. CASE \E B1 : Extended(h, B, r.heap, B1, r.block, more)
    <3>1. PICK B1 : Extended(h, B, r.heap, B1, r.block, more)
      BY <2>6
    <3>2. /\ Good(r.heap, B1) /\ Kept(h.mem, B, r.heap.mem, B1)
          /\ AllocSet(r.heap.mem, B1) = AllocSet(h.mem, B)
          /\ r.block \in B1 /\ ~r.heap.mem[r.block].alloc /\ r.heap.mem[r.block].size >= more
      BY <3>1 DEF Extended
    <3>3. r.heap.mem[r.block].size \in Nat /\ r.heap.fault = "none"
      <4>1. Plain(r.heap.mem, r.heap.brk - 1, B1) /\ r.heap.fault = "none"
        BY <3>2, TiledTypes DEF Good, HeapRecord
      <4> QED
        BY <4>1, <3>2 DEF Plain
    <3>4. asize <= r.heap.mem[r.block].size
      <4> DEFINE s == r.heap.mem[r.block].size
      <4>1. s \in Nat /\ s >= more
        BY <3>2, <3>3
      <4> HIDE DEF s
      <4>2. asize <= s
        BY <4>1, <2>1, <1>2
      <4> QED
        BY <4>2 DEF s
    <3>5. Fitting(r.heap, B1, r.block, asize)
      BY <3>2, <3>4, <1>2 DEF Fitting
    <3>6. Spared(h.mem, B, r.heap.mem, B1, {})
      BY <3>2, SparedOnce
    <3>7. \E B2 : Granted(h, B, {}, SplitBlock(r.heap, r.block, asize), B2, r.block, bytes)
      BY <3>2, <3>5, <3>6, <1>1, TakenIsGranted
    <3>8. res.heap = SplitBlock(r.heap, r.block, asize) /\ res.bp = r.block + 1
      BY <2>4, <3>3
    <3> QED
      BY <3>7, <3>8 DEF Answered, res
  <2> QED
    BY <2>3, <2>5, <2>6 DEF ExtendedOrStale, res
<1> QED
  BY <1>4, <1>5, <1>6

\* After the copy, the old block is freed.
LEMMA MoveEffect ==
    ASSUME NEW h, NEW B, NEW g1, NEW B1, NEW b, NEW bytes, Granted(h, B, {}, g1, B1, b, bytes),
           NEW o \in AllocSet(h.mem, B), NEW bp \in Nat, bp = o + 1, NEW nb, nb = b + 1
    PROVE  \E B2 : Granted(h, B, {o}, FreeBlock(Fill(g1, nb, bytes), bp), B2, b, bytes)
<1> DEFINE g2 == Fill(g1, nb, bytes)
           g3 == FreeBlock(g2, bp)
<1>1. /\ Holding(g1, B1, b, bytes) /\ b \in Nat /\ b \notin AllocSet(h.mem, B)
      /\ AllocSet(g1.mem, B1) = (AllocSet(h.mem, B) \ {}) \cup {b}
      /\ Spared(h.mem, B, g1.mem, B1, {})
  BY DEF Granted
<1>2. Filled(g1, B1, g2, b, bytes)
  BY <1>1, FillEffect
<1> HIDE DEF g2
<1>3. /\ Holding(g2, B1, b, bytes) /\ Spared(g1.mem, B1, g2.mem, B1, {b})
      /\ AllocSet(g2.mem, B1) = AllocSet(g1.mem, B1)
  BY <1>2 DEF Filled
<1>4. o \in B1 /\ g2.mem[o].alloc /\ o # b
  <2>1. o \in AllocSet(g2.mem, B1)
    BY <1>1, <1>3
  <2> QED
    BY <2>1, <1>1 DEF AllocSet
<1>5. /\ Good(g2, B1) /\ b \in B1 /\ g2.mem[b].alloc /\ bytes \in Nat /\ 8 * (g2.mem[b].size - 1) >= bytes
  BY <1>3 DEF Holding
<1>6. PICK B2 : Freed(g2, B1, g3, B2, o)
  BY <1>4, <1>5, FreeEffect
<1> HIDE DEF g3
<1>7. /\ Good(g3, B2) /\ KeptBut(g2.mem, B1, g3.mem, B2, o)
      /\ AllocSet(g3.mem, B2) = AllocSet(g2.mem, B1) \ {o}
  BY <1>6 DEF Freed
<1>8. b \in B2 /\ g3.mem[b].alloc /\ g3.mem[b].size = g2.mem[b].size
  BY <1>4, <1>5, <1>7 DEF KeptBut
<1>9. Holding(g3, B2, b, bytes)
  BY <1>5, <1>7, <1>8 DEF Holding
<1>10. AllocSet(g3.mem, B2) = (AllocSet(h.mem, B) \ {o}) \cup {b}
  BY <1>1, <1>3, <1>4, <1>7
<1>11. Spared(h.mem, B, g3.mem, B2, {o})
  <2>1. Spared(h.mem, B, g2.mem, B1, {} \cup {b})
    BY <1>1, <1>3, SparedTwice
  <2>2. Spared(g2.mem, B1, g3.mem, B2, {o})
    BY <1>7, SparedOnce
  <2>3. Spared(h.mem, B, g3.mem, B2, ({} \cup {b}) \cup {o})
    BY <2>1, <2>2, SparedTwice
  <2>4. \A c \in ({} \cup {b}) \cup {o} : c \in AllocSet(h.mem, B) => c \in {o}
    BY <1>1
  <2> QED
    BY <2>3, <2>4, SparedLess
<1> QED
  BY <1>1, <1>9, <1>10, <1>11 DEF Granted, g3, g2

\* realloc answers in the same way, and frees the old block when it moves it.
LEMMA ReallocEffect ==
    ASSUME NEW h, NEW B, Good(h, B), NEW bytes \in Nat, bytes > 0,
           NEW o \in AllocSet(h.mem, B), NEW bp \in Nat, bp = o + 1, bp > 0
    PROVE  Answered(h, B, {o}, ReallocBlock(h, bp, bytes), bytes)
<1> DEFINE new == MallocBlock(h, bytes)
           res == ReallocBlock(h, bp, bytes)
<1>1. Answered(h, B, {}, new, bytes)
  BY MallocEffect
<1>2. new.bp = 0 => res = new
  BY DEF ReallocBlock
<1>3. new.bp # 0 =>
        /\ res.heap = IF new.heap.fault # "none" THEN new.heap
                      ELSE FreeBlock(Fill(new.heap, new.bp, bytes), bp)
        /\ res.bp = new.bp
  BY DEF ReallocBlock
<1>h. h.end \in Nat
  BY DEF Good, HeapRecord
<1> HIDE DEF new, res
<1>4. CASE new.bp = 0 /\ new.heap = h
  BY <1>2, <1>4 DEF Answered, res
<1>5. CASE Astray(h, B, new, bytes)
  <2>1. new.bp = h.end + 1 /\ new.heap.fault # "none"
    BY <1>5 DEF Astray
  <2>2. new.bp # 0
    BY <2>1, <1>h
  <2>3. res.heap = new.heap /\ res.bp = new.bp
    BY <2>1, <2>2, <1>3
  <2>4. Astray(h, B, res, bytes)
    BY <2>3, <1>5 DEF Astray
  <2> QED
    BY <2>4 DEF Answered, res
<1>6. CASE \E B1, b : new.bp = b + 1 /\ Granted(h, B, {}, new.heap, B1, b, bytes)
  <2>1. PICK B1, b : new.bp = b + 1 /\ Granted(h, B, {}, new.heap, B1, b, bytes)
    BY <1>6
  <2>2. new.bp # 0 /\ new.heap.fault = "none"
    BY <2>1 DEF Granted, Holding, Good
  <2>3. res.heap = FreeBlock(Fill(new.heap, new.bp, bytes), bp) /\ res.bp = b + 1
    BY <2>1, <2>2, <1>3
  <2>4. \E B2 : Granted(h, B, {o}, res.heap, B2, b, bytes)
    <3> DEFINE g1 == new.heap
               nb == new.bp
    <3>1. Granted(h, B, {}, g1, B1, b, bytes) /\ nb = b + 1
      BY <2>1
    <3> HIDE DEF g1, nb
    <3>2. \E B2 : Granted(h, B, {o}, FreeBlock(Fill(g1, nb, bytes), bp), B2, b, bytes)
      BY <3>1, MoveEffect
    <3> QED
      BY <3>2, <2>3 DEF g1, nb
  <2> QED
    BY <2>3, <2>4 DEF Answered, res
<1> QED
  BY <1>1, <1>4, <1>5, <1>6 DEF Answered

-----------------------------------------------------------------------------
(* The driver's ranges.                                                    *)

\* A range apart from all others is not refused.
Clear(s, lo, hi) ==
    /\ Held(s) \subseteq Nat /\ lo \in Nat /\ hi \in Nat
    /\ \A k \in Held(s) : s.at[k] \in Nat /\ (k <= lo => s.at[k] < lo) /\ (k > lo => hi < k)

\* A bounded set of naturals that is not empty has a greatest element.
LEMMA GreatestBelow ==
    ASSUME NEW T \in SUBSET Nat, T # {}, NEW n \in Nat, \A k \in T : k <= n
    PROVE  Max(T) \in T
<1> DEFINE D == {d \in Nat : \E k \in T : d = n - k}
<1>1. D # {} /\ D \in SUBSET Nat
  <2>1. PICK k \in T : TRUE
    OBVIOUS
  <2>2. n - k \in D
    OBVIOUS
  <2> QED
    BY <2>2
<1>2. Min(D) \in D /\ \A j \in D : Min(D) <= j
  BY <1>1, LeastNatural
<1>3. PICK b \in T : Min(D) = n - b
  BY <1>2
<1>4. \A k \in T : b >= k
  <2> TAKE k \in T
  <2>1. n - k \in D
    OBVIOUS
  <2> HIDE DEF D
  <2>2. n - b <= n - k
    BY <2>1, <1>2, <1>3
  <2> QED
    BY <2>2
<1> QED
  BY <1>4 DEF Max

\* The driver's look at the neighbours in the range set finds no overlap where the
\* new range is apart from all others.
LEMMA NoOverlap ==
    ASSUME NEW s, NEW lo, NEW hi, Clear(s, lo, hi)
    PROVE  ~Overlaps(s, lo, hi)
<1>1. /\ Held(s) \subseteq Nat /\ lo \in Nat /\ hi \in Nat
      /\ \A k \in Held(s) : s.at[k] \in Nat /\ (k <= lo => s.at[k] < lo) /\ (k > lo => hi < k)
  BY DEF Clear
<1>2. \A k \in Before(s, lo) : k \in Held(s) /\ k <= lo
  <2>1. CASE UpTo(s, lo) = {}
    BY <2>1 DEF Before
  <2>2. CASE UpTo(s, lo) # {}
    <3>1. UpTo(s, lo) \in SUBSET Nat /\ \A k \in UpTo(s, lo) : k <= lo
      BY <1>1 DEF UpTo
    <3>2. Max(UpTo(s, lo)) \in UpTo(s, lo)
      BY <2>2, <3>1, <1>1, GreatestBelow
    <3> QED
      BY <2>2, <3>2 DEF Before, UpTo
  <2> QED
    BY <2>1, <2>2
<1>3. \A k \in NextSeen(s, lo) : k \in Held(s) /\ k > lo
  <2>1. CASE After(s, lo) = {}
    BY <2>1 DEF NextSeen
  <2>2. CASE After(s, lo) # {}
    <3>1. After(s, lo) \in SUBSET Nat
      BY <1>1 DEF After
    <3>2. Min(After(s, lo)) \in After(s, lo)
      BY <2>2, <3>1, LeastNatural
    <3> QED
      BY <3>2 DEF NextSeen, After
  <2> QED
    BY <2>1, <2>2
<1>4. \A k \in Before(s, lo) : ~(lo <= s.at[k])
  BY <1>1, <1>2
<1>5. \A k \in NextSeen(s, lo) : ~(hi >= k)
  <2> TAKE k \in NextSeen(s, lo)
  <2>1. k \in Nat /\ hi < k
    BY <1>1, <1>3
  <2> QED
    BY <2>1, <1>1
<1> QED
  BY <1>4, <1>5 DEF Overlaps

\* The ranges are those of the ids in L.
Ranged(s, L, bl, sz) ==
    /\ Held(s) = {8 * bl[i] : i \in L}
    /\ \A i \in L : s.at[8 * bl[i]] = PayloadEnd(bl[i], sz[i])

\* The allocated blocks are those of the ids in L, with what the user wrote.
Owns(h, B, L, bl, sz) ==
    /\ \A i \in L : /\ bl[i] \in Nat /\ bl[i] - 1 \in AllocSet(h.mem, B)
                    /\ sz[i] \in Nat /\ sz[i] > 0 /\ 8 * (h.mem[bl[i] - 1].size - 1) >= sz[i]
                    /\ \A w \in bl[i] .. bl[i] + Words(sz[i]) - 1 : h.mem[w] = User
    /\ \A c \in AllocSet(h.mem, B) : \E i \in L : bl[i] = c + 1
    /\ \A i, j \in L : bl[i] = bl[j] => i = j

DriverType(L, bl, sz) == L \in SUBSET Index /\ bl \in [Index -> Nat] /\ sz \in [Index -> Nat]

\* A payload lies inside its block.
LEMMA PayloadInside ==
    ASSUME NEW h, NEW B, Good(h, B), NEW c \in B, NEW bytes \in Nat,
           8 * (h.mem[c].size - 1) >= bytes
    PROVE  /\ c \in Nat /\ c + 1 \in Nat /\ Succ(h.mem, c) \in Nat /\ PayloadEnd(c + 1, bytes) \in Nat
           /\ PayloadEnd(c + 1, bytes) < 8 * Succ(h.mem, c)
           /\ Succ(h.mem, c) < h.brk /\ h.brk \in Nat /\ (c + 1) % 2 = 0
           /\ \A d \in B : d <= c \/ d >= Succ(h.mem, c)
<1> DEFINE m == h.mem
           e == h.brk - 1
           k == m[c].size
           y == Succ(m, c)
<1>1. m \in Memory /\ Tiled(m, e, B) /\ h.brk \in Nat
  BY DEF Good, HeapRecord
<1>2. e = h.brk - 1 /\ 8 * (k - 1) >= bytes /\ y = c + k
  BY DEF Succ
<1> HIDE DEF m, e
<1>P. Plain(m, e, B)
  BY <1>1, TiledTypes
<1>3. e \in Nat /\ c \in Nat /\ k \in Nat /\ y \in Nat /\ y <= e /\ c % 2 = 1 /\ k >= 2
  BY <1>P DEF Plain
<1>4. \A d \in B : d <= c \/ d >= y
  BY <1>1 DEF Tiled, BlockOK
<1> HIDE DEF y, k
<1>5. PayloadEnd(c + 1, bytes) = 8 * (c + 1) + bytes - 1
  BY DEF PayloadEnd
<1>6. 8 * (c + 1) + bytes - 1 \in Nat /\ 8 * (c + 1) + bytes - 1 < 8 * y
  BY <1>2, <1>3
<1>7. y < h.brk
  BY <1>1, <1>2, <1>3
<1>8. (c + 1) % 2 = 0
  BY <1>3
<1> QED
  BY <1>1, <1>3, <1>4, <1>5, <1>6, <1>7, <1>8 DEF m, y

\* The driver calls malloc or realloc for id i: s are the ranges of the other ids,
\* O the block that may be freed in the call.
Driving(h, B, s, L0, L, O, bl, sz, i) ==
    /\ Good(h, B) /\ Owns(h, B, L0, bl, sz) /\ DriverType(L0, bl, sz) /\ i \in Index
    /\ L = L0 \ {i} /\ O = {bl[j] - 1 : j \in L0 \cap {i}} /\ Ranged(s, L, bl, sz)

\* What one may use of the block of another id.
OtherBlock(h, B, s, O, bl, sz, j) ==
    /\ bl[j] \in Nat /\ sz[j] \in Nat /\ bl[j] - 1 \in B /\ h.mem[bl[j] - 1].alloc /\ bl[j] - 1 \notin O
    /\ bl[j] - 1 \in AllocSet(h.mem, B)
    /\ 8 * (h.mem[bl[j] - 1].size - 1) >= sz[j] /\ s.at[8 * bl[j]] = PayloadEnd(bl[j], sz[j])
    /\ sz[j] > 0 /\ \A w \in bl[j] .. bl[j] + Words(sz[j]) - 1 : h.mem[w] = User

\* What the driver knows of an id other than the one of the call.
LEMMA OthersAreOther ==
    ASSUME NEW h, NEW B, NEW s, NEW L0, NEW L, NEW O, NEW bl, NEW sz, NEW i,
           Driving(h, B, s, L0, L, O, bl, sz, i), NEW j \in L
    PROVE  OtherBlock(h, B, s, O, bl, sz, j)
<1>1. /\ Owns(h, B, L0, bl, sz) /\ L = L0 \ {i} /\ O = {bl[k] - 1 : k \in L0 \cap {i}} /\ Ranged(s, L, bl, sz)
  BY DEF Driving
<1>2. /\ bl[j] \in Nat /\ bl[j] - 1 \in AllocSet(h.mem, B)
      /\ sz[j] \in Nat /\ sz[j] > 0 /\ 8 * (h.mem[bl[j] - 1].size - 1) >= sz[j]
      /\ \A w \in bl[j] .. bl[j] + Words(sz[j]) - 1 : h.mem[w] = User
  BY <1>1 DEF Owns
<1>3. bl[j] - 1 \notin O
  <2> SUFFICES ASSUME bl[j] - 1 \in O PROVE FALSE
    OBVIOUS
  <2>1. i \in L0 /\ bl[j] - 1 = bl[i] - 1
    BY <1>1
  <2>2. bl[i] \in Nat
    BY <2>1, <1>1 DEF Owns
  <2>3. bl[j] = bl[i]
    BY <2>1, <2>2, <1>2
  <2> QED
    BY <2>1, <2>3, <1>1 DEF Owns
<1> QED
  BY <1>1, <1>2, <1>3 DEF OtherBlock, Ranged, AllocSet

\* A block that stays is where it was.
LEMMA OthersStay ==
    ASSUME NEW h, NEW B, NEW s, NEW L0, NEW L, NEW O, NEW bl, NEW sz, NEW i,
           Driving(h, B, s, L0, L, O, bl, sz, i), NEW j \in L,
           NEW g, NEW B2, Spared(h.mem, B, g.mem, B2, O), Good(g, B2)
    PROVE  OtherBlock(g, B2, s, O, bl, sz, j)
<1>1. OtherBlock(h, B, s, O, bl, sz, j)
  BY OthersAreOther
<1> DEFINE c == bl[j] - 1
<1>2. /\ bl[j] \in Nat /\ sz[j] \in Nat /\ c \in B /\ h.mem[c].alloc /\ c \notin O
      /\ 8 * (h.mem[c].size - 1) >= sz[j] /\ s.at[8 * bl[j]] = PayloadEnd(bl[j], sz[j])
      /\ sz[j] > 0 /\ \A w \in bl[j] .. bl[j] + Words(sz[j]) - 1 : h.mem[w] = User
  BY <1>1 DEF OtherBlock
<1>3. bl[j] = c + 1
  BY <1>2
<1> HIDE DEF c
<1>4. /\ c \in B2 /\ g.mem[c].alloc /\ g.mem[c].size = h.mem[c].size
      /\ \A w \in Address : c < w /\ w < Succ(h.mem, c) => g.mem[w] = h.mem[w]
  BY <1>2 DEF Spared
<1>5. Plain(h.mem, h.brk - 1, B)
  BY TiledTypes DEF Driving, Good, HeapRecord
<1>6. c \in Nat /\ h.mem[c].size \in Nat
  BY <1>2, <1>5 DEF Plain
<1>7. \A w \in bl[j] .. bl[j] + Words(sz[j]) - 1 : g.mem[w] = User
  <2> TAKE w \in bl[j] .. bl[j] + Words(sz[j]) - 1
  <2>1. Words(sz[j]) \in Nat /\ Words(sz[j]) <= h.mem[c].size - 1
    BY <1>2, <1>6, WordsFit
  <2>2. w \in Nat /\ c < w /\ w < c + h.mem[c].size
    BY <2>1, <1>2, <1>3, <1>6
  <2>3. Succ(h.mem, c) = c + h.mem[c].size
    BY DEF Succ
  <2>4. Address = 0 .. MaxHeap - 1 /\ MaxHeap \in Nat /\ h.brk - 1 \in 0 .. MaxHeap - 1
        /\ Succ(h.mem, c) <= h.brk - 1 /\ Succ(h.mem, c) \in Nat
    BY <1>2, <1>5 DEF Plain
  <2> DEFINE y == Succ(h.mem, c)
             e == h.brk - 1
  <2>5. w < y
    BY <2>2, <2>3
  <2>6. w \in Address
    <3>1. y \in Nat /\ e \in 0 .. MaxHeap - 1 /\ y <= e /\ w < y /\ w \in Nat /\ MaxHeap \in Nat
      BY <2>2, <2>4, <2>5
    <3> HIDE DEF y, e
    <3>2. w \in 0 .. MaxHeap - 1
      BY <3>1
    <3> QED
      BY <3>2, <2>4
  <2>7. g.mem[w] = h.mem[w]
    BY <2>2, <2>5, <2>6, <1>4
  <2> QED
    BY <2>7, <1>2
<1> QED
  BY <1>2, <1>4, <1>7 DEF OtherBlock, AllocSet, c

\* A block the allocator grants passes every check of add_range.
LEMMA GrantedClear ==
    ASSUME NEW h, NEW B, NEW s, NEW L0, NEW L, NEW O, NEW bl, NEW sz, NEW i,
           Driving(h, B, s, L0, L, O, bl, sz, i),
           NEW g, NEW B2, NEW b, NEW bytes, bytes > 0, Granted(h, B, O, g, B2, b, bytes)
    PROVE  /\ Clear(s, 8 * (b + 1), PayloadEnd(b + 1, bytes))
           /\ RangeVerdict(s, b + 1, bytes, g.brk) = "ok"
<1> DEFINE lo == 8 * (b + 1)
           hi == PayloadEnd(b + 1, bytes)
<1>1. /\ Good(g, B2) /\ b \in B2 /\ g.mem[b].alloc /\ bytes \in Nat /\ 8 * (g.mem[b].size - 1) >= bytes
      /\ b \in Nat /\ b \notin AllocSet(h.mem, B) /\ Spared(h.mem, B, g.mem, B2, O)
  BY DEF Granted, Holding
<1>2. Held(s) = {8 * bl[j] : j \in L}
  BY DEF Driving, Ranged
<1>3. /\ Succ(g.mem, b) \in Nat /\ hi \in Nat /\ hi < 8 * Succ(g.mem, b)
      /\ Succ(g.mem, b) < g.brk /\ g.brk \in Nat /\ (b + 1) % 2 = 0
      /\ \A d \in B2 : d <= b \/ d >= Succ(g.mem, b)
  BY <1>1, PayloadInside
<1> HIDE DEF hi
<1>4. lo \in Nat
  BY <1>1
<1>5. ASSUME NEW j \in L
      PROVE  LET k == 8 * bl[j] IN
             k \in Nat /\ s.at[k] \in Nat /\ (k <= lo => s.at[k] < lo) /\ (k > lo => hi < k)
  <2> DEFINE c == bl[j] - 1
             k == 8 * bl[j]
  <2>1. OtherBlock(g, B2, s, O, bl, sz, j) /\ OtherBlock(h, B, s, O, bl, sz, j)
    BY <1>1, OthersStay, OthersAreOther
  <2>2. /\ bl[j] \in Nat /\ sz[j] \in Nat /\ c \in B2 /\ c \in AllocSet(h.mem, B)
        /\ 8 * (g.mem[c].size - 1) >= sz[j] /\ s.at[k] = PayloadEnd(bl[j], sz[j])
    BY <2>1 DEF OtherBlock
  <2>3. bl[j] = c + 1 /\ c # b
    BY <2>2, <1>1
  <2> HIDE DEF c
  <2>4. /\ c \in Nat /\ Succ(g.mem, c) \in Nat /\ PayloadEnd(c + 1, sz[j]) \in Nat
        /\ PayloadEnd(c + 1, sz[j]) < 8 * Succ(g.mem, c)
        /\ \A d \in B2 : d <= c \/ d >= Succ(g.mem, c)
    BY <2>2, <1>1, PayloadInside
  <2>5. s.at[k] \in Nat /\ s.at[k] < 8 * Succ(g.mem, c)
    BY <2>2, <2>3, <2>4
  <2>6. (b <= c \/ b >= Succ(g.mem, c)) /\ (c <= b \/ c >= Succ(g.mem, b))
    BY <2>2, <2>4, <1>1, <1>3
  <2>7. k = 8 * (c + 1)
    BY <2>3
  <2> DEFINE at == s.at[k]
             yc == Succ(g.mem, c)
             yb == Succ(g.mem, b)
  <2>8. /\ at \in Nat /\ yc \in Nat /\ yb \in Nat /\ at < 8 * yc /\ hi < 8 * yb /\ hi \in Nat
        /\ (b <= c \/ b >= yc) /\ (c <= b \/ c >= yb) /\ c \in Nat /\ b \in Nat /\ c # b
    BY <2>3, <2>4, <2>5, <2>6, <1>1, <1>3
  <2> HIDE DEF at, yc, yb, k
  <2>9. k \in Nat /\ (k <= lo => at < lo) /\ (k > lo => hi < k)
    BY <2>7, <2>8
  <2> QED
    BY <2>8, <2>9 DEF at, k
<1>6. Clear(s, lo, hi)
  <2>1. \A k \in Held(s) : k \in Nat /\ s.at[k] \in Nat /\ (k <= lo => s.at[k] < lo) /\ (k > lo => hi < k)
    BY <1>2, <1>5
  <2> HIDE DEF lo
  <2> QED
    BY <2>1, <1>3, <1>4 DEF Clear
<1>7. ~Overlaps(s, lo, hi)
  BY <1>6, NoOverlap
<1>8. ~(hi >= 8 * g.brk)
  BY <1>3
<1>9. ~((b + 1) % 2 # 0)
  BY <1>3
<1>10. RangeVerdict(s, b + 1, bytes, g.brk) = "ok"
  BY <1>7, <1>8, <1>9 DEF RangeVerdict, hi
<1> QED
  BY <1>6, <1>10 DEF hi

\* The checks of add_range also pass when the allocator has gone wrong: the driver
\* notices nothing in that step.
LEMMA AstrayIsAccepted ==
    ASSUME NEW h, NEW B, NEW s, NEW L0, NEW L, NEW O, NEW bl, NEW sz, NEW i,
           Driving(h, B, s, L0, L, O, bl, sz, i),
           NEW res, NEW bytes \in Nat, bytes > 0, Astray(h, B, res, bytes)
    PROVE  RangeVerdict(s, res.bp, bytes, res.heap.brk) = "ok" /\ res.bp \in Nat /\ res.bp # 0
<1> DEFINE bp == res.bp
           lo == 8 * bp
           hi == PayloadEnd(bp, bytes)
           m == h.mem
           e == h.brk - 1
           brk == res.heap.brk
<1>1. /\ Good(h, B) /\ m \in Memory /\ Tiled(m, e, B) /\ h.end \in Nat /\ h.brk \in Nat
  BY DEF Driving, Good, HeapRecord
<1>2. /\ bp = h.end + 1 /\ 8 * (brk - h.brk - 1) >= bytes /\ brk \in Nat
  BY DEF Astray, HeapRecord
<1>3. PICK last : LastIs(h, B, last) /\ StaleEnd(h, last)
  BY DEF Astray
<1>4. /\ last \in B /\ last \in Nat /\ Succ(m, last) = e /\ ~m[last].alloc
      /\ last < h.end /\ h.end < e /\ h.end % 2 = 1
  BY <1>3 DEF LastIs, StaleEnd
<1>e. e = h.brk - 1
  OBVIOUS
<1>5. Held(s) = {8 * bl[j] : j \in L}
  BY DEF Driving, Ranged
<1> HIDE DEF m, e, brk, bp
<1>P. Plain(m, e, B)
  BY <1>1, TiledTypes
<1>6. e \in Nat /\ \A c \in B : c \in Nat /\ c < e
  <2>1. e \in Nat /\ B \subseteq 1 .. e - 1
    BY <1>P DEF Plain
  <2> QED
    BY <2>1
<1>7. bp \in Nat /\ bp # 0 /\ bp % 2 = 0 /\ lo \in Nat
  BY <1>1, <1>2, <1>4
<1>8. hi = 8 * bp + bytes - 1
  BY DEF PayloadEnd
<1> HIDE DEF hi
<1>9. hi \in Nat /\ hi < 8 * brk
  <2>1. 8 * bp + bytes - 1 \in Nat
    BY <1>7
  <2>2. 8 * bp + bytes - 1 < 8 * brk
    BY <1>1, <1>2, <1>4, <1>6, <1>e
  <2> QED
    BY <2>1, <2>2, <1>8
<1>10. ASSUME NEW j \in L
       PROVE  LET k == 8 * bl[j] IN
              k \in Nat /\ s.at[k] \in Nat /\ (k <= lo => s.at[k] < lo) /\ (k > lo => hi < k)
  <2> DEFINE c == bl[j] - 1
             k == 8 * bl[j]
  <2>1. OtherBlock(h, B, s, O, bl, sz, j)
    BY OthersAreOther
  <2>2. /\ bl[j] \in Nat /\ sz[j] \in Nat /\ c \in B /\ m[c].alloc
        /\ 8 * (h.mem[c].size - 1) >= sz[j] /\ s.at[k] = PayloadEnd(bl[j], sz[j])
    BY <2>1 DEF OtherBlock, m
  <2>3. bl[j] = c + 1 /\ c # last
    BY <2>2, <1>4
  <2> HIDE DEF c
  <2>4. /\ c \in Nat /\ Succ(h.mem, c) \in Nat /\ PayloadEnd(c + 1, sz[j]) \in Nat
        /\ PayloadEnd(c + 1, sz[j]) < 8 * Succ(h.mem, c)
        /\ \A d \in B : d <= c \/ d >= Succ(h.mem, c)
    BY <2>2, <1>1, PayloadInside
  <2>5. s.at[k] \in Nat /\ s.at[k] < 8 * Succ(h.mem, c)
    BY <2>2, <2>3, <2>4
  <2>6. c < last
    <3>1. BlockOK(m, e, B, last)
      BY <1>1, <1>4 DEF Tiled
    <3>2. c <= last \/ c >= e
      BY <3>1, <2>2, <1>4 DEF BlockOK
    <3> QED
      BY <3>2, <2>2, <2>3, <1>4, <1>6
  <2>7. last <= c \/ last >= Succ(h.mem, c)
    BY <2>4, <1>4
  <2>8. k = 8 * (c + 1)
    BY <2>3
  <2> DEFINE at == s.at[k]
             yc == Succ(h.mem, c)
             end == h.end
  <2>9. /\ at \in Nat /\ yc \in Nat /\ at < 8 * yc /\ c < last /\ (last <= c \/ last >= yc) /\ c \in Nat
        /\ last \in Nat /\ last < end /\ bp = end + 1 /\ end \in Nat
    BY <2>4, <2>5, <2>6, <2>7, <1>1, <1>2, <1>4
  <2> HIDE DEF at, yc, k, end
  <2>10. k \in Nat /\ at < lo /\ ~(k > lo)
    BY <2>8, <2>9
  <2> QED
    BY <2>9, <2>10 DEF at, k
<1>11. Clear(s, lo, hi)
  <2>1. \A k \in Held(s) : k \in Nat /\ s.at[k] \in Nat /\ (k <= lo => s.at[k] < lo) /\ (k > lo => hi < k)
    BY <1>5, <1>10
  <2> HIDE DEF lo
  <2> QED
    BY <2>1, <1>7, <1>9 DEF Clear
<1>12. ~Overlaps(s, lo, hi)
  BY <1>11, NoOverlap
<1>13. ~(hi >= 8 * brk) /\ ~(bp % 2 # 0)
  BY <1>2, <1>7, <1>9
<1>14. RangeVerdict(s, bp, bytes, brk) = "ok"
  BY <1>12, <1>13 DEF RangeVerdict, hi
<1> QED
  BY <1>7, <1>14 DEF bp, brk

\* Adding a range.
LEMMA AddedHolds ==
    ASSUME NEW s, NEW lo, NEW hi
    PROVE  /\ Held(Added(s, lo, hi)) = Held(s) \cup {lo}
           /\ Added(s, lo, hi).at[lo] = hi
           /\ \A k \in Held(s) : k # lo => Added(s, lo, hi).at[k] = s.at[k]
BY DEF Added, Held

\* Removing a range.
LEMMA RemovedHolds ==
    ASSUME NEW s, NEW lo
    PROVE  /\ Held(Removed(s, lo)) = Held(s) \ {lo}
           /\ \A k \in Held(s) \ {lo} : Removed(s, lo).at[k] = s.at[k]
BY DEF Removed, Held, Restrict

\* The driver takes its block.
LEMMA GrantedOwns ==
    ASSUME NEW h, NEW B, NEW s, NEW L0, NEW L, NEW O, NEW bl, NEW sz, NEW i,
           Driving(h, B, s, L0, L, O, bl, sz, i),
           NEW g, NEW B2, NEW b, NEW bytes, bytes > 0, Granted(h, B, O, g, B2, b, bytes),
           NEW g2, g2 = Fill(g, b + 1, bytes), NEW bl2, bl2 = [bl EXCEPT ![i] = b + 1],
           NEW sz2, sz2 = [sz EXCEPT ![i] = bytes], NEW L2, L2 = L \cup {i}
    PROVE  /\ Good(g2, B2) /\ Owns(g2, B2, L2, bl2, sz2) /\ DriverType(L2, bl2, sz2)
           /\ Ranged(Added(s, 8 * (b + 1), PayloadEnd(b + 1, bytes)), L2, bl2, sz2)
<1>1. /\ Holding(g, B2, b, bytes) /\ b \in Nat /\ b \notin AllocSet(h.mem, B)
      /\ AllocSet(g.mem, B2) = (AllocSet(h.mem, B) \ O) \cup {b}
      /\ Spared(h.mem, B, g.mem, B2, O)
  BY DEF Granted
<1>2. /\ Good(h, B) /\ Owns(h, B, L0, bl, sz) /\ DriverType(L0, bl, sz) /\ i \in Index
      /\ L = L0 \ {i} /\ O = {bl[j] - 1 : j \in L0 \cap {i}} /\ Ranged(s, L, bl, sz)
  BY DEF Driving
<1>3. Filled(g, B2, g2, b, bytes)
  BY <1>1, FillEffect
<1>4. /\ Holding(g2, B2, b, bytes) /\ Spared(g.mem, B2, g2.mem, B2, {b})
      /\ AllocSet(g2.mem, B2) = AllocSet(g.mem, B2)
      /\ \A w \in b + 1 .. b + Words(bytes) : g2.mem[w] = User
  BY <1>3 DEF Filled
<1>5. /\ Good(g2, B2) /\ b \in B2 /\ g2.mem[b].alloc /\ bytes \in Nat /\ 8 * (g2.mem[b].size - 1) >= bytes
  BY <1>4 DEF Holding
<1>6. Spared(h.mem, B, g2.mem, B2, O \cup {b})
  BY <1>1, <1>4, SparedTwice
<1>7. Spared(h.mem, B, g2.mem, B2, O)
  <2>1. \A c \in O \cup {b} : c \in AllocSet(h.mem, B) => c \in O
    BY <1>1
  <2> QED
    BY <2>1, <1>6, SparedLess
<1>8. \A j \in L : OtherBlock(g2, B2, s, O, bl, sz, j) /\ OtherBlock(h, B, s, O, bl, sz, j)
  BY <1>5, <1>7, OthersStay, OthersAreOther
<1>9. DriverType(L2, bl2, sz2)
  <2>1. L0 \in SUBSET Index /\ bl \in [Index -> Nat] /\ sz \in [Index -> Nat] /\ b + 1 \in Nat
    BY <1>1, <1>2 DEF DriverType
  <2> QED
    BY <2>1, <1>2, <1>5 DEF DriverType
<1>10. /\ bl2[i] = b + 1 /\ sz2[i] = bytes
       /\ \A j \in L : bl2[j] = bl[j] /\ sz2[j] = sz[j] /\ j # i
  BY <1>2 DEF DriverType
<1>11. \A j \in L : bl[j] \in Nat /\ bl[j] - 1 \in AllocSet(h.mem, B) /\ bl[j] # b + 1 /\ bl[j] - 1 \notin O
  <2> TAKE j \in L
  <2>1. bl[j] \in Nat /\ bl[j] - 1 \in AllocSet(h.mem, B) /\ bl[j] - 1 \notin O
    BY <1>8 DEF OtherBlock
  <2>2. bl[j] # b + 1
    <3> SUFFICES ASSUME bl[j] = b + 1 PROVE FALSE
      OBVIOUS
    <3>1. bl[j] - 1 = b
      BY <1>1
    <3> QED
      BY <3>1, <2>1, <1>1
  <2> QED
    BY <2>1, <2>2
<1>12. ASSUME NEW j \in L2
       PROVE  /\ bl2[j] \in Nat /\ bl2[j] - 1 \in AllocSet(g2.mem, B2)
              /\ sz2[j] \in Nat /\ sz2[j] > 0 /\ 8 * (g2.mem[bl2[j] - 1].size - 1) >= sz2[j]
              /\ \A w \in bl2[j] .. bl2[j] + Words(sz2[j]) - 1 : g2.mem[w] = User
  <2>1. CASE j = i
    <3>1. bl2[j] = b + 1 /\ sz2[j] = bytes /\ bl2[j] - 1 = b
      BY <2>1, <1>1, <1>10
    <3>2. b \in AllocSet(g2.mem, B2)
      BY <1>5 DEF AllocSet
    <3>3. Words(bytes) \in Nat
      BY <1>5 DEF Words
    <3>4. b + 1 + Words(bytes) - 1 = b + Words(bytes)
      BY <3>3, <1>1
    <3>5. \A w \in bl2[j] .. bl2[j] + Words(sz2[j]) - 1 : g2.mem[w] = User
      BY <3>1, <3>4, <1>4
    <3> QED
      BY <3>1, <3>2, <3>5, <1>1, <1>5
  <2>2. CASE j # i
    <3>1. j \in L
      BY <2>2
    <3>2. OtherBlock(g2, B2, s, O, bl, sz, j) /\ bl2[j] = bl[j] /\ sz2[j] = sz[j]
      BY <3>1, <1>8, <1>10
    <3> QED
      BY <3>2 DEF OtherBlock
  <2> QED
    BY <2>1, <2>2
<1>13. ASSUME NEW c \in AllocSet(g2.mem, B2) PROVE \E j \in L2 : bl2[j] = c + 1
  <2>1. c = b \/ (c \in AllocSet(h.mem, B) /\ c \notin O)
    BY <1>1, <1>4
  <2>2. CASE c = b
    BY <2>2, <1>10
  <2>3. CASE c \in AllocSet(h.mem, B) /\ c \notin O
    <3>1. PICK j \in L0 : bl[j] = c + 1
      BY <2>3, <1>2 DEF Owns
    <3>2. c \in Nat
      <4>1. Plain(h.mem, h.brk - 1, B)
        BY <1>2, TiledTypes DEF Good, HeapRecord
      <4> QED
        BY <4>1, <2>3 DEF Plain, AllocSet
    <3>3. bl[j] - 1 = c
      BY <3>1, <3>2
    <3>4. j # i
      BY <3>1, <3>3, <2>3, <1>2
    <3> QED
      BY <3>1, <3>4, <1>2, <1>10
  <2> QED
    BY <2>1, <2>2, <2>3
<1>14. ASSUME NEW j \in L2, NEW k \in L2, bl2[j] = bl2[k] PROVE j = k
  <2>1. CASE j = i
    BY <2>1, <1>10, <1>11, <1>14
  <2>2. CASE k = i
    BY <2>2, <1>10, <1>11, <1>14
  <2>3. CASE j # i /\ k # i
    <3>1. j \in L0 /\ k \in L0 /\ bl[j] = bl[k]
      BY <2>3, <1>2, <1>10, <1>14
    <3> QED
      BY <3>1, <1>2 DEF Owns
  <2> QED
    BY <2>1, <2>2, <2>3
<1>15. Owns(g2, B2, L2, bl2, sz2)
  BY <1>12, <1>13, <1>14 DEF Owns
<1> DEFINE lo == 8 * (b + 1)
           hi == PayloadEnd(b + 1, bytes)
           s2 == Added(s, lo, hi)
<1>16. Held(s) = {8 * bl[j] : j \in L} /\ \A j \in L : s.at[8 * bl[j]] = PayloadEnd(bl[j], sz[j])
  BY <1>2 DEF Ranged
<1>17. /\ Held(s2) = Held(s) \cup {lo} /\ s2.at[lo] = hi
       /\ \A k \in Held(s) : k # lo => s2.at[k] = s.at[k]
  BY AddedHolds
<1> HIDE DEF s2
<1>18. \A j \in L : 8 * bl[j] # lo
  BY <1>1, <1>11
<1>19. Held(s2) = {8 * bl2[j] : j \in L2}
  <2>1. \A k : k \in {8 * bl[j] : j \in L} \cup {lo} <=> k \in {8 * bl2[j] : j \in L2}
    BY <1>10
  <2> QED
    BY <2>1, <1>16, <1>17
<1>20. \A j \in L2 : s2.at[8 * bl2[j]] = PayloadEnd(bl2[j], sz2[j])
  <2> TAKE j \in L2
  <2>1. CASE j = i
    BY <2>1, <1>10, <1>17
  <2>2. CASE j # i
    <3>1. j \in L /\ bl2[j] = bl[j] /\ sz2[j] = sz[j] /\ 8 * bl[j] \in Held(s) /\ 8 * bl[j] # lo
      BY <2>2, <1>10, <1>16, <1>18
    <3> QED
      BY <3>1, <1>16, <1>17
  <2> QED
    BY <2>1, <2>2
<1>21. Ranged(s2, L2, bl2, sz2)
  BY <1>19, <1>20 DEF Ranged
<1> QED
  BY <1>5, <1>9, <1>15, <1>21 DEF s2

-----------------------------------------------------------------------------
(* The headers met in a walk.                                              *)

MetEq(f) ==
    f = [w \in Address |-> \/ w = HeapStart
                           \/ \E v \in HeapStart .. w - 1 : NextBlock(heap, v) = w /\ f[v]]

\* The walk over the heap, as the recursive function it is.
LEMMA MetIsChosen == Met = (CHOOSE f : MetEq(f))
BY DEF Met, MetEq

\* Two functions that walk are the same.
LEMMA MetAgrees ==
    ASSUME NEW f, NEW g, MetEq(f), MetEq(g)
    PROVE  \A w \in Address : f[w] <=> g[w]
<1> DEFINE T == {w \in Address : ~(f[w] <=> g[w])}
<1> SUFFICES ASSUME T # {} PROVE FALSE
  OBVIOUS
<1>1. Address = 0 .. MaxHeap - 1 /\ MaxHeap \in Nat
  BY MallocAssumption DEF Address
<1>2. T \in SUBSET Nat
  BY <1>1
<1>3. Min(T) \in T /\ \A j \in T : Min(T) <= j
  <2> HIDE DEF T
  <2> QED
    BY <1>2, LeastNatural
<1> DEFINE w == Min(T)
<1>4. w \in Address /\ w \in Nat /\ ~(f[w] <=> g[w])
  BY <1>1, <1>3
<1>5. \A v \in HeapStart .. w - 1 : v \in Address /\ (f[v] <=> g[v])
  <2> TAKE v \in HeapStart .. w - 1
  <2>1. v \in Nat /\ v < w
    BY <1>4 DEF HeapStart
  <2>2. v \in Address
    BY <2>1, <1>1, <1>4
  <2>3. v \notin T
    <3> HIDE DEF T
    <3> SUFFICES ASSUME v \in T PROVE FALSE
      OBVIOUS
    <3>1. w <= v
      BY <1>3
    <3> QED
      BY <3>1, <2>1, <1>4
  <2> QED
    BY <2>2, <2>3
<1> HIDE DEF w, T
<1>6. /\ f[w] <=> (w = HeapStart \/ \E v \in HeapStart .. w - 1 : NextBlock(heap, v) = w /\ f[v])
      /\ g[w] <=> (w = HeapStart \/ \E v \in HeapStart .. w - 1 : NextBlock(heap, v) = w /\ g[v])
  BY <1>4 DEF MetEq
<1> QED
  BY <1>4, <1>5, <1>6

\* The headers are the blocks and the epilogue.
LEMMA HeadersAre ==
    ASSUME NEW B, Good(heap, B)
    PROVE  Headers = B \cup {Epilogue} /\ Epilogue \notin B
<1> DEFINE m == heap.mem
           e == heap.brk - 1
           H == B \cup {e}
           f == [w \in Address |-> w \in H]
<1>1. m \in Memory /\ Tiled(m, e, B)
  BY DEF Good, HeapRecord
<1>n. \A v : NextBlock(heap, v) = Succ(m, v)
  BY DEF NextBlock, Size, Succ
<1>E. Epilogue = e
  BY DEF Epilogue
<1> HIDE DEF m, e
<1>P. Plain(m, e, B)
  BY <1>1, TiledTypes
<1>2. /\ Address = 0 .. MaxHeap - 1 /\ MaxHeap \in Nat /\ e \in Nat /\ e \in Address
      /\ B \subseteq Address /\ B \subseteq 1 .. e - 1 /\ 1 \in B
      /\ \A b \in B : b \in Nat /\ Succ(m, b) \in Nat /\ Succ(m, b) \in H /\ b < Succ(m, b)
  BY <1>P DEF Plain
<1>3. e \notin B /\ H \subseteq Address /\ \A b \in H : b \in Nat /\ b >= 1
  BY <1>2
<1>4. Succ(m, e) = e
  BY <1>1, <1>2 DEF Tiled, Succ
<1> HIDE DEF H
<1>5. ASSUME NEW w \in Address
      PROVE  w \in H <=> w = HeapStart \/ \E v \in HeapStart .. w - 1 : NextBlock(heap, v) = w /\ f[v]
  <2>0. w \in Nat
    BY <1>2
  <2>1. \A v \in HeapStart .. w - 1 : v \in Address /\ v \in Nat /\ v < w
    BY <2>0, <1>2 DEF HeapStart
  <2>2. ASSUME w \in H, w # HeapStart
        PROVE  \E v \in HeapStart .. w - 1 : NextBlock(heap, v) = w /\ f[v]
    <3>1. PICK v \in B : Succ(m, v) = w
      BY <2>2, <1>1 DEF Tiled, H, HeapStart
    <3>2. v \in Nat /\ v >= 1 /\ v < w /\ v \in H /\ v \in Address
      BY <3>1, <1>2, <1>3 DEF H
    <3>3. v \in HeapStart .. w - 1
      BY <3>2, <2>0 DEF HeapStart
    <3> QED
      BY <3>1, <3>2, <3>3, <1>n
  <2>3. ASSUME NEW v \in HeapStart .. w - 1, NextBlock(heap, v) = w, f[v] PROVE w \in H
    <3>1. v \in H /\ v < w /\ v \in Nat /\ Succ(m, v) = w
      BY <2>1, <2>3, <1>n
    <3>2. v # e
      BY <3>1, <1>4
    <3> QED
      BY <3>1, <3>2, <1>2 DEF H
  <2>4. HeapStart \in H
    BY <1>2 DEF H, HeapStart
  <2> QED
    BY <2>2, <2>3, <2>4
<1>6. MetEq(f)
  <2>1. [w \in Address |-> w \in H] =
          [w \in Address |-> \/ w = HeapStart
                             \/ \E v \in HeapStart .. w - 1 : NextBlock(heap, v) = w /\ f[v]]
    <3> DEFINE R(w) == w = HeapStart \/ \E v \in HeapStart .. w - 1 : NextBlock(heap, v) = w /\ f[v]
    <3>1. \A w \in Address : (w \in H) <=> R(w)
      BY <1>5
    <3>2. \A w \in Address : (w \in H) = R(w)
      <4> HIDE DEF f
      <4> TAKE w \in Address
      <4>1. (w \in H) \in BOOLEAN /\ R(w) \in BOOLEAN
        OBVIOUS
      <4> QED
        BY <3>1
    <3> HIDE DEF R, f
    <3>3. [w \in Address |-> w \in H] = [w \in Address |-> R(w)]
      BY <3>2
    <3> QED
      BY <3>3 DEF R
  <2> QED
    BY <2>1 DEF MetEq
<1>7. MetEq(Met)
  BY <1>6, MetIsChosen
<1>8. \A w \in Address : Met[w] <=> w \in H
  <2>1. \A w \in Address : Met[w] <=> f[w]
    <3> HIDE DEF f
    <3> QED
      BY <1>6, <1>7, MetAgrees
  <2> QED
    BY <2>1
<1>9. Headers = H
  <2>1. \A w : w \in Headers <=> w \in H
    BY <1>3, <1>8 DEF Headers
  <2> QED
    BY <2>1
<1> QED
  BY <1>3, <1>9, <1>E DEF H

-----------------------------------------------------------------------------
(* The driver.                                                             *)

\* The inductive invariant.
DriverInv ==
    /\ DriverType(live, blocks, sizes) /\ verdict \in {"ok", "failed"}
    /\ Sound => \E B : Good(heap, B) /\ Owns(heap, B, live, blocks, sizes)
    /\ Running => Ranged(ranges, live, blocks, sizes)

\* A step goes well, or wrong for the one reason there is.
StepOK == DriverInv' /\ (heap'.fault # "none" => ~HeapEndIsLast)

\* The invariant's stale heap_end is what HeapEndIsLast denies.
LEMMA StaleIsNotLast ==
    ASSUME NEW B, Good(heap, B), NEW last, LastIs(heap, B, last), StaleEnd(heap, last)
    PROVE  ~HeapEndIsLast
<1>1. Headers = B \cup {Epilogue} /\ Epilogue \notin B
  BY HeadersAre
<1>2. AllBlocks = B
  BY <1>1 DEF AllBlocks
<1>3. Sound /\ heap.end \in Nat
  BY DEF Good, Sound, HeapRecord
<1>4. last \in Nat /\ last < heap.end /\ \A c \in B : Succ(heap.mem, c) = heap.brk - 1 => c = last
  BY DEF LastIs, StaleEnd
<1>5. heap.end # last
  BY <1>3, <1>4
<1>6. NextBlock(heap, heap.end) = Succ(heap.mem, heap.end)
  BY DEF NextBlock, Size, Succ
<1> SUFFICES ASSUME HeapEndIsLast PROVE FALSE
  OBVIOUS
<1>7. heap.end \in B /\ Succ(heap.mem, heap.end) = heap.brk - 1
  BY <1>2, <1>3, <1>6 DEF HeapEndIsLast, Epilogue
<1> QED
  BY <1>4, <1>5, <1>7

\* What the driver does with an answer keeps the invariant.
LEMMA ReceiveKeeps ==
    ASSUME DriverInv, NEW i \in Index, NEW bytes \in Request, Running,
           NEW B, NEW STATE s, NEW STATE L, NEW STATE O,
           Driving(heap, B, s, live, L, O, blocks, sizes, i),
           NEW STATE res, Answered(heap, B, O, res, bytes), Receive(s, i, bytes, res)
    PROVE  StepOK
<1>0. bytes \in Nat /\ bytes > 0
  BY DriverAssumption
<1>1. /\ Good(heap, B) /\ Owns(heap, B, live, blocks, sizes) /\ DriverType(live, blocks, sizes)
      /\ i \in Index /\ L = live \ {i}
  BY DEF Driving
<1>2. verdict = "ok" /\ heap.fault = "none"
  BY DEF Running
<1>3. CASE res.bp = 0 /\ res.heap = heap
  <2>1. GiveUp("failed") /\ heap' = heap
    BY <1>3 DEF Receive
  <2>2. verdict' = "failed" /\ live' = live /\ blocks' = blocks /\ sizes' = sizes /\ ranges' = ranges
    BY <2>1 DEF GiveUp
  <2>3. DriverInv'
    BY <2>1, <2>2, <1>1 DEF DriverInv, Running
  <2> QED
    BY <2>1, <2>3, <1>2 DEF StepOK
<1>4. ASSUME res.bp # 0, RangeVerdict(s, res.bp, bytes, res.heap.brk) = "ok"
      PROVE  /\ ranges' = Added(s, 8 * res.bp, PayloadEnd(res.bp, bytes))
             /\ live' = live \cup {i} /\ live' = L \cup {i}
             /\ blocks' = [blocks EXCEPT ![i] = res.bp]
             /\ sizes' = [sizes EXCEPT ![i] = bytes]
             /\ heap' = Fill(res.heap, res.bp, bytes)
             /\ verdict' = "ok"
  <2>1. live \cup {i} = L \cup {i}
    BY <1>1
  <2> QED
    BY <2>1, <1>2, <1>4 DEF Receive
<1>5. CASE Astray(heap, B, res, bytes)
  <2>1. RangeVerdict(s, res.bp, bytes, res.heap.brk) = "ok" /\ res.bp \in Nat /\ res.bp # 0
    BY <1>0, <1>5, AstrayIsAccepted
  <2>2. /\ live' = live \cup {i} /\ blocks' = [blocks EXCEPT ![i] = res.bp]
        /\ sizes' = [sizes EXCEPT ![i] = bytes]
        /\ heap' = Fill(res.heap, res.bp, bytes) /\ verdict' = "ok"
    BY <2>1, <1>4
  <2>3. DriverType(live', blocks', sizes')
    BY <2>1, <2>2, <1>0, <1>1 DEF DriverType
  <2>4. res.heap \in HeapRecord /\ res.heap.fault # "none"
    BY <1>5 DEF Astray
  <2>5. heap'.fault # "none"
    BY <2>2, <2>4 DEF Fill, HeapRecord
  <2>6. DriverInv'
    BY <2>2, <2>3, <2>5 DEF DriverInv, Running, Sound
  <2>7. ~HeapEndIsLast
    BY <1>1, <1>5, StaleIsNotLast DEF Astray
  <2> QED
    BY <2>6, <2>7 DEF StepOK
<1>6. CASE \E B2, b : res.bp = b + 1 /\ Granted(heap, B, O, res.heap, B2, b, bytes)
  <2>1. PICK B2, b : res.bp = b + 1 /\ Granted(heap, B, O, res.heap, B2, b, bytes)
    BY <1>6
  <2>2. RangeVerdict(s, b + 1, bytes, res.heap.brk) = "ok"
    BY <2>1, <1>0, GrantedClear
  <2>3. b \in Nat /\ res.bp # 0
    BY <2>1 DEF Granted
  <2>4. /\ ranges' = Added(s, 8 * (b + 1), PayloadEnd(b + 1, bytes))
        /\ live' = L \cup {i}
        /\ blocks' = [blocks EXCEPT ![i] = b + 1]
        /\ sizes' = [sizes EXCEPT ![i] = bytes]
        /\ heap' = Fill(res.heap, b + 1, bytes)
        /\ verdict' = "ok"
    BY <2>1, <2>2, <2>3, <1>4
  <2>5. /\ Good(heap', B2) /\ Owns(heap', B2, live', blocks', sizes') /\ DriverType(live', blocks', sizes')
        /\ Ranged(ranges', live', blocks', sizes')
    <3> DEFINE g == res.heap
               g2 == Fill(g, b + 1, bytes)
               bl2 == [blocks EXCEPT ![i] = b + 1]
               sz2 == [sizes EXCEPT ![i] = bytes]
               L2 == L \cup {i}
    <3>1. Granted(heap, B, O, g, B2, b, bytes)
      BY <2>1
    <3> HIDE DEF g
    <3>2. /\ Good(g2, B2) /\ Owns(g2, B2, L2, bl2, sz2) /\ DriverType(L2, bl2, sz2)
          /\ Ranged(Added(s, 8 * (b + 1), PayloadEnd(b + 1, bytes)), L2, bl2, sz2)
      BY <3>1, <1>0, GrantedOwns
    <3>3. g2 = Fill(res.heap, b + 1, bytes)
      BY DEF g
    <3> HIDE DEF g2, bl2, sz2, L2
    <3>4. heap' = g2 /\ blocks' = bl2 /\ sizes' = sz2 /\ live' = L2
      BY <2>4, <3>3 DEF bl2, sz2, L2
    <3> QED
      BY <2>4, <3>2, <3>4
  <2>6. heap'.fault = "none"
    BY <2>5 DEF Good
  <2>7. DriverInv'
    BY <2>4, <2>5 DEF DriverInv
  <2> QED
    BY <2>6, <2>7 DEF StepOK
<1> QED
  BY <1>3, <1>5, <1>6 DEF Answered

\* The range of id i is taken out; NULL has none.
LEMMA RemovedRanged ==
    ASSUME NEW h, NEW B, Good(h, B), NEW s, NEW L0, NEW bl, NEW sz, NEW i,
           Owns(h, B, L0, bl, sz), Ranged(s, L0, bl, sz), i \in L0 \/ bl[i] = 0
    PROVE  Ranged(Removed(s, 8 * bl[i]), L0 \ {i}, bl, sz)
<1> DEFINE lo == 8 * bl[i]
           L == L0 \ {i}
<1>1. \A j \in L0 : bl[j] \in Nat /\ bl[j] # 0
  <2> TAKE j \in L0
  <2>1. bl[j] \in Nat /\ bl[j] - 1 \in B
    BY DEF Owns, AllocSet
  <2>2. Plain(h.mem, h.brk - 1, B)
    BY TiledTypes DEF Good, HeapRecord
  <2>3. bl[j] - 1 \in Nat
    BY <2>1, <2>2 DEF Plain
  <2> QED
    BY <2>1, <2>3
<1>2. bl[i] \in Nat
  BY <1>1
<1>3. \A j \in L : 8 * bl[j] # lo
  <2> SUFFICES ASSUME NEW j \in L, 8 * bl[j] = lo PROVE FALSE
    OBVIOUS
  <2>1. j \in L0 /\ j # i /\ bl[j] \in Nat /\ bl[j] # 0
    BY <1>1
  <2>2. bl[j] = bl[i]
    BY <2>1, <1>2
  <2>3. i \in L0
    BY <2>1, <2>2
  <2> QED
    BY <2>1, <2>2, <2>3 DEF Owns
<1>4. Held(s) = {8 * bl[j] : j \in L0} /\ \A j \in L0 : s.at[8 * bl[j]] = PayloadEnd(bl[j], sz[j])
  BY DEF Ranged
<1>5. /\ Held(Removed(s, lo)) = Held(s) \ {lo}
      /\ \A k \in Held(s) \ {lo} : Removed(s, lo).at[k] = s.at[k]
  BY RemovedHolds
<1>6. {8 * bl[j] : j \in L} = {8 * bl[j] : j \in L0} \ {lo}
  <2>1. \A k : k \in {8 * bl[j] : j \in L} <=> k \in {8 * bl[j] : j \in L0} \ {lo}
    <3> TAKE k
    <3>1. ASSUME k \in {8 * bl[j] : j \in L} PROVE k \in {8 * bl[j] : j \in L0} \ {lo}
      BY <1>3, <3>1
    <3>2. ASSUME k \in {8 * bl[j] : j \in L0} \ {lo} PROVE k \in {8 * bl[j] : j \in L}
      BY <3>2
    <3> QED
      BY <3>1, <3>2
  <2> QED
    BY <2>1
<1>7. \A j \in L : Removed(s, lo).at[8 * bl[j]] = PayloadEnd(bl[j], sz[j])
  <2> TAKE j \in L
  <2>1. 8 * bl[j] \in Held(s) \ {lo}
    BY <1>3, <1>4
  <2> QED
    BY <2>1, <1>4, <1>5
<1> HIDE DEF lo
<1> QED
  BY <1>4, <1>5, <1>6, <1>7 DEF Ranged, lo

\* The driver gives its block back.
LEMMA FreedOwns ==
    ASSUME NEW h, NEW B, NEW s, NEW L0, NEW L, NEW O, NEW bl, NEW sz, NEW i \in L0,
           Driving(h, B, s, L0, L, O, bl, sz, i), NEW bl2, NEW sz2,
           \A j \in L : bl2[j] = bl[j] /\ sz2[j] = sz[j]
    PROVE  \E B2 : /\ Good(FreeBlock(h, bl[i]), B2) /\ Owns(FreeBlock(h, bl[i]), B2, L, bl2, sz2)
                   /\ Ranged(s, L, bl2, sz2)
<1> DEFINE o == bl[i] - 1
           bp == bl[i]
           g == FreeBlock(h, bp)
<1>1. /\ Good(h, B) /\ Owns(h, B, L0, bl, sz) /\ DriverType(L0, bl, sz)
      /\ L = L0 \ {i} /\ O = {bl[j] - 1 : j \in L0 \cap {i}} /\ Ranged(s, L, bl, sz)
  BY DEF Driving
<1>2. bp \in Nat /\ o \in AllocSet(h.mem, B) /\ o \in B /\ h.mem[o].alloc
  BY <1>1 DEF Owns, AllocSet
<1>3. bp = o + 1
  BY <1>2
<1>O. O = {o}
  BY <1>1
<1> HIDE DEF o, bp
<1>4. PICK B2 : Freed(h, B, g, B2, o)
  BY <1>1, <1>2, <1>3, FreeEffect
<1> HIDE DEF g
<1>5. /\ Good(g, B2) /\ KeptBut(h.mem, B, g.mem, B2, o)
      /\ AllocSet(g.mem, B2) = AllocSet(h.mem, B) \ {o}
  BY <1>4 DEF Freed
<1>6. Spared(h.mem, B, g.mem, B2, O)
  BY <1>5, <1>O, SparedOnce
<1>7. \A j \in L : OtherBlock(g, B2, s, O, bl, sz, j)
  BY <1>5, <1>6, OthersStay
<1>8. \A c \in AllocSet(g.mem, B2) : \E j \in L : bl2[j] = c + 1
  <2> TAKE c \in AllocSet(g.mem, B2)
  <2>1. c \in AllocSet(h.mem, B) /\ c # o
    BY <1>5
  <2>2. PICK j \in L0 : bl[j] = c + 1
    BY <2>1, <1>1 DEF Owns
  <2>3. j # i
    <3> SUFFICES ASSUME j = i PROVE FALSE
      OBVIOUS
    <3>1. c \in Nat
      <4>1. Plain(h.mem, h.brk - 1, B)
        BY <1>1, TiledTypes DEF Good, HeapRecord
      <4> QED
        BY <4>1, <2>1 DEF Plain, AllocSet
    <3>2. o = bl[i] - 1
      BY DEF o
    <3> QED
      BY <3>1, <3>2, <2>1, <2>2
  <2> QED
    BY <2>2, <2>3, <1>1
<1>9. Owns(g, B2, L, bl2, sz2)
  <2>1. ASSUME NEW j \in L
        PROVE  /\ bl2[j] \in Nat /\ bl2[j] - 1 \in AllocSet(g.mem, B2)
               /\ sz2[j] \in Nat /\ sz2[j] > 0 /\ 8 * (g.mem[bl2[j] - 1].size - 1) >= sz2[j]
               /\ \A w \in bl2[j] .. bl2[j] + Words(sz2[j]) - 1 : g.mem[w] = User
    <3>1. OtherBlock(g, B2, s, O, bl, sz, j) /\ bl2[j] = bl[j] /\ sz2[j] = sz[j]
      BY <1>7
    <3> QED
      BY <3>1 DEF OtherBlock
  <2>2. \A j, k \in L : bl2[j] = bl2[k] => j = k
    BY <1>1 DEF Owns
  <2> QED
    BY <2>1, <2>2, <1>8 DEF Owns
<1>10. Ranged(s, L, bl2, sz2)
  <2>1. {8 * bl2[j] : j \in L} = {8 * bl[j] : j \in L}
    OBVIOUS
  <2> QED
    BY <2>1, <1>1 DEF Ranged
<1> QED
  BY <1>5, <1>9, <1>10 DEF g, bp

\* A new heap, for a new trace.
LEMMA NewTrace ==
    ASSUME NEW mem \in Memory, EvenOK(mem), NEW bl, NEW sz
    PROVE  /\ \E B : Good(InitHeap(mem), B) /\ Owns(InitHeap(mem), B, {}, bl, sz)
           /\ Ranged(NoIntervals, {}, bl, sz)
<1>1. Good(InitHeap(mem), {1}) /\ AllocSet(InitHeap(mem).mem, {1}) = {}
  BY InitEffect
<1>2. Owns(InitHeap(mem), {1}, {}, bl, sz)
  BY <1>1 DEF Owns
<1>3. Ranged(NoIntervals, {}, bl, sz)
  <2>1. DOMAIN NoIntervals.at = {}
    BY DEF NoIntervals
  <2> QED
    BY <2>1 DEF Ranged, Held
<1> QED
  BY <1>1, <1>2, <1>3

\* A mapping of /dev/zero is memory without a footer that looks like an epilogue.
LEMMA ZeroedIsMemory == Zeroed \in Memory /\ EvenOK(Zeroed)
<1>1. Tag(0, FALSE, FALSE, FALSE) \in Word
  BY TagIsWord
<1>2. Zeroed \in Memory
  BY <1>1 DEF Zeroed, Memory
<1>3. EvenOK(Zeroed)
  BY DEF EvenOK, Zeroed, One, Tag
<1> QED
  BY <1>2, <1>3

\* The invariant holds at the start.
LEMMA InitDriverInv == Init => DriverInv
<1> SUFFICES ASSUME Init PROVE DriverInv
  OBVIOUS
<1>1. /\ heap = InitHeap(Zeroed) /\ blocks = [i \in Index |-> 0] /\ sizes = [i \in Index |-> 0]
      /\ ranges = NoIntervals /\ live = {} /\ verdict = "ok"
  BY DEF Init
<1>2. /\ \E B : Good(InitHeap(Zeroed), B) /\ Owns(InitHeap(Zeroed), B, {}, blocks, sizes)
      /\ Ranged(NoIntervals, {}, blocks, sizes)
  BY ZeroedIsMemory, NewTrace
<1>3. DriverType(live, blocks, sizes)
  BY <1>1 DEF DriverType
<1> QED
  BY <1>1, <1>2, <1>3 DEF DriverInv

\* ALLOC keeps the invariant.
LEMMA AllocKeeps ==
    ASSUME DriverInv, NEW i \in Index, NEW bytes \in Request, Alloc(i, bytes)
    PROVE  StepOK
<1>0. bytes \in Nat /\ bytes > 0
  BY DriverAssumption
<1>1. Running /\ i \notin live /\ Receive(ranges, i, bytes, MallocBlock(heap, bytes))
  BY DEF Alloc
<1>2. PICK B : Good(heap, B) /\ Owns(heap, B, live, blocks, sizes)
  BY <1>1 DEF DriverInv, Running, Sound
<1>3. DriverType(live, blocks, sizes) /\ Ranged(ranges, live, blocks, sizes)
  BY <1>1 DEF DriverInv
<1> DEFINE L == live
           O == {}
           res == MallocBlock(heap, bytes)
<1>4. Driving(heap, B, ranges, live, L, O, blocks, sizes, i)
  <2>1. live \ {i} = live /\ live \cap {i} = {}
    BY <1>1
  <2>2. {blocks[j] - 1 : j \in live \cap {i}} = {}
    BY <2>1
  <2> QED
    BY <2>1, <2>2, <1>2, <1>3 DEF Driving
<1>5. Answered(heap, B, O, res, bytes)
  BY <1>0, <1>2, MallocEffect
<1>6. Receive(ranges, i, bytes, res)
  BY <1>1
<1> HIDE DEF L, O, res
<1> QED
  BY <1>1, <1>4, <1>5, <1>6, ReceiveKeeps

\* REALLOC keeps the invariant.
LEMMA ReallocKeeps ==
    ASSUME DriverInv, NEW i \in Index, NEW bytes \in Request, Realloc(i, bytes)
    PROVE  StepOK
<1>0. bytes \in Nat /\ bytes > 0
  BY DriverAssumption
<1> DEFINE s == Removed(ranges, 8 * blocks[i])
           L == live \ {i}
           O == {blocks[j] - 1 : j \in live \cap {i}}
           res == ReallocBlock(heap, blocks[i], bytes)
<1>1. Running /\ (i \in live \/ blocks[i] = 0) /\ Receive(s, i, bytes, res)
  BY DEF Realloc
<1>2. PICK B : Good(heap, B) /\ Owns(heap, B, live, blocks, sizes)
  BY <1>1 DEF DriverInv, Running, Sound
<1>3. DriverType(live, blocks, sizes) /\ Ranged(ranges, live, blocks, sizes)
  BY <1>1 DEF DriverInv
<1>4. Driving(heap, B, s, live, L, O, blocks, sizes, i)
  <2>1. Ranged(s, L, blocks, sizes)
    BY <1>1, <1>2, <1>3, RemovedRanged
  <2> HIDE DEF s
  <2> QED
    BY <2>1, <1>2, <1>3 DEF Driving
<1>5. Answered(heap, B, O, res, bytes)
  <2>1. CASE i \in live
    <3> DEFINE o == blocks[i] - 1
               bp == blocks[i]
    <3>1. O = {o}
      BY <2>1
    <3>2. bp \in Nat /\ o \in AllocSet(heap.mem, B)
      BY <2>1, <1>2 DEF Owns
    <3>3. o \in Nat
      <4>1. Plain(heap.mem, heap.brk - 1, B)
        BY <1>2, TiledTypes DEF Good, HeapRecord
      <4> HIDE DEF o
      <4> QED
        BY <4>1, <3>2 DEF Plain, AllocSet
    <3>4. bp = o + 1 /\ bp > 0
      BY <3>2, <3>3
    <3> HIDE DEF o, bp
    <3>5. Answered(heap, B, {o}, ReallocBlock(heap, bp, bytes), bytes)
      BY <3>2, <3>4, <1>0, <1>2, ReallocEffect
    <3> QED
      BY <3>1, <3>5 DEF bp
  <2>2. CASE i \notin live
    <3>1. blocks[i] = 0 /\ O = {}
      BY <2>2, <1>1
    <3>2. res = MallocBlock(heap, bytes)
      <4>1. bytes # 0
        BY <1>0
      <4> QED
        BY <3>1, <4>1 DEF ReallocBlock
    <3>3. Answered(heap, B, {}, MallocBlock(heap, bytes), bytes)
      BY <1>0, <1>2, MallocEffect
    <3> HIDE DEF res, O
    <3> QED
      BY <3>1, <3>2, <3>3
  <2> QED
    BY <2>1, <2>2
<1> HIDE DEF s, L, O, res
<1> QED
  BY <1>1, <1>4, <1>5, ReceiveKeeps

\* Giving up a block of id i, whatever is noted for it then.
LEMMA ReleaseKeeps ==
    ASSUME DriverInv, NEW i \in Index, Release(i), DriverType(live', blocks', sizes'),
           \A j \in live' : blocks'[j] = blocks[j] /\ sizes'[j] = sizes[j]
    PROVE  StepOK
<1>1. /\ Running /\ i \in live /\ heap' = FreeBlock(heap, blocks[i])
      /\ ranges' = Removed(ranges, 8 * blocks[i]) /\ live' = live \ {i} /\ verdict' = verdict
  BY DEF Release
<1>2. PICK B : Good(heap, B) /\ Owns(heap, B, live, blocks, sizes)
  BY <1>1 DEF DriverInv, Running, Sound
<1>3. DriverType(live, blocks, sizes) /\ Ranged(ranges, live, blocks, sizes)
  BY <1>1 DEF DriverInv
<1>4. Ranged(ranges', live', blocks, sizes)
  BY <1>1, <1>2, <1>3, RemovedRanged
<1> DEFINE O == {blocks[j] - 1 : j \in live \cap {i}}
<1>5. Driving(heap, B, ranges', live, live', O, blocks, sizes, i)
  BY <1>1, <1>2, <1>3, <1>4 DEF Driving
<1> HIDE DEF O
<1>6. \E B2 : /\ Good(FreeBlock(heap, blocks[i]), B2)
              /\ Owns(FreeBlock(heap, blocks[i]), B2, live', blocks', sizes')
              /\ Ranged(ranges', live', blocks', sizes')
  BY <1>1, <1>5, FreedOwns
<1>7. PICK B2 : /\ Good(heap', B2) /\ Owns(heap', B2, live', blocks', sizes')
                /\ Ranged(ranges', live', blocks', sizes')
  BY <1>1, <1>6
<1>8. heap'.fault = "none"
  BY <1>7 DEF Good
<1>9. verdict' = "ok"
  BY <1>1 DEF Running
<1>10. DriverInv'
  BY <1>7, <1>9 DEF DriverInv
<1> QED
  BY <1>8, <1>10 DEF StepOK

\* FREE keeps the invariant.
LEMMA FreeKeeps ==
    ASSUME DriverInv, NEW i \in Index, Free(i)
    PROVE  StepOK
<1>1. Release(i) /\ blocks' = blocks /\ sizes' = sizes /\ live' = live \ {i}
  BY DEF Free, Release
<1>2. DriverType(live', blocks', sizes')
  BY <1>1 DEF DriverInv, DriverType
<1> QED
  BY <1>1, <1>2, ReleaseKeeps

\* REALLOC to size 0 keeps the invariant.
LEMMA ReallocZeroKeeps ==
    ASSUME DriverInv, NEW i \in Index, ReallocZero(i)
    PROVE  StepOK
<1>1. /\ Release(i) /\ live' = live \ {i}
      /\ blocks' = [blocks EXCEPT ![i] = 0] /\ sizes' = [sizes EXCEPT ![i] = 0]
  BY DEF ReallocZero, Release
<1>2. DriverType(live, blocks, sizes)
  BY DEF DriverInv
<1>3. DriverType(live', blocks', sizes')
  BY <1>1, <1>2 DEF DriverType
<1>4. \A j \in live' : blocks'[j] = blocks[j] /\ sizes'[j] = sizes[j]
  BY <1>1, <1>2 DEF DriverType
<1> QED
  BY <1>1, <1>3, <1>4, ReleaseKeeps

\* Starting the next trace establishes the invariant anew.
LEMMA NextTraceKeeps == ASSUME DriverInv, NextTrace PROVE StepOK
<1>1. PICK mem : mem \in {Zeroed} \cup (IF Running THEN {heap.mem} ELSE {}) /\ heap' = InitHeap(mem)
  BY DEF NextTrace
<1>2. mem \in Memory /\ EvenOK(mem)
  <2>1. CASE mem = Zeroed
    BY <2>1, ZeroedIsMemory
  <2>2. CASE Running /\ mem = heap.mem
    BY <2>2 DEF DriverInv, Running, Sound, Good, HeapRecord
  <2> QED
    BY <1>1, <2>1, <2>2
<1>3. /\ blocks' = [j \in Index |-> 0] /\ sizes' = [j \in Index |-> 0]
      /\ ranges' = NoIntervals /\ live' = {} /\ verdict' = "ok"
  BY DEF NextTrace
<1>4. /\ \E B : Good(InitHeap(mem), B) /\ Owns(InitHeap(mem), B, {}, blocks', sizes')
      /\ Ranged(NoIntervals, {}, blocks', sizes')
  BY <1>2, NewTrace
<1>5. PICK B : Good(heap', B) /\ Owns(heap', B, live', blocks', sizes')
  BY <1>1, <1>3, <1>4
<1>6. DriverType(live', blocks', sizes')
  BY <1>3 DEF DriverType
<1>7. heap'.fault = "none"
  BY <1>5 DEF Good
<1>8. DriverInv'
  BY <1>3, <1>4, <1>5, <1>6 DEF DriverInv
<1> QED
  BY <1>7, <1>8 DEF StepOK

\* Every step keeps the invariant, and goes wrong only over a stale heap_end.
LEMMA NextKeeps == ASSUME DriverInv, Next PROVE StepOK
<1>1. ASSUME NEW i \in Index, NEW bytes \in Request, Alloc(i, bytes) PROVE StepOK
  BY <1>1, AllocKeeps
<1>2. ASSUME NEW i \in Index, NEW bytes \in Request, Realloc(i, bytes) PROVE StepOK
  BY <1>2, ReallocKeeps
<1>3. ASSUME NEW i \in Index, Free(i) PROVE StepOK
  BY <1>3, FreeKeeps
<1>4. ASSUME NEW i \in Index, ReallocZero(i) PROVE StepOK
  BY <1>4, ReallocZeroKeeps
<1>5. ASSUME NextTrace PROVE StepOK
  BY <1>5, NextTraceKeeps
<1> QED
  BY <1>1, <1>2, <1>3, <1>4, <1>5 DEF Next

\* The invariant holds throughout.
LEMMA DriverInvAlways == Spec => []DriverInv
<1>1. DriverInv /\ [Next]_vars => DriverInv'
  <2> SUFFICES ASSUME DriverInv, [Next]_vars PROVE DriverInv'
    OBVIOUS
  <2>1. CASE Next
    BY <2>1, NextKeeps DEF StepOK
  <2>2. CASE UNCHANGED vars
    BY <2>2 DEF vars, DriverInv, Sound, Running
  <2> QED
    BY <2>1, <2>2
<1> QED
  BY InitDriverInv, <1>1, PTL DEF Spec

\* The blocks met when walking the heap are those of the invariant.
LEMMA TheBlocks ==
    ASSUME DriverInv, Sound
    PROVE  /\ Good(heap, AllBlocks) /\ Owns(heap, AllBlocks, live, blocks, sizes)
           /\ Headers = AllBlocks \cup {Epilogue} /\ Epilogue \notin AllBlocks
<1>1. PICK B : Good(heap, B) /\ Owns(heap, B, live, blocks, sizes)
  BY DEF DriverInv
<1>2. Headers = B \cup {Epilogue} /\ Epilogue \notin B
  BY <1>1, HeadersAre
<1>3. AllBlocks = B
  BY <1>2 DEF AllBlocks
<1> QED
  BY <1>1, <1>2, <1>3

\* mm_checkheap's walk from heap_start reaches the epilogue through whole, aligned
\* blocks, free ones with their footers, after any sequence of calls, for any chunk
\* size and heap limit.
THEOREM BlocksAlwaysTile == Spec => []BlocksTile
<1>1. DriverInv => BlocksTile
  <2> SUFFICES ASSUME DriverInv, Sound PROVE BlocksTile
    BY DEF BlocksTile
  <2> DEFINE m == heap.mem
             e == heap.brk - 1
  <2>1. Good(heap, AllBlocks) /\ Headers = AllBlocks \cup {Epilogue} /\ Epilogue = e
    BY TheBlocks DEF Epilogue
  <2>2. m \in Memory /\ Tiled(m, e, AllBlocks)
    BY <2>1 DEF Good, HeapRecord
  <2>3. /\ \A b : Size(heap, b) = m[b].size /\ NextBlock(heap, b) = Succ(m, b)
        /\ \A b : IsAlloc(b) <=> m[b].alloc
    BY DEF Size, NextBlock, Succ, IsAlloc
  <2>4. heap.mem = m
    OBVIOUS
  <2> HIDE DEF m, e
  <2>5. Epilogue \in Headers /\ Size(heap, Epilogue) = 0 /\ IsAlloc(Epilogue)
    BY <2>1, <2>2, <2>3 DEF Tiled
  <2>6. ASSUME NEW b \in AllBlocks
        PROVE  /\ b < Epilogue /\ m[b].kind = "tag" /\ Size(heap, b) >= MinBlock /\ Size(heap, b) % 2 = 0
               /\ ~IsAlloc(b) /\ Size(heap, b) > MinBlock =>
                     /\ m[NextBlock(heap, b) - 1].kind = "tag"
                     /\ m[NextBlock(heap, b) - 1].size = Size(heap, b)
    <3>1. b < e
      <4>1. Plain(m, e, AllBlocks)
        BY <2>2, TiledTypes
      <4> QED
        BY <4>1 DEF Plain
    <3>2. BlockOK(m, e, AllBlocks, b)
      BY <2>2 DEF Tiled
    <3> QED
      BY <3>1, <3>2, <2>1, <2>3 DEF BlockOK, MinBlock
  <2> QED
    BY <2>4, <2>5, <2>6 DEF BlocksTile
<1> QED
  BY DriverInvAlways, <1>1, PTL

\* prev_alloc and prev_min of each header agree with the block before it, and free
\* neighbours have been merged, after any sequence of mallocs, reallocs and frees.
THEOREM FlagsAlwaysTell == Spec => []FlagsTell
<1>1. DriverInv => FlagsTell
  <2> SUFFICES ASSUME DriverInv, Sound, NEW b \in AllBlocks, NextBlock(heap, b) # Epilogue
               PROVE  /\ IsAlloc(b) \/ IsAlloc(NextBlock(heap, b))
                      /\ heap.mem[NextBlock(heap, b)].prev_alloc = IsAlloc(b)
                      /\ heap.mem[NextBlock(heap, b)].prev_min = (Size(heap, b) = MinBlock)
    BY DEF FlagsTell
  <2> DEFINE m == heap.mem
             e == heap.brk - 1
             n == NextBlock(heap, b)
  <2>1. Good(heap, AllBlocks) /\ Epilogue = e
    BY TheBlocks DEF Epilogue
  <2>2. m \in Memory /\ Tiled(m, e, AllBlocks) /\ Apart(m, AllBlocks)
    BY <2>1 DEF Good, HeapRecord
  <2>3. Size(heap, b) = m[b].size /\ n = Succ(m, b) /\ IsAlloc(b) = m[b].alloc /\ IsAlloc(n) = m[n].alloc
    BY DEF Size, NextBlock, Succ, IsAlloc
  <2>4. heap.mem = m /\ NextBlock(heap, b) = n /\ n # e
    BY <2>1
  <2> HIDE DEF m, e, n
  <2>5. BlockOK(m, e, AllBlocks, b) /\ Plain(m, e, AllBlocks)
    BY <2>2, TiledTypes DEF Tiled
  <2>6. n \in AllBlocks /\ m[n] \in Word /\ m[b] \in Word
    BY <2>3, <2>4, <2>5 DEF Plain
  <2>7. m[n].prev_alloc \in BOOLEAN /\ m[n].prev_min \in BOOLEAN /\ m[b].alloc \in BOOLEAN
    BY <2>6 DEF Word
  <2>8. (m[n].prev_alloc <=> m[b].alloc) /\ (m[n].prev_min <=> m[b].size = 2)
    BY <2>3, <2>4, <2>5 DEF BlockOK
  <2>9. m[b].alloc \/ m[n].alloc
    BY <2>2, <2>3, <2>6 DEF Apart
  <2>10. m[n].prev_alloc = m[b].alloc
    BY <2>7, <2>8
  <2>11. m[n].prev_min = (m[b].size = 2)
    BY <2>7, <2>8
  <2> QED
    BY <2>3, <2>4, <2>9, <2>10, <2>11 DEF MinBlock
<1> QED
  BY DriverInvAlways, <1>1, PTL

\* seg_list and min_list hold each free block exactly once, in the list of its size
\* or residue, and no other block: pop and push never lose or duplicate one.
THEOREM ListsAlwaysExact == Spec => []ListsExact
<1>1. DriverInv => ListsExact
  <2> SUFFICES ASSUME DriverInv, Sound PROVE ListsExact
    BY DEF ListsExact
  <2> DEFINE free == {b \in AllBlocks : ~IsAlloc(b)}
  <2>1. Good(heap, AllBlocks)
    BY TheBlocks
  <2>2. free = FreeSet(heap.mem, AllBlocks)
    BY DEF FreeSet, IsAlloc
  <2>3. Listed(heap, free)
    BY <2>1, <2>2 DEF Good
  <2>4. free = {b \in AllBlocks : ~IsAlloc(b)}
    OBVIOUS
  <2> HIDE DEF free
  <2>5. /\ \A c \in Classes : IsInjective(heap.seg[c]) /\ ToSet(heap.seg[c]) =
              {b \in free : Size(heap, b) > MinBlock /\ GetIndex(Size(heap, b)) = c}
        /\ \A c \in MinLists : IsInjective(heap.min[c]) /\ ToSet(heap.min[c]) =
              {b \in free : Size(heap, b) = MinBlock /\ MinIndex(b) = c}
    BY <2>3 DEF Listed, MinBlock
  <2> QED
    BY <2>4, <2>5 DEF ListsExact
<1> QED
  BY DriverInvAlways, <1>1, PTL

\* No step of the allocator writes to a payload the user has not freed, and each is
\* as large as asked for: eval_mm_valid's check_index never finds other data.
THEOREM PayloadsAlwaysKept == Spec => []PayloadsKept
<1>1. DriverInv => PayloadsKept
  <2> SUFFICES ASSUME DriverInv, Sound PROVE PayloadsKept
    BY DEF PayloadsKept
  <2>1. Good(heap, AllBlocks) /\ Owns(heap, AllBlocks, live, blocks, sizes)
    BY TheBlocks
  <2>2. \A c \in AllBlocks : c \in Nat
    <3>1. Plain(heap.mem, heap.brk - 1, AllBlocks)
      BY <2>1, TiledTypes DEF Good, HeapRecord
    <3> QED
      BY <3>1 DEF Plain
  <2>3. AllocSet(heap.mem, AllBlocks) = {b \in AllBlocks : IsAlloc(b)}
    BY DEF AllocSet, IsAlloc
  <2>4. \A c : c \in AllocSet(heap.mem, AllBlocks) <=> c \in {blocks[i] - 1 : i \in live}
    <3>1. ASSUME NEW c \in AllocSet(heap.mem, AllBlocks) PROVE c \in {blocks[i] - 1 : i \in live}
      <4>1. PICK i \in live : blocks[i] = c + 1
        BY <2>1 DEF Owns
      <4>2. c \in Nat
        BY <2>2 DEF AllocSet
      <4>3. c = blocks[i] - 1
        BY <4>1, <4>2
      <4> QED
        BY <4>3
    <3>2. ASSUME NEW i \in live PROVE blocks[i] - 1 \in AllocSet(heap.mem, AllBlocks)
      BY <2>1 DEF Owns
    <3> QED
      BY <3>1, <3>2
  <2>5. {b \in AllBlocks : IsAlloc(b)} = {blocks[i] - 1 : i \in live}
    <3>1. AllocSet(heap.mem, AllBlocks) = {blocks[i] - 1 : i \in live}
      BY <2>4
    <3> QED
      BY <3>1, <2>3
  <2>6. \A i \in live :
          /\ 8 * (Size(heap, blocks[i] - 1) - 1) >= sizes[i]
          /\ \A w \in blocks[i] .. blocks[i] + (sizes[i] + 7) \div 8 - 1 : heap.mem[w] = User
    BY <2>1 DEF Owns, Size, Words
  <2> QED
    BY <2>5, <2>6 DEF PayloadsKept
<1> QED
  BY DriverInvAlways, <1>1, PTL

\* Every block malloc and realloc return is aligned, in the heap and apart from the
\* others: add_range refuses none.
THEOREM DriverAlwaysAccepts == Spec => []DriverAccepts
<1>1. DriverInv => DriverAccepts
  BY DEF DriverInv, DriverAccepts
<1> QED
  BY DriverInvAlways, <1>1, PTL

\* A tag read where there is none, or a pop of a block in no list, comes only of a
\* heap_end that coalesce_block has left inside a merged block.
THEOREM OnlyHeapEndEverFails == Spec => OnlyHeapEndFails
<1>1. DriverInv /\ [Next]_vars => [Sound /\ heap'.fault # "none" => ~HeapEndIsLast]_vars
  <2> SUFFICES ASSUME DriverInv, [Next]_vars, Sound, heap'.fault # "none"
               PROVE  ~HeapEndIsLast
    OBVIOUS
  <2>1. CASE Next
    BY <2>1, NextKeeps DEF StepOK
  <2>2. CASE UNCHANGED vars
    BY <2>2 DEF vars, Sound
  <2> QED
    BY <2>1, <2>2
<1> QED
  BY DriverInvAlways, <1>1, PTL DEF Spec, OnlyHeapEndFails

=============================================================================
