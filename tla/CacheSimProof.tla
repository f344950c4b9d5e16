---------------------------- MODULE CacheSimProof ----------------------------
(***************************************************************************)
(* What TLC checks of the cache simulators of src/Lab3 on small caches and *)
(* short traces, proved for every -s, -E and -b, every set of addresses    *)
(* and traces of every length:                                             *)
(*                                                                         *)
(*   CsimIsLRU                 with one or two lines per set csim.c is an  *)
(*                             LRU cache, and csimCP.c is with two;        *)
(*   VictimAlwaysFound         the eviction loop of csimCP.c follows the   *)
(*                             null pointer in a direct-mapped cache only; *)
(*   SimulatorsImplementCache  both implement BlockCache.                  *)
(*                                                                         *)
(* The argument goes by what one access does to the lines of a set: Step   *)
(* says it hits, fills or evicts a line, and the lemmas on Step say what   *)
(* that means for the order of the lines (StepKeepsLines), for an LRU      *)
(* queue of the same blocks (OrderFollows) and for the blocks as BlockCache*)
(* sees them (BlocksFollow).  CsimSteps and DraftLoads show that the two   *)
(* simulators take such steps, and Inv carries what each knows of the past.*)
(***************************************************************************)
EXTENDS CacheSim, FiniteSetTheorems, SequenceTheorems, WellFoundedInduction, TLAPS

-----------------------------------------------------------------------------
(* Powers of two.                                                          *)

\* Every nonempty set of naturals has a least element.
LEMMA LeastNatural ==
    ASSUME NEW S, S \subseteq Nat, S # {}
    PROVE  \E n \in S : \A m \in S : n <= m
<1>1. PICK R : IsWellFoundedOn(R, Nat) /\ \A x, y \in Nat : x < y => <<x, y>> \in R
  BY NatLessThanWellFounded DEF OpToRel
<1>2. IsWellFoundedOn(R, Nat)
  BY <1>1
<1>3. PICK x \in S : \A y \in S : ~(<<y, x>> \in R)
  BY <1>2, WFMin
<1>4. ASSUME NEW y \in S PROVE x <= y
  <2>1. x \in Nat /\ y \in Nat
    OBVIOUS
  <2>2. ~(y < x)
    BY <1>1, <1>3, <2>1
  <2> QED
    BY <2>1, <2>2
<1> QED
  BY <1>4

\* g is what Pow2 computes up to n.
PowersTo(g, n) == g = [m \in 0 .. n |-> IF m = 0 THEN 1 ELSE 2 * g[m - 1]]

\* There are such functions, and they agree with each other.
LEMMA PowersExist == \A n \in Nat : \E g : PowersTo(g, n)
<1> DEFINE B == {n \in Nat : ~\E g : PowersTo(g, n)}
<1> SUFFICES ASSUME B # {} PROVE FALSE
  OBVIOUS
<1>1. \E n \in B : \A m \in B : n <= m
  <2>1. B \subseteq Nat
    OBVIOUS
  <2> HIDE DEF B
  <2> QED
    BY <2>1, LeastNatural
<1>2. PICK n \in B : \A m \in B : n <= m
  BY <1>1
<1>3. CASE n = 0
  <2>1. PowersTo([m \in 0 .. 0 |-> 1], 0)
    BY DEF PowersTo
  <2> QED
    BY <1>3, <2>1
<1>4. CASE n # 0
  <2>1. n - 1 \in Nat /\ n - 1 \notin B
    BY <1>2, <1>4
  <2>2. PICK g : PowersTo(g, n - 1)
    BY <2>1
  <2> DEFINE h == [m \in 0 .. n |-> IF m < n THEN g[m] ELSE 2 * g[n - 1]]
  <2>3. \A m \in 0 .. n - 1 : g[m] = IF m = 0 THEN 1 ELSE 2 * g[m - 1]
    BY <2>2 DEF PowersTo
  <2>4. \A m \in 0 .. n : h[m] = IF m = 0 THEN 1 ELSE 2 * h[m - 1]
    BY <1>4, <2>1, <2>3
  <2>5. h = [m \in 0 .. n |-> h[m]]
    OBVIOUS
  <2> HIDE DEF h
  <2>6. PowersTo(h, n)
    BY <2>4, <2>5 DEF PowersTo
  <2> QED
    BY <2>6
<1> QED
  BY <1>3, <1>4

\* Two of them agree as far as both go.
LEMMA PowersAgree ==
    ASSUME NEW n \in Nat, NEW k \in Nat, NEW g, NEW h, PowersTo(g, n), PowersTo(h, k)
    PROVE  \A m \in Nat : m <= n /\ m <= k => g[m] = h[m]
<1> DEFINE B == {m \in Nat : m <= n /\ m <= k /\ g[m] # h[m]}
<1> SUFFICES ASSUME B # {} PROVE FALSE
  OBVIOUS
<1>1. \E m \in B : \A l \in B : m <= l
  <2>1. B \subseteq Nat
    OBVIOUS
  <2> HIDE DEF B
  <2> QED
    BY <2>1, LeastNatural
<1>2. PICK m \in B : \A l \in B : m <= l
  BY <1>1
<1>3. /\ g[m] = IF m = 0 THEN 1 ELSE 2 * g[m - 1]
      /\ h[m] = IF m = 0 THEN 1 ELSE 2 * h[m - 1]
  <2>1. m \in 0 .. n /\ m \in 0 .. k
    OBVIOUS
  <2> QED
    BY <2>1 DEF PowersTo
<1>4. m # 0 => m - 1 \in Nat /\ g[m - 1] = h[m - 1]
  <2> SUFFICES ASSUME m # 0 PROVE m - 1 \in Nat /\ g[m - 1] = h[m - 1]
    OBVIOUS
  <2>1. m - 1 \in Nat /\ m - 1 <= n /\ m - 1 <= k /\ ~(m <= m - 1)
    OBVIOUS
  <2> QED
    BY <1>2, <2>1
<1> QED
  BY <1>3, <1>4

\* So the recursive definition of Pow2 is met by a function.
LEMMA Pow2Unfolds ==
    \A n \in Nat : Pow2[n] = IF n = 0 THEN 1 ELSE 2 * Pow2[n - 1]
<1> DEFINE P(n) == CHOOSE g : PowersTo(g, n)
           F == [n \in Nat |-> P(n)[n]]
           Eq(f) == f = [n \in Nat |-> IF n = 0 THEN 1 ELSE 2 * f[n - 1]]
<1>1. \A n \in Nat : PowersTo(P(n), n)
  BY PowersExist
<1> HIDE DEF P
<1>2. ASSUME NEW n \in Nat
      PROVE  F[n] = IF n = 0 THEN 1 ELSE 2 * F[n - 1]
  <2>1. P(n)[n] = IF n = 0 THEN 1 ELSE 2 * P(n)[n - 1]
    BY <1>1 DEF PowersTo
  <2>2. CASE n # 0
    <3>1. n - 1 \in Nat /\ n - 1 <= n /\ n - 1 <= n - 1
      BY <2>2
    <3>2. P(n)[n - 1] = P(n - 1)[n - 1]
      BY <1>1, <3>1, PowersAgree
    <3> QED
      BY <2>1, <2>2, <3>1, <3>2
  <2> QED
    BY <2>1, <2>2
<1>3. F = [n \in Nat |-> F[n]]
  OBVIOUS
<1> HIDE DEF F
<1>4. Eq(F)
  BY <1>2, <1>3
<1>5. Pow2 = CHOOSE f : Eq(f)
  BY DEF Pow2
<1>6. Eq(Pow2)
  <2> HIDE DEF Eq
  <2> QED
    BY <1>4, <1>5
<1> QED
  BY <1>6

\* A power of two is a positive number.
LEMMA Pow2Positive == \A n \in Nat : Pow2[n] \in Nat \ {0}
<1> DEFINE B == {n \in Nat : Pow2[n] \notin Nat \ {0}}
<1> SUFFICES ASSUME B # {} PROVE FALSE
  OBVIOUS
<1>1. \E n \in B : \A m \in B : n <= m
  <2>1. B \subseteq Nat
    OBVIOUS
  <2> HIDE DEF B
  <2> QED
    BY <2>1, LeastNatural
<1>2. PICK n \in B : \A m \in B : n <= m
  BY <1>1
<1>3. n # 0 => n - 1 \in Nat /\ ~(n <= n - 1)
  OBVIOUS
<1>4. n # 0 => Pow2[n - 1] \in Nat \ {0}
  BY <1>2, <1>3
<1> QED
  BY <1>4, Pow2Unfolds

\* 1 << (m + n) is the product of 1 << m and 1 << n.
LEMMA Pow2Sum == \A m, n \in Nat : Pow2[m + n] = Pow2[m] * Pow2[n]
<1> SUFFICES ASSUME NEW m \in Nat
             PROVE  \A n \in Nat : Pow2[m + n] = Pow2[m] * Pow2[n]
  OBVIOUS
<1> DEFINE B == {n \in Nat : Pow2[m + n] # Pow2[m] * Pow2[n]}
<1> SUFFICES ASSUME B # {} PROVE FALSE
  OBVIOUS
<1>1. \E n \in B : \A k \in B : n <= k
  <2>1. B \subseteq Nat
    OBVIOUS
  <2> HIDE DEF B
  <2> QED
    BY <2>1, LeastNatural
<1>2. PICK n \in B : \A k \in B : n <= k
  BY <1>1
<1>3. CASE n = 0
  <2>1. Pow2[0] = 1 /\ Pow2[m] \in Nat /\ m + 0 = m
    BY Pow2Unfolds, Pow2Positive
  <2> QED
    BY <1>3, <2>1
<1>4. CASE n # 0
  <2>1. n - 1 \in Nat /\ ~(n <= n - 1) /\ m + n \in Nat /\ m + n # 0 /\ (m + n) - 1 = m + (n - 1)
    BY <1>4
  <2>2. Pow2[m + (n - 1)] = Pow2[m] * Pow2[n - 1]
    BY <1>2, <2>1
  <2>3. Pow2[m + n] = 2 * Pow2[m + (n - 1)] /\ Pow2[n] = 2 * Pow2[n - 1]
    BY <1>4, <2>1, Pow2Unfolds
  <2>4. Pow2[m] \in Nat /\ Pow2[n - 1] \in Nat
    BY <2>1, Pow2Positive
  <2>5. \A x, y \in Nat : 2 * (x * y) = x * (2 * y)
    OBVIOUS
  <2>6. Pow2[m + n] = Pow2[m] * Pow2[n]
    BY <2>2, <2>3, <2>4, <2>5
  <2> QED
    BY <2>6
<1> QED
  BY <1>3, <1>4

\* Every address has a set.
LEMMA SetIndexInRange ==
    ASSUME arg \in Arguments, NEW a \in Addr
    PROVE  SetIndex(a) \in 0 .. Pow2[arg.s] - 1 /\ TagOf(a) \in Int
<1>1. arg.s \in Nat /\ arg.b \in Nat /\ a \in Nat
  BY CsimAssumption
<1>2. Pow2[arg.s] \in Nat \ {0} /\ Pow2[arg.b] \in Nat \ {0}
  BY <1>1, Pow2Positive
<1>3. Pow2[arg.s + arg.b] = Pow2[arg.s] * Pow2[arg.b]
  BY <1>1, Pow2Sum
<1>4. PICK p \in Nat \ {0} : p = Pow2[arg.s] * Pow2[arg.b]
  <2>1. \A x, y \in Nat \ {0} : x * y \in Nat \ {0}
    OBVIOUS
  <2> QED
    BY <1>2, <2>1
<1>5. a % p \in 0 .. p - 1 /\ a - (a % p) \in Int
  BY <1>1
<1>6. \A x, y \in Nat \ {0}, c \in Nat : c < x * y => c \div y \in 0 .. x - 1
  OBVIOUS
<1>7. a % p \in Nat /\ a % p < Pow2[arg.s] * Pow2[arg.b]
  BY <1>4, <1>5
<1>8. SetIndex(a) = (a % p) \div Pow2[arg.b] /\ TagOf(a) = a - (a % p)
  BY <1>3, <1>4 DEF SetIndex, TagOf
<1>9. (a % p) \div Pow2[arg.b] \in 0 .. Pow2[arg.s] - 1
  BY <1>2, <1>6, <1>7
<1> QED
  BY <1>5, <1>8, <1>9

\* Min of a nonempty set of naturals is in it and least.
LEMMA LeastOfSet ==
    ASSUME NEW S \in SUBSET Nat, S # {}
    PROVE  Min(S) \in S /\ \A m \in S : Min(S) <= m
<1>1. PICK n \in S : \A m \in S : n <= m
  BY LeastNatural
<1>2. \A m \in S : n =< m
  BY <1>1
<1> QED
  BY <1>2 DEF Min

-----------------------------------------------------------------------------
(* The lines of a set.                                                     *)

Line == [tag : Int, d : BOOLEAN, v : BOOLEAN]

\* The valid lines come first and have different tags; the others are not dirty.
LinesOK(lines, E) ==
    /\ lines \in [0 .. E - 1 -> Line]
    /\ \A i, j \in 0 .. E - 1 :
         lines[i].v => /\ j < i => lines[j].v
                       /\ lines[j].v /\ lines[j].tag = lines[i].tag => j = i
    /\ \A i \in 0 .. E - 1 : ~lines[i].v => ~lines[i].d

\* Where the search for a tag stops.
StopsIn(lines, t) == {i \in DOMAIN lines : ~lines[i].v \/ lines[i].tag = t}

\* It stops at the line of the tag if that is there, else at the first free
\* line, and nowhere if the set is full.
LEMMA SearchFinds ==
    ASSUME NEW E \in Nat \ {0}, NEW lines, LinesOK(lines, E), NEW t
    PROVE  /\ StopsIn(lines, t) # {} =>
                LET i == Min(StopsIn(lines, t)) IN
                /\ i \in 0 .. E - 1
                /\ lines[i].v => lines[i].tag = t
                /\ ~lines[i].v => \A j \in 0 .. E - 1 :
                                    (lines[j].v <=> j < i) /\ (lines[j].v => lines[j].tag # t)
           /\ StopsIn(lines, t) = {} => \A j \in 0 .. E - 1 : lines[j].v /\ lines[j].tag # t
<1>1. DOMAIN lines = 0 .. E - 1
  BY DEF LinesOK
<1>2. ASSUME StopsIn(lines, t) # {}
      PROVE  LET i == Min(StopsIn(lines, t)) IN
             /\ i \in 0 .. E - 1
             /\ lines[i].v => lines[i].tag = t
             /\ ~lines[i].v => \A j \in 0 .. E - 1 :
                                 (lines[j].v <=> j < i) /\ (lines[j].v => lines[j].tag # t)
  <2>1. StopsIn(lines, t) \in SUBSET Nat
    BY <1>1 DEF StopsIn
  <2>2. PICK i \in StopsIn(lines, t) :
          i = Min(StopsIn(lines, t)) /\ \A m \in StopsIn(lines, t) : i <= m
    BY <1>2, <2>1, LeastOfSet
  <2>3. i \in 0 .. E - 1 /\ (lines[i].v => lines[i].tag = t)
    BY <1>1 DEF StopsIn
  <2>4. ASSUME ~lines[i].v, NEW j \in 0 .. E - 1
        PROVE  (lines[j].v <=> j < i) /\ (lines[j].v => lines[j].tag # t)
    <3>1. lines[j].v => j < i
      BY <2>3, <2>4 DEF LinesOK
    <3>2. j < i => j \notin StopsIn(lines, t)
      BY <2>2, <2>3
    <3>3. j \notin StopsIn(lines, t) => lines[j].v /\ lines[j].tag # t
      BY <1>1 DEF StopsIn
    <3> QED
      BY <3>1, <3>2, <3>3
  <2> QED
    BY <2>2, <2>3, <2>4
<1>3. StopsIn(lines, t) = {} => \A j \in 0 .. E - 1 : lines[j].v /\ lines[j].tag # t
  BY <1>1 DEF StopsIn
<1> QED
  BY <1>2, <1>3

\* The lines stay in order when one is used for a tag that no other line has.
LEMMA UseKeepsLines ==
    ASSUME NEW E \in Nat \ {0}, NEW lines, LinesOK(lines, E),
           NEW i \in 0 .. E - 1, NEW t \in Int, NEW d \in BOOLEAN,
           \A j \in 0 .. E - 1 : j < i => lines[j].v,
           \A j \in 0 .. E - 1 : lines[j].v /\ lines[j].tag = t => j = i,
           NEW new, new = [lines EXCEPT ![i] = [tag |-> t, d |-> d, v |-> TRUE]]
    PROVE  LinesOK(new, E)
<1>1. lines \in [0 .. E - 1 -> Line] /\ [tag |-> t, d |-> d, v |-> TRUE] \in Line
  BY DEF LinesOK, Line
<1>2. /\ new \in [0 .. E - 1 -> Line]
      /\ new[i].v /\ new[i].tag = t
      /\ \A j \in 0 .. E - 1 : j # i => new[j] = lines[j]
  BY <1>1
<1>3. ASSUME NEW k \in 0 .. E - 1, NEW j \in 0 .. E - 1, new[k].v
      PROVE  (j < k => new[j].v) /\ (new[j].v /\ new[j].tag = new[k].tag => j = k)
  <2>1. CASE k = i
    BY <1>2, <2>1 DEF LinesOK
  <2>2. CASE k # i /\ j = i
    BY <1>2, <1>3, <2>2 DEF LinesOK
  <2>3. CASE k # i /\ j # i
    BY <1>2, <1>3, <2>3 DEF LinesOK
  <2> QED
    BY <2>1, <2>2, <2>3
<1> QED
  BY <1>2, <1>3 DEF LinesOK

-----------------------------------------------------------------------------
(* The blocks in the lines.                                                *)

\* The lines as a function from tag to dirty.
LEMMA BlocksOfLines ==
    ASSUME NEW E \in Nat \ {0}, NEW set, LinesOK(set.lines, E)
    PROVE  LET V == {i \in 0 .. E - 1 : set.lines[i].v} IN
           /\ DOMAIN BlocksOf(set) = {set.lines[i].tag : i \in V}
           /\ BlocksOf(set) = [t \in {set.lines[i].tag : i \in V} |-> BlocksOf(set)[t]]
           /\ \A i \in V : BlocksOf(set)[set.lines[i].tag] = set.lines[i].d
<1> DEFINE V == {i \in 0 .. E - 1 : set.lines[i].v}
<1>1. DOMAIN set.lines = 0 .. E - 1
  BY DEF LinesOK
<1>2. TagsOf(set) = {set.lines[i].tag : i \in V}
  BY <1>1 DEF TagsOf
<1>3. ASSUME NEW i \in V
      PROVE  LineOf(set, set.lines[i].tag) = i
  BY <1>1 DEF LineOf, LinesOK
<1> HIDE DEF V
<1>4. BlocksOf(set) = [t \in {set.lines[i].tag : i \in V} |-> set.lines[LineOf(set, t)].d]
  BY <1>2 DEF BlocksOf
<1>5. \A i \in V : BlocksOf(set)[set.lines[i].tag] = set.lines[i].d
  BY <1>3, <1>4
<1> QED
  BY <1>4, <1>5 DEF V

\* How many there are.
LEMMA BlocksCount ==
    ASSUME NEW E \in Nat \ {0}, NEW set, LinesOK(set.lines, E), NEW n \in 0 .. E,
           \A j \in 0 .. E - 1 : set.lines[j].v <=> j < n
    PROVE  Cardinality(DOMAIN BlocksOf(set)) = n
<1> DEFINE f == [j \in 0 .. n - 1 |-> set.lines[j].tag]
           T == DOMAIN BlocksOf(set)
<1>1. {i \in 0 .. E - 1 : set.lines[i].v} = 0 .. n - 1
  <2>1. \A j : j \in 0 .. n - 1 <=> j \in 0 .. E - 1 /\ j < n
    OBVIOUS
  <2> QED
    BY <2>1
<1>2. T = {set.lines[i].tag : i \in 0 .. n - 1}
  <2> DEFINE V == {i \in 0 .. E - 1 : set.lines[i].v}
  <2>1. T = {set.lines[i].tag : i \in V}
    BY BlocksOfLines
  <2>2. V = 0 .. n - 1
    BY <1>1
  <2> HIDE DEF V, T
  <2> QED
    BY <2>1, <2>2
<1> HIDE DEF T
<1>3. f \in [0 .. n - 1 -> T]
  BY <1>2
<1>4. \A i, j \in 0 .. n - 1 : f[i] = f[j] => i = j
  BY DEF LinesOK
<1>5. \A t \in T : \E j \in 0 .. n - 1 : f[j] = t
  BY <1>2
<1>6. f \in Bijection(0 .. n - 1, T)
  <2> HIDE DEF f
  <2> QED
    BY <1>3, <1>4, <1>5 DEF Bijection, Injection, Surjection, IsInjective
<1>7. IsFiniteSet(0 .. n - 1) /\ Cardinality(0 .. n - 1) = n
  BY FS_Interval
<1> QED
  BY <1>6, <1>7, FS_Bijection DEF ExistsBijection, T

-----------------------------------------------------------------------------
(* What an access does to a set.                                           *)

\* It hits line i, fills it, or evicts its block.
Step(kind, lines, new, i, t, store, E) ==
    LET use(d) == new = [lines EXCEPT ![i] = [tag |-> t, d |-> d, v |-> TRUE]] IN
    /\ i \in 0 .. E - 1
    /\ \/ kind = "hit" /\ lines[i].v /\ lines[i].tag = t /\ use(lines[i].d \/ store)
       \/ /\ kind = "fill" /\ use(store)
          /\ \A j \in 0 .. E - 1 : (lines[j].v <=> j < i) /\ (lines[j].v => lines[j].tag # t)
       \/ /\ kind = "evict" /\ use(store)
          /\ \A j \in 0 .. E - 1 : lines[j].v /\ lines[j].tag # t

\* The lines stay as they should be, and the line used is the tag's.
LEMMA StepKeepsLines ==
    ASSUME NEW E \in Nat \ {0}, NEW lines, LinesOK(lines, E), NEW kind, NEW new, NEW i,
           NEW t \in Int, NEW store \in BOOLEAN, Step(kind, lines, new, i, t, store, E)
    PROVE  /\ LinesOK(new, E) /\ new[i].v /\ new[i].tag = t
           /\ new[i].d \in BOOLEAN
           /\ kind = "hit" => (new[i].d <=> lines[i].d \/ store)
           /\ kind # "hit" => (new[i].d <=> store)
           /\ \A j \in 0 .. E - 1 : j # i => new[j] = lines[j]
<1>1. lines \in [0 .. E - 1 -> Line] /\ i \in 0 .. E - 1
  BY DEF LinesOK, Step
<1>2. PICK d \in BOOLEAN : /\ new = [lines EXCEPT ![i] = [tag |-> t, d |-> d, v |-> TRUE]]
                           /\ d = IF kind = "hit" THEN lines[i].d \/ store ELSE store
  BY <1>1 DEF Step, Line
<1>3. /\ \A j \in 0 .. E - 1 : j < i => lines[j].v
      /\ \A j \in 0 .. E - 1 : lines[j].v /\ lines[j].tag = t => j = i
  BY <1>1 DEF Step, LinesOK
<1>4. LinesOK(new, E)
  BY <1>1, <1>2, <1>3, UseKeepsLines
<1> QED
  BY <1>1, <1>2, <1>4

-----------------------------------------------------------------------------
(* csim.                                                                   *)

\* Lines 0 and 1 are told apart: LRU is the one that was not used last.
CsimSetOK(set, E, recent) ==
    /\ LinesOK(set.lines, E)
    /\ E = 1 => set.LRU = 0
    /\ E > 1 => /\ set.LRU \in {-1, 0, 1}
                /\ set.LRU = -1 <=> ~set.lines[0].v
                /\ set.LRU = 0 => set.lines[1].v
                /\ set.LRU # -1 /\ set.lines[set.LRU].v => set.lines[set.LRU].tag # recent[1]

StatsType == [hits : Int, misses : Int, evictions : Int, dirty_bytes : Int, dirty_evictions : Int]
CountType == [hits : Int, misses : Int, evictions : Int, dirty_evictions : Int]

\* The three ways load() ends.
CsimStep(kind, s, i, t, store) ==
    /\ kind \in {"hit", "fill", "evict"}
    /\ Step(kind, data[s].lines, data'[s].lines, i, t, store, arg.E)
    /\ data' = [data EXCEPT ![s] = [lines |-> data'[s].lines, LRU |-> Touch(data[s], i)]]
    /\ kind = "evict" => i = data[s].LRU
    /\ stats' \in StatsType
    /\ CsimCount' = Counted(CsimCount, kind = "hit", kind = "evict", data[s].lines[i].d)

\* LoadHit, LoadFill and LoadEvict are the three.
LEMMA CsimSteps ==
    ASSUME arg.E \in Nat \ {0}, Pow2[arg.b] \in Nat, NEW s \in DOMAIN data, NEW recent,
           CsimSetOK(data[s], arg.E, recent), stats \in StatsType, junk \in StatsType,
           NEW t \in Int, NEW store \in BOOLEAN, UNCHANGED junk,
           data = [x \in DOMAIN data |-> data[x]],
           LoadHit(s, t, store) \/ LoadFill(s, t, store) \/ LoadEvict(s, t, store)
    PROVE  \E kind, i : CsimStep(kind, s, i, t, store)
<1>1. LinesOK(data[s].lines, arg.E) /\ Stops(data[s], t) = StopsIn(data[s].lines, t)
  BY DEF CsimSetOK, Stops, StopsIn
<1>2. data[s].lines \in [0 .. arg.E - 1 -> Line]
  BY <1>1 DEF LinesOK
<1>3. ASSUME NEW i, NEW d,
             data' = [data EXCEPT ![s] = UseLine(data[s], i, t, d)]
      PROVE  /\ data'[s].lines = [data[s].lines EXCEPT ![i] = [tag |-> t, d |-> d, v |-> TRUE]]
             /\ data' = [data EXCEPT ![s] = [lines |-> data'[s].lines, LRU |-> Touch(data[s], i)]]
  BY <1>3 DEF UseLine
<1>4. CASE LoadHit(s, t, store)
  <2>1. PICK i \in 0 .. arg.E - 1 :
          /\ i = Min(Stops(data[s], t)) /\ data[s].lines[i].v /\ data[s].lines[i].tag = t
    BY <1>1, <1>4, SearchFinds DEF LoadHit
  <2>2. PICK d : /\ d = (data[s].lines[i].d \/ store)
                  /\ data' = [data EXCEPT ![s] = UseLine(data[s], i, t, d)]
    BY <1>4, <2>1 DEF LoadHit
  <2>3. Step("hit", data[s].lines, data'[s].lines, i, t, store, arg.E)
    <3>1. data' = [data EXCEPT ![s] = UseLine(data[s], i, t, d)]
      BY <2>2
    <3>2. data'[s].lines = [data[s].lines EXCEPT ![i] = [tag |-> t, d |-> d, v |-> TRUE]]
      <4> HIDE <1>4, <2>1, <2>2
      <4> QED
        BY <3>1 DEF UseLine
    <3> QED
      BY <2>1, <2>2, <3>2 DEF Step
  <2>4. stats' = [stats EXCEPT !.hits = @ + 1]
    BY <1>4 DEF LoadHit
  <2>5. /\ stats' \in StatsType
        /\ CsimCount' = Counted(CsimCount, TRUE, FALSE, data[s].lines[i].d)
    BY <2>4 DEF StatsType, Counted, CsimCount, Since, Zero
  <2>6. CsimStep("hit", s, i, t, store)
    BY <1>3, <2>2, <2>3, <2>5 DEF CsimStep
  <2> QED
    BY <2>6
<1>5. CASE LoadFill(s, t, store)
  <2>1. PICK i \in 0 .. arg.E - 1 :
          /\ i = Min(Stops(data[s], t)) /\ ~data[s].lines[i].v
          /\ \A j \in 0 .. arg.E - 1 : (data[s].lines[j].v <=> j < i)
                                       /\ (data[s].lines[j].v => data[s].lines[j].tag # t)
    BY <1>1, <1>5, SearchFinds DEF LoadFill
  <2>2. data' = [data EXCEPT ![s] = UseLine(data[s], i, t, store)]
    <3>1. (data[s].lines[i].d \/ store) = store
      BY <1>1, <1>2, <2>1 DEF LinesOK, Line
    <3> QED
      BY <1>5, <2>1, <3>1 DEF LoadFill
  <2>3. Step("fill", data[s].lines, data'[s].lines, i, t, store, arg.E)
    <3>1. data'[s].lines = [data[s].lines EXCEPT ![i] = [tag |-> t, d |-> store, v |-> TRUE]]
      BY ZenonT(60), <1>3, <2>2
    <3> QED
      BY <2>1, <3>1 DEF Step
  <2>4. stats' = [stats EXCEPT !.misses = @ + 1]
    BY <1>5 DEF LoadFill
  <2>5. /\ stats' \in StatsType
        /\ CsimCount' = Counted(CsimCount, FALSE, FALSE, data[s].lines[i].d)
    BY <2>4 DEF StatsType, Counted, CsimCount, Since, Zero
  <2>6. CsimStep("fill", s, i, t, store)
    BY <1>3, <2>2, <2>3, <2>5 DEF CsimStep
  <2> QED
    BY <2>6
<1>6. CASE LoadEvict(s, t, store)
  <2>1. \A j \in 0 .. arg.E - 1 : data[s].lines[j].v /\ data[s].lines[j].tag # t
    <3>1. StopsIn(data[s].lines, t) = {}
      BY <1>1, <1>6 DEF LoadEvict
    <3> QED
      BY <1>1, <3>1, SearchFinds
  <2>2. PICK i \in 0 .. arg.E - 1 : i = data[s].LRU
    BY <2>1 DEF CsimSetOK
  <2>3. data' = [data EXCEPT ![s] = UseLine(data[s], i, t, store)]
    BY <1>6, <2>2 DEF LoadEvict
  <2>4. Step("evict", data[s].lines, data'[s].lines, i, t, store, arg.E)
    <3>1. data'[s].lines = [data[s].lines EXCEPT ![i] = [tag |-> t, d |-> store, v |-> TRUE]]
      BY ZenonT(60), <1>3, <2>3
    <3> QED
      BY <2>1, <2>2, <3>1 DEF Step
  <2>5. PICK d \in Int : d = IF data[s].lines[i].d THEN Pow2[arg.b] ELSE 0
    OBVIOUS
  <2>6. PICK m \in Int, e \in Int, b \in Int :
          /\ m = stats.misses + 1 /\ e = stats.evictions + 1 /\ b = stats.dirty_evictions + d
          /\ stats' = [stats EXCEPT !.misses = m, !.evictions = e, !.dirty_evictions = b]
    <3>1. /\ stats.misses + 1 \in Int /\ stats.evictions + 1 \in Int
          /\ stats.dirty_evictions + d \in Int
      BY DEF StatsType
    <3>2. stats' = [stats EXCEPT !.misses = stats.misses + 1, !.evictions = stats.evictions + 1,
                                 !.dirty_evictions = stats.dirty_evictions + d]
      BY <1>6, <2>2, <2>5 DEF LoadEvict
    <3> QED
      BY <3>1, <3>2
  <2>7. /\ stats' \in StatsType /\ stats'.hits = stats.hits
        /\ stats'.misses = stats.misses + 1 /\ stats'.evictions = stats.evictions + 1
        /\ stats'.dirty_evictions = stats.dirty_evictions + d
    BY <2>6 DEF StatsType
  <2>8. CsimCount' = Counted(CsimCount, FALSE, TRUE, data[s].lines[i].d)
    BY <2>5, <2>7 DEF StatsType, Counted, CsimCount, Since, Zero
  <2>9. CsimStep("evict", s, i, t, store)
    BY <1>3, <2>2, <2>3, <2>4, <2>7, <2>8 DEF CsimStep
  <2> QED
    BY <2>9
<1> QED
  BY <1>4, <1>5, <1>6

\* LRU is again the line of lines 0 and 1 that was not used last.
LEMMA CsimStepKeepsSet ==
    ASSUME arg.E \in Nat \ {0}, NEW s \in DOMAIN data, NEW recent,
           CsimSetOK(data[s], arg.E, recent), NEW t \in Int, NEW store \in BOOLEAN,
           NEW kind, NEW i, CsimStep(kind, s, i, t, store)
    PROVE  CsimSetOK(data'[s], arg.E, <<t, store>>)
<1> DEFINE L == data[s].lines
           N == data'[s].lines
<1>1. /\ LinesOK(L, arg.E) /\ Step(kind, L, N, i, t, store, arg.E) /\ i \in 0 .. arg.E - 1
      /\ data'[s].LRU = Touch(data[s], i)
  BY DEF CsimSetOK, CsimStep, Step
<1>2. /\ LinesOK(N, arg.E) /\ N[i].v /\ N[i].tag = t
      /\ \A j \in 0 .. arg.E - 1 : j # i => N[j] = L[j]
  BY <1>1, StepKeepsLines
<1>3. CASE arg.E = 1
  BY <1>1, <1>2, <1>3 DEF CsimSetOK, Touch
<1>4. CASE arg.E > 1 /\ i \in {0, 1}
  <2>1. data'[s].LRU = 1 - i /\ 0 \in 0 .. arg.E - 1 /\ 1 \in 0 .. arg.E - 1
    BY <1>1, <1>4 DEF Touch
  <2>2. N[0].v /\ (N[1 - i].v => N[1 - i].tag # t)
    BY <1>1, <1>2, <1>4, <2>1 DEF LinesOK
  <2> HIDE DEF L, N
  <2>3. (1 - i = 0 => N[1].v) /\ 1 - i \in {-1, 0, 1} /\ 1 - i # -1 /\ <<t, store>>[1] = t
    BY <1>2, <1>4
  <2> QED
    BY <1>2, <1>4, <2>1, <2>2, <2>3 DEF CsimSetOK, N
<1>5. CASE arg.E > 1 /\ i \notin {0, 1}
  <2>1. /\ data'[s].LRU = data[s].LRU /\ 0 \in 0 .. arg.E - 1 /\ 1 \in 0 .. arg.E - 1
        /\ N[0] = L[0] /\ N[1] = L[1]
    BY <1>1, <1>2, <1>5 DEF Touch
  <2>2. N[0].v /\ N[1].v /\ N[0].tag # t /\ N[1].tag # t
    <3> HIDE DEF L, N
    <3>1. 0 < i /\ 1 < i
      BY <1>1, <1>5
    <3>2. N[0].v /\ N[1].v
      BY <1>1, <1>2, <2>1, <3>1 DEF LinesOK
    <3> QED
      BY <1>1, <1>2, <2>1, <3>1, <3>2 DEF LinesOK
  <2>3. <<t, store>>[1] = t
    OBVIOUS
  <2> QED
    BY <1>2, <1>5, <2>1, <2>2, <2>3 DEF CsimSetOK
<1> QED
  BY <1>3, <1>4, <1>5

-----------------------------------------------------------------------------
(* csimCP.                                                                 *)

DraftType(E) == [lines : [0 .. E - 1 -> Line], MRU : Int, LRU : Seq(Int), crashed : BOOLEAN]

\* The queue has an entry of every resident tag, the last one of the tag used last.
DraftSetOK(set, E, recent) ==
    /\ set \in DraftType(E)
    /\ LinesOK(set.lines, E)
    /\ set.crashed => E = 1
    /\ ~set.crashed /\ set.lines[0].v =>
         /\ set.MRU = recent[1]
         /\ \E j \in 0 .. E - 1 : set.lines[j].v /\ set.lines[j].tag = set.MRU
         /\ set.LRU # <<>> /\ set.LRU[Len(set.LRU)] = set.MRU
         /\ \A j \in 0 .. E - 1 : set.lines[j].v =>
              \E k \in DOMAIN set.LRU : set.LRU[k] = set.lines[j].tag

\* The access appends t to the queue q, which has an entry of every tag that stays.
DraftUsed(set, new, kind, i, t, d, store, q, E, recent) ==
    /\ DraftSetOK(set, E, recent) /\ ~set.crashed
    /\ new = Draft!DraftUse(set, i, t, d, q)
    /\ Step(kind, set.lines, new.lines, i, t, store, E)
    /\ q \in Seq(Int)
    /\ \A j \in 0 .. E - 1 : set.lines[j].v /\ j # i =>
          \E k \in DOMAIN q : q[k] = set.lines[j].tag

\* Then the set is again as DraftSetOK says, with t the tag used last.
LEMMA DraftUseKeepsSet ==
    ASSUME NEW E \in Nat \ {0}, NEW set, NEW recent, NEW t \in Int, NEW store \in BOOLEAN,
           NEW kind, NEW i, NEW d, NEW new, NEW q,
           DraftUsed(set, new, kind, i, t, d, store, q, E, recent)
    PROVE  DraftSetOK(new, E, <<t, store>>) /\ ~new.crashed /\ new.MRU = t
<1>0. /\ DraftSetOK(set, E, recent) /\ ~set.crashed
      /\ new = Draft!DraftUse(set, i, t, d, q)
      /\ Step(kind, set.lines, new.lines, i, t, store, E)
      /\ q \in Seq(Int)
      /\ \A j \in 0 .. E - 1 : set.lines[j].v /\ j # i =>
            \E k \in DOMAIN q : q[k] = set.lines[j].tag
  BY DEF DraftUsed
<1>1. set \in DraftType(E) /\ i \in 0 .. E - 1 /\ LinesOK(set.lines, E)
  BY <1>0 DEF DraftSetOK, Step
<1>2. /\ LinesOK(new.lines, E) /\ new.lines[i].v /\ new.lines[i].tag = t
      /\ \A j \in 0 .. E - 1 : j # i => new.lines[j] = set.lines[j]
  BY <1>0, <1>1, StepKeepsLines
<1> DEFINE p == Append(q, t)
<1>3. /\ new.MRU = t /\ new.LRU = p /\ new.crashed = FALSE
      /\ new = [lines |-> new.lines, MRU |-> new.MRU, LRU |-> new.LRU, crashed |-> new.crashed]
  BY <1>0, <1>1 DEF Draft!DraftUse, Draft!Enq, DraftType
<1>4. p \in Seq(Int) /\ p # <<>> /\ p[Len(p)] = t /\ DOMAIN p = 1 .. Len(q) + 1
      /\ \A k \in DOMAIN q : k \in DOMAIN p /\ p[k] = q[k]
  BY <1>0
<1>5. ASSUME NEW j \in 0 .. E - 1, new.lines[j].v
      PROVE  \E k \in DOMAIN p : p[k] = new.lines[j].tag
  <2>1. CASE j = i
    BY <1>2, <1>4, <2>1
  <2>2. CASE j # i
    <3> HIDE DEF p
    <3> QED
      BY <1>0, <1>2, <1>4, <1>5, <2>2
  <2> QED
    BY <2>1, <2>2
<1> HIDE DEF p
<1>6. new \in DraftType(E)
  <2>1. new.lines \in [0 .. E - 1 -> Line]
    BY <1>2 DEF LinesOK
  <2> QED
    BY <1>3, <1>4, <2>1 DEF DraftType
<1>7. <<t, store>>[1] = t
  OBVIOUS
<1> QED
  BY <1>0, <1>1, <1>2, <1>3, <1>4, <1>5, <1>6, <1>7 DEF DraftSetOK

\* What DraftLoad returns of an access to a set that has not crashed.
DraftOutcome(set, r, kind, i, t, store, E) ==
    /\ kind \in {"hit", "fill", "evict"}
    /\ Step(kind, set.lines, r.set.lines, i, t, store, E)
    /\ r.set.MRU = t
    /\ r.hit <=> kind = "hit"
    /\ r.evicted <=> kind = "evict"
    /\ kind = "evict" => (r.dirty <=> set.lines[i].d) /\ set.lines[i].tag # set.MRU

\* The search in the queue finds a line that was not used last, and the queue
\* keeps an entry of every tag that stays.
LEMMA DraftFinds ==
    ASSUME NEW E \in Nat \ {0}, NEW set, NEW recent, DraftSetOK(set, E, recent), ~set.crashed,
           \A j \in 0 .. E - 1 : set.lines[j].v
    PROVE  /\ Draft!VictimEntries(set) = {} => E = 1
           /\ Draft!VictimEntries(set) # {} =>
                LET k == Min(Draft!VictimEntries(set))
                    i == Min(Draft!DraftHolds(set, set.LRU[k]))
                    q == Draft!DeqN(set.LRU, k)
                IN  /\ i \in 0 .. E - 1 /\ set.lines[i].tag # set.MRU
                    /\ q \in Seq(Int)
                    /\ \A j \in 0 .. E - 1 : j # i =>
                         \E m \in DOMAIN q : q[m] = set.lines[j].tag
<1> DEFINE Q == set.LRU
           V == Draft!VictimEntries(set)
<1>1. /\ Q \in Seq(Int) /\ DOMAIN Q = 1 .. Len(Q) /\ Len(Q) \in Nat
      /\ set.lines \in [0 .. E - 1 -> Line] /\ DOMAIN set.lines = 0 .. E - 1
      /\ LinesOK(set.lines, E)
  BY DEF DraftSetOK, DraftType
<1>2. /\ Q # <<>> /\ Q[Len(Q)] = set.MRU
      /\ \A j \in 0 .. E - 1 : \E k \in DOMAIN Q : Q[k] = set.lines[j].tag
      /\ \E j \in 0 .. E - 1 : set.lines[j].tag = set.MRU
  BY DEF DraftSetOK
<1>3. \A x \in Int : Draft!DraftHolds(set, x) = {j \in 0 .. E - 1 : set.lines[j].tag = x}
  BY <1>1 DEF Draft!DraftHolds
<1>4. \A k : k \in V <=> k \in DOMAIN Q /\ Q[k] # set.MRU
                         /\ \E j \in 0 .. E - 1 : set.lines[j].tag = Q[k]
  <2>1. \A k \in DOMAIN Q : Q[k] \in Int
    BY <1>1
  <2>2. \A x \in Int : Draft!DraftHolds(set, x) # {} <=> \E j \in 0 .. E - 1 : set.lines[j].tag = x
    BY <1>3
  <2>3. V = {k \in DOMAIN Q : Draft!DraftHolds(set, Q[k]) # {} /\ Q[k] # set.MRU}
    BY DEF Draft!VictimEntries
  <2> HIDE DEF V, Q
  <2> QED
    BY <2>1, <2>2, <2>3
<1>5. ASSUME E # 1
      PROVE  V # {}
  <2>1. PICK j \in 0 .. E - 1 : set.lines[j].tag # set.MRU
    <3>1. 0 \in 0 .. E - 1 /\ 1 \in 0 .. E - 1
      BY <1>5
    <3>2. set.lines[0].tag # set.lines[1].tag
      BY <1>1, <3>1 DEF LinesOK
    <3> QED
      BY <3>1, <3>2
  <2>2. PICK k \in DOMAIN Q : Q[k] = set.lines[j].tag
    BY <1>2
  <2> QED
    BY <1>4, <2>1, <2>2
<1>6. ASSUME V # {}
      PROVE  LET k == Min(V)
                 i == Min(Draft!DraftHolds(set, Q[k]))
                 q == Draft!DeqN(Q, k)
             IN  /\ i \in 0 .. E - 1 /\ set.lines[i].tag # set.MRU
                 /\ q \in Seq(Int)
                 /\ \A j \in 0 .. E - 1 : j # i =>
                      \E m \in DOMAIN q : q[m] = set.lines[j].tag
  <2>1. V \in SUBSET Nat
    BY <1>1, <1>4
  <2>2. PICK k \in V : k = Min(V) /\ \A m \in V : k <= m
    BY <1>6, <2>1, LeastOfSet
  <2>3. /\ k \in 1 .. Len(Q) /\ Q[k] # set.MRU /\ Q[k] \in Int /\ k # Len(Q)
        /\ \E j \in 0 .. E - 1 : set.lines[j].tag = Q[k]
    <3> HIDE DEF V, Q
    <3>1. /\ k \in DOMAIN Q /\ Q[k] # set.MRU
          /\ \E j \in 0 .. E - 1 : set.lines[j].tag = Q[k]
      BY <1>4, <2>2
    <3>2. k # Len(Q)
      BY <1>2, <3>1
    <3>3. Q[k] \in Int
      BY <1>1, <3>1
    <3> QED
      BY <1>1, <3>1, <3>2, <3>3
  <2>3a. PICK n \in Nat : n = Len(Q)
    BY <1>1
  <2>3b. k \in Nat /\ 1 <= k /\ k < n
    <3>1. k \in 1 .. n /\ k # n
      BY <2>3, <2>3a
    <3> QED
      BY <3>1
  <2> DEFINE H == Draft!DraftHolds(set, Q[k])
  <2>4. H = {j \in 0 .. E - 1 : set.lines[j].tag = Q[k]}
    BY <1>3, <2>3
  <2>5. H \in SUBSET Nat /\ H # {}
    BY <2>3, <2>4
  <2>6. PICK i \in H : i = Min(H)
    <3> HIDE DEF H
    <3> QED
      BY <2>5, LeastOfSet
  <2>7. i \in 0 .. E - 1 /\ set.lines[i].tag = Q[k]
    BY <2>4
  <2> HIDE DEF H, V, Q
  <2> DEFINE q == Draft!DeqN(Q, k)
  <2>8. /\ q \in Seq(Int) /\ DOMAIN q = 1 .. n - k
        /\ \A m \in 1 .. n - k : q[m] = Q[m + k]
    <3>2. q = SubSeq(Q, k + 1, n)
      BY <2>3a DEF Draft!DeqN
    <3> HIDE DEF q
    <3>3. \A j \in k + 1 .. n : Q[j] \in Int
      <4>1. \A j \in 1 .. n : Q[j] \in Int
        BY <1>1, <2>3a
      <4> QED
        BY <4>1, <2>3b
    <3> DEFINE lo == k + 1
    <3>4. lo \in Int /\ n \in Int /\ lo <= n /\ n - lo + 1 = n - k /\ lo = k + 1
      BY <2>3b
    <3>5. \A j \in lo .. n : Q[j] \in Int
      BY <3>3
    <3> HIDE DEF lo
    <3>6. /\ SubSeq(Q, lo, n) \in Seq(Int)
          /\ Len(SubSeq(Q, lo, n)) = n - lo + 1
          /\ \A m \in 1 .. n - lo + 1 : SubSeq(Q, lo, n)[m] = Q[lo + m - 1]
      BY <3>4, <3>5, SubSeqProperties
    <3>7. /\ q \in Seq(Int) /\ Len(q) = n - k
          /\ \A m \in 1 .. n - k : q[m] = Q[lo + m - 1]
      BY <3>2, <3>4, <3>6
    <3>8. \A m \in 1 .. n - k : lo + m - 1 = m + k
      BY <3>4, <2>3b
    <3>9. DOMAIN q = 1 .. n - k
      BY <3>7, LenProperties
    <3> QED
      BY <3>7, <3>8, <3>9
  <2>9. ASSUME NEW j \in 0 .. E - 1, j # i
        PROVE  \E m \in DOMAIN q : q[m] = set.lines[j].tag
    <3>1. PICK m \in DOMAIN Q : Q[m] = set.lines[j].tag
      BY <1>2
    <3>2. m \in 1 .. n
      BY <1>1, <2>3a
    <3>3. set.lines[j].tag # set.lines[i].tag
      BY <1>1, <2>7, <2>9 DEF LinesOK
    <3>4. CASE m > k
      <4>1. m - k \in 1 .. n - k /\ (m - k) + k = m
        BY <2>3b, <3>2, <3>4
      <4> QED
        BY <2>8, <3>1, <4>1
    <3>5. CASE ~(m > k)
      <4>1. m # k
        BY <2>7, <3>1, <3>3
      <4>2. m \notin V
        BY <2>2, <2>3b, <3>2, <3>5, <4>1
      <4>3. set.lines[j].tag = set.MRU
        BY <1>4, <3>1, <4>2
      <4>4. n - k \in 1 .. n - k /\ (n - k) + k = n
        BY <2>3b
      <4>5. q[n - k] = Q[n]
        BY <2>8, <4>4
      <4> QED
        BY <1>2, <2>8, <2>3a, <4>3, <4>4, <4>5
    <3> QED
      BY <3>4, <3>5
  <2> HIDE DEF q
  <2>10. set.lines[i].tag # set.MRU
    BY <2>3, <2>7
  <2> QED
    BY <2>2, <2>6, <2>7, <2>8, <2>9, <2>10 DEF q, H
<1> QED
  BY <1>5, <1>6 DEF V, Q

\* Min as DraftCsim knows it.
LEMMA DraftMin == \A S : Draft!Min(S) = Min(S)
BY DEF Min, Draft!Min

\* An access to a set: what load() of csimCP does to it, if it does not crash.
LEMMA DraftLoads ==
    ASSUME NEW E \in Nat \ {0}, NEW set, NEW recent, DraftSetOK(set, E, recent), ~set.crashed,
           NEW t \in Int, NEW store \in BOOLEAN, NEW r, r = Draft!DraftLoad(set, t, store)
    PROVE  /\ DraftSetOK(r.set, E, <<t, store>>)
           /\ r.set.crashed \/ \E kind, i : DraftOutcome(set, r, kind, i, t, store, E)
<1>1. set \in DraftType(E) /\ LinesOK(set.lines, E)
  BY DEF DraftSetOK
<1>2. set.lines \in [0 .. E - 1 -> Line] /\ set.LRU \in Seq(Int)
  BY <1>1 DEF DraftType
<1>3. Draft!DraftStops(set, t) = StopsIn(set.lines, t)
  BY DEF Draft!DraftStops, StopsIn
<1>4. ASSUME NEW i, NEW d, NEW q, i \in 0 .. E - 1
      PROVE  Draft!DraftUse(set, i, t, d, q).lines
               = [set.lines EXCEPT ![i] = [tag |-> t, d |-> d, v |-> TRUE]]
  BY <1>1 DEF Draft!DraftUse, DraftType
<1>5. ASSUME NEW j \in 0 .. E - 1, set.lines[j].v
      PROVE  \E k \in DOMAIN set.LRU : set.LRU[k] = set.lines[j].tag
  <2>1. set.lines[0].v
    BY <1>1, <1>5 DEF LinesOK
  <2> QED
    BY <1>5, <2>1 DEF DraftSetOK
<1>6. CASE StopsIn(set.lines, t) # {}
  <2>1. PICK i \in 0 .. E - 1 :
          /\ i = Min(StopsIn(set.lines, t))
          /\ set.lines[i].v => set.lines[i].tag = t
          /\ ~set.lines[i].v => \A j \in 0 .. E - 1 :
                (set.lines[j].v <=> j < i) /\ (set.lines[j].v => set.lines[j].tag # t)
    BY <1>1, <1>6, SearchFinds
  <2>2. /\ r.set = Draft!DraftUse(set, i, t, set.lines[i].d \/ store, set.LRU)
        /\ r.hit = set.lines[i].v /\ r.evicted = FALSE
    <3>1. r = [set |-> Draft!DraftUse(set, i, t, set.lines[i].d \/ store, set.LRU),
               hit |-> set.lines[i].v, evicted |-> FALSE, dirty |-> FALSE]
      BY <1>3, <1>6, <2>1, DraftMin DEF Draft!DraftLoad
    <3> QED
      BY <3>1
  <2> DEFINE kind == IF set.lines[i].v THEN "hit" ELSE "fill"
  <2>3. r.set.lines =
          [set.lines EXCEPT ![i] = [tag |-> t, d |-> set.lines[i].d \/ store, v |-> TRUE]]
    BY <1>4, <2>2
  <2>4. ~set.lines[i].v => (set.lines[i].d \/ store) = store
    BY <1>1, <1>2 DEF LinesOK, Line
  <2>5. Step(kind, set.lines, r.set.lines, i, t, store, E)
    <3>1. CASE set.lines[i].v
      BY <2>1, <2>3, <3>1 DEF Step
    <3>2. CASE ~set.lines[i].v
      <4>1. r.set.lines = [set.lines EXCEPT ![i] = [tag |-> t, d |-> store, v |-> TRUE]]
        BY <2>3, <2>4, <3>2
      <4> QED
        BY <2>1, <3>2, <4>1 DEF Step
    <3> QED
      BY <3>1, <3>2
  <2>6. /\ kind \in {"hit", "fill", "evict"} /\ kind # "evict"
        /\ set.lines[i].v <=> kind = "hit"
    OBVIOUS
  <2> HIDE DEF kind
  <2>7. /\ DraftSetOK(r.set, E, <<t, store>>) /\ r.set.MRU = t
    <3>1. PICK d, q : /\ q = set.LRU
                      /\ r.set = Draft!DraftUse(set, i, t, d, q)
      BY <2>2
    <3>2. \A j \in 0 .. E - 1 : set.lines[j].v /\ j # i =>
            \E k \in DOMAIN q : q[k] = set.lines[j].tag
      BY <1>5, <3>1
    <3>3. q \in Seq(Int)
      BY <1>2, <3>1
    <3>4. DraftUsed(set, r.set, kind, i, t, d, store, q, E, recent)
      BY <2>5, <3>1, <3>2, <3>3 DEF DraftUsed
    <3> QED
      BY <3>4, DraftUseKeepsSet
  <2>8. DraftOutcome(set, r, kind, i, t, store, E)
    BY <2>2, <2>5, <2>6, <2>7 DEF DraftOutcome
  <2> QED
    BY <2>7, <2>8
<1>7. CASE StopsIn(set.lines, t) = {}
  <2>1. \A j \in 0 .. E - 1 : set.lines[j].v /\ set.lines[j].tag # t
    BY <1>1, <1>7, SearchFinds
  <2>2. CASE Draft!VictimEntries(set) = {}
    <3>1. E = 1
      BY <2>1, <2>2, DraftFinds
    <3>2. r.set = [set EXCEPT !.crashed = TRUE, !.LRU = <<>>]
      BY <1>3, <1>7, <2>2 DEF Draft!DraftLoad
    <3>3. r.set \in DraftType(E) /\ r.set.crashed /\ r.set.lines = set.lines
      <4>1. <<>> \in Seq(Int)
        OBVIOUS
      <4> QED
        BY <1>1, <3>2, <4>1 DEF DraftType
    <3> QED
      BY <1>1, <3>1, <3>3 DEF DraftSetOK
  <2>3. CASE Draft!VictimEntries(set) # {}
    <3>1. PICK k, i, q :
            /\ k = Min(Draft!VictimEntries(set))
            /\ i = Min(Draft!DraftHolds(set, set.LRU[k]))
            /\ q = Draft!DeqN(set.LRU, k)
      OBVIOUS
    <3>2. /\ i \in 0 .. E - 1 /\ set.lines[i].tag # set.MRU /\ q \in Seq(Int)
          /\ \A j \in 0 .. E - 1 : j # i => \E m \in DOMAIN q : q[m] = set.lines[j].tag
      <4>1. \A j \in 0 .. E - 1 : set.lines[j].v
        BY <2>1
      <4> QED
        BY <2>3, <3>1, <4>1, DraftFinds
    <3>3. /\ r.set = Draft!DraftUse(set, i, t, store, q)
          /\ r.hit = FALSE /\ r.evicted = TRUE /\ r.dirty = set.lines[i].d
      <4>1. r = [set |-> Draft!DraftUse(set, i, t, store, q), hit |-> FALSE,
                 evicted |-> TRUE, dirty |-> set.lines[i].d]
        BY <1>3, <1>7, <2>3, <3>1, DraftMin DEF Draft!DraftLoad
      <4> QED
        BY <4>1
    <3>4. Step("evict", set.lines, r.set.lines, i, t, store, E)
      <4>1. r.set.lines = [set.lines EXCEPT ![i] = [tag |-> t, d |-> store, v |-> TRUE]]
        <5>1. i \in 0 .. E - 1 /\ r.set = Draft!DraftUse(set, i, t, store, q)
          BY <3>2, <3>3
        <5>2. PICK x : x = r.set
          OBVIOUS
        <5>3. x.lines = [set.lines EXCEPT ![i] = [tag |-> t, d |-> store, v |-> TRUE]]
          <6> HIDE <1>7, <2>3
          <6> QED
            BY <1>1, <5>1, <5>2 DEF Draft!DraftUse, DraftType
        <5> QED
          BY <5>2, <5>3
      <4> QED
        BY <2>1, <3>2, <4>1 DEF Step
    <3>5. DraftSetOK(r.set, E, <<t, store>>) /\ r.set.MRU = t
      <4>1. DraftUsed(set, r.set, "evict", i, t, store, store, q, E, recent)
        BY <3>2, <3>3, <3>4 DEF DraftUsed
      <4> QED
        BY <4>1, DraftUseKeepsSet
    <3>6. DraftOutcome(set, r, "evict", i, t, store, E)
      BY <3>2, <3>3, <3>4, <3>5 DEF DraftOutcome
    <3> QED
      BY <3>5, <3>6
  <2> QED
    BY <2>2, <2>3
<1> QED
  BY <1>6, <1>7

-----------------------------------------------------------------------------
(* The LRU cache.                                                          *)

BlockOf(L) == [tag |-> L.tag, d |-> L.d]

\* The blocks of at most two lines, that of line f first.
InOrder(lines, f, E) ==
    IF ~lines[0].v THEN <<>>
    ELSE IF E = 1 \/ ~lines[1].v THEN <<BlockOf(lines[0])>>
    ELSE <<BlockOf(lines[f]), BlockOf(lines[1 - f])>>

\* What an access does to a queue of blocks.
At(q, t) == {i \in DOMAIN q : q[i].tag = t}
Others(q, t) == IF At(q, t) # {} THEN RemoveAt(q, Min(At(q, t))) ELSE q
Full(q, t, E) == At(q, t) = {} /\ Len(q) = E
Used(q, t, store) == [tag |-> t, d |-> store \/ (At(q, t) # {} /\ q[Min(At(q, t))].d)]
Moved(q, t, store, E) ==
    <<Used(q, t, store)>> \o IF Full(q, t, E) THEN Front(Others(q, t)) ELSE Others(q, t)

\* These operators on queues of at most two blocks.
LEMMA ShortQueues ==
    /\ \A t : At(<<>>, t) = {}
    /\ \A x, t : At(<<x>>, t) = IF x.tag = t THEN {1} ELSE {}
    /\ \A x, y, t : x.tag # y.tag =>
         At(<<x, y>>, t) = IF x.tag = t THEN {1} ELSE IF y.tag = t THEN {2} ELSE {}
    /\ Min({1}) = 1 /\ Min({2}) = 2
    /\ \A x : RemoveAt(<<x>>, 1) = <<>> /\ Front(<<x>>) = <<>> /\ Last(<<x>>) = x
    /\ \A x, y : /\ RemoveAt(<<x, y>>, 1) = <<y>> /\ RemoveAt(<<x, y>>, 2) = <<x>>
                 /\ Front(<<x, y>>) = <<x>> /\ Last(<<x, y>>) = y
    /\ \A x, y : <<x>> \o <<>> = <<x>> /\ <<x>> \o <<y>> = <<x, y>>
<1>1. \A t : At(<<>>, t) = {}
  BY DEF At
<1>2. \A x, t : At(<<x>>, t) = IF x.tag = t THEN {1} ELSE {}
  BY DEF At
<1>3. \A x, y, t : x.tag # y.tag =>
         At(<<x, y>>, t) = IF x.tag = t THEN {1} ELSE IF y.tag = t THEN {2} ELSE {}
  BY DEF At
<1>4. Min({1}) = 1 /\ Min({2}) = 2
  BY DEF Min
<1>5. \A x : RemoveAt(<<x>>, 1) = <<>>
  BY DEF RemoveAt
<1>6. \A x : Front(<<x>>) = <<>>
  BY DEF Front
<1>7. \A x : Last(<<x>>) = x
  BY DEF Last
<1>12. \A x, y : <<x>> \o <<>> = <<x>> /\ <<>> \o <<x>> = <<x>> /\ <<x>> \o <<y>> = <<x, y>>
  <2> SUFFICES ASSUME NEW x, NEW y
               PROVE  <<x>> \o <<>> = <<x>> /\ <<>> \o <<x>> = <<x>> /\ <<x>> \o <<y>> = <<x, y>>
    OBVIOUS
  <2>1. <<x>> \in Seq({x, y}) /\ <<y>> \in Seq({x, y}) /\ <<>> \in Seq({x, y})
    OBVIOUS
  <2>2. <<x>> \o <<>> = <<x>> /\ <<>> \o <<x>> = <<x>>
    BY <2>1
  <2>3. <<x>> \o <<y>> = <<x, y>>
    <3>1. <<x>> \o <<y>> \in Seq({x, y}) /\ <<x, y>> \in Seq({x, y})
      BY <2>1
    <3>2. Len(<<x>> \o <<y>>) = 2 /\ (<<x>> \o <<y>>)[1] = x /\ (<<x>> \o <<y>>)[2] = y
      BY <2>1, ConcatProperties
    <3>3. Len(<<x, y>>) = 2 /\ <<x, y>>[1] = x /\ <<x, y>>[2] = y
      OBVIOUS
    <3>4. \A i \in 1 .. 2 : (<<x>> \o <<y>>)[i] = <<x, y>>[i]
      BY <3>2, <3>3
    <3> QED
      BY <3>1, <3>2, <3>3, <3>4, SeqEqual
  <2> QED
    BY <2>2, <2>3
<1>13. ASSUME NEW x, NEW y
       PROVE  /\ SubSeq(<<x, y>>, 1, 1) = <<x>> /\ SubSeq(<<x, y>>, 2, 2) = <<y>>
              /\ SubSeq(<<x, y>>, 1, 0) = <<>> /\ SubSeq(<<x, y>>, 3, 2) = <<>>
  <2>1. <<x, y>> \in Seq({x, y}) /\ Len(<<x, y>>) = 2
    OBVIOUS
  <2>6. \A i \in 1 .. 2 : <<x, y>>[i] \in {x, y}
    OBVIOUS
  <2>7. /\ <<x>> \in Seq({x, y}) /\ Len(<<x>>) = 1 /\ <<x>>[1] = x
        /\ <<y>> \in Seq({x, y}) /\ Len(<<y>>) = 1 /\ <<y>>[1] = y
    OBVIOUS
  <2>2. SubSeq(<<x, y>>, 1, 1) = <<x>>
    <3> DEFINE q == SubSeq(<<x, y>>, 1, 1)
    <3>1. q \in Seq({x, y}) /\ Len(q) = 1 /\ q[1] = x
      BY <2>1
    <3> HIDE DEF q
    <3>2. \A i \in 1 .. 1 : q[i] = <<x>>[i]
      BY <2>7, <3>1
    <3>3. q = <<x>>
      BY <2>7, <3>1, <3>2, SeqEqual
    <3> QED
      BY <3>3 DEF q
  <2>3. SubSeq(<<x, y>>, 2, 2) = <<y>>
    <3> DEFINE q == SubSeq(<<x, y>>, 2, 2)
    <3>1. q \in Seq({x, y}) /\ Len(q) = 1 /\ q[1] = y
      BY <2>1
    <3> HIDE DEF q
    <3>2. \A i \in 1 .. 1 : q[i] = <<y>>[i]
      BY <2>7, <3>1
    <3>3. q = <<y>>
      BY <2>7, <3>1, <3>2, SeqEqual
    <3> QED
      BY <3>3 DEF q
  <2>4. SubSeq(<<x, y>>, 1, 0) = <<>>
    BY <2>1
  <2>5. SubSeq(<<x, y>>, 3, 2) = <<>>
    BY <2>1
  <2> QED
    BY <2>2, <2>3, <2>4, <2>5
<1>14. \A x, y : Len(<<x, y>>) = 2
  OBVIOUS
<1>15. 1 - 1 = 0 /\ 2 - 1 = 1 /\ 1 + 1 = 2 /\ 2 + 1 = 3
  OBVIOUS
<1>8. ASSUME NEW x, NEW y
      PROVE  RemoveAt(<<x, y>>, 1) = <<y>>
  <2>1. RemoveAt(<<x, y>>, 1) = SubSeq(<<x, y>>, 1, 0) \o SubSeq(<<x, y>>, 2, 2)
    BY <1>14, <1>15 DEF RemoveAt
  <2>2. SubSeq(<<x, y>>, 1, 0) = <<>> /\ SubSeq(<<x, y>>, 2, 2) = <<y>>
    BY <1>13
  <2>3. <<>> \o <<y>> = <<y>>
    BY <1>12
  <2> QED
    BY <2>1, <2>2, <2>3
<1>9. \A x, y : RemoveAt(<<x, y>>, 2) = <<x>>
  BY ZenonT(60), <1>14, <1>15, <1>12, <1>13 DEF RemoveAt
<1>10. \A x, y : Front(<<x, y>>) = <<x>>
  BY <1>14, <1>15, <1>13 DEF Front
<1>11. \A x, y : Last(<<x, y>>) = y
  BY DEF Last
<1> QED
  BY <1>1, <1>2, <1>3, <1>4, <1>5, <1>6, <1>7, <1>8, <1>9, <1>10, <1>11, <1>12

\* An access does to the queue of a set what it does to its lines.
LEMMA OrderFollows ==
    ASSUME NEW E \in Nat \ {0}, E \in {1, 2}, NEW lines, LinesOK(lines, E),
           NEW f \in 0 .. E - 1, NEW t \in Int,
           NEW store \in BOOLEAN, NEW kind, NEW new, NEW i, Step(kind, lines, new, i, t, store, E),
           kind = "evict" /\ E = 2 => i = 1 - f,
           NEW q, q = InOrder(lines, f, E)
    PROVE  /\ At(q, t) # {} <=> kind = "hit"
           /\ Full(q, t, E) <=> kind = "evict"
           /\ kind = "evict" => (Last(Others(q, t)).d <=> lines[i].d)
           /\ Moved(q, t, store, E) = InOrder(new, i, E)
<1>1. /\ i \in 0 .. E - 1 /\ 0 \in 0 .. E - 1 /\ (E = 2 => 1 \in 0 .. E - 1)
      /\ lines \in [0 .. E - 1 -> Line]
  BY DEF Step, LinesOK
<1>2. /\ LinesOK(new, E) /\ new[i].v /\ new[i].tag = t
      /\ new[i].d \in BOOLEAN
      /\ kind = "hit" => (new[i].d <=> lines[i].d \/ store)
      /\ kind # "hit" => (new[i].d <=> store)
      /\ \A j \in 0 .. E - 1 : j # i => new[j] = lines[j]
  <2>1. LinesOK(new, E) /\ new[i].v /\ new[i].tag = t
    BY StepKeepsLines
  <2>2. /\ new[i].d \in BOOLEAN
        /\ kind = "hit" => (new[i].d <=> lines[i].d \/ store)
        /\ kind # "hit" => (new[i].d <=> store)
    BY StepKeepsLines
  <2>3. \A j \in 0 .. E - 1 : j # i => new[j] = lines[j]
    BY StepKeepsLines
  <2> QED
    BY <2>1, <2>2, <2>3
<1>3. \A j \in 0 .. E - 1 : lines[j].d \in BOOLEAN /\ BlockOf(lines[j]).tag = lines[j].tag
                            /\ BlockOf(lines[j]).d = lines[j].d
  BY <1>1 DEF Line, BlockOf
<1>4. BlockOf(new[i]) = [tag |-> t, d |-> new[i].d]
  BY <1>2 DEF BlockOf
<1>5. ASSUME At(q, t) = {}, kind # "hit"
      PROVE  Used(q, t, store) = BlockOf(new[i])
  BY <1>2, <1>4, <1>5 DEF Used
<1>6. ASSUME NEW k, At(q, t) = {k}, Min({k}) = k, q[k] = BlockOf(lines[i]), kind = "hit"
      PROVE  Used(q, t, store) = BlockOf(new[i])
  <2>1. (store \/ (At(q, t) # {} /\ q[Min(At(q, t))].d)) = new[i].d
    BY <1>1, <1>2, <1>3, <1>6
  <2> QED
    BY <1>4, <2>1 DEF Used
<1>7. CASE ~lines[0].v
  <2>1. q = <<>> /\ kind = "fill" /\ i = 0
    BY <1>1, <1>7 DEF InOrder, Step, LinesOK
  <2>2. At(q, t) = {} /\ Len(q) = 0 /\ Others(q, t) = <<>> /\ ~Full(q, t, E)
    BY <2>1, ShortQueues DEF Others, Full
  <2>3. Moved(q, t, store, E) = <<BlockOf(new[0])>>
    BY <1>5, <2>1, <2>2, ShortQueues DEF Moved
  <2>4. InOrder(new, i, E) = <<BlockOf(new[0])>>
    <3>1. E = 1 \/ ~new[1].v
      BY <1>1, <1>2, <1>7, <2>1 DEF LinesOK
    <3> QED
      BY <1>2, <2>1, <3>1 DEF InOrder
  <2> QED
    BY <2>1, <2>2, <2>3, <2>4
<1>8. CASE lines[0].v /\ (E = 1 \/ ~lines[1].v)
  <2>1. q = <<BlockOf(lines[0])>> /\ Len(q) = 1 /\ q[1] = BlockOf(lines[0])
    BY <1>8 DEF InOrder
  <2>2. At(q, t) = IF lines[0].tag = t THEN {1} ELSE {}
    BY <1>1, <1>3, <2>1, ShortQueues
  <2>3. CASE kind = "hit"
    <3>1. i = 0 /\ lines[0].tag = t
      BY <1>1, <1>8, <2>3 DEF Step
    <3>2. /\ At(q, t) = {1} /\ Others(q, t) = <<>> /\ ~Full(q, t, E)
          /\ Used(q, t, store) = BlockOf(new[0])
      BY <1>6, <2>1, <2>2, <2>3, <3>1, ShortQueues DEF Others, Full
    <3>3. Moved(q, t, store, E) = <<BlockOf(new[0])>>
      BY <3>2, ShortQueues DEF Moved
    <3>4. InOrder(new, i, E) = <<BlockOf(new[0])>>
      <4>1. E = 1 \/ ~new[1].v
        BY <1>1, <1>2, <1>8, <3>1
      <4> QED
        BY <1>2, <3>1, <4>1 DEF InOrder
    <3> QED
      BY <2>3, <3>2, <3>3, <3>4
  <2>4. CASE kind = "fill"
    <3>1. E = 2 /\ i = 1 /\ lines[0].tag # t
      BY <1>1, <1>8, <2>4 DEF Step
    <3>2. At(q, t) = {} /\ Others(q, t) = q /\ ~Full(q, t, E) /\ Used(q, t, store) = BlockOf(new[1])
      BY <1>5, <2>1, <2>2, <2>4, <3>1 DEF Others, Full
    <3>3. Moved(q, t, store, E) = <<BlockOf(new[1]), BlockOf(lines[0])>>
      <4>1. <<BlockOf(new[1])>> \o q = <<BlockOf(new[1]), BlockOf(lines[0])>>
        BY <2>1, ShortQueues
      <4> QED
        BY <3>2, <4>1 DEF Moved
    <3>4. new[0] = lines[0] /\ 1 - i = 0
      BY <1>1, <1>2, <3>1
    <3>5. InOrder(new, i, E) = <<BlockOf(new[1]), BlockOf(new[0])>>
      BY <1>2, <1>8, <3>1, <3>4 DEF InOrder
    <3> QED
      BY <2>4, <3>2, <3>3, <3>4, <3>5
  <2>5. CASE kind = "evict"
    <3>1. E = 1 /\ i = 0 /\ lines[0].tag # t
      BY <1>1, <1>8, <2>5 DEF Step
    <3>2. At(q, t) = {} /\ Others(q, t) = q /\ Full(q, t, E) /\ Used(q, t, store) = BlockOf(new[0])
      BY <1>5, <2>1, <2>2, <2>5, <3>1 DEF Others, Full
    <3>3. Moved(q, t, store, E) = <<BlockOf(new[0])>> /\ Last(Others(q, t)) = BlockOf(lines[0])
      <4>1. Front(q) = <<>> /\ Last(q) = BlockOf(lines[0])
        BY <2>1, ShortQueues
      <4> QED
        BY <3>2, <4>1, ShortQueues DEF Moved
    <3>4. InOrder(new, i, E) = <<BlockOf(new[0])>>
      BY <1>2, <3>1 DEF InOrder
    <3> QED
      BY <1>1, <1>3, <2>5, <3>1, <3>2, <3>3, <3>4
  <2>6. kind \in {"hit", "fill", "evict"}
    BY DEF Step
  <2> QED
    BY <2>3, <2>4, <2>5, <2>6
<1>9. CASE E = 2 /\ lines[0].v /\ lines[1].v
  <2>0. /\ f \in {0, 1} /\ i \in {0, 1} /\ (i = f \/ i = 1 - f)
        /\ 1 - (1 - f) = f /\ 1 - f \in 0 .. E - 1
        /\ f \in 0 .. E - 1
    BY <1>1, <1>9
  <2>1. /\ q = <<BlockOf(lines[f]), BlockOf(lines[1 - f])>> /\ Len(q) = 2
        /\ q[1] = BlockOf(lines[f]) /\ q[2] = BlockOf(lines[1 - f])
    BY <1>9 DEF InOrder
  <2>2. lines[f].tag # lines[1 - f].tag /\ lines[f].v /\ lines[1 - f].v
    BY <1>1, <1>9, <2>0 DEF LinesOK
  <2>3. At(q, t) = IF lines[f].tag = t THEN {1} ELSE IF lines[1 - f].tag = t THEN {2} ELSE {}
    BY <1>1, <1>3, <2>0, <2>1, <2>2, ShortQueues
  <2>4. InOrder(new, i, E) = <<BlockOf(new[i]), BlockOf(lines[1 - i])>>
    <3>1. 1 - i # i /\ 1 - i \in 0 .. E - 1 /\ new[1 - i] = lines[1 - i]
      BY <1>2, <1>9, <2>0
    <3>2. new[0].v /\ new[1].v
      BY <1>1, <1>2, <1>9, <2>0
    <3> QED
      BY <1>9, <3>1, <3>2 DEF InOrder
  <2>5. CASE kind = "hit" /\ i = f
    <3>1. lines[f].tag = t
      BY <2>5 DEF Step
    <3>2. /\ At(q, t) = {1} /\ Others(q, t) = <<BlockOf(lines[1 - f])>> /\ ~Full(q, t, E)
          /\ Used(q, t, store) = BlockOf(new[i])
      <4>1. At(q, t) = {1} /\ Min(At(q, t)) = 1 /\ RemoveAt(q, 1) = <<BlockOf(lines[1 - f])>>
        <5>1. At(q, t) = {1}
          BY <2>2, <2>3, <3>1
        <5>2. Min({1}) = 1 /\ Min({2}) = 2
          BY ShortQueues
        <5>3. RemoveAt(q, 1) = <<BlockOf(lines[1 - f])>> /\ RemoveAt(q, 2) = <<BlockOf(lines[f])>>
          BY <2>1, ShortQueues
        <5> QED
          BY <5>1, <5>2, <5>3
      <4>2. Used(q, t, store) = BlockOf(new[i])
        BY <1>6, <2>1, <2>5, <4>1
      <4> QED
        BY <4>1, <4>2 DEF Others, Full
    <3>3. Moved(q, t, store, E) = <<BlockOf(new[i]), BlockOf(lines[1 - i])>>
      BY <2>5, <3>2, ShortQueues DEF Moved
    <3> QED
      BY <2>4, <2>5, <3>2, <3>3
  <2>6. CASE kind = "hit" /\ i = 1 - f
    <3>1. lines[1 - f].tag = t /\ lines[f].tag # t
      BY <2>2, <2>6 DEF Step
    <3>2. /\ At(q, t) = {2} /\ Others(q, t) = <<BlockOf(lines[f])>> /\ ~Full(q, t, E)
          /\ Used(q, t, store) = BlockOf(new[i])
      <4>1. At(q, t) = {2} /\ Min(At(q, t)) = 2 /\ RemoveAt(q, 2) = <<BlockOf(lines[f])>>
        <5>1. At(q, t) = {2}
          BY <2>2, <2>3, <3>1
        <5>2. Min({1}) = 1 /\ Min({2}) = 2
          BY ShortQueues
        <5>3. RemoveAt(q, 1) = <<BlockOf(lines[1 - f])>> /\ RemoveAt(q, 2) = <<BlockOf(lines[f])>>
          BY <2>1, ShortQueues
        <5> QED
          BY <5>1, <5>2, <5>3
      <4>2. Used(q, t, store) = BlockOf(new[i])
        BY <1>6, <2>1, <2>6, <4>1
      <4> QED
        BY <4>1, <4>2 DEF Others, Full
    <3>3. Moved(q, t, store, E) = <<BlockOf(new[i]), BlockOf(lines[1 - i])>>
      BY <2>0, <2>6, <3>2, ShortQueues DEF Moved
    <3> QED
      BY <2>4, <2>6, <3>2, <3>3
  <2>7. CASE kind = "evict"
    <3>1. i = 1 - f /\ lines[f].tag # t /\ lines[1 - f].tag # t
      BY <1>9, <2>0, <2>7 DEF Step
    <3>2. /\ At(q, t) = {} /\ Others(q, t) = q /\ Full(q, t, E)
          /\ Used(q, t, store) = BlockOf(new[i])
      BY <1>5, <1>9, <2>1, <2>3, <2>7, <3>1 DEF Others, Full
    <3>3. /\ Moved(q, t, store, E) = <<BlockOf(new[i]), BlockOf(lines[1 - i])>>
          /\ Last(Others(q, t)) = BlockOf(lines[1 - f])
      <4>1. Front(q) = <<BlockOf(lines[f])>> /\ Last(q) = BlockOf(lines[1 - f])
        BY <2>1, ShortQueues
      <4>2. <<BlockOf(new[i])>> \o Front(q) = <<BlockOf(new[i]), BlockOf(lines[f])>> /\ 1 - i = f
        BY <2>0, <3>1, <4>1, ShortQueues
      <4> QED
        BY <3>2, <4>1, <4>2 DEF Moved
    <3> QED
      BY <1>3, <2>0, <2>4, <2>7, <3>1, <3>2, <3>3
  <2>8. kind # "fill"
    BY <1>1, <1>9, <2>0 DEF Step
  <2>9. kind \in {"hit", "fill", "evict"}
    BY DEF Step
  <2> QED
    BY <2>0, <2>5, <2>6, <2>7, <2>8, <2>9
<1>10. kind \in {"hit", "fill", "evict"}
  BY DEF Step
<1> QED
  BY <1>1, <1>7, <1>8, <1>9, <1>10

\* The blocks in the queue are those in the lines.
LEMMA OrderBlocks ==
    ASSUME NEW E \in Nat \ {0}, E \in {1, 2}, NEW lines, LinesOK(lines, E), NEW f \in 0 .. E - 1,
           NEW q, q = InOrder(lines, f, E)
    PROVE  {[tag |-> q[i].tag, d |-> q[i].d] : i \in DOMAIN q} =
           {[tag |-> L.tag, d |-> L.d] : L \in {lines[i] : i \in {j \in DOMAIN lines : lines[j].v}}}
<1>1. DOMAIN lines = 0 .. E - 1
  BY DEF LinesOK
<1> DEFINE R == {[tag |-> L.tag, d |-> L.d] :
                    L \in {lines[i] : i \in {j \in DOMAIN lines : lines[j].v}}}
<1>2. R = {BlockOf(lines[j]) : j \in {k \in 0 .. E - 1 : lines[k].v}}
  BY <1>1 DEF BlockOf
<1>3. \A k \in DOMAIN q : [tag |-> q[k].tag, d |-> q[k].d] = q[k]
  BY DEF InOrder, BlockOf
<1>4. CASE ~lines[0].v
  BY <1>1, <1>2, <1>4 DEF InOrder, LinesOK
<1>5. CASE lines[0].v /\ (E = 1 \/ ~lines[1].v)
  <2>1. q = <<BlockOf(lines[0])>>
    BY <1>5 DEF InOrder
  <2>2. {k \in 0 .. E - 1 : lines[k].v} = {0}
    BY <1>5
  <2> HIDE DEF R
  <2>3. R = {BlockOf(lines[0])}
    BY <1>2, <2>2
  <2> QED
    BY <1>3, <2>1, <2>3 DEF R
<1>6. CASE E = 2 /\ lines[0].v /\ lines[1].v
  <2>1. q = <<BlockOf(lines[f]), BlockOf(lines[1 - f])>>
    BY <1>6 DEF InOrder
  <2>2. {k \in 0 .. E - 1 : lines[k].v} = {f, 1 - f}
    BY <1>6
  <2> HIDE DEF R
  <2>3. R = {BlockOf(lines[f]), BlockOf(lines[1 - f])}
    BY <1>2, <2>2
  <2>4. DOMAIN q = {1, 2} /\ q[1] = BlockOf(lines[f]) /\ q[2] = BlockOf(lines[1 - f])
    BY <2>1
  <2> QED
    BY <1>3, <2>3, <2>4 DEF R
<1> QED
  BY <1>4, <1>5, <1>6

\* An access to the blocks A of a set leaves the blocks N; u is the tag of the
\* line used and d whether it was dirty.
BlocksStep(kind, A, N, u, d, t, store, E) ==
    /\ kind = "hit" => t \in DOMAIN A /\ N = CsimCache!With(A, t, A[t] \/ store)
    /\ kind = "fill" => /\ t \notin DOMAIN A /\ Cardinality(DOMAIN A) < E
                        /\ N = CsimCache!With(A, t, store)
    /\ kind = "evict" => /\ t \notin DOMAIN A /\ Cardinality(DOMAIN A) = E
                         /\ u \in DOMAIN A /\ A[u] = d
                         /\ N = CsimCache!With(CsimCache!Without(A, u), t, store)

\* An access does to the blocks what BlockCache says.
LEMMA BlocksFollow ==
    ASSUME NEW E \in Nat \ {0}, NEW set, LinesOK(set.lines, E), NEW new, NEW kind, NEW i,
           NEW t \in Int, NEW store \in BOOLEAN, Step(kind, set.lines, new.lines, i, t, store, E)
    PROVE  BlocksStep(kind, BlocksOf(set), BlocksOf(new), set.lines[i].tag, set.lines[i].d,
                      t, store, E)
<1> DEFINE L == set.lines
           M == new.lines
           A == BlocksOf(set)
           N == BlocksOf(new)
           VL == {j \in 0 .. E - 1 : L[j].v}
           VM == {j \in 0 .. E - 1 : M[j].v}
<1>1. i \in 0 .. E - 1 /\ L \in [0 .. E - 1 -> Line]
  BY DEF Step, LinesOK
<1>2. /\ LinesOK(M, E) /\ M[i].v /\ M[i].tag = t
      /\ M[i].d \in BOOLEAN
      /\ kind = "hit" => (M[i].d <=> L[i].d \/ store)
      /\ kind # "hit" => (M[i].d <=> store)
      /\ \A j \in 0 .. E - 1 : j # i => M[j] = L[j]
  BY StepKeepsLines
<1>3. /\ DOMAIN A = {L[j].tag : j \in VL}
      /\ A = [x \in {L[j].tag : j \in VL} |-> A[x]]
      /\ \A j \in VL : A[L[j].tag] = L[j].d
  BY BlocksOfLines
<1>4. /\ DOMAIN N = {M[j].tag : j \in VM}
      /\ N = [x \in {M[j].tag : j \in VM} |-> N[x]]
      /\ \A j \in VM : N[M[j].tag] = M[j].d
  <2>1. LinesOK(new.lines, E)
    BY <1>2
  <2> QED
    BY <2>1, BlocksOfLines
<1> HIDE DEF A, N
<1>5. /\ \A x : x \in DOMAIN A <=> \E j \in 0 .. E - 1 : L[j].v /\ L[j].tag = x
      /\ \A j \in 0 .. E - 1 : L[j].v => A[L[j].tag] = L[j].d
  BY <1>3
<1>6. /\ \A x : x \in DOMAIN N <=> \E j \in 0 .. E - 1 : M[j].v /\ M[j].tag = x
      /\ \A j \in 0 .. E - 1 : M[j].v => N[M[j].tag] = M[j].d
      /\ N = [x \in DOMAIN N |-> N[x]]
  BY <1>4
<1>7. N[t] = M[i].d /\ t \in DOMAIN N
  BY <1>1, <1>2, <1>6
<1> HIDE DEF L, M
<1>8. ASSUME kind = "hit"
      PROVE  t \in DOMAIN A /\ N = CsimCache!With(A, t, A[t] \/ store)
  <2>1. L[i].v /\ L[i].tag = t
    BY <1>8 DEF Step, L
  <2>2. t \in DOMAIN A /\ A[t] = L[i].d
    BY <1>1, <1>5, <2>1
  <2>3. \A x : x \in DOMAIN N <=> x \in DOMAIN A \cup {t}
    <3>1. ASSUME NEW j \in 0 .. E - 1
          PROVE  (M[j].v <=> L[j].v) /\ M[j].tag = L[j].tag
      <4>1. CASE j = i
        BY <1>2, <2>1, <4>1
      <4>2. CASE j # i
        BY <1>2, <4>2
      <4> QED
        BY <4>1, <4>2
    <3> QED
      BY <1>5, <1>6, <2>2, <3>1
  <2>4. ASSUME NEW x \in DOMAIN A, x # t
        PROVE  N[x] = A[x]
    <3>1. PICK j \in 0 .. E - 1 : L[j].v /\ L[j].tag = x
      BY <1>5
    <3>2. j # i /\ M[j] = L[j]
      BY <1>2, <2>1, <2>4, <3>1
    <3> QED
      BY <1>5, <1>6, <3>1, <3>2
  <2>5. PICK d : d = (A[t] \/ store) /\ N[t] = d
    BY <1>2, <1>7, <1>8, <2>2
  <2>6. DOMAIN N = DOMAIN A \cup {t}
    BY <2>3
  <2>7. N = [x \in DOMAIN A \cup {t} |-> IF x = t THEN d ELSE A[x]]
    BY <1>6, <2>4, <2>5, <2>6
  <2> QED
    BY <2>2, <2>5, <2>7 DEF CsimCache!With
<1>9. ASSUME kind = "fill"
      PROVE  /\ t \notin DOMAIN A /\ Cardinality(DOMAIN A) < E
             /\ N = CsimCache!With(A, t, store)
  <2>1. \A j \in 0 .. E - 1 : (L[j].v <=> j < i) /\ (L[j].v => L[j].tag # t)
    BY <1>9 DEF Step, L
  <2>2. t \notin DOMAIN A
    BY <1>5, <2>1
  <2>3. Cardinality(DOMAIN A) = i
    <3>1. i \in 0 .. E
      BY <1>1
    <3> QED
      BY <2>1, <3>1, BlocksCount DEF A, L
  <2>4. DOMAIN N = DOMAIN A \cup {t}
    <3>1. \A x : x \in DOMAIN N <=> x \in DOMAIN A \cup {t}
      <4>1. \A j \in 0 .. E - 1 : j # i => M[j] = L[j]
        BY <1>2
      <4>2. ~L[i].v
        BY <1>1, <2>1
      <4> QED
        <5>1. \A x : x \in DOMAIN N => x \in DOMAIN A \cup {t}
          BY <1>2, <1>5, <1>6, <4>1
        <5>2. ASSUME NEW x \in DOMAIN A
              PROVE  x \in DOMAIN N
          <6>1. PICK j \in 0 .. E - 1 : L[j].v /\ L[j].tag = x
            BY <1>5
          <6>2. M[j] = L[j]
            BY <4>1, <4>2, <6>1
          <6> QED
            BY <1>6, <6>1, <6>2
        <5> QED
          BY <1>7, <5>1, <5>2
    <3> QED
      BY <3>1
  <2>5. ASSUME NEW x \in DOMAIN A, x # t
        PROVE  N[x] = A[x]
    <3>1. PICK j \in 0 .. E - 1 : L[j].v /\ L[j].tag = x
      BY <1>5
    <3>2. j # i
      BY <1>1, <2>1, <3>1
    <3>3. M[j] = L[j]
      BY <1>2, <3>2
    <3> QED
      BY <1>5, <1>6, <3>1, <3>3
  <2>6. N[t] = store
    BY <1>2, <1>7, <1>9
  <2>7. N = [x \in DOMAIN A \cup {t} |-> IF x = t THEN store ELSE A[x]]
    BY <1>6, <2>4, <2>5, <2>6
  <2> QED
    BY <1>1, <2>2, <2>3, <2>7 DEF CsimCache!With
<1>10. ASSUME kind = "evict"
       PROVE  /\ t \notin DOMAIN A /\ Cardinality(DOMAIN A) = E
              /\ L[i].tag \in DOMAIN A /\ A[L[i].tag] = L[i].d
              /\ N = CsimCache!With(CsimCache!Without(A, L[i].tag), t, store)
  <2>1. \A j \in 0 .. E - 1 : L[j].v /\ L[j].tag # t
    BY <1>10 DEF Step, L
  <2>2. t \notin DOMAIN A
    BY <1>5, <2>1
  <2>3. Cardinality(DOMAIN A) = E
    <3>1. E \in 0 .. E /\ \A j \in 0 .. E - 1 : L[j].v <=> j < E
      BY <2>1
    <3> QED
      BY <3>1, BlocksCount DEF A, L
  <2> DEFINE u == L[i].tag
             B == DOMAIN A \ {u}
  <2>4. u \in DOMAIN A /\ A[u] = L[i].d
    BY <1>1, <1>5, <2>1
  <2>5. \A j \in 0 .. E - 1 : j # i => L[j].tag # u
    BY <1>1, <2>1 DEF LinesOK, L
  <2>6. \A x : x \in B <=> \E j \in 0 .. E - 1 : j # i /\ L[j].tag = x
    BY <1>1, <1>5, <2>1, <2>5
  <2> HIDE DEF u, B
  <2>7. DOMAIN N = B \cup {t}
    <3>1. \A x : x \in DOMAIN N <=> x \in B \cup {t}
      BY <1>1, <1>2, <1>6, <2>1, <2>6
    <3> QED
      BY <3>1
  <2>8. ASSUME NEW x \in B
        PROVE  N[x] = A[x]
    <3>1. PICK j \in 0 .. E - 1 : j # i /\ L[j].tag = x
      BY <2>6
    <3>2. M[j] = L[j] /\ L[j].v
      BY <1>2, <2>1, <3>1
    <3> QED
      BY <1>5, <1>6, <3>1, <3>2
  <2>9. N[t] = store /\ t \notin B
    BY <1>2, <1>7, <1>10, <2>2 DEF B
  <2>10. N = [x \in B \cup {t} |-> IF x = t THEN store ELSE A[x]]
    BY <1>6, <2>7, <2>8, <2>9
  <2>11. CsimCache!With(CsimCache!Without(A, u), t, store)
           = [x \in B \cup {t} |-> IF x = t THEN store ELSE A[x]]
    <3>1. CsimCache!Without(A, u) = [x \in B |-> A[x]]
      BY DEF CsimCache!Without, B
    <3> QED
      BY <3>1 DEF CsimCache!With
  <2> QED
    BY <2>2, <2>3, <2>4, <2>10, <2>11 DEF u
<1> QED
  BY <1>8, <1>9, <1>10 DEF A, N, L, BlocksStep

-----------------------------------------------------------------------------
(* The inductive invariant.                                                *)

Sets == 0 .. Pow2[arg.s] - 1

\* What the two simulators know of the order in which a set was used agrees
\* with the queue of the LRU cache.
SetInv(s) ==
    /\ CsimSetOK(data[s], arg.E, last[s])
    /\ DraftSetOK(draft[s], arg.E, last[s])
    /\ arg.E <= 2 => \E f \in 0 .. arg.E - 1 :
                       /\ lru[s] = InOrder(data[s].lines, f, arg.E)
                       /\ arg.E = 2 /\ data[s].LRU # -1 => f = 1 - data[s].LRU
    /\ arg.E = 2 => \E f \in 0 .. arg.E - 1 :
                       /\ lru[s] = InOrder(draft[s].lines, f, arg.E)
                       /\ draft[s].lines[0].v =>
                            draft[s].lines[f].v /\ draft[s].lines[f].tag = draft[s].MRU

CountInv ==
    /\ stats \in StatsType /\ junk \in StatsType /\ draftCount \in CountType
    /\ arg.E <= 2 => CsimCount = lruCount
    /\ arg.E = 2 => draftCount = lruCount

\* The summary that was printed is that of the stats.
PrintedInv ==
    printed # <<>> =>
      /\ printed[1].hits = stats.hits /\ printed[1].misses = stats.misses
      /\ printed[1].evictions = stats.evictions
      /\ printed[1].dirty_evictions = stats.dirty_evictions - 1

ShapeInv ==
    /\ arg \in Arguments
    /\ data = [s \in Sets |-> data[s]] /\ draft = [s \in Sets |-> draft[s]]
    /\ lru = [s \in Sets |-> lru[s]] /\ last = [s \in Sets |-> last[s]]

Inv == ShapeInv /\ CountInv /\ PrintedInv /\ \A s \in Sets : SetInv(s)

\* The arguments and the sizes they give.
LEMMA SetsAreNumbers ==
    ASSUME arg \in Arguments
    PROVE  /\ arg.s \in Nat /\ arg.b \in Nat /\ arg.E \in Nat \ {0} /\ arg.E - 1 \in Nat
           /\ Pow2[arg.b] \in Nat \ {0} /\ Pow2[arg.s] \in Nat \ {0}
           /\ 0 \in 0 .. arg.E - 1
           /\ arg.E <= 2 => arg.E \in {1, 2}
<1>1. arg.s \in Nat /\ arg.b \in Nat /\ arg.E \in Nat \ {0}
  BY CsimAssumption
<1>2. Pow2[arg.b] \in Nat \ {0} /\ Pow2[arg.s] \in Nat \ {0}
  BY <1>1, Pow2Positive
<1> QED
  BY <1>1, <1>2

\* It holds of the empty caches.
LEMMA InitInv == Init => Inv
<1> SUFFICES ASSUME Init PROVE Inv
  OBVIOUS
<1> USE DEF Init, CsimInit
<1>1. arg \in Arguments /\ junk \in Junk /\ stats = junk /\ printed = <<>>
  OBVIOUS
<1>2. /\ arg.E \in Nat \ {0} /\ 0 \in 0 .. arg.E - 1 /\ arg.E - 1 \in Nat
      /\ arg.E <= 2 => arg.E \in {1, 2}
  BY <1>1, SetsAreNumbers
<1>3. /\ data = [i \in Sets |-> InitSet(arg.E)]
      /\ draft = [i \in Sets |-> Draft!DraftSet(arg.E)]
      /\ lru = [i \in Sets |-> <<>>] /\ last = [i \in Sets |-> <<>>]
  BY DEF Sets
<1>4. ShapeInv
  BY <1>1, <1>3 DEF ShapeInv
<1>5. CountInv
  <2>1. junk \in StatsType /\ stats \in StatsType
    BY <1>1, CsimAssumption DEF StatsType
  <2>2. draftCount = Zero /\ lruCount = Zero /\ Zero \in CountType
    BY DEF Zero, CountType
  <2>3. CsimCount = Zero
    BY <1>1, <2>1 DEF CsimCount, Since, Zero, StatsType
  <2> QED
    BY <2>1, <2>2, <2>3 DEF CountInv
<1>6. ASSUME NEW s \in Sets PROVE SetInv(s)
  <2> DEFINE L == [j \in 0 .. arg.E - 1 |-> EmptyLine]
  <2>1. /\ data[s].lines = L /\ data[s].LRU = IF arg.E = 1 THEN 0 ELSE -1
        /\ draft[s] = [lines |-> L, MRU |-> 0, LRU |-> <<>>, crashed |-> FALSE]
        /\ lru[s] = <<>>
    <3>1. data[s] = InitSet(arg.E) /\ draft[s] = Draft!DraftSet(arg.E) /\ lru[s] = <<>>
      BY <1>3
    <3>2. Draft!DraftSet(arg.E) = [lines |-> L, MRU |-> 0, LRU |-> <<>>, crashed |-> FALSE]
      BY DEF Draft!DraftSet, Draft!DraftLine, EmptyLine
    <3>3. InitSet(arg.E).lines = L /\ InitSet(arg.E).LRU = IF arg.E = 1 THEN 0 ELSE -1
      BY DEF InitSet
    <3> QED
      BY <3>1, <3>2, <3>3
  <2>2. LinesOK(L, arg.E) /\ ~L[0].v
    BY <1>2 DEF LinesOK, EmptyLine, Line
  <2>3. \A f : InOrder(L, f, arg.E) = <<>>
    BY <2>2 DEF InOrder
  <2>4. L \in [0 .. arg.E - 1 -> Line] /\ <<>> \in Seq(Int)
    BY <2>2 DEF LinesOK
  <2> HIDE DEF L
  <2>5. CsimSetOK(data[s], arg.E, last[s])
    BY SMTT(30), <1>2, <2>1, <2>2 DEF CsimSetOK
  <2>6. draft[s] \in DraftType(arg.E) /\ draft[s].lines = L /\ draft[s].crashed = FALSE
    <3>1. PICK e \in Seq(Int) : e = <<>>
      BY <2>4
    <3>2. draft[s] = [lines |-> L, MRU |-> 0, LRU |-> e, crashed |-> FALSE]
      BY <2>1, <3>1
    <3>3. \A l \in [0 .. arg.E - 1 -> Line], m \in Int, q \in Seq(Int), c \in BOOLEAN :
            [lines |-> l, MRU |-> m, LRU |-> q, crashed |-> c] \in DraftType(arg.E)
      BY DEF DraftType
    <3>4. draft[s] \in DraftType(arg.E)
      <4>1. L \in [0 .. arg.E - 1 -> Line] /\ 0 \in Int /\ FALSE \in BOOLEAN
        BY <2>4
      <4>2. [lines |-> L, MRU |-> 0, LRU |-> e, crashed |-> FALSE] \in DraftType(arg.E)
        BY <3>3, <4>1, Zenon
      <4> QED
        BY <3>2, <4>2
    <3>5. draft[s].lines = L /\ draft[s].crashed = FALSE
      BY <3>2
    <3> QED
      BY <3>4, <3>5
  <2>7. DraftSetOK(draft[s], arg.E, last[s])
    BY <2>2, <2>6 DEF DraftSetOK
  <2>8. arg.E <= 2 => \E f \in 0 .. arg.E - 1 :
           /\ lru[s] = InOrder(data[s].lines, f, arg.E)
           /\ arg.E = 2 /\ data[s].LRU # -1 => f = 1 - data[s].LRU
    <3>1. \A f \in 0 .. arg.E - 1 :
           /\ lru[s] = InOrder(data[s].lines, f, arg.E)
           /\ arg.E = 2 /\ data[s].LRU # -1 => f = 1 - data[s].LRU
      BY <2>1, <2>3
    <3> QED
      BY <1>2, <3>1
  <2>9. arg.E = 2 => \E f \in 0 .. arg.E - 1 :
           /\ lru[s] = InOrder(draft[s].lines, f, arg.E)
           /\ draft[s].lines[0].v => draft[s].lines[f].v /\ draft[s].lines[f].tag = draft[s].MRU
    <3>1. \A f \in 0 .. arg.E - 1 :
           /\ lru[s] = InOrder(draft[s].lines, f, arg.E)
           /\ draft[s].lines[0].v => draft[s].lines[f].v /\ draft[s].lines[f].tag = draft[s].MRU
      BY <2>1, <2>2, <2>3, <2>6
    <3> QED
      BY <1>2, <3>1
  <2> QED
    BY <2>5, <2>7, <2>8, <2>9 DEF SetInv
<1>7. PrintedInv
  BY <1>1 DEF PrintedInv
<1> QED
  BY <1>4, <1>5, <1>6, <1>7 DEF Inv

\* The sets an access leaves alone keep what SetInv says of them.
LEMMA OtherSets ==
    ASSUME NEW s \in Sets, SetInv(s), UNCHANGED arg,
           data'[s] = data[s], draft'[s] = draft[s], lru'[s] = lru[s], last'[s] = last[s]
    PROVE  SetInv(s)'
BY DEF SetInv

-----------------------------------------------------------------------------
(* An access.                                                              *)

\* An access takes csim through one of the steps of CsimStep.
LEMMA CsimAccess ==
    ASSUME Inv, NEW a \in Addr, NEW store \in BOOLEAN, Access(a, store),
           NEW s, s = SetIndex(a), NEW t, t = TagOf(a)
    PROVE  /\ s \in Sets /\ t \in Int
           /\ CsimSetOK(data'[s], arg.E, <<t, store>>)
           /\ \E kind, i : CsimStep(kind, s, i, t, store)
<1>1. arg \in Arguments /\ arg.E \in Nat \ {0} /\ Pow2[arg.b] \in Nat
  BY SetsAreNumbers DEF Inv, ShapeInv
<1>2. s \in Sets /\ t \in Int
  BY <1>1, SetIndexInRange DEF Sets
<1>3. /\ data = [x \in DOMAIN data |-> data[x]] /\ s \in DOMAIN data
      /\ CsimSetOK(data[s], arg.E, last[s])
      /\ stats \in StatsType /\ junk \in StatsType
  BY <1>2 DEF Inv, ShapeInv, SetInv, CountInv
<1>4. /\ LoadHit(s, t, store) \/ LoadFill(s, t, store) \/ LoadEvict(s, t, store)
      /\ UNCHANGED junk
  BY DEF Access, Load
<1>5. PICK kind, i : CsimStep(kind, s, i, t, store)
  BY <1>1, <1>2, <1>3, <1>4, CsimSteps
<1>6. CsimSetOK(data'[s], arg.E, <<t, store>>)
  BY <1>1, <1>2, <1>3, <1>5, CsimStepKeepsSet
<1> QED
  BY <1>2, <1>5, <1>6

\* What an access does to the set of csimCP, if it does not crash.
DraftStep(kind, s, i, t, store) ==
    /\ kind \in {"hit", "fill", "evict"}
    /\ Step(kind, draft[s].lines, draft'[s].lines, i, t, store, arg.E)
    /\ draftCount' = Counted(draftCount, kind = "hit", kind = "evict", draft[s].lines[i].d)
    /\ kind = "evict" => draft[s].lines[i].tag # draft[s].MRU
    /\ draft'[s].MRU = t

\* The counts stay numbers.
LEMMA CountedType ==
    ASSUME arg \in Arguments, NEW c \in CountType, NEW h, NEW e, NEW d
    PROVE  Counted(c, h, e, d) \in CountType
<1>1. Pow2[arg.b] \in Int
  BY SetsAreNumbers
<1> QED
  BY <1>1 DEF Counted, CountType

\* csimCP crashes or takes one of those steps.
LEMMA DraftAccessed ==
    ASSUME Inv, NEW s \in Sets, NEW t \in Int, NEW store \in BOOLEAN, DraftAccess(s, t, store)
    PROVE  /\ draft' = [draft EXCEPT ![s] = draft'[s]]
           /\ DraftSetOK(draft'[s], arg.E, <<t, store>>)
           /\ draftCount' \in CountType
           /\ draft'[s].crashed \/ \E kind, i : DraftStep(kind, s, i, t, store)
<1>1. arg \in Arguments /\ arg.E \in Nat \ {0}
  BY SetsAreNumbers DEF Inv, ShapeInv
<1>2. /\ draft = [x \in Sets |-> draft[x]] /\ DraftSetOK(draft[s], arg.E, last[s])
      /\ draftCount \in CountType
  BY DEF Inv, ShapeInv, SetInv, CountInv
<1>3. CASE draft[s].crashed
  <2>1. UNCHANGED <<draft, draftCount>>
    BY <1>3 DEF DraftAccess
  <2>2. draft = [draft EXCEPT ![s] = draft[s]]
    BY <1>2
  <2>3. DraftSetOK(draft[s], arg.E, <<t, store>>)
    BY <1>2, <1>3 DEF DraftSetOK
  <2> QED
    BY <1>2, <1>3, <2>1, <2>2, <2>3
<1>4. CASE ~draft[s].crashed
  <2>1. PICK r : /\ r = Draft!DraftLoad(draft[s], t, store)
                 /\ draft' = [draft EXCEPT ![s] = r.set]
                 /\ draftCount' = IF r.set.crashed THEN draftCount
                                  ELSE Counted(draftCount, r.hit, r.evicted, r.dirty)
    BY <1>4 DEF DraftAccess
  <2>2. draft'[s] = r.set
    BY <1>2, <2>1
  <2>3. /\ DraftSetOK(r.set, arg.E, <<t, store>>)
        /\ r.set.crashed \/ \E kind, i : DraftOutcome(draft[s], r, kind, i, t, store, arg.E)
    BY <1>1, <1>2, <1>4, <2>1, DraftLoads
  <2>4. draftCount' \in CountType
    BY <1>1, <1>2, <2>1, CountedType
  <2>5. ASSUME ~r.set.crashed
        PROVE  \E kind, i : DraftStep(kind, s, i, t, store)
    <3>1. PICK kind, i : DraftOutcome(draft[s], r, kind, i, t, store, arg.E)
      BY <2>3, <2>5
    <3>2. /\ r.hit <=> kind = "hit"
          /\ r.evicted <=> kind = "evict"
          /\ r.evicted => (r.dirty <=> draft[s].lines[i].d)
      BY <3>1 DEF DraftOutcome
    <3>3. draftCount' = Counted(draftCount, kind = "hit", kind = "evict", draft[s].lines[i].d)
      <4>1. draftCount' = Counted(draftCount, r.hit, r.evicted, r.dirty)
        BY <2>1, <2>5
      <4> QED
        BY <3>2, <4>1 DEF Counted
    <3>4. DraftStep(kind, s, i, t, store)
      BY <2>2, <3>1, <3>3 DEF DraftOutcome, DraftStep
    <3> QED
      BY <3>4
  <2> QED
    BY <2>1, <2>2, <2>3, <2>4, <2>5
<1> QED
  BY <1>3, <1>4

\* The LRU cache moves the block to the front.
LEMMA LRUAccessed ==
    ASSUME Inv, NEW s \in Sets, NEW t \in Int, NEW store \in BOOLEAN, LRUAccess(s, t, store),
           NEW q, q = lru[s]
    PROVE  /\ lru' = [lru EXCEPT ![s] = lru'[s]]
           /\ lru'[s] = Moved(q, t, store, arg.E)
           /\ lruCount' = Counted(lruCount, At(q, t) # {}, Full(q, t, arg.E), Last(Others(q, t)).d)
<1>1. lru = [x \in Sets |-> lru[x]]
  BY DEF Inv, ShapeInv
<1>2. /\ lru' = [lru EXCEPT ![s] = Moved(q, t, store, arg.E)]
      /\ lruCount' = Counted(lruCount, At(q, t) # {}, Full(q, t, arg.E),
                             Full(q, t, arg.E) /\ Last(Others(q, t)).d)
  BY DEF LRUAccess, At, Others, Full, Used, Moved
<1>3. lruCount' = Counted(lruCount, At(q, t) # {}, Full(q, t, arg.E), Last(Others(q, t)).d)
  BY <1>2 DEF Counted
<1> QED
  BY <1>1, <1>2, <1>3

\* With one or two lines csim and the LRU cache do the same.
LEMMA CsimFollows ==
    ASSUME Inv, NEW a \in Addr, NEW store \in BOOLEAN, Access(a, store),
           NEW s, s = SetIndex(a), NEW t, t = TagOf(a), arg.E <= 2
    PROVE  /\ \E f \in 0 .. arg.E - 1 :
                /\ lru'[s] = InOrder(data'[s].lines, f, arg.E)
                /\ arg.E = 2 /\ data'[s].LRU # -1 => f = 1 - data'[s].LRU
           /\ CsimCount' = lruCount'
<1>1. PICK kind, i : CsimStep(kind, s, i, t, store)
  BY CsimAccess
<1>2. /\ s \in Sets /\ t \in Int /\ arg \in Arguments
      /\ data = [x \in Sets |-> data[x]] /\ SetInv(s)
  BY CsimAccess DEF Inv, ShapeInv
<1>3. arg.E \in Nat \ {0} /\ arg.E \in {1, 2} /\ 0 \in 0 .. arg.E - 1
  BY <1>2, SetsAreNumbers
<1>4. CsimSetOK(data[s], arg.E, last[s]) /\ LinesOK(data[s].lines, arg.E)
  BY <1>2 DEF SetInv, CsimSetOK
<1>5. PICK f \in 0 .. arg.E - 1 :
        /\ lru[s] = InOrder(data[s].lines, f, arg.E)
        /\ arg.E = 2 /\ data[s].LRU # -1 => f = 1 - data[s].LRU
  BY <1>2 DEF SetInv
<1>6. PICK q : q = lru[s]
  OBVIOUS
<1>7. /\ lru'[s] = Moved(q, t, store, arg.E)
      /\ lruCount' = Counted(lruCount, At(q, t) # {}, Full(q, t, arg.E), Last(Others(q, t)).d)
  <2>1. LRUAccess(s, t, store)
    BY DEF Access
  <2> QED
    BY <1>2, <1>6, <2>1, LRUAccessed
<1>8. PICK L, M : L = data[s].lines /\ M = data'[s].lines
  OBVIOUS
<1>9. Step(kind, L, M, i, t, store, arg.E) /\ i \in 0 .. arg.E - 1
  BY <1>1, <1>8 DEF CsimStep, Step
<1>10. kind = "evict" /\ arg.E = 2 => i = 1 - f
  <2> SUFFICES ASSUME kind = "evict", arg.E = 2 PROVE i = 1 - f
    OBVIOUS
  <2>1. data[s].lines[0].v
    BY <1>3, <1>8, <1>9 DEF Step
  <2>2. data[s].LRU \in {0, 1} /\ f = 1 - data[s].LRU
    BY <1>4, <1>5, <2>1 DEF CsimSetOK
  <2>3. i = data[s].LRU
    BY <1>1 DEF CsimStep
  <2> QED
    BY <2>2, <2>3
<1>11. /\ At(q, t) # {} <=> kind = "hit"
       /\ Full(q, t, arg.E) <=> kind = "evict"
       /\ kind = "evict" => (Last(Others(q, t)).d <=> L[i].d)
       /\ Moved(q, t, store, arg.E) = InOrder(M, i, arg.E)
  <2>1. LinesOK(L, arg.E) /\ q = InOrder(L, f, arg.E)
    BY <1>4, <1>5, <1>6, <1>8
  <2> QED
    BY <1>2, <1>3, <1>9, <1>10, <2>1, OrderFollows
<1>12. data'[s].LRU = IF arg.E = 2 THEN 1 - i ELSE data[s].LRU
  <2>1. data'[s].LRU = Touch(data[s], i)
    BY <1>1, <1>2 DEF CsimStep
  <2> QED
    BY <1>3, <1>9, <2>1 DEF Touch
<1>13. CsimCount' = lruCount'
  <2>1. CsimCount' = Counted(CsimCount, kind = "hit", kind = "evict", L[i].d)
    BY <1>1, <1>8 DEF CsimStep
  <2>2. CsimCount = lruCount
    BY DEF Inv, CountInv
  <2> QED
    BY <1>7, <1>11, <2>1, <2>2 DEF Counted
<1>14. /\ lru'[s] = InOrder(data'[s].lines, i, arg.E)
       /\ arg.E = 2 /\ data'[s].LRU # -1 => i = 1 - data'[s].LRU
  BY <1>3, <1>7, <1>8, <1>9, <1>11, <1>12
<1> QED
  BY <1>9, <1>13, <1>14

\* With two lines csimCP and the LRU cache do the same.
LEMMA DraftFollows ==
    ASSUME Inv, NEW a \in Addr, NEW store \in BOOLEAN, Access(a, store),
           NEW s, s = SetIndex(a), NEW t, t = TagOf(a), arg.E = 2
    PROVE  /\ \E f \in 0 .. arg.E - 1 :
                /\ lru'[s] = InOrder(draft'[s].lines, f, arg.E)
                /\ draft'[s].lines[0].v =>
                     draft'[s].lines[f].v /\ draft'[s].lines[f].tag = draft'[s].MRU
           /\ draftCount' = lruCount'
<1>1. /\ s \in Sets /\ t \in Int /\ arg \in Arguments /\ SetInv(s)
      /\ DraftAccess(s, t, store) /\ LRUAccess(s, t, store)
  BY CsimAccess DEF Inv, ShapeInv, Access
<1>2. arg.E \in Nat \ {0} /\ arg.E \in {1, 2} /\ 0 \in 0 .. arg.E - 1
  BY <1>1, SetsAreNumbers
<1>3. PICK kind, i : DraftStep(kind, s, i, t, store)
  <2>1. ~draft'[s].crashed
    BY <1>1, DraftAccessed DEF DraftSetOK
  <2> QED
    BY <1>1, <2>1, DraftAccessed
<1>4. LinesOK(draft[s].lines, arg.E)
  BY <1>1 DEF SetInv, DraftSetOK
<1>5. PICK f \in 0 .. arg.E - 1 :
        /\ lru[s] = InOrder(draft[s].lines, f, arg.E)
        /\ draft[s].lines[0].v => draft[s].lines[f].v /\ draft[s].lines[f].tag = draft[s].MRU
  BY <1>1 DEF SetInv
<1>6. PICK q : q = lru[s]
  OBVIOUS
<1>7. /\ lru'[s] = Moved(q, t, store, arg.E)
      /\ lruCount' = Counted(lruCount, At(q, t) # {}, Full(q, t, arg.E), Last(Others(q, t)).d)
  BY <1>1, <1>6, LRUAccessed
<1>8. PICK L, M : L = draft[s].lines /\ M = draft'[s].lines
  OBVIOUS
<1>9. Step(kind, L, M, i, t, store, arg.E) /\ i \in 0 .. arg.E - 1
  BY <1>3, <1>8 DEF DraftStep, Step
<1>10. kind = "evict" /\ arg.E = 2 => i = 1 - f
  <2> SUFFICES ASSUME kind = "evict" PROVE i = 1 - f
    OBVIOUS
  <2>1. draft[s].lines[0].v
    BY <1>2, <1>8, <1>9 DEF Step
  <2>2. L[f].tag = draft[s].MRU
    BY <1>5, <1>8, <2>1
  <2>3. L[i].tag # draft[s].MRU
    BY <1>3, <1>8 DEF DraftStep
  <2>4. i # f
    BY <2>2, <2>3
  <2> QED
    BY <1>9, <2>4
<1>11. /\ At(q, t) # {} <=> kind = "hit"
       /\ Full(q, t, arg.E) <=> kind = "evict"
       /\ kind = "evict" => (Last(Others(q, t)).d <=> L[i].d)
       /\ Moved(q, t, store, arg.E) = InOrder(M, i, arg.E)
  <2>1. LinesOK(L, arg.E) /\ q = InOrder(L, f, arg.E)
    BY <1>4, <1>5, <1>6, <1>8
  <2> QED
    BY <1>1, <1>2, <1>9, <1>10, <2>1, OrderFollows
<1>12. M[i].v /\ M[i].tag = draft'[s].MRU
  <2>1. M[i].v /\ M[i].tag = t
    <3>1. LinesOK(L, arg.E)
      BY <1>4, <1>8
    <3> QED
      BY <1>1, <1>2, <1>9, <3>1, StepKeepsLines
  <2> QED
    BY <1>3, <2>1 DEF DraftStep
<1>13. draftCount' = lruCount'
  <2>1. draftCount' = Counted(draftCount, kind = "hit", kind = "evict", L[i].d)
    BY <1>3, <1>8 DEF DraftStep
  <2>2. draftCount = lruCount
    BY DEF Inv, CountInv
  <2> QED
    BY <1>7, <1>11, <2>1, <2>2 DEF Counted
<1>14. /\ lru'[s] = InOrder(draft'[s].lines, i, arg.E)
       /\ draft'[s].lines[i].v /\ draft'[s].lines[i].tag = draft'[s].MRU
  BY <1>7, <1>8, <1>11, <1>12
<1> QED
  BY <1>9, <1>13, <1>14

\* An access keeps the invariant.
LEMMA AccessKeepsInv ==
    ASSUME Inv, NEW a \in Addr, NEW store \in BOOLEAN, Access(a, store)
    PROVE  Inv'
<1>1. PICK s, t : s = SetIndex(a) /\ t = TagOf(a)
  OBVIOUS
<1>2. /\ UNCHANGED <<arg, junk, printed>> /\ printed = <<>>
      /\ last' = [last EXCEPT ![s] = <<t, store>>]
      /\ DraftAccess(s, t, store) /\ LRUAccess(s, t, store)
  BY <1>1 DEF Access, Load
<1>3. /\ arg \in Arguments
      /\ data = [x \in Sets |-> data[x]] /\ draft = [x \in Sets |-> draft[x]]
      /\ lru = [x \in Sets |-> lru[x]] /\ last = [x \in Sets |-> last[x]]
  BY DEF Inv, ShapeInv
<1>4. /\ s \in Sets /\ t \in Int
      /\ CsimSetOK(data'[s], arg.E, <<t, store>>)
  BY <1>1, CsimAccess
<1>5. PICK kind, i : CsimStep(kind, s, i, t, store)
  BY <1>1, CsimAccess
<1>6. /\ data' = [data EXCEPT ![s] = data'[s]]
      /\ draft' = [draft EXCEPT ![s] = draft'[s]]
      /\ lru' = [lru EXCEPT ![s] = lru'[s]]
  <2>1. data' = [data EXCEPT ![s] = data'[s]]
    BY <1>3, <1>4, <1>5 DEF CsimStep
  <2> QED
    BY <1>2, <1>4, <2>1, DraftAccessed, LRUAccessed
<1>7. ShapeInv'
  <2>1. Sets' = Sets
    BY <1>2 DEF Sets
  <2>2. /\ data' = [x \in Sets |-> data'[x]] /\ draft' = [x \in Sets |-> draft'[x]]
        /\ lru' = [x \in Sets |-> lru'[x]] /\ last' = [x \in Sets |-> last'[x]]
    BY <1>2, <1>3, <1>4, <1>6
  <2> QED
    BY <1>2, <1>3, <2>1, <2>2 DEF ShapeInv
<1>8. ASSUME NEW x \in Sets PROVE SetInv(x)'
  <2>1. CASE x = s
    <3>1. last'[s] = <<t, store>> /\ arg' = arg
      BY <1>2, <1>3, <1>4
    <3>2. DraftSetOK(draft'[s], arg.E, <<t, store>>)
      BY <1>2, <1>4, DraftAccessed
    <3>3. arg.E <= 2 => \E f \in 0 .. arg.E - 1 :
             /\ lru'[s] = InOrder(data'[s].lines, f, arg.E)
             /\ arg.E = 2 /\ data'[s].LRU # -1 => f = 1 - data'[s].LRU
      BY <1>1, CsimFollows
    <3>4. arg.E = 2 => \E f \in 0 .. arg.E - 1 :
             /\ lru'[s] = InOrder(draft'[s].lines, f, arg.E)
             /\ draft'[s].lines[0].v =>
                  draft'[s].lines[f].v /\ draft'[s].lines[f].tag = draft'[s].MRU
      BY <1>1, DraftFollows
    <3> QED
      BY <1>4, <2>1, <3>1, <3>2, <3>3, <3>4 DEF SetInv
  <2>2. CASE x # s
    <3>1. data'[x] = data[x] /\ draft'[x] = draft[x] /\ lru'[x] = lru[x] /\ last'[x] = last[x]
      BY <1>2, <1>3, <1>6, <2>2
    <3>2. SetInv(x) /\ UNCHANGED arg
      BY <1>2 DEF Inv
    <3> QED
      BY <3>1, <3>2, OtherSets
  <2> QED
    BY <2>1, <2>2
<1>9. CountInv'
  <2>1. stats' \in StatsType
    BY <1>5 DEF CsimStep
  <2>2. junk' \in StatsType
    BY <1>2 DEF Inv, CountInv
  <2>3. draftCount' \in CountType
    BY <1>2, <1>4, DraftAccessed
  <2>4. arg.E <= 2 => CsimCount' = lruCount'
    BY <1>1, CsimFollows
  <2>5. arg.E = 2 => draftCount' = lruCount'
    BY <1>1, DraftFollows
  <2> QED
    BY <1>2, <2>1, <2>2, <2>3, <2>4, <2>5 DEF CountInv
<1>10. PrintedInv'
  BY <1>2 DEF PrintedInv
<1>11. \A x \in Sets' : SetInv(x)'
  <2>1. Sets' = Sets
    BY <1>2 DEF Sets
  <2> QED
    BY <1>8, <2>1
<1> QED
  BY <1>7, <1>9, <1>10, <1>11 DEF Inv

\* So does the end of the trace.
LEMMA EndKeepsInv ==
    ASSUME Inv, EndOfTrace
    PROVE  Inv'
<1>1. /\ UNCHANGED <<arg, data, stats, junk, last, draft, draftCount, lru, lruCount>>
      /\ printed' = <<[stats EXCEPT !.dirty_bytes = @ + Pow2[arg.b] * Cardinality(DirtyLines),
                                    !.dirty_evictions = @ - 1]>>
  BY DEF EndOfTrace, Summary
<1>2. PICK b, e : /\ e = stats.dirty_evictions - 1
                  /\ printed' = <<[stats EXCEPT !.dirty_bytes = b, !.dirty_evictions = e]>>
  BY <1>1
<1>3. stats \in StatsType
  BY DEF Inv, CountInv
<1>4. PrintedInv'
  <2>1. PICK p : /\ p = [stats EXCEPT !.dirty_bytes = b, !.dirty_evictions = e]
                 /\ printed' = <<p>>
    BY <1>2
  <2>2. /\ p.hits = stats.hits /\ p.misses = stats.misses /\ p.evictions = stats.evictions
        /\ p.dirty_evictions = e
    BY <1>3, <2>1 DEF StatsType
  <2>3. printed'[1] = p
    BY <2>1
  <2> QED
    BY <1>1, <1>2, <2>2, <2>3 DEF PrintedInv
<1>5. ShapeInv'
  BY <1>1 DEF Inv, ShapeInv, Sets
<1>6. CountInv'
  BY <1>1 DEF Inv, CountInv, CsimCount, Since, Zero
<1>7. Sets' = Sets
  BY <1>1 DEF Sets
<1>8. \A s \in Sets' : SetInv(s)'
  BY <1>1, <1>7 DEF Inv, SetInv
<1> QED
  BY <1>4, <1>5, <1>6, <1>8 DEF Inv

\* So does a step that changes nothing.
LEMMA StutterKeepsInv ==
    ASSUME Inv, UNCHANGED vars
    PROVE  Inv'
<1>1. UNCHANGED <<arg, data, stats, junk, printed, last, draft, draftCount, lru, lruCount>>
  BY DEF vars
<1>2. ShapeInv'
  BY <1>1 DEF Inv, ShapeInv, Sets
<1>3. CountInv'
  BY <1>1 DEF Inv, CountInv, CsimCount, Since, Zero
<1>4. PrintedInv'
  BY <1>1 DEF Inv, PrintedInv
<1>5. Sets' = Sets
  BY <1>1 DEF Sets
<1>6. \A s \in Sets' : SetInv(s)'
  BY <1>1, <1>5 DEF Inv, SetInv
<1> QED
  BY <1>2, <1>3, <1>4, <1>6 DEF Inv

\* The invariant holds in every reachable state.
THEOREM InvAlwaysHolds == Spec => []Inv
<1>1. Inv /\ [Next]_vars => Inv'
  BY AccessKeepsInv, EndKeepsInv, StutterKeepsInv DEF Next
<1> QED
  BY InitInv, <1>1, PTL DEF Spec

\* An LRU cache.
THEOREM CsimIsLRU == Spec => []IsLRU
<1>1. Inv => IsLRU
  <2> SUFFICES ASSUME Inv PROVE IsLRU
    OBVIOUS
  <2>1. /\ arg \in Arguments /\ DOMAIN data = Sets /\ DOMAIN draft = Sets
        /\ stats \in StatsType /\ junk \in StatsType /\ PrintedInv
    BY DEF Inv, ShapeInv, CountInv
  <2>2. ASSUME NEW s \in Sets, arg.E <= 2
        PROVE  CsimBlocks(s) = LRUBlocks(s)
    <3>1. arg.E \in Nat \ {0} /\ arg.E \in {1, 2}
      BY <2>1, <2>2, SetsAreNumbers
    <3>2. PICK f \in 0 .. arg.E - 1 : lru[s] = InOrder(data[s].lines, f, arg.E)
      BY <2>2 DEF Inv, SetInv
    <3>3. LinesOK(data[s].lines, arg.E)
      BY DEF Inv, SetInv, CsimSetOK
    <3>4. PICK q, L : q = lru[s] /\ L = data[s].lines
      OBVIOUS
    <3>5. {[tag |-> q[i].tag, d |-> q[i].d] : i \in DOMAIN q} =
           {[tag |-> M.tag, d |-> M.d] : M \in {L[i] : i \in {j \in DOMAIN L : L[j].v}}}
      BY <3>1, <3>2, <3>3, <3>4, OrderBlocks
    <3> QED
      BY <3>4, <3>5 DEF CsimBlocks, LRUBlocks
  <2>3. ASSUME NEW s \in Sets, arg.E = 2
        PROVE  DraftBlocks(s) = LRUBlocks(s)
    <3>1. arg.E \in Nat \ {0} /\ arg.E \in {1, 2}
      BY <2>3
    <3>2. PICK f \in 0 .. arg.E - 1 : lru[s] = InOrder(draft[s].lines, f, arg.E)
      BY <2>3 DEF Inv, SetInv
    <3>3. LinesOK(draft[s].lines, arg.E)
      BY DEF Inv, SetInv, DraftSetOK
    <3>4. PICK q, L : q = lru[s] /\ L = draft[s].lines
      OBVIOUS
    <3>5. {[tag |-> q[i].tag, d |-> q[i].d] : i \in DOMAIN q} =
           {[tag |-> M.tag, d |-> M.d] : M \in {L[i] : i \in {j \in DOMAIN L : L[j].v}}}
      BY <3>1, <3>2, <3>3, <3>4, OrderBlocks
    <3> QED
      BY <3>4, <3>5 DEF DraftBlocks, LRUBlocks
  <2>4. printed # <<>> => PrintedCount = CsimCount
    <3> SUFFICES ASSUME printed # <<>> PROVE PrintedCount = CsimCount
      OBVIOUS
    <3>1. /\ printed[1].hits = stats.hits /\ printed[1].misses = stats.misses
          /\ printed[1].evictions = stats.evictions
          /\ printed[1].dirty_evictions = stats.dirty_evictions - 1
      BY <2>1 DEF PrintedInv
    <3>2. /\ stats.hits \in Int /\ stats.misses \in Int /\ stats.evictions \in Int
          /\ stats.dirty_evictions \in Int
          /\ junk.hits \in Int /\ junk.misses \in Int /\ junk.evictions \in Int
          /\ junk.dirty_evictions \in Int
      BY <2>1 DEF StatsType
    <3>3. DOMAIN Zero = {"hits", "misses", "evictions", "dirty_evictions"}
      BY DEF Zero
    <3>4. ASSUME NEW f \in DOMAIN Zero
          PROVE  printed[1][f] - junk[f] + (IF f = "dirty_evictions" THEN 1 ELSE 0)
                   = stats[f] - junk[f]
      BY SMTT(30), <3>1, <3>2, <3>3, <3>4
    <3> QED
      BY <3>4 DEF PrintedCount, CsimCount, Since
  <2>5. /\ arg.E <= 2 => CsimCount = lruCount
        /\ arg.E = 2 => draftCount = lruCount
    BY DEF Inv, CountInv
  <2> QED
    BY <2>1, <2>2, <2>3, <2>4, <2>5 DEF IsLRU
<1> QED
  BY InvAlwaysHolds, <1>1, PTL

\* A victim is found.
THEOREM VictimAlwaysFound == Spec => []DraftFindsVictim
<1>1. Inv => DraftFindsVictim
  <2> SUFFICES ASSUME Inv, NEW s \in DOMAIN draft
               PROVE  /\ draft[s].crashed => arg.E = 1
                      /\ ~draft[s].crashed => \A b \in DraftBlocks(s) :
                            b.tag = draft[s].MRU \/ Contains(draft[s].LRU, b.tag)
    BY DEF DraftFindsVictim
  <2>1. /\ arg \in Arguments /\ s \in Sets
        /\ DraftSetOK(draft[s], arg.E, last[s]) /\ LinesOK(draft[s].lines, arg.E)
    BY DEF Inv, ShapeInv, SetInv, DraftSetOK
  <2>2. draft[s].crashed => arg.E = 1
    BY <2>1 DEF DraftSetOK
  <2>3. ASSUME ~draft[s].crashed, NEW b \in DraftBlocks(s)
        PROVE  Contains(draft[s].LRU, b.tag)
    <3>1. DOMAIN draft[s].lines = 0 .. arg.E - 1
      BY <2>1 DEF LinesOK
    <3>2. PICK j \in 0 .. arg.E - 1 : draft[s].lines[j].v /\ b.tag = draft[s].lines[j].tag
      BY <3>1 DEF DraftBlocks
    <3>3. draft[s].lines[0].v
      <4>1. 0 \in 0 .. arg.E - 1 /\ (j = 0 \/ 0 < j)
        BY <2>1, SetsAreNumbers
      <4> QED
        BY <2>1, <3>2, <4>1 DEF LinesOK
    <3>4. \E k \in DOMAIN draft[s].LRU : draft[s].LRU[k] = draft[s].lines[j].tag
      BY <2>1, <2>3, <3>2, <3>3 DEF DraftSetOK
    <3>5. draft[s].LRU \in Seq(Int)
      BY <2>1 DEF DraftSetOK, DraftType
    <3> QED
      BY <3>2, <3>4, <3>5 DEF Contains
  <2> QED
    BY <2>2, <2>3
<1> QED
  BY InvAlwaysHolds, <1>1, PTL

-----------------------------------------------------------------------------
(* The refinement.                                                         *)

\* The counts with the dirty evictions in blocks.
InBlocks(c) == [c EXCEPT !.dirty_evictions = @ \div Pow2[arg.b]]

\* Counts are the same if their fields are.
LEMMA SameCounts ==
    ASSUME NEW c \in CountType, NEW k \in CountType,
           c.hits = k.hits, c.misses = k.misses, c.evictions = k.evictions,
           c.dirty_evictions = k.dirty_evictions
    PROVE  c = k
BY DEF CountType

\* One block more in bytes is one more in blocks.
LEMMA BlocksInBytes ==
    ASSUME NEW p \in Nat \ {0}, NEW x \in Int
    PROVE  (x + p) \div p = (x \div p) + 1
OBVIOUS

\* What an access does to such counts.
CountStep(k, m, h, e, d) ==
    /\ h /\ ~e => m = [k EXCEPT !.hits = @ + 1]
    /\ ~h /\ ~e => m = [k EXCEPT !.misses = @ + 1]
    /\ ~h /\ e => m = [k EXCEPT !.misses = @ + 1, !.evictions = @ + 1,
                               !.dirty_evictions = @ + IF d THEN 1 ELSE 0]

\* Counted does it.
LEMMA CountedInBlocks ==
    ASSUME arg \in Arguments, NEW c \in CountType, NEW h, NEW e, NEW d,
           NEW n, n = Counted(c, h, e, d)
    PROVE  CountStep(InBlocks(c), InBlocks(n), h, e, d)
<1>1. PICK p \in Nat \ {0} : p = Pow2[arg.b]
  BY SetsAreNumbers
<1>2. PICK k, m : k = InBlocks(c) /\ m = InBlocks(n)
  OBVIOUS
<1>3. n \in CountType
  BY CountedType
<1>4. /\ n.hits = c.hits + IF h THEN 1 ELSE 0
      /\ n.misses = c.misses + IF h THEN 0 ELSE 1
      /\ n.evictions = c.evictions + IF e THEN 1 ELSE 0
      /\ n.dirty_evictions = c.dirty_evictions + IF e /\ d THEN p ELSE 0
  BY <1>1 DEF Counted
<1>5. \A x \in Int : x \div p \in Int
  OBVIOUS
<1>6. /\ k \in CountType /\ k.hits = c.hits /\ k.misses = c.misses /\ k.evictions = c.evictions
      /\ k.dirty_evictions = c.dirty_evictions \div p
  <2>1. PICK x \in Int : x = c.dirty_evictions \div p
    BY <1>5 DEF CountType
  <2>2. k = [c EXCEPT !.dirty_evictions = x]
    BY <1>1, <1>2, <2>1 DEF InBlocks
  <2> QED
    BY <2>1, <2>2 DEF CountType
<1>7. /\ m \in CountType /\ m.hits = n.hits /\ m.misses = n.misses /\ m.evictions = n.evictions
      /\ m.dirty_evictions = n.dirty_evictions \div p
  <2>1. PICK x \in Int : x = n.dirty_evictions \div p
    BY <1>3, <1>5 DEF CountType
  <2>2. m = [n EXCEPT !.dirty_evictions = x]
    BY <1>1, <1>2, <2>1 DEF InBlocks
  <2> QED
    BY <1>3, <2>1, <2>2 DEF CountType
<1>8. /\ c.hits \in Int /\ c.misses \in Int /\ c.evictions \in Int /\ c.dirty_evictions \in Int
      /\ k.dirty_evictions \in Int
  BY <1>6 DEF CountType
<1> SUFFICES CountStep(k, m, h, e, d)
  BY <1>2
<1>9. CASE h /\ ~e
  <2>1. PICK r : r = [k EXCEPT !.hits = @ + 1]
    OBVIOUS
  <2>2. /\ r \in CountType /\ r.hits = k.hits + 1 /\ r.misses = k.misses
        /\ r.evictions = k.evictions /\ r.dirty_evictions = k.dirty_evictions
    BY <1>6, <2>1 DEF CountType
  <2>3. m = r
    <3>1. /\ m.hits = r.hits /\ m.misses = r.misses /\ m.evictions = r.evictions
          /\ m.dirty_evictions = r.dirty_evictions
      BY <1>4, <1>6, <1>7, <1>8, <1>9, <2>2
    <3> QED
      BY <1>7, <2>2, <3>1, SameCounts
  <2> QED
    BY <1>9, <2>1, <2>3 DEF CountStep
<1>10. CASE ~h /\ ~e
  <2>1. PICK r : r = [k EXCEPT !.misses = @ + 1]
    OBVIOUS
  <2>2. /\ r \in CountType /\ r.hits = k.hits /\ r.misses = k.misses + 1
        /\ r.evictions = k.evictions /\ r.dirty_evictions = k.dirty_evictions
    BY <1>6, <2>1 DEF CountType
  <2>3. m = r
    <3>1. /\ m.hits = r.hits /\ m.misses = r.misses /\ m.evictions = r.evictions
          /\ m.dirty_evictions = r.dirty_evictions
      BY <1>4, <1>6, <1>7, <1>8, <1>10, <2>2
    <3> QED
      BY <1>7, <2>2, <3>1, SameCounts
  <2> QED
    BY <1>10, <2>1, <2>3 DEF CountStep
<1>11. CASE ~h /\ e
  <2>1. PICK x \in Int, y \in Int, z \in Int :
          /\ x = k.misses + 1 /\ y = k.evictions + 1
          /\ z = k.dirty_evictions + IF d THEN 1 ELSE 0
    BY <1>6, <1>8
  <2>2. PICK r : r = [k EXCEPT !.misses = x, !.evictions = y, !.dirty_evictions = z]
    OBVIOUS
  <2>3. /\ r \in CountType /\ r.hits = k.hits /\ r.misses = x
        /\ r.evictions = y /\ r.dirty_evictions = z
    BY <1>6, <2>1, <2>2 DEF CountType
  <2>4. m.dirty_evictions = z
    <3>1. CASE d
      BY <1>4, <1>6, <1>7, <1>8, <1>11, <2>1, <3>1, BlocksInBytes
    <3>2. CASE ~d
      BY <1>4, <1>6, <1>7, <1>8, <1>11, <2>1, <3>2
    <3> QED
      BY <3>1, <3>2
  <2>5. m = r
    <3>1. m.hits = r.hits /\ m.misses = r.misses /\ m.evictions = r.evictions
      BY <1>4, <1>6, <1>7, <1>8, <1>11, <2>1, <2>3
    <3> QED
      BY <1>7, <2>3, <2>4, <3>1, SameCounts
  <2>6. r = [k EXCEPT !.misses = @ + 1, !.evictions = @ + 1,
                      !.dirty_evictions = @ + IF d THEN 1 ELSE 0]
    BY <2>1, <2>2
  <2> QED
    BY <1>11, <2>5, <2>6 DEF CountStep
<1> QED
  BY <1>9, <1>10, <1>11 DEF CountStep

\* A set with no valid line holds no block.
LEMMA NoBlocks ==
    ASSUME NEW E \in Nat \ {0}, NEW set, set.lines = [j \in 0 .. E - 1 |-> EmptyLine]
    PROVE  BlocksOf(set) = CsimCache!BCEmpty
<1>1. TagsOf(set) = {}
  BY DEF TagsOf, EmptyLine
<1> QED
  BY <1>1 DEF BlocksOf, CsimCache!BCEmpty

\* The count of a fresh cache.
LEMMA NoneInBlocks ==
    ASSUME arg \in Arguments
    PROVE  InBlocks(Zero) = CsimCache!NoCounts
<1>1. PICK p \in Nat \ {0} : p = Pow2[arg.b]
  BY SetsAreNumbers
<1>2. 0 \div p = 0
  OBVIOUS
<1>3. InBlocks(Zero) = [Zero EXCEPT !.dirty_evictions = 0]
  BY <1>1, <1>2 DEF InBlocks, Zero
<1> QED
  BY <1>3 DEF Zero, CsimCache!NoCounts

\* Cardinality as BlockCache knows it.
LEMMA CacheCardinality ==
    \A S : CsimCache!Cardinality(S) = Cardinality(S) /\ DraftCache!Cardinality(S) = Cardinality(S)
BY Zenon DEF CsimCache!Cardinality, DraftCache!Cardinality, Cardinality

\* Both start as caches that hold nothing.
LEMMA CachesStart == Init => CsimCache!BCInit /\ DraftCache!BCInit
<1> SUFFICES ASSUME Init PROVE CsimCache!BCInit /\ DraftCache!BCInit
  OBVIOUS
<1>1. /\ arg \in Arguments /\ draftCount = Zero
      /\ data = [i \in Sets |-> InitSet(arg.E)]
      /\ draft = [i \in Sets |-> Draft!DraftSet(arg.E)]
      /\ last = [i \in Sets |-> <<>>]
  BY DEF Init, CsimInit, Sets
<1>2. arg.E \in Nat \ {0}
  BY <1>1, SetsAreNumbers
<1>3. CsimCount = Zero
  <2>1. junk \in StatsType /\ stats = junk
    BY CsimAssumption DEF Init, CsimInit, StatsType
  <2> QED
    BY <2>1 DEF CsimCount, Since, Zero, StatsType
<1>4. ASSUME NEW s \in Sets
      PROVE  BlocksOf(data[s]) = CsimCache!BCEmpty /\ BlocksOf(draft[s]) = CsimCache!BCEmpty
  <2>1. data[s].lines = [j \in 0 .. arg.E - 1 |-> EmptyLine]
    BY <1>1 DEF InitSet
  <2>2. draft[s].lines = [j \in 0 .. arg.E - 1 |-> EmptyLine]
    BY <1>1 DEF Draft!DraftSet, Draft!DraftLine, EmptyLine
  <2> QED
    BY <1>2, <2>1, <2>2, NoBlocks
<1>5. DOMAIN data = Sets /\ DOMAIN draft = Sets
  BY <1>1
<1>6. /\ [s \in DOMAIN data |-> BlocksOf(data[s])] = [s \in Sets |-> CsimCache!BCEmpty]
      /\ [s \in DOMAIN draft |-> BlocksOf(draft[s])] = [s \in Sets |-> CsimCache!BCEmpty]
  BY <1>4, <1>5
<1>7. InBlocks(CsimCount) = CsimCache!NoCounts /\ InBlocks(draftCount) = CsimCache!NoCounts
  BY <1>1, <1>3, NoneInBlocks
<1>8. CsimCache!BCInit
  <2> DEFINE R == [s \in DOMAIN data |-> BlocksOf(data[s])]
  <2>1. R = [s \in Sets |-> CsimCache!BCEmpty] /\ DOMAIN R = Sets
    BY <1>6
  <2> HIDE DEF R
  <2>2. R = [s \in DOMAIN R |-> CsimCache!BCEmpty] /\ last = [s \in DOMAIN R |-> <<>>]
    BY <1>1, <2>1
  <2> QED
    BY <1>2, <1>7, <2>2 DEF CsimCache!BCInit, R, InBlocks
<1>9. DraftCache!BCInit
  <2> DEFINE R == [s \in DOMAIN draft |-> BlocksOf(draft[s])]
  <2>1. R = [s \in Sets |-> CsimCache!BCEmpty] /\ DOMAIN R = Sets
    BY <1>6
  <2> HIDE DEF R
  <2>2. R = [s \in DOMAIN R |-> CsimCache!BCEmpty] /\ last = [s \in DOMAIN R |-> <<>>]
    BY <1>1, <2>1
  <2>3. CsimCache!BCEmpty = DraftCache!BCEmpty /\ CsimCache!NoCounts = DraftCache!NoCounts
    BY DEF CsimCache!BCEmpty, DraftCache!BCEmpty, CsimCache!NoCounts, DraftCache!NoCounts
  <2> QED
    BY <1>2, <1>7, <2>2, <2>3 DEF DraftCache!BCInit, R, InBlocks
<1> QED
  BY <1>8, <1>9

\* Every access is one of the cache csim implements.
LEMMA CsimRefines ==
    ASSUME Inv, NEW a \in Addr, NEW store \in BOOLEAN, Access(a, store)
    PROVE  CsimCache!BCNext(Tags)
<1> DEFINE R == [x \in DOMAIN data |-> BlocksOf(data[x])]
           K == InBlocks(CsimCount)
<1>1. PICK s, t : s = SetIndex(a) /\ t = TagOf(a)
  OBVIOUS
<1>2. PICK kind, i : CsimStep(kind, s, i, t, store)
  BY <1>1, CsimAccess
<1>3. /\ s \in Sets /\ t \in Int /\ t \in Tags /\ arg \in Arguments /\ arg' = arg
      /\ data = [x \in Sets |-> data[x]] /\ last' = [last EXCEPT ![s] = <<t, store>>]
      /\ CsimSetOK(data[s], arg.E, last[s])
  BY <1>1, CsimAccess DEF Inv, ShapeInv, SetInv, Tags, Access, Load
<1>4. arg.E \in Nat \ {0} /\ 0 \in 0 .. arg.E - 1
  BY <1>3, SetsAreNumbers
<1>5. data' = [data EXCEPT ![s] = data'[s]] /\ DOMAIN data = Sets /\ s \in DOMAIN R
  BY <1>2, <1>3 DEF CsimStep
<1>6. R[s] = BlocksOf(data[s]) /\ R' = [R EXCEPT ![s] = BlocksOf(data'[s])]
  <2>1. \A x \in Sets : data'[x] = IF x = s THEN data'[s] ELSE data[x]
    BY <1>3, <1>5
  <2>2. DOMAIN data' = Sets
    BY <1>5
  <2> QED
    BY <1>3, <1>5, <2>1, <2>2
<1>7. PICK L, M : L = data[s].lines /\ M = data'[s].lines
  OBVIOUS
<1>8. /\ Step(kind, L, M, i, t, store, arg.E) /\ LinesOK(L, arg.E)
      /\ kind \in {"hit", "fill", "evict"}
  BY <1>2, <1>3, <1>7 DEF CsimStep, CsimSetOK
<1>9. PICK A, N, u : A = R[s] /\ N = BlocksOf(data'[s]) /\ u = L[i].tag
  OBVIOUS
<1>10. BlocksStep(kind, A, N, u, L[i].d, t, store, arg.E)
  <2>1. PICK X, Y : X = data[s] /\ Y = data'[s]
    OBVIOUS
  <2>2. Step(kind, X.lines, Y.lines, i, t, store, arg.E) /\ LinesOK(X.lines, arg.E)
    BY <1>7, <1>8, <2>1
  <2>3. A = BlocksOf(X) /\ N = BlocksOf(Y) /\ u = X.lines[i].tag /\ L = X.lines
    BY <1>6, <1>7, <1>9, <2>1
  <2> HIDE DEF R
  <2> QED
    BY <1>3, <1>4, <2>2, <2>3, BlocksFollow
<1>11. /\ kind = "hit" => K' = [K EXCEPT !.hits = @ + 1]
       /\ kind = "fill" => K' = [K EXCEPT !.misses = @ + 1]
       /\ kind = "evict" => K' = [K EXCEPT !.misses = @ + 1, !.evictions = @ + 1,
                                 !.dirty_evictions = @ + IF A[u] THEN 1 ELSE 0]
  <2>1. CsimCount' = Counted(CsimCount, kind = "hit", kind = "evict", L[i].d)
    BY <1>2, <1>7 DEF CsimStep
  <2>2. CsimCount \in CountType
    <3>1. /\ stats.hits \in Int /\ stats.misses \in Int /\ stats.evictions \in Int
          /\ stats.dirty_evictions \in Int
          /\ junk.hits \in Int /\ junk.misses \in Int /\ junk.evictions \in Int
          /\ junk.dirty_evictions \in Int
      BY DEF Inv, CountInv, StatsType
    <3> QED
      BY <3>1 DEF CsimCount, Since, Zero, CountType
  <2>3. PICK h, e, d : h = (kind = "hit") /\ e = (kind = "evict") /\ d = L[i].d
    OBVIOUS
  <2>4. PICK n : n = CsimCount' /\ n = Counted(CsimCount, h, e, d)
    BY <2>1, <2>3
  <2>5. K' = InBlocks(n)
    BY <1>3, <2>4 DEF InBlocks
  <2> HIDE DEF K
  <2>6. CountStep(InBlocks(CsimCount), InBlocks(n), h, e, d)
    BY <1>3, <2>2, <2>4, CountedInBlocks
  <2>7. kind = "evict" => A[u] = d
    BY <1>10, <2>3 DEF BlocksStep
  <2> QED
    BY <2>3, <2>5, <2>6, <2>7 DEF K, CountStep
<1> HIDE DEF R, K
<1>12. \A blocks : R' = [R EXCEPT ![s] = blocks] => CsimCache!Use(s, blocks, t, store)
  BY <1>3 DEF CsimCache!Use, R
<1>13. CASE kind = "hit"
  <2>1. CsimCache!Use(s, CsimCache!With(R[s], t, R[s][t] \/ store), t, store)
    BY <1>6, <1>9, <1>10, <1>12, <1>13 DEF BlocksStep
  <2>2. t \in DOMAIN R[s] /\ K' = [K EXCEPT !.hits = @ + 1]
    BY <1>9, <1>10, <1>11, <1>13 DEF BlocksStep
  <2>3. CsimCache!Hit(s, t, store)
    BY <2>1, <2>2 DEF CsimCache!Hit, R, K, InBlocks
  <2> QED
    BY <1>3, <1>5, <2>3 DEF CsimCache!BCNext, R
<1>14. CASE kind = "fill"
  <2>1. CsimCache!Use(s, CsimCache!With(R[s], t, store), t, store)
    BY <1>6, <1>9, <1>10, <1>12, <1>14 DEF BlocksStep
  <2>2. /\ t \notin DOMAIN R[s] /\ Cardinality(DOMAIN R[s]) < arg.E
        /\ K' = [K EXCEPT !.misses = @ + 1]
    BY <1>9, <1>10, <1>11, <1>14 DEF BlocksStep
  <2>3. CsimCache!Fill(s, t, store)
    <3>1. CsimCache!Fill(s, t, store) <=>
            /\ t \notin DOMAIN R[s] /\ Cardinality(DOMAIN R[s]) < arg.E
            /\ CsimCache!Use(s, CsimCache!With(R[s], t, store), t, store)
            /\ K' = [K EXCEPT !.misses = @ + 1]
      BY CacheCardinality DEF CsimCache!Fill, R, K, InBlocks
    <3> QED
      BY <2>1, <2>2, <3>1
  <2> QED
    BY <1>3, <1>5, <2>3 DEF CsimCache!BCNext, R
<1>15. CASE kind = "evict"
  <2>1. CsimCache!Use(s, CsimCache!With(CsimCache!Without(R[s], u), t, store), t, store)
    BY <1>6, <1>9, <1>10, <1>12, <1>15 DEF BlocksStep
  <2>2. /\ t \notin DOMAIN R[s] /\ Cardinality(DOMAIN R[s]) = arg.E /\ u \in DOMAIN R[s]
        /\ K' = [K EXCEPT !.misses = @ + 1, !.evictions = @ + 1,
                          !.dirty_evictions = @ + IF R[s][u] THEN 1 ELSE 0]
    BY <1>9, <1>10, <1>11, <1>15 DEF BlocksStep
  <2>3. u # last[s][1] \/ arg.E = 1
    <3>1. i = data[s].LRU /\ i \in 0 .. arg.E - 1 /\ L[0].v /\ L[i].v
      BY <1>2, <1>4, <1>8, <1>15 DEF CsimStep, Step
    <3> QED
      BY <1>3, <1>4, <1>7, <1>9, <3>1 DEF CsimSetOK
  <2>4. CsimCache!Evict(s, t, store)
    <3>1. CsimCache!Evict(s, t, store) <=>
            /\ t \notin DOMAIN R[s] /\ Cardinality(DOMAIN R[s]) = arg.E
            /\ \E victim \in DOMAIN R[s] :
                 /\ victim # last[s][1] \/ arg.E = 1
                 /\ CsimCache!Use(s, CsimCache!With(CsimCache!Without(R[s], victim), t, store),
                                  t, store)
                 /\ K' = [K EXCEPT !.misses = @ + 1, !.evictions = @ + 1,
                                   !.dirty_evictions = @ + IF R[s][victim] THEN 1 ELSE 0]
      BY CacheCardinality DEF CsimCache!Evict, R, K, InBlocks
    <3> QED
      BY <2>1, <2>2, <2>3, <3>1
  <2> QED
    BY <1>3, <1>5, <2>4 DEF CsimCache!BCNext, R
<1> QED
  BY <1>8, <1>13, <1>14, <1>15

\* So is every access of csimCP that does not crash.
LEMMA DraftRefines ==
    ASSUME Inv, NEW a \in Addr, NEW store \in BOOLEAN, Access(a, store)
    PROVE  (\E x \in DOMAIN draft : draft'[x].crashed) \/ DraftCache!BCNext(Tags)
<1> DEFINE R == [x \in DOMAIN draft |-> BlocksOf(draft[x])]
           K == InBlocks(draftCount)
<1>1. PICK s, t : s = SetIndex(a) /\ t = TagOf(a)
  OBVIOUS
<1>2. /\ s \in Sets /\ t \in Int /\ t \in Tags /\ arg \in Arguments /\ arg' = arg
      /\ draft = [x \in Sets |-> draft[x]] /\ last' = [last EXCEPT ![s] = <<t, store>>]
      /\ DraftSetOK(draft[s], arg.E, last[s]) /\ DraftAccess(s, t, store)
      /\ draftCount \in CountType
  BY <1>1, CsimAccess DEF Inv, ShapeInv, SetInv, CountInv, Tags, Access, Load
<1>3. DOMAIN draft = Sets
  BY <1>2
<1>4. CASE draft'[s].crashed
  BY <1>2, <1>3, <1>4
<1>5. CASE ~draft'[s].crashed
  <2>1. PICK kind, i : DraftStep(kind, s, i, t, store)
    BY <1>2, <1>5, DraftAccessed
  <2>2. draft' = [draft EXCEPT ![s] = draft'[s]] /\ s \in DOMAIN R
    <3>1. s \in DOMAIN R
      BY <1>2, <1>3
    <3> HIDE DEF R, K
    <3>2. draft' = [draft EXCEPT ![s] = draft'[s]]
      BY <1>2, DraftAccessed
    <3> QED
      BY <3>1, <3>2
  <2>3. arg.E \in Nat \ {0} /\ 0 \in 0 .. arg.E - 1
    BY <1>2, SetsAreNumbers
  <2>4. R[s] = BlocksOf(draft[s]) /\ R' = [R EXCEPT ![s] = BlocksOf(draft'[s])]
    <3>1. \A x \in Sets : draft'[x] = IF x = s THEN draft'[s] ELSE draft[x]
      BY <1>2, <2>2
    <3>2. DOMAIN draft' = Sets
      BY <1>3, <2>2
    <3> QED
      BY <1>2, <1>3, <3>1, <3>2
  <2>5. PICK X, Y : X = draft[s] /\ Y = draft'[s]
    OBVIOUS
  <2>6. /\ Step(kind, X.lines, Y.lines, i, t, store, arg.E) /\ LinesOK(X.lines, arg.E)
        /\ kind \in {"hit", "fill", "evict"}
    BY <1>2, <2>1, <2>5 DEF DraftStep, DraftSetOK
  <2>7. PICK A, N, u : A = BlocksOf(X) /\ N = BlocksOf(Y) /\ u = X.lines[i].tag
    OBVIOUS
  <2>8. BlocksStep(kind, A, N, u, X.lines[i].d, t, store, arg.E)
    <3> HIDE DEF R
    <3> QED
      BY <1>2, <2>3, <2>6, <2>7, BlocksFollow
  <2>9. /\ kind = "hit" => K' = [K EXCEPT !.hits = @ + 1]
        /\ kind = "fill" => K' = [K EXCEPT !.misses = @ + 1]
        /\ kind = "evict" => K' = [K EXCEPT !.misses = @ + 1, !.evictions = @ + 1,
                                   !.dirty_evictions = @ + IF A[u] THEN 1 ELSE 0]
    <3>1. PICK h, e, d : h = (kind = "hit") /\ e = (kind = "evict") /\ d = X.lines[i].d
      OBVIOUS
    <3>2. PICK n : n = draftCount' /\ n = Counted(draftCount, h, e, d)
      BY <2>1, <2>5, <3>1 DEF DraftStep
    <3>3. K' = InBlocks(n)
      BY <1>2, <3>2 DEF InBlocks
    <3> HIDE DEF K
    <3>4. CountStep(InBlocks(draftCount), InBlocks(n), h, e, d)
      BY <1>2, <3>2, CountedInBlocks
    <3>5. kind = "evict" => A[u] = d
      BY <2>8, <3>1 DEF BlocksStep
    <3> QED
      BY <3>1, <3>3, <3>4, <3>5 DEF K, CountStep
  <2> HIDE DEF R, K
  <2>10. A = R[s] /\ R' = [R EXCEPT ![s] = N]
    BY <2>4, <2>5, <2>7
  <2>11. \A blocks : R' = [R EXCEPT ![s] = blocks] => DraftCache!Use(s, blocks, t, store)
    BY <1>2 DEF DraftCache!Use, R
  <2>12. /\ \A B, x, d : CsimCache!With(B, x, d) = DraftCache!With(B, x, d)
         /\ \A B, x : CsimCache!Without(B, x) = DraftCache!Without(B, x)
    BY DEF CsimCache!With, DraftCache!With, CsimCache!Without, DraftCache!Without
  <2>13. CASE kind = "hit"
    <3>1. PICK d : d = (A[t] \/ store) /\ N = CsimCache!With(A, t, d)
      BY <2>8, <2>13 DEF BlocksStep
    <3>2. DraftCache!Use(s, DraftCache!With(R[s], t, d), t, store)
      BY <2>10, <2>11, <2>12, <3>1
    <3>3. DraftCache!Use(s, DraftCache!With(R[s], t, R[s][t] \/ store), t, store)
      BY <2>10, <3>1, <3>2
    <3>4. t \in DOMAIN R[s] /\ K' = [K EXCEPT !.hits = @ + 1]
      BY <2>8, <2>9, <2>10, <2>13 DEF BlocksStep
    <3>5. DraftCache!Hit(s, t, store)
      BY <3>3, <3>4 DEF DraftCache!Hit, R, K, InBlocks
    <3> QED
      BY <1>2, <2>2, <3>5 DEF DraftCache!BCNext, R
  <2>14. CASE kind = "fill"
    <3>1. DraftCache!Use(s, DraftCache!With(R[s], t, store), t, store)
      BY <2>8, <2>10, <2>11, <2>12, <2>14 DEF BlocksStep
    <3>2. /\ t \notin DOMAIN R[s] /\ Cardinality(DOMAIN R[s]) < arg.E
          /\ K' = [K EXCEPT !.misses = @ + 1]
      BY <2>8, <2>9, <2>10, <2>14 DEF BlocksStep
    <3>3. DraftCache!Fill(s, t, store)
      <4>1. DraftCache!Fill(s, t, store) <=>
              /\ t \notin DOMAIN R[s] /\ Cardinality(DOMAIN R[s]) < arg.E
              /\ DraftCache!Use(s, DraftCache!With(R[s], t, store), t, store)
              /\ K' = [K EXCEPT !.misses = @ + 1]
        BY CacheCardinality DEF DraftCache!Fill, R, K, InBlocks
      <4> QED
        BY <3>1, <3>2, <4>1
    <3> QED
      BY <1>2, <2>2, <3>3 DEF DraftCache!BCNext, R
  <2>15. CASE kind = "evict"
    <3>1. DraftCache!Use(s, DraftCache!With(DraftCache!Without(R[s], u), t, store), t, store)
      BY <2>8, <2>10, <2>11, <2>12, <2>15 DEF BlocksStep
    <3>2. /\ t \notin DOMAIN R[s] /\ Cardinality(DOMAIN R[s]) = arg.E /\ u \in DOMAIN R[s]
          /\ K' = [K EXCEPT !.misses = @ + 1, !.evictions = @ + 1,
                            !.dirty_evictions = @ + IF R[s][u] THEN 1 ELSE 0]
      BY <2>8, <2>9, <2>10, <2>15 DEF BlocksStep
    <3>3. u # last[s][1]
      <4>1. X.lines[0].v
        BY <2>3, <2>6, <2>15 DEF Step
      <4>2. ~X.crashed
        <5>1. draft'[s].crashed \/ ~draft[s].crashed
          BY <1>2 DEF DraftAccess
        <5> QED
          BY <1>5, <2>5, <5>1
      <4>3. X.MRU = last[s][1]
        BY <1>2, <2>5, <4>1, <4>2 DEF DraftSetOK
      <4> QED
        BY <2>1, <2>5, <2>7, <2>15, <4>3 DEF DraftStep
    <3>4. DraftCache!Evict(s, t, store)
      <4>1. DraftCache!Evict(s, t, store) <=>
              /\ t \notin DOMAIN R[s] /\ Cardinality(DOMAIN R[s]) = arg.E
              /\ \E victim \in DOMAIN R[s] :
                   /\ victim # last[s][1] \/ arg.E = 1
                   /\ DraftCache!Use(s, DraftCache!With(DraftCache!Without(R[s], victim), t, store),
                                     t, store)
                   /\ K' = [K EXCEPT !.misses = @ + 1, !.evictions = @ + 1,
                                     !.dirty_evictions = @ + IF R[s][victim] THEN 1 ELSE 0]
        BY CacheCardinality DEF DraftCache!Evict, R, K, InBlocks
      <4> QED
        BY <3>1, <3>2, <3>3, <4>1
    <3> QED
      BY <1>2, <2>2, <3>4 DEF DraftCache!BCNext, R
  <2> QED
    BY <2>6, <2>13, <2>14, <2>15
<1> QED
  BY <1>4, <1>5

\* The end of the trace changes nothing of the caches.
LEMMA CachesKept ==
    ASSUME EndOfTrace \/ UNCHANGED vars
    PROVE  UNCHANGED CsimCache!bcVars /\ UNCHANGED DraftCache!bcVars
<1>1. UNCHANGED <<arg, data, stats, junk, last, draft, draftCount>>
  BY DEF EndOfTrace, Summary, vars
<1>2. UNCHANGED CsimCount
  BY <1>1 DEF CsimCount, Since
<1> QED
  BY <1>1, <1>2 DEF CsimCache!bcVars, DraftCache!bcVars

\* Both implement BlockCache.
THEOREM SimulatorsImplementCache == Spec => ImplementsCache
<1>1. Init => CsimCache!BCInit /\ DraftCache!BCInit
  BY CachesStart
<1>2. Inv /\ [Next]_vars => [CsimCache!BCNext(Tags)]_(CsimCache!bcVars)
  <2> SUFFICES ASSUME Inv, [Next]_vars
               PROVE  CsimCache!BCNext(Tags) \/ UNCHANGED CsimCache!bcVars
    OBVIOUS
  <2>1. CASE \E a \in Addr, store \in BOOLEAN : Access(a, store)
    BY <2>1, CsimRefines
  <2>2. CASE EndOfTrace \/ UNCHANGED vars
    BY <2>2, CachesKept
  <2> QED
    BY <2>1, <2>2 DEF Next
<1>3. Inv /\ [Next]_vars =>
        [(\E s \in DOMAIN draft : draft'[s].crashed) \/ DraftCache!BCNext(Tags)]_(DraftCache!bcVars)
  <2> SUFFICES ASSUME Inv, [Next]_vars
               PROVE  \/ (\E s \in DOMAIN draft : draft'[s].crashed) \/ DraftCache!BCNext(Tags)
                      \/ UNCHANGED DraftCache!bcVars
    OBVIOUS
  <2>1. CASE \E a \in Addr, store \in BOOLEAN : Access(a, store)
    BY <2>1, DraftRefines
  <2>2. CASE EndOfTrace \/ UNCHANGED vars
    BY <2>2, CachesKept
  <2> QED
    BY <2>1, <2>2 DEF Next
<1> QED
  BY InvAlwaysHolds, <1>1, <1>2, <1>3, PTL DEF Spec, ImplementsCache

=============================================================================
