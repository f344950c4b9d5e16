---------------------------- MODULE SparseMemProof ----------------------------
(***************************************************************************)
(* The sparse emulation implements a flat memory, for any page size, any   *)
(* number of pages and of hash chains, any bytes and any lengths.          *)
(*                                                                         *)
(* MemOK(m) is the page table between two calls: the pages handed out are  *)
(* the first of the array, each has an id of its own and is in the chain   *)
(* of that id, and nothing else is.  An access is put into three           *)
(* predicates over the flat view (the break, the bytes written and the     *)
(* pages touched): Accessed, Found and Blamed say what it leaves, what it  *)
(* reads and why it ends the program.  They compose, so that the parts of  *)
(* an access over two pages, and the turns of the copying loops, each need *)
(* one lemma.                                                              *)
(***************************************************************************)
EXTENDS SparseMem, FiniteSetTheorems, WellFoundedInduction, TLAPS

-----------------------------------------------------------------------------
(* The page table.                                                         *)

Slot == 1 .. NumPages
InPage == 0 .. PageSize - 1
Bucket == 0 .. NumBuckets - 1
Page == [id : Nat, initSet : SUBSET InPage, bytes : [InPage -> Byte]]

MemType == [brk : 0 .. MaxHeap, page_table : [Bucket -> Seq(Slot)], pages : [Slot -> Page],
            num_free_pages : 0 .. NumPages, checkUB : BOOLEAN, fault : {"none", "segv", "exhausted", "uninitialized"}]

\* The pages that have been handed out.
Used(m) == 1 .. NumPages - m.num_free_pages

\* The chains hold those, each in the chain of its id.
ChainsSound(m) ==
    \A b \in Bucket : \A i \in DOMAIN m.page_table[b] :
        m.page_table[b][i] \in Used(m) /\ m.pages[m.page_table[b][i]].id % NumBuckets = b
Chained(m, s) ==
    \E i \in DOMAIN m.page_table[m.pages[s].id % NumBuckets] :
        m.page_table[m.pages[s].id % NumBuckets][i] = s

MemOK(m) ==
    /\ m \in MemType
    /\ ChainsSound(m)
    /\ \A s \in Used(m) : Chained(m, s)
    /\ \A s, t \in Used(m) : m.pages[s].id = m.pages[t].id => s = t

-----------------------------------------------------------------------------
(* Numbers.                                                                *)

LEMMA LeastNatural ==
    ASSUME NEW T \in SUBSET Nat, T # {}
    PROVE  Min(T) \in T /\ \A j \in T : Min(T) <= j
<1>1. PICK R : IsWellFoundedOn(R, Nat) /\ \A x, y \in Nat : x < y => <<x, y>> \in R
  BY NatLessThanWellFounded DEF OpToRel
<1>2. IsWellFoundedOn(R, Nat)
  BY <1>1
<1>3. PICK x \in T : \A y \in T : ~(<<y, x>> \in R)
  BY <1>2, WFMin
<1>4. ASSUME NEW y \in T PROVE x <= y
  <2>1. x \in Nat /\ y \in Nat
    OBVIOUS
  <2>2. ~(y < x)
    BY <1>1, <1>3, <2>1
  <2> QED
    BY <2>1, <2>2
<1> QED
  BY <1>4 DEF Min

\* An address is in its page, at its offset.
LEMMA Addresses ==
    ASSUME NEW a \in Nat
    PROVE  /\ PageId(a) \in Nat /\ Offset(a) \in InPage /\ Offset(a) \in Nat /\ Offset(a) < PageSize
           /\ a = PageSize * PageId(a) + Offset(a)
<1>1. PageSize \in Nat \ {0}
  BY SparseAssumption
<1> DEFINE q == a \div PageSize
           r == a % PageSize
<1>2. q \in Int /\ r \in 0 .. PageSize - 1 /\ a = PageSize * q + r
  BY <1>1
<1>3. q >= 0
  BY <1>1
<1> QED
  BY <1>1, <1>2, <1>3 DEF PageId, Offset, InPage

\* Quotient and remainder are unique.
LEMMA QuotientUnique ==
    ASSUME NEW p \in Nat \ {0}, NEW q \in Nat, NEW r \in 0 .. p - 1
    PROVE  (p * q + r) \div p = q /\ (p * q + r) % p = r
<1> DEFINE x == p * q + r
<1>0. x \in Nat
  <2>1. p * q \in Nat
    OBVIOUS
  <2> QED
    BY <2>1
<1> HIDE DEF x
<1>1. PICK d \in Int : d = x \div p
  BY <1>0
<1>2. PICK e \in 0 .. p - 1 : e = x % p
  BY <1>0
<1>3. x = p * d + e
  BY <1>0, <1>1, <1>2
<1>4. p * d + e = p * q + r
  BY <1>3 DEF x
<1>5. \A u, v \in Int : u < v => p * u + p <= p * v
  <2> TAKE u, v \in Int
  <2> HAVE u < v
  <2>1. v - u - 1 \in Nat
    OBVIOUS
  <2>2. \A w \in Nat : p * w \in Nat
    OBVIOUS
  <2>3. p * (v - u - 1) >= 0
    BY <2>1, <2>2
  <2>4. p * (v - u - 1) = p * v - p * u - p
    OBVIOUS
  <2>5. p * v \in Int /\ p * u \in Int
    OBVIOUS
  <2> QED
    BY <2>3, <2>4, <2>5
<1>6. p * d \in Int /\ p * q \in Int
  OBVIOUS
<1>7. ~(d < q) /\ ~(q < d)
  BY <1>4, <1>5, <1>6
<1>8. d = q
  BY <1>7
<1>9. e = r
  BY <1>4, <1>6, <1>8
<1> QED
  BY <1>1, <1>2, <1>8, <1>9 DEF x

\* The addresses from a on up to the end of its page are in its page.
LEMMA SamePage ==
    ASSUME NEW a \in Nat, NEW i \in Nat, Offset(a) + i < PageSize
    PROVE  PageId(a + i) = PageId(a) /\ Offset(a + i) = Offset(a) + i
<1>1. PageSize \in Nat \ {0}
  BY SparseAssumption
<1>2. PageId(a) \in Nat /\ Offset(a) \in Nat /\ a = PageSize * PageId(a) + Offset(a)
  BY Addresses
<1> DEFINE q == PageId(a)
           r == Offset(a) + i
<1>3. a + i = PageSize * q + r /\ q \in Nat /\ r \in Nat /\ r < PageSize
  <2>1. PageSize * q \in Nat
    BY <1>1, <1>2
  <2> QED
    BY <1>2, <2>1
<1> HIDE DEF q, r
<1>4. (PageSize * q + r) \div PageSize = q /\ (PageSize * q + r) % PageSize = r
  <2>1. r \in 0 .. PageSize - 1
    BY <1>1, <1>3
  <2> QED
    BY <1>1, <1>3, <2>1, QuotientUnique
<1> QED
  BY <1>3, <1>4 DEF PageId, Offset, q, r

\* Two addresses with the same page and offset are the same.
LEMMA SameAddress ==
    ASSUME NEW a \in Nat, NEW x \in Nat, PageId(a) = PageId(x)
    PROVE  x - a = Offset(x) - Offset(a)
<1>1. /\ a = PageSize * PageId(a) + Offset(a) /\ Offset(a) \in Nat
      /\ x = PageSize * PageId(a) + Offset(x) /\ Offset(x) \in Nat
  BY Addresses
<1>2. PageSize * PageId(a) \in Nat
  <2>1. PageId(a) \in Nat /\ PageSize \in Nat
    BY Addresses, SparseAssumption
  <2> QED
    BY <2>1
<1> QED
  BY <1>1, <1>2

-----------------------------------------------------------------------------
(* Looking up a page.                                                      *)

LEMMA Fields ==
    ASSUME NEW m, MemOK(m)
    PROVE  /\ m.brk \in Nat /\ m.brk <= MaxHeap /\ m.num_free_pages \in 0 .. NumPages
           /\ m.checkUB \in BOOLEAN
           /\ m.page_table \in [Bucket -> Seq(Slot)] /\ m.pages \in [Slot -> Page]
           /\ Used(m) \subseteq Slot /\ NumPages \in Nat
           /\ \A s \in Used(m) : m.pages[s] \in Page /\ m.pages[s].id \in Nat /\ s # 0
<1>0. NumPages \in Nat \ {0}
  BY SparseAssumption
<1>1. m \in MemType
  BY DEF MemOK
<1>2. /\ m.brk \in 0 .. MaxHeap /\ m.num_free_pages \in 0 .. NumPages /\ m.checkUB \in BOOLEAN
      /\ m.page_table \in [Bucket -> Seq(Slot)] /\ m.pages \in [Slot -> Page]
  BY <1>1 DEF MemType
<1>3. m.brk \in Nat /\ m.brk <= MaxHeap
  BY <1>2, SparseAssumption
<1>4. \A s \in Used(m) : s \in Slot /\ s # 0
  BY <1>0, <1>2 DEF Used, Slot
<1>5. \A s \in Used(m) : m.pages[s] \in Page
  BY <1>2, <1>4
<1>6. \A p \in Page : p.id \in Nat
  BY DEF Page
<1> QED
  BY <1>0, <1>2, <1>3, <1>4, <1>5, <1>6

\* The chain of an id holds the page of that id, if one has been handed out.
LEMMA LookupIs ==
    ASSUME NEW m, MemOK(m), NEW id \in Nat
    PROVE  \/ Lookup(m, id) = 0 /\ \A s \in Used(m) : m.pages[s].id # id
           \/ Lookup(m, id) \in Used(m) /\ m.pages[Lookup(m, id)].id = id
<1> DEFINE b == id % NumBuckets
           chain == m.page_table[b]
           hits == {i \in DOMAIN chain : m.pages[chain[i]].id = id}
<1>1. b \in Bucket
  BY SparseAssumption DEF Bucket
<1>2. chain \in Seq(Slot)
  BY <1>1, Fields
<1>3. ASSUME hits = {}
      PROVE  Lookup(m, id) = 0 /\ \A s \in Used(m) : m.pages[s].id # id
  <2>1. Lookup(m, id) = 0
    BY <1>3 DEF Lookup
  <2>2. ASSUME NEW s \in Used(m), m.pages[s].id = id PROVE FALSE
    <3>1. PICK i \in DOMAIN chain : chain[i] = s
      BY <2>2 DEF MemOK, Chained
    <3> QED
      BY <1>3, <2>2, <3>1
  <2> QED
    BY <2>1, <2>2
<1>4. ASSUME hits # {}
      PROVE  Lookup(m, id) \in Used(m) /\ m.pages[Lookup(m, id)].id = id
  <2>1. hits \in SUBSET Nat
    BY <1>2
  <2>2. Min(hits) \in hits
    <3> HIDE DEF hits
    <3> QED
      BY <1>4, <2>1, LeastNatural
  <2>3. Lookup(m, id) = chain[Min(hits)]
    BY <1>4 DEF Lookup
  <2> DEFINE i == Min(hits)
  <2>4. i \in DOMAIN chain /\ m.pages[chain[i]].id = id
    BY <2>2
  <2> HIDE DEF i, hits
  <2>5. chain[i] \in Used(m)
    BY <1>1, <2>4 DEF MemOK, ChainsSound
  <2> QED
    BY <2>3, <2>4, <2>5 DEF i
<1> QED
  BY <1>3, <1>4

\* What is found does not depend on where it is found.
LEMMA LookupOne ==
    ASSUME NEW m, MemOK(m), NEW s \in Used(m), NEW id \in Nat, m.pages[s].id = id
    PROVE  Lookup(m, id) = s
<1>1. Lookup(m, id) \in Used(m) /\ m.pages[Lookup(m, id)].id = id
  BY LookupIs
<1> QED
  BY <1>1 DEF MemOK

\* The pages touched are those handed out.
LEMMA TouchedIs ==
    ASSUME NEW m, MemOK(m)
    PROVE  /\ Touched(m) = {m.pages[s].id : s \in Used(m)}
           /\ \A id \in Nat : id \in Touched(m) <=> Lookup(m, id) # 0
<1>0. m.page_table \in [Bucket -> Seq(Slot)] /\ DOMAIN m.page_table = Bucket
  BY Fields
<1>1. ASSUME NEW id PROVE id \in Touched(m) <=> \E s \in Used(m) : m.pages[s].id = id
  <2>1. ASSUME id \in Touched(m) PROVE \E s \in Used(m) : m.pages[s].id = id
    <3>1. PICK b \in Bucket : \E i \in DOMAIN m.page_table[b] : id = m.pages[m.page_table[b][i]].id
      BY <1>0, <2>1 DEF Touched
    <3>2. PICK i \in DOMAIN m.page_table[b] : id = m.pages[m.page_table[b][i]].id
      BY <3>1
    <3>3. m.page_table[b][i] \in Used(m)
      BY <3>2 DEF MemOK, ChainsSound
    <3> QED
      BY <3>2, <3>3
  <2>2. ASSUME NEW s \in Used(m), m.pages[s].id = id PROVE id \in Touched(m)
    <3> DEFINE b == id % NumBuckets
    <3>1. id \in Nat
      BY <2>2, Fields
    <3>2. b \in Bucket
      BY <3>1, SparseAssumption DEF Bucket
    <3>3. PICK i \in DOMAIN m.page_table[b] : m.page_table[b][i] = s
      BY <2>2 DEF MemOK, Chained
    <3> HIDE DEF b
    <3> QED
      BY <1>0, <2>2, <3>2, <3>3 DEF Touched
  <2> QED
    BY <2>1, <2>2
<1>2. Touched(m) = {m.pages[s].id : s \in Used(m)}
  BY <1>1
<1>3. ASSUME NEW id \in Nat PROVE id \in Touched(m) <=> Lookup(m, id) # 0
  <2>1. \A s \in Used(m) : s # 0
    BY Fields
  <2> QED
    BY <1>1, <2>1, LookupIs
<1> QED
  BY <1>2, <1>3

-----------------------------------------------------------------------------
(* The flat view: what an access does, and why one ends the program.       *)

Span(a, n) == a .. a + n - 1
PagesOf(S) == {PageId(a) : a \in S}
HeapBytes(m) == 0 .. m.brk - 1

\* From m to n, the bytes R were read and the bytes W written.
Accessed(m, n, R, W) ==
    /\ MemOK(n) /\ ~Ended(n)
    /\ n.brk = m.brk /\ n.checkUB = m.checkUB
    /\ R \cup W \subseteq HeapBytes(m)
    /\ Touched(n) = Touched(m) \cup PagesOf(R \cup W)
    /\ m.checkUB => \A a \in R : Cell(m, a) # None
    /\ \A a \in Nat \ W : Cell(n, a) = Cell(m, a)

\* Reading R and writing W from m on may end the program for that reason.
Blamed(m, why, R, W) ==
    \/ why = "segv" /\ ~(R \cup W \subseteq HeapBytes(m))
    \/ /\ why = "exhausted"
       /\ Cardinality(Touched(m) \cup PagesOf((R \cup W) \cap HeapBytes(m))) > NumPages
    \/ why = "uninitialized" /\ m.checkUB /\ \E a \in R : a < m.brk /\ Cell(m, a) = None

\* One or the other, n being where the call has come to.
Goes(m, n, R, W) == IF Ended(n) THEN Blamed(m, n.fault, R, W) ELSE Accessed(m, n, R, W)

\* The bytes that may be found at an address, and data found at a and after it.
SeenAt(m, a) == IF Cell(m, a) = None THEN Byte ELSE {Cell(m, a)}
Found(m, a, data) == data \in Seq(Byte) /\ \A i \in DOMAIN data : data[i] \in SeenAt(m, a + i - 1)

\* One access after another, which reads nothing the first has written.
LEMMA Compose ==
    ASSUME NEW m, NEW n, NEW p, NEW R1, NEW W1, NEW R2, NEW W2,
           Accessed(m, n, R1, W1), Accessed(n, p, R2, W2), W1 \cap R2 = {}
    PROVE  Accessed(m, p, R1 \cup R2, W1 \cup W2)
<1> DEFINE R == R1 \cup R2
           W == W1 \cup W2
<1>1. MemOK(p) /\ ~Ended(p) /\ p.brk = m.brk /\ p.checkUB = m.checkUB
  BY DEF Accessed
<1>2. R \cup W \subseteq HeapBytes(m)
  BY DEF Accessed, HeapBytes
<1>3. Touched(p) = Touched(m) \cup PagesOf(R \cup W)
  <2>1. PagesOf(R \cup W) = PagesOf(R1 \cup W1) \cup PagesOf(R2 \cup W2)
    BY DEF PagesOf
  <2>2. Touched(n) = Touched(m) \cup PagesOf(R1 \cup W1) /\ Touched(p) = Touched(n) \cup PagesOf(R2 \cup W2)
    BY DEF Accessed
  <2> QED
    BY <2>1, <2>2
<1>4. \A a \in Nat \ W : Cell(p, a) = Cell(m, a)
  <2>1. \A a \in Nat \ W1 : Cell(n, a) = Cell(m, a)
    BY DEF Accessed
  <2>2. \A a \in Nat \ W2 : Cell(p, a) = Cell(n, a)
    BY DEF Accessed
  <2> QED
    BY <2>1, <2>2
<1>5. ASSUME m.checkUB, NEW a \in R PROVE Cell(m, a) # None
  <2>1. CASE a \in R1
    BY <1>5, <2>1 DEF Accessed
  <2>2. CASE a \in R2
    <3>1. Cell(n, a) # None
      BY <1>5, <2>2 DEF Accessed
    <3>2. a \in Nat
      BY <1>2, <2>2 DEF HeapBytes
    <3>3. a \notin W1
      BY <2>2
    <3>4. Cell(n, a) = Cell(m, a)
      BY <3>2, <3>3 DEF Accessed
    <3> QED
      BY <3>1, <3>4
  <2> QED
    BY <2>1, <2>2
<1> QED
  BY <1>1, <1>2, <1>3, <1>4, <1>5 DEF Accessed

\* What the second access is blamed for, both are.
LEMMA BlameLater ==
    ASSUME NEW m, NEW n, NEW why, NEW R1, NEW W1, NEW R2, NEW W2, R2 \subseteq Nat,
           Accessed(m, n, R1, W1), Blamed(n, why, R2, W2), W1 \cap R2 = {}
    PROVE  Blamed(m, why, R1 \cup R2, W1 \cup W2)
<1> DEFINE S1 == R1 \cup W1
           S2 == R2 \cup W2
           S == (R1 \cup R2) \cup (W1 \cup W2)
           H == HeapBytes(m)
<1>1. n.brk = m.brk /\ n.checkUB = m.checkUB /\ HeapBytes(n) = H /\ S1 \subseteq H
  BY DEF Accessed, HeapBytes
<1>2. S = S1 \cup S2
  OBVIOUS
<1>3. CASE why = "segv" /\ ~(S2 \subseteq HeapBytes(n))
  BY <1>1, <1>2, <1>3 DEF Blamed
<1>4. CASE why = "exhausted" /\ Cardinality(Touched(n) \cup PagesOf(S2 \cap HeapBytes(n))) > NumPages
  <2>1. Touched(n) = Touched(m) \cup PagesOf(S1)
    BY DEF Accessed
  <2>2. PagesOf(S1) \cup PagesOf(S2 \cap H) = PagesOf(S \cap H)
    <3>1. S \cap H = S1 \cup (S2 \cap H)
      BY <1>1, <1>2
    <3> HIDE DEF S, S1, S2, H
    <3>2. PagesOf(S1 \cup (S2 \cap H)) = PagesOf(S1) \cup PagesOf(S2 \cap H)
      BY DEF PagesOf
    <3> QED
      BY <3>1, <3>2
  <2>3. Touched(n) \cup PagesOf(S2 \cap HeapBytes(n)) = Touched(m) \cup PagesOf(S \cap H)
    BY <1>1, <2>1, <2>2
  <2> QED
    BY <1>4, <2>3 DEF Blamed
<1>5. CASE why = "uninitialized" /\ n.checkUB /\ \E a \in R2 : a < n.brk /\ Cell(n, a) = None
  <2>1. PICK a \in R2 : a < n.brk /\ Cell(n, a) = None
    BY <1>5
  <2>2. a \in Nat \ W1
    OBVIOUS
  <2>3. Cell(m, a) = None
    BY <2>1, <2>2 DEF Accessed
  <2> QED
    BY <1>1, <1>5, <2>1, <2>3 DEF Blamed
<1> QED
  BY <1>3, <1>4, <1>5 DEF Blamed

\* The pages touched are finite, and as many as have been handed out.
LEMMA TouchedCount ==
    ASSUME NEW m, MemOK(m)
    PROVE  /\ IsFiniteSet(Touched(m))
           /\ Cardinality(Touched(m)) = NumPages - m.num_free_pages
<1> DEFINE T == Touched(m)
           f == [s \in Used(m) |-> m.pages[s].id]
<1>1. T = {m.pages[s].id : s \in Used(m)}
  BY TouchedIs
<1>2. f \in Bijection(Used(m), T)
  <2>1. f \in [Used(m) -> T]
    BY <1>1
  <2>2. \A s, t \in Used(m) : f[s] = f[t] => s = t
    BY DEF MemOK
  <2>3. \A t \in T : \E s \in Used(m) : f[s] = t
    BY <1>1
  <2> QED
    BY <2>1, <2>2, <2>3 DEF Bijection, Injection, Surjection, IsInjective
<1>3. NumPages \in Nat /\ m.num_free_pages \in 0 .. NumPages
  BY Fields
<1>4. IsFiniteSet(Used(m)) /\ Cardinality(Used(m)) = NumPages - m.num_free_pages
  <2>1. NumPages - m.num_free_pages \in Nat
    BY <1>3
  <2> QED
    BY SMTT(30), <2>1, FS_Interval DEF Used
<1> HIDE DEF f, T
<1>5. ExistsBijection(Used(m), T)
  BY <1>2 DEF ExistsBijection
<1> QED
  BY <1>4, <1>5, FS_Bijection DEF T

\* The pages of a part of the heap are finitely many.
LEMMA HeapPagesFinite ==
    ASSUME NEW m, MemOK(m), NEW S
    PROVE  IsFiniteSet(PagesOf(S \cap HeapBytes(m)))
<1> DEFINE D == S \cap HeapBytes(m)
           T == PagesOf(D)
           f == [a \in D |-> PageId(a)]
<1>1. IsFiniteSet(HeapBytes(m))
  <2>1. 0 \in Int /\ m.brk - 1 \in Int
    BY Fields
  <2> QED
    BY <2>1, FS_Interval DEF HeapBytes
<1>2. IsFiniteSet(D)
  BY <1>1, FS_Subset
<1>3. f \in Surjection(D, T)
  BY DEF Surjection, PagesOf
<1> HIDE DEF f, D, T
<1>4. IsFiniteSet(T)
  BY <1>2, <1>3, FS_Surjection
<1> QED
  BY <1>4 DEF T, D

\* Who accesses more may be blamed for the same.
LEMMA BlameMore ==
    ASSUME NEW m, MemOK(m), NEW why, NEW R1, NEW W1, NEW R, NEW W, R1 \subseteq R, W1 \subseteq W,
           Blamed(m, why, R1, W1)
    PROVE  Blamed(m, why, R, W)
<1> DEFINE H == HeapBytes(m)
           P1 == PagesOf((R1 \cup W1) \cap H)
           P == PagesOf((R \cup W) \cap H)
<1>1. CASE why = "segv" /\ ~(R1 \cup W1 \subseteq H)
  BY <1>1 DEF Blamed
<1>2. CASE why = "exhausted" /\ Cardinality(Touched(m) \cup P1) > NumPages
  <2>1. P1 \subseteq P
    BY DEF PagesOf
  <2>2. IsFiniteSet(Touched(m)) /\ IsFiniteSet(P)
    BY TouchedCount, HeapPagesFinite
  <2> HIDE DEF P1, P
  <2>3. IsFiniteSet(Touched(m) \cup P)
    BY <2>2, FS_Union
  <2>4. Touched(m) \cup P1 \in SUBSET (Touched(m) \cup P)
    BY <2>1
  <2>5. Cardinality(Touched(m) \cup P1) <= Cardinality(Touched(m) \cup P)
    BY <2>3, <2>4, FS_Subset
  <2>6. IsFiniteSet(Touched(m) \cup P1)
    BY <2>3, <2>4, FS_Subset
  <2>7. /\ Cardinality(Touched(m) \cup P1) \in Nat /\ Cardinality(Touched(m) \cup P) \in Nat
        /\ NumPages \in Nat
    BY <2>3, <2>6, FS_CardinalityType, Fields
  <2>8. Cardinality(Touched(m) \cup P) > NumPages
    BY <1>2, <2>5, <2>7
  <2> QED
    BY <1>2, <2>8 DEF Blamed, P
<1>3. CASE why = "uninitialized" /\ m.checkUB /\ \E a \in R1 : a < m.brk /\ Cell(m, a) = None
  BY <1>3 DEF Blamed
<1> QED
  BY <1>1, <1>2, <1>3 DEF Blamed

\* One access after another, whatever comes of them.
LEMMA GoesOn ==
    ASSUME NEW m, NEW n, NEW p, NEW R1, NEW W1, NEW R2, NEW W2, R2 \subseteq Nat,
           Accessed(m, n, R1, W1), Goes(n, p, R2, W2), W1 \cap R2 = {}
    PROVE  Goes(m, p, R1 \cup R2, W1 \cup W2)
<1>1. CASE Ended(p)
  BY <1>1, BlameLater DEF Goes
<1>2. CASE ~Ended(p)
  BY <1>2, Compose DEF Goes
<1> QED
  BY <1>1, <1>2

-----------------------------------------------------------------------------
(* A page is found.                                                        *)

\* The byte at an address whose page has been handed out, and at one whose has not.
LEMMA CellInPage ==
    ASSUME NEW m, MemOK(m), NEW a \in Nat, NEW s \in Used(m), m.pages[s].id = PageId(a)
    PROVE  Cell(m, a) = IF Offset(a) \in m.pages[s].initSet THEN m.pages[s].bytes[Offset(a)] ELSE None
<1>1. PageId(a) \in Nat /\ s # 0
  BY Addresses, Fields
<1>2. Lookup(m, PageId(a)) = s
  BY <1>1, LookupOne
<1> QED
  BY <1>1, <1>2 DEF Cell

LEMMA CellNoPage ==
    ASSUME NEW m, MemOK(m), NEW a \in Nat, \A s \in Used(m) : m.pages[s].id # PageId(a)
    PROVE  Cell(m, a) = None
<1>1. PageId(a) \in Nat
  BY Addresses
<1>2. Lookup(m, PageId(a)) = 0
  BY <1>1, LookupIs
<1> QED
  BY <1>2 DEF Cell

\* A byte that has been written is one.
LEMMA CellIsByte ==
    ASSUME NEW m, MemOK(m), NEW a \in Nat
    PROVE  Cell(m, a) \in Byte \cup {None}
<1>1. CASE \A s \in Used(m) : m.pages[s].id # PageId(a)
  BY <1>1, CellNoPage
<1>2. ASSUME NEW s \in Used(m), m.pages[s].id = PageId(a) PROVE Cell(m, a) \in Byte \cup {None}
  <2>1. m.pages[s].bytes \in [InPage -> Byte] /\ Offset(a) \in InPage
    <3>1. m.pages[s] \in Page
      BY Fields
    <3> QED
      BY <3>1, Addresses DEF Page
  <2> QED
    BY <1>2, <2>1, CellInPage
<1> QED
  BY <1>1, <1>2

\* A new page s for id: what of the memory changes.
NewAt(m, n, id, s) ==
    /\ s = NumPages - m.num_free_pages + 1
    /\ n.brk = m.brk /\ n.checkUB = m.checkUB /\ n.fault = m.fault
    /\ n.num_free_pages = m.num_free_pages - 1
    /\ n.pages[s].id = id /\ n.pages[s].initSet = {}
    /\ \A t \in Slot \ {s} : n.pages[t] = m.pages[t]
    /\ n.page_table[id % NumBuckets] = <<s>> \o m.page_table[id % NumBuckets]
    /\ \A b \in Bucket \ {id % NumBuckets} : n.page_table[b] = m.page_table[b]

LEMMA NewPageIs ==
    ASSUME NEW m, MemOK(m), NEW id \in Nat, m.num_free_pages # 0
    PROVE  /\ NewPage(m, id) \in MemType
           /\ NewAt(m, NewPage(m, id), id, NumPages - m.num_free_pages + 1)
<1> DEFINE s == NumPages - m.num_free_pages + 1
           b == id % NumBuckets
           p == [m.pages[s] EXCEPT !.id = id, !.initSet = {}]
           ps == [m.pages EXCEPT ![s] = p]
           pt == [m.page_table EXCEPT ![b] = <<s>> \o @]
           n == [brk |-> m.brk, page_table |-> pt, pages |-> ps, num_free_pages |-> m.num_free_pages - 1,
                 checkUB |-> m.checkUB, fault |-> m.fault]
<1>1. /\ m \in MemType /\ m.page_table \in [Bucket -> Seq(Slot)] /\ m.pages \in [Slot -> Page]
      /\ m.num_free_pages \in 0 .. NumPages /\ NumPages \in Nat
  BY Fields DEF MemOK
<1>2. s \in Slot /\ m.num_free_pages - 1 \in 0 .. NumPages
  BY <1>1 DEF Slot
<1>3. b \in Bucket
  BY SparseAssumption DEF Bucket
<1>4. p \in Page /\ p.id = id /\ p.initSet = {}
  BY <1>1, <1>2 DEF Page
<1>5. <<s>> \o m.page_table[b] \in Seq(Slot)
  BY <1>1, <1>2, <1>3
<1>6. NewPage(m, id) = n
  BY <1>1, <1>2, <1>3 DEF NewPage, MemType
<1> HIDE DEF s, b, p
<1>7. ps \in [Slot -> Page] /\ ps[s] = p /\ \A t \in Slot \ {s} : ps[t] = m.pages[t]
  BY <1>1, <1>2, <1>4
<1>8. /\ pt \in [Bucket -> Seq(Slot)] /\ pt[b] = <<s>> \o m.page_table[b]
      /\ \A c \in Bucket \ {b} : pt[c] = m.page_table[c]
  BY <1>1, <1>3, <1>5
<1> HIDE DEF ps, pt
<1>9. n \in MemType
  BY <1>1, <1>2, <1>7, <1>8 DEF MemType
<1>10. NewAt(m, n, id, s)
  BY <1>4, <1>7, <1>8 DEF NewAt, s, b
<1> QED
  BY <1>6, <1>9, <1>10 DEF s

\* The table is sound with the new page in it.
LEMMA NewPageOK ==
    ASSUME NEW m, MemOK(m), NEW id \in Nat, NEW s, NEW n \in MemType, NewAt(m, n, id, s),
           m.num_free_pages # 0, \A t \in Used(m) : m.pages[t].id # id
    PROVE  MemOK(n) /\ Used(n) = Used(m) \cup {s} /\ s \notin Used(m)
<1> DEFINE c == id % NumBuckets
<1>0. c \in Bucket
  BY SparseAssumption DEF Bucket
<1>1. /\ m.page_table \in [Bucket -> Seq(Slot)] /\ m.pages \in [Slot -> Page]
      /\ m.num_free_pages \in 0 .. NumPages /\ NumPages \in Nat /\ Used(m) \subseteq Slot
  BY Fields
<1>2. Used(n) = Used(m) \cup {s} /\ s \notin Used(m) /\ s \in Slot
  <2>1. s = NumPages - m.num_free_pages + 1 /\ n.num_free_pages = m.num_free_pages - 1
    BY DEF NewAt
  <2>2. NumPages - n.num_free_pages = s
    BY <1>1, <2>1
  <2> QED
    BY <1>1, <2>1, <2>2 DEF Used, Slot
<1>3. n.pages[s].id = id /\ \A t \in Used(m) : n.pages[t] = m.pages[t]
  BY <1>1, <1>2 DEF NewAt
<1>4. /\ n.page_table[c] = <<s>> \o m.page_table[c]
      /\ \A b \in Bucket \ {c} : n.page_table[b] = m.page_table[b]
  BY DEF NewAt
<1> HIDE DEF c
<1>5. ASSUME NEW b \in Bucket, NEW i \in DOMAIN n.page_table[b]
      PROVE  \/ b = c /\ n.page_table[b][i] = s
             \/ \E j \in DOMAIN m.page_table[b] : n.page_table[b][i] = m.page_table[b][j]
  <2>1. CASE b # c
    BY <1>4, <2>1
  <2>2. CASE b = c
    <3>1. m.page_table[c] \in Seq(Slot)
      BY <1>0, <1>1
    <3>2. PICK q \in Seq(Slot) : q = m.page_table[c]
      BY <3>1
    <3>3. i \in DOMAIN (<<s>> \o q) /\ n.page_table[b][i] = (<<s>> \o q)[i]
      BY <1>4, <2>2, <3>2
    <3>4. i = 1 \/ (i - 1 \in DOMAIN q /\ (<<s>> \o q)[i] = q[i - 1])
      BY <1>2, <3>3
    <3>5. (<<s>> \o q)[1] = s
      BY <1>2
    <3> QED
      BY <2>2, <3>2, <3>3, <3>4, <3>5
  <2> QED
    BY <2>1, <2>2
<1>6. ASSUME NEW b \in Bucket, NEW j \in DOMAIN m.page_table[b]
      PROVE  \E i \in DOMAIN n.page_table[b] : n.page_table[b][i] = m.page_table[b][j]
  <2>1. CASE b # c
    BY <1>4, <2>1
  <2>2. CASE b = c
    <3>1. PICK q \in Seq(Slot) : q = m.page_table[c]
      BY <1>0, <1>1
    <3>2. j \in DOMAIN q
      BY <2>2, <3>1
    <3>3. j + 1 \in DOMAIN (<<s>> \o q) /\ (<<s>> \o q)[j + 1] = q[j]
      BY <1>2, <3>2
    <3> QED
      BY <1>4, <2>2, <3>1, <3>3
  <2> QED
    BY <2>1, <2>2
<1>7. \E i \in DOMAIN n.page_table[c] : n.page_table[c][i] = s
  <2>1. PICK q \in Seq(Slot) : q = m.page_table[c]
    BY <1>0, <1>1
  <2>2. 1 \in DOMAIN (<<s>> \o q) /\ (<<s>> \o q)[1] = s
    BY <1>2
  <2> QED
    BY <1>4, <2>1, <2>2
<1>8. ChainsSound(n)
  <2> SUFFICES ASSUME NEW b \in Bucket, NEW i \in DOMAIN n.page_table[b]
               PROVE  n.page_table[b][i] \in Used(n) /\ n.pages[n.page_table[b][i]].id % NumBuckets = b
    BY DEF ChainsSound
  <2>1. CASE b = c /\ n.page_table[b][i] = s
    BY <1>2, <1>3, <2>1 DEF c
  <2>2. ASSUME NEW j \in DOMAIN m.page_table[b], n.page_table[b][i] = m.page_table[b][j]
        PROVE  n.page_table[b][i] \in Used(n) /\ n.pages[n.page_table[b][i]].id % NumBuckets = b
    <3>1. m.page_table[b][j] \in Used(m) /\ m.pages[m.page_table[b][j]].id % NumBuckets = b
      BY DEF MemOK, ChainsSound
    <3> QED
      BY <1>2, <1>3, <2>2, <3>1
  <2> QED
    BY <1>5, <2>1, <2>2
<1>9. ASSUME NEW t \in Used(n) PROVE Chained(n, t)
  <2>1. CASE t = s
    BY <1>3, <1>7, <2>1 DEF Chained, c
  <2>2. CASE t \in Used(m)
    <3> DEFINE b == m.pages[t].id % NumBuckets
    <3>1. b \in Bucket
      <4>1. m.pages[t].id \in Nat
        BY <2>2, Fields
      <4> QED
        BY <4>1, SparseAssumption DEF Bucket
    <3>2. PICK j \in DOMAIN m.page_table[b] : m.page_table[b][j] = t
      BY <2>2 DEF MemOK, Chained
    <3>3. n.pages[t].id % NumBuckets = b
      BY <1>3, <2>2
    <3> HIDE DEF b
    <3>4. \E i \in DOMAIN n.page_table[b] : n.page_table[b][i] = t
      BY <1>6, <3>1, <3>2
    <3> QED
      BY <3>3, <3>4 DEF Chained
  <2> QED
    BY <1>2, <2>1, <2>2
<1>10. ASSUME NEW t \in Used(n), NEW u \in Used(n), n.pages[t].id = n.pages[u].id PROVE t = u
  BY <1>2, <1>3, <1>10 DEF MemOK
<1> QED
  BY <1>2, <1>8, <1>9, <1>10 DEF MemOK

\* Getting the page id: the flat view has one page touched more at most.
Ready(m, f, id) ==
    /\ MemOK(f) /\ ~Ended(f)
    /\ f.brk = m.brk /\ f.checkUB = m.checkUB
    /\ Touched(f) = Touched(m) \cup {id}
    /\ \A a \in Nat : Cell(f, a) = Cell(m, a)
    /\ Lookup(f, id) \in Used(f) /\ f.pages[Lookup(f, id)].id = id

LEMMA NewPageReady ==
    ASSUME NEW m, MemOK(m), ~Ended(m), NEW id \in Nat, Lookup(m, id) = 0, m.num_free_pages # 0
    PROVE  Ready(m, NewPage(m, id), id)
<1>1. PICK n : n = NewPage(m, id)
  OBVIOUS
<1>2. PICK s : s = NumPages - m.num_free_pages + 1
  OBVIOUS
<1>3. n \in MemType /\ NewAt(m, n, id, s)
  BY <1>1, <1>2, NewPageIs
<1>4. \A t \in Used(m) : m.pages[t].id # id
  BY LookupIs, Fields
<1>5. MemOK(n) /\ Used(n) = Used(m) \cup {s} /\ s \notin Used(m)
  BY <1>3, <1>4, NewPageOK
<1>6. /\ n.brk = m.brk /\ n.checkUB = m.checkUB /\ ~Ended(n)
      /\ n.pages[s].id = id /\ n.pages[s].initSet = {}
      /\ \A t \in Used(m) : n.pages[t] = m.pages[t]
  BY <1>3, <1>5, Fields DEF NewAt, Ended
<1>7. Touched(n) = Touched(m) \cup {id}
  <2>1. Touched(n) = {n.pages[t].id : t \in Used(n)} /\ Touched(m) = {m.pages[t].id : t \in Used(m)}
    BY <1>5, TouchedIs
  <2> QED
    BY <1>5, <1>6, <2>1
<1>8. ASSUME NEW a \in Nat PROVE Cell(n, a) = Cell(m, a)
  <2>1. CASE PageId(a) = id
    <3>1. Cell(m, a) = None
      BY <1>4, <2>1, CellNoPage
    <3>2. Cell(n, a) = None
      BY <1>5, <1>6, <2>1, CellInPage
    <3> QED
      BY <3>1, <3>2
  <2>2. ASSUME NEW t \in Used(m), m.pages[t].id = PageId(a) PROVE Cell(n, a) = Cell(m, a)
    <3>1. t \in Used(n) /\ n.pages[t] = m.pages[t] /\ n.pages[t].id = PageId(a)
      BY <1>5, <1>6, <2>2
    <3> QED
      BY <1>5, <2>2, <3>1, CellInPage
  <2>3. CASE PageId(a) # id /\ \A t \in Used(m) : m.pages[t].id # PageId(a)
    <3>1. \A t \in Used(n) : n.pages[t].id # PageId(a)
      BY <1>5, <1>6, <2>3
    <3> QED
      BY <1>5, <2>3, <3>1, CellNoPage
  <2> QED
    BY <2>1, <2>2, <2>3
<1>9. Lookup(n, id) = s
  BY <1>5, <1>6, LookupOne
<1> QED
  BY <1>1, <1>5, <1>6, <1>7, <1>8, <1>9 DEF Ready

LEMMA OldPageReady ==
    ASSUME NEW m, MemOK(m), ~Ended(m), NEW id \in Nat, Lookup(m, id) # 0
    PROVE  Ready(m, m, id)
<1>1. id \in Touched(m)
  BY TouchedIs
<1>2. Lookup(m, id) \in Used(m) /\ m.pages[Lookup(m, id)].id = id
  BY LookupIs
<1> QED
  BY <1>1, <1>2 DEF Ready

\* Want of pages is the access's fault if it touches one more than there are.
LEMMA BlameExhausted ==
    ASSUME NEW m, MemOK(m), m.num_free_pages = 0, NEW R, NEW W,
           NEW a \in (R \cup W) \cap HeapBytes(m), PageId(a) \notin Touched(m)
    PROVE  Blamed(m, "exhausted", R, W)
<1> DEFINE T == Touched(m)
           P == PagesOf((R \cup W) \cap HeapBytes(m))
<1>1. NumPages \in Nat /\ IsFiniteSet(T) /\ Cardinality(T) = NumPages
  <2>1. Cardinality(T) = NumPages - 0 /\ IsFiniteSet(T)
    BY TouchedCount
  <2> QED
    BY <2>1, Fields
<1>2. IsFiniteSet(P) /\ PageId(a) \in P
  BY HeapPagesFinite DEF PagesOf
<1> HIDE DEF P, T
<1>3. IsFiniteSet(T \cup P) /\ IsFiniteSet(T \cup {PageId(a)})
  BY <1>1, <1>2, FS_Union, FS_AddElement
<1>4. Cardinality(T \cup {PageId(a)}) = NumPages + 1
  BY <1>1, FS_AddElement DEF T
<1>5. T \cup {PageId(a)} \in SUBSET (T \cup P)
  BY <1>2
<1>6. Cardinality(T \cup {PageId(a)}) <= Cardinality(T \cup P) /\ Cardinality(T \cup P) \in Nat
  BY <1>3, <1>5, FS_Subset, FS_CardinalityType
<1>7. Cardinality(T \cup P) > NumPages
  BY <1>1, <1>4, <1>6
<1> QED
  BY <1>7 DEF Blamed, T, P

LEMMA GetPage ==
    ASSUME NEW m, MemOK(m), ~Ended(m), NEW id \in Nat, NEW f,
           f = (IF Lookup(m, id) = 0 THEN NewPage(m, id) ELSE m)
    PROVE  \/ /\ Ended(f) /\ f.fault = "exhausted"
              /\ m.num_free_pages = 0 /\ id \notin Touched(m)
           \/ Ready(m, f, id)
<1>1. CASE Lookup(m, id) # 0
  BY <1>1, OldPageReady
<1>2. CASE Lookup(m, id) = 0 /\ m.num_free_pages # 0
  BY <1>2, NewPageReady
<1>3. CASE Lookup(m, id) = 0 /\ m.num_free_pages = 0
  <2>1. f = [m EXCEPT !.fault = "exhausted"]
    BY <1>3 DEF NewPage
  <2>2. f.fault = "exhausted"
    BY <2>1 DEF MemOK, MemType
  <2>3. id \notin Touched(m)
    BY <1>3, TouchedIs
  <2> QED
    BY <1>3, <2>2, <2>3 DEF Ended
<1> QED
  BY <1>1, <1>2, <1>3

-----------------------------------------------------------------------------
(* The part of an access that is in the page of its first byte.            *)

LEMMA LowPartIs ==
    ASSUME NEW a \in Nat, NEW n \in Nat \ {0}
    PROVE  /\ LowPart(a, n) \in 1 .. n /\ Offset(a) + LowPart(a, n) <= PageSize
           /\ LowPart(a, n) = n \/ Offset(a) + LowPart(a, n) = PageSize
           /\ (Offset(a) .. Offset(a) + n - 1) \cap InPage = Span(Offset(a), LowPart(a, n))
<1> DEFINE p == PageSize - Offset(a)
           l == LowPart(a, n)
<1>1. PageSize \in Nat /\ Offset(a) \in Nat /\ Offset(a) < PageSize
  BY Addresses, SparseAssumption
<1>2. p \in Nat /\ p >= 1
  BY <1>1
<1>3. l = Min({n, p})
  BY DEF LowPart
<1>4. {n, p} \in SUBSET Nat /\ {n, p} # {}
  BY <1>2
<1> HIDE DEF p, l
<1>5. l \in {n, p} /\ l <= n /\ l <= p
  BY <1>3, <1>4, LeastNatural
<1>6. l \in 1 .. n /\ Offset(a) + l <= PageSize /\ (l = n \/ Offset(a) + l = PageSize)
  BY <1>1, <1>2, <1>5 DEF p
<1>7. (Offset(a) .. Offset(a) + n - 1) \cap InPage = Span(Offset(a), l)
  BY <1>1, <1>6 DEF InPage, Span
<1> QED
  BY <1>6, <1>7 DEF l

\* Its addresses.
LEMMA SpanInPage ==
    ASSUME NEW a \in Nat, NEW l \in Nat \ {0}, Offset(a) + l <= PageSize
    PROVE  /\ \A x \in Span(a, l) : x \in Nat /\ PageId(x) = PageId(a) /\ Offset(x) - Offset(a) = x - a
           /\ \A x \in Nat : /\ PageId(x) = PageId(a) /\ Offset(x) \in Span(Offset(a), l) => x \in Span(a, l)
                             /\ x \in Span(a, l) => Offset(x) \in Span(Offset(a), l)
           /\ PagesOf(Span(a, l)) = {PageId(a)}
<1>1. PageSize \in Nat /\ Offset(a) \in Nat /\ Offset(a) < PageSize
  BY Addresses, SparseAssumption
<1>2. ASSUME NEW x \in Span(a, l)
      PROVE  /\ x \in Nat /\ PageId(x) = PageId(a) /\ Offset(x) - Offset(a) = x - a
             /\ Offset(x) \in Span(Offset(a), l)
  <2>1. x - a \in Nat /\ x - a < l /\ x = a + (x - a)
    BY DEF Span
  <2>2. PICK i \in Nat : i = x - a
    BY <2>1
  <2>3. Offset(a) + i < PageSize /\ x = a + i
    BY <1>1, <2>1, <2>2
  <2>4. PageId(x) = PageId(a) /\ Offset(x) = Offset(a) + i
    BY <2>3, SamePage
  <2> QED
    BY <1>1, <2>1, <2>2, <2>3, <2>4 DEF Span
<1>3. ASSUME NEW x \in Nat, PageId(x) = PageId(a), Offset(x) \in Span(Offset(a), l) PROVE x \in Span(a, l)
  <2>1. x - a = Offset(x) - Offset(a)
    BY <1>3, SameAddress
  <2>2. Offset(x) \in Int
    BY Addresses
  <2> QED
    BY <1>1, <1>3, <2>1, <2>2 DEF Span
<1>4. PagesOf(Span(a, l)) = {PageId(a)}
  <2>1. a \in Span(a, l)
    BY DEF Span
  <2>2. \A x \in Span(a, l) : PageId(x) = PageId(a)
    BY <1>2
  <2> QED
    BY <2>1, <2>2 DEF PagesOf
<1> QED
  BY <1>2, <1>3, <1>4

\* A page that has been got is read, or is not to be read.
LEMMA ReadPart ==
    ASSUME NEW m, MemOK(m), ~Ended(m), NEW a \in Nat, NEW n \in Nat \ {0}, NEW l \in Nat,
           l = LowPart(a, n), a + l <= m.brk
    PROVE  Goes(m, GetMem(m, a, n, FALSE), Span(a, l), {})
<1> DEFINE id == PageId(a)
           f == IF Lookup(m, id) = 0 THEN NewPage(m, id) ELSE m
           s == Lookup(f, id)
           bits == Span(Offset(a), l)
           g == GetMem(m, a, n, FALSE)
           R == Span(a, l)
<1>0. id \in Nat /\ m.brk \in Nat
  BY Addresses, Fields
<1>1. l \in Nat \ {0} /\ Offset(a) + l <= PageSize
      /\ (Offset(a) .. Offset(a) + n - 1) \cap (0 .. PageSize - 1) = bits
  <2>1. /\ LowPart(a, n) \in 1 .. n /\ Offset(a) + LowPart(a, n) <= PageSize
        /\ (Offset(a) .. Offset(a) + n - 1) \cap InPage = Span(Offset(a), LowPart(a, n))
    BY LowPartIs, Zenon
  <2> HIDE DEF bits
  <2>2. l \in Nat \ {0} /\ Offset(a) + l <= PageSize
    BY <2>1
  <2> QED
    BY <2>1, <2>2, Zenon DEF bits, InPage
<1>2. g = IF Ended(f) THEN f
          ELSE IF f.checkUB /\ ~(bits \subseteq f.pages[s].initSet)
          THEN [f EXCEPT !.fault = "uninitialized"] ELSE f
  <2>1. g = IF Ended(f) THEN f
            ELSE IF f.checkUB /\ ~((Offset(a) .. Offset(a) + n - 1) \cap (0 .. PageSize - 1) \subseteq f.pages[s].initSet)
            THEN [f EXCEPT !.fault = "uninitialized"] ELSE f
    BY Zenon DEF GetMem
  <2> HIDE DEF f, g, s, bits
  <2> QED
    BY <1>1, <2>1, Zenon
<1>3. R \subseteq HeapBytes(m) /\ a \in R
  BY <1>0, <1>1 DEF Span, HeapBytes
<1>S. /\ \A x \in R : x \in Nat /\ PageId(x) = id
      /\ \A x \in Nat : /\ PageId(x) = id /\ Offset(x) \in bits => x \in R
                        /\ x \in R => Offset(x) \in bits
      /\ PagesOf(R) = {id}
  BY <1>1, SpanInPage
<1>4. \/ /\ Ended(f) /\ f.fault = "exhausted"
         /\ m.num_free_pages = 0 /\ id \notin Touched(m)
      \/ Ready(m, f, id)
  BY <1>0, GetPage
<1> HIDE DEF f, g, R, bits
<1>5. CASE Ended(f) /\ f.fault = "exhausted" /\ m.num_free_pages = 0 /\ id \notin Touched(m)
  <2>1. Blamed(m, "exhausted", R, {})
    BY <1>3, <1>5, BlameExhausted
  <2> QED
    BY <1>2, <1>5, <2>1 DEF Goes, g, R
<1>6. CASE Ready(m, f, id)
  <2>1. MemOK(f) /\ ~Ended(f) /\ s \in Used(f) /\ f.pages[s].id = id /\ f.checkUB = m.checkUB /\ f.brk = m.brk
    BY <1>6 DEF Ready
  <2>2. \A x \in R : /\ Cell(m, x) = IF Offset(x) \in f.pages[s].initSet THEN f.pages[s].bytes[Offset(x)] ELSE None
    <3> TAKE x \in R
    <3>1. x \in Nat /\ PageId(x) = id
      BY <1>S
    <3>2. Cell(m, x) = Cell(f, x)
      BY <1>6, <3>1 DEF Ready
    <3> HIDE DEF s
    <3> QED
      BY <2>1, <3>1, <3>2, CellInPage
  <2>3. CASE f.checkUB /\ ~(bits \subseteq f.pages[s].initSet)
    <3>1. PICK o \in bits : o \notin f.pages[s].initSet
      BY <2>3
    <3>2. \E x \in R : Offset(x) = o
      <4> DEFINE x == a + (o - Offset(a))
      <4>1. Offset(a) \in Nat /\ o \in Nat /\ x \in R
        BY <1>1, Addresses DEF bits, Span, R
      <4>2. x \in Nat /\ Offset(x) - Offset(a) = x - a /\ Offset(x) \in Nat
        BY <1>1, <4>1, SpanInPage, Addresses DEF R
      <4>3. Offset(x) = o
        BY <4>1, <4>2
      <4> QED
        BY <4>1, <4>3
    <3>3. PICK x \in R : Offset(x) = o
      BY <3>2
    <3>4. Cell(m, x) = None
      BY <2>2, <3>1, <3>3
    <3>5. x < m.brk
      BY <1>0, <1>3 DEF HeapBytes
    <3>6. Blamed(m, "uninitialized", R, {})
      BY <2>1, <2>3, <3>4, <3>5 DEF Blamed
    <3>7. g.fault = "uninitialized"
      <4>1. g = [f EXCEPT !.fault = "uninitialized"]
        BY <1>2, <2>1, <2>3
      <4> QED
        BY <2>1, <4>1 DEF MemOK, MemType
    <3> QED
      BY <3>6, <3>7 DEF Goes, Ended, g, R
  <2>4. CASE ~(f.checkUB /\ ~(bits \subseteq f.pages[s].initSet))
    <3>1. g = f
      BY <1>2, <2>1, <2>4
    <3>2. ASSUME m.checkUB, NEW x \in R PROVE Cell(m, x) # None
      <4>1. x \in Nat /\ Offset(x) \in bits /\ PageId(x) = id
        BY <1>S
      <4>2. Offset(x) \in f.pages[s].initSet
        BY <2>1, <2>4, <3>2, <4>1
      <4>3. Cell(m, x) = f.pages[s].bytes[Offset(x)]
        BY <2>2, <4>2
      <4>4. f.pages[s].bytes[Offset(x)] \in Byte
        <5>1. f.pages[s] \in Page /\ Offset(x) \in InPage
          BY <2>1, <4>1, Fields, Addresses
        <5> QED
          BY <5>1 DEF Page
      <4> QED
        BY <4>3, <4>4, SparseAssumption
    <3>3. Touched(f) = Touched(m) \cup PagesOf(R \cup {})
      BY <1>6, <1>S DEF Ready
    <3>4. Accessed(m, f, R, {})
      BY <1>3, <1>6, <2>1, <3>2, <3>3 DEF Accessed, Ready
    <3> QED
      BY <2>1, <3>1, <3>4 DEF Goes, g, R
  <2> QED
    BY <2>3, <2>4
<1> QED
  BY <1>4, <1>5, <1>6

\* A memory with the same pages in the same table.
LEMMA SameTable ==
    ASSUME NEW f, MemOK(f), NEW g \in MemType, g.page_table = f.page_table,
           g.num_free_pages = f.num_free_pages, \A t \in Slot : g.pages[t].id = f.pages[t].id
    PROVE  /\ MemOK(g) /\ Used(g) = Used(f) /\ Touched(g) = Touched(f)
           /\ \A id \in Nat : Lookup(g, id) = Lookup(f, id)
<1>1. Used(g) = Used(f) /\ Used(f) \subseteq Slot
  BY Fields DEF Used
<1>2. \A t \in Used(f) : g.pages[t].id = f.pages[t].id
  BY <1>1
<1>3. ChainsSound(g)
  <2> SUFFICES ASSUME NEW b \in Bucket, NEW i \in DOMAIN g.page_table[b]
               PROVE  g.page_table[b][i] \in Used(g) /\ g.pages[g.page_table[b][i]].id % NumBuckets = b
    BY DEF ChainsSound
  <2>1. f.page_table[b][i] \in Used(f) /\ f.pages[f.page_table[b][i]].id % NumBuckets = b
    BY DEF MemOK, ChainsSound
  <2> QED
    BY <1>1, <1>2, <2>1
<1>4. \A t \in Used(g) : Chained(g, t)
  <2> TAKE t \in Used(g)
  <2>1. Chained(f, t) /\ g.pages[t].id = f.pages[t].id
    BY <1>1, <1>2 DEF MemOK
  <2> QED
    BY <2>1 DEF Chained
<1>5. \A s, t \in Used(g) : g.pages[s].id = g.pages[t].id => s = t
  BY <1>1, <1>2 DEF MemOK
<1>6. MemOK(g)
  BY <1>3, <1>4, <1>5 DEF MemOK
<1>7. Touched(g) = Touched(f)
  <2>1. Touched(g) = {g.pages[t].id : t \in Used(g)} /\ Touched(f) = {f.pages[t].id : t \in Used(f)}
    BY <1>6, TouchedIs
  <2> QED
    BY <1>1, <1>2, <2>1
<1>8. ASSUME NEW id \in Nat PROVE Lookup(g, id) = Lookup(f, id)
  <2>1. CASE Lookup(f, id) = 0 /\ \A t \in Used(f) : f.pages[t].id # id
    <3>1. \A t \in Used(g) : g.pages[t].id # id
      BY <1>1, <1>2, <2>1
    <3> QED
      BY <1>6, <2>1, <3>1, LookupIs
  <2>2. CASE Lookup(f, id) \in Used(f) /\ f.pages[Lookup(f, id)].id = id
    <3>1. PICK t \in Used(f) : t = Lookup(f, id) /\ f.pages[t].id = id
      BY <2>2
    <3>2. t \in Used(g) /\ g.pages[t].id = id
      BY <1>1, <1>2, <3>1
    <3>3. Lookup(g, id) = t
      BY <1>6, <3>2, LookupOne
    <3> QED
      BY <3>1, <3>3
  <2> QED
    BY <2>1, <2>2, LookupIs
<1> QED
  BY <1>1, <1>6, <1>7, <1>8

\* One page with other contents.
WithPage(f, s, p) ==
    [brk |-> f.brk, page_table |-> f.page_table, pages |-> [f.pages EXCEPT ![s] = p],
     num_free_pages |-> f.num_free_pages, checkUB |-> f.checkUB, fault |-> f.fault]

WithBits(f, s, v) == [f EXCEPT !.pages[s].initSet = v]
BitsOf(p, v) == [p EXCEPT !.initSet = v]

LEMMA OtherBits ==
    ASSUME NEW f \in MemType, NEW s \in Slot, NEW v
    PROVE  WithBits(f, s, v) = WithPage(f, s, BitsOf(f.pages[s], v))
<1> DEFINE g == [f EXCEPT !.pages[s].initSet = v]
           p == [f.pages[s] EXCEPT !.initSet = v]
<1>1. PICK ps : ps = [f.pages EXCEPT ![s] = p]
  OBVIOUS
<1>2. g = [f EXCEPT !.pages = ps]
  BY <1>1
<1>3. [f EXCEPT !.pages = ps] =
        [brk |-> f.brk, page_table |-> f.page_table, pages |-> ps,
         num_free_pages |-> f.num_free_pages, checkUB |-> f.checkUB, fault |-> f.fault]
  BY DEF MemType
<1> HIDE DEF g
<1>4. g = WithPage(f, s, p)
  BY <1>1, <1>2, <1>3 DEF WithPage
<1> QED
  BY <1>4, Zenon DEF g, WithBits, BitsOf

WithBytes(f, s, v) == [f EXCEPT !.pages[s].bytes = v]
BytesOf(p, v) == [p EXCEPT !.bytes = v]

LEMMA OtherBytes ==
    ASSUME NEW f \in MemType, NEW s \in Slot, NEW v
    PROVE  WithBytes(f, s, v) = WithPage(f, s, BytesOf(f.pages[s], v))
<1> DEFINE g == [f EXCEPT !.pages[s].bytes = v]
           p == [f.pages[s] EXCEPT !.bytes = v]
<1>1. PICK ps : ps = [f.pages EXCEPT ![s] = p]
  OBVIOUS
<1>2. g = [f EXCEPT !.pages = ps]
  BY <1>1
<1>3. [f EXCEPT !.pages = ps] =
        [brk |-> f.brk, page_table |-> f.page_table, pages |-> ps,
         num_free_pages |-> f.num_free_pages, checkUB |-> f.checkUB, fault |-> f.fault]
  BY DEF MemType
<1> HIDE DEF g
<1>4. g = WithPage(f, s, p)
  BY <1>1, <1>2, <1>3 DEF WithPage
<1> QED
  BY <1>4, Zenon DEF g, WithBytes, BytesOf

Repaged(f, g, s, p) ==
    /\ g \in MemType /\ g.page_table = f.page_table /\ g.num_free_pages = f.num_free_pages
    /\ g.brk = f.brk /\ g.checkUB = f.checkUB /\ g.fault = f.fault
    /\ g.pages[s] = p /\ \A t \in Slot \ {s} : g.pages[t] = f.pages[t]
    /\ \A t \in Slot : g.pages[t].id = f.pages[t].id

LEMMA OtherContents ==
    ASSUME NEW f, MemOK(f), NEW s \in Slot, NEW p \in Page, p.id = f.pages[s].id, NEW g,
           g = WithPage(f, s, p)
    PROVE  Repaged(f, g, s, p)
<1> DEFINE ps == [f.pages EXCEPT ![s] = p]
<1>1. f \in MemType /\ f.pages \in [Slot -> Page]
  BY Fields DEF MemOK
<1>2. ps \in [Slot -> Page] /\ ps[s] = p /\ \A t \in Slot \ {s} : ps[t] = f.pages[t]
  BY <1>1
<1>3. g = [brk |-> f.brk, page_table |-> f.page_table, pages |-> ps,
           num_free_pages |-> f.num_free_pages, checkUB |-> f.checkUB, fault |-> f.fault]
  BY DEF WithPage
<1> HIDE DEF ps
<1>4. /\ g \in MemType /\ g.page_table = f.page_table /\ g.num_free_pages = f.num_free_pages
      /\ g.brk = f.brk /\ g.checkUB = f.checkUB /\ g.fault = f.fault /\ g.pages = ps
  BY <1>1, <1>2, <1>3 DEF MemType
<1> QED
  BY <1>2, <1>4 DEF Repaged

\* The memory holds data at a and after it.
Wrote(m, a, data) == \A x \in Span(a, Len(data)) : Cell(m, x) = data[x - a + 1]

WellPut(f, h, a, data) ==
    /\ MemOK(h) /\ ~Ended(h) /\ h.brk = f.brk /\ h.checkUB = f.checkUB /\ Touched(h) = Touched(f)
    /\ \A x \in Nat \ Span(a, Len(data)) : Cell(h, x) = Cell(f, x)
    /\ Wrote(h, a, data)

\* A page that has been got for writing is written.
LEMMA PutIs ==
    ASSUME NEW f, MemOK(f), ~Ended(f), NEW a \in Nat, NEW n \in Nat \ {0}, NEW data \in Seq(Byte),
           Len(data) = LowPart(a, n), NEW s \in Used(f), f.pages[s].id = PageId(a),
           NEW g, g = [f EXCEPT !.pages[s].initSet = @ \cup Span(Offset(a), LowPart(a, n))]
    PROVE  WellPut(f, Put(g, a, data), a, data)
<1> DEFINE l == Len(data)
           id == PageId(a)
           bits == Span(Offset(a), LowPart(a, n))
           p == [f.pages[s] EXCEPT !.initSet = @ \cup bits]
           put == [o \in InPage |-> IF o - Offset(a) + 1 \in DOMAIN data THEN data[o - Offset(a) + 1]
                                    ELSE f.pages[s].bytes[o]]
           q == [p EXCEPT !.bytes = put]
           h == Put(g, a, data)
<1>0. id \in Nat /\ s \in Slot /\ f.pages \in [Slot -> Page] /\ f.pages[s] \in Page
  BY Addresses, Fields
<1>1. l \in Nat \ {0} /\ Offset(a) + l <= PageSize /\ bits = Span(Offset(a), l) /\ bits \subseteq InPage
  <2>1. l \in 1 .. n /\ Offset(a) + l <= PageSize /\ bits = Span(Offset(a), l)
    BY LowPartIs
  <2>2. Offset(a) \in Nat /\ PageSize \in Nat
    BY Addresses, SparseAssumption
  <2> QED
    BY <2>1, <2>2 DEF Span, InPage
<1>p. p \in Page /\ p.id = f.pages[s].id /\ p.initSet = f.pages[s].initSet \cup bits /\ p.bytes = f.pages[s].bytes
  <2> HIDE DEF bits
  <2> QED
    BY <1>0, <1>1 DEF Page
<1>g. g = WithPage(f, s, p)
  <2>1. g = [f EXCEPT !.pages[s].initSet = f.pages[s].initSet \cup bits]
    BY Zenon
  <2>2. f \in MemType
    BY DEF MemOK
  <2>3. p = [f.pages[s] EXCEPT !.initSet = f.pages[s].initSet \cup bits]
    BY Zenon
  <2> HIDE DEF p, bits
  <2> QED
    <3>1. PICK v : v = f.pages[s].initSet \cup bits
      OBVIOUS
    <3>2. g = WithBits(f, s, v)
      BY <2>1, <3>1, Zenon DEF WithBits
    <3>3. p = BitsOf(f.pages[s], v)
      BY <2>3, <3>1, Zenon DEF BitsOf
    <3> QED
      BY <1>0, <2>2, <3>2, <3>3, OtherBits, Zenon
<1>put. put \in [InPage -> Byte]
  <2>1. f.pages[s].bytes \in [InPage -> Byte]
    BY <1>0 DEF Page
  <2>2. \A o \in InPage : o - Offset(a) + 1 \in DOMAIN data => data[o - Offset(a) + 1] \in Byte
    OBVIOUS
  <2> QED
    BY <2>1, <2>2
<1>q. q \in Page /\ q.id = f.pages[s].id /\ q.initSet = f.pages[s].initSet \cup bits /\ q.bytes = put
  <2> HIDE DEF p, put
  <2> QED
    BY <1>p, <1>put DEF Page
<1> HIDE DEF p, q
<1>2. /\ g \in MemType /\ g.page_table = f.page_table /\ g.num_free_pages = f.num_free_pages
      /\ g.brk = f.brk /\ g.checkUB = f.checkUB /\ g.fault = f.fault
      /\ g.pages[s] = p /\ \A t \in Slot \ {s} : g.pages[t] = f.pages[t]
      /\ \A t \in Slot : g.pages[t].id = f.pages[t].id
  <2>1. Repaged(f, g, s, p)
    BY <1>0, <1>p, <1>g, OtherContents, Zenon
  <2> QED
    BY <2>1, Zenon DEF Repaged
<1>3. MemOK(g) /\ Used(g) = Used(f) /\ Touched(g) = Touched(f) /\ Lookup(g, id) = Lookup(f, id)
  BY <1>0, <1>2, SameTable
<1>4. Lookup(g, id) = s
  BY <1>0, <1>3, LookupOne
<1>5. ~Ended(g)
  BY <1>2 DEF Ended
<1>6. DOMAIN p.bytes = InPage
  BY <1>p DEF Page
<1>7. h = [g EXCEPT !.pages[s].bytes = put]
  <2>1. h = [g EXCEPT !.pages[s].bytes =
               [o \in DOMAIN @ |-> IF o - Offset(a) + 1 \in DOMAIN data THEN data[o - Offset(a) + 1] ELSE @[o]]]
    BY SMTT(30), <1>4, <1>5, Zenon DEF Put
  <2> DEFINE old == g.pages[s].bytes
  <2>2. old = f.pages[s].bytes /\ DOMAIN old = InPage
    BY <1>2, <1>p, <1>6
  <2>3. [o \in DOMAIN old |-> IF o - Offset(a) + 1 \in DOMAIN data THEN data[o - Offset(a) + 1] ELSE old[o]] = put
    <3> HIDE DEF old
    <3> QED
      BY <2>2
  <2> QED
    BY <2>1, <2>3, Zenon
<1> HIDE DEF put, h
<1>8. h = WithPage(g, s, q)
  <2>1. g.pages[s] = p
    BY <1>2
  <2>2. q = [g.pages[s] EXCEPT !.bytes = put]
    BY <2>1, Zenon DEF q
  <2> QED
    <3>1. h = WithBytes(g, s, put)
      BY <1>7, Zenon DEF WithBytes
    <3>2. q = BytesOf(g.pages[s], put)
      BY <2>2, Zenon DEF BytesOf
    <3> QED
      BY <1>0, <1>2, <3>1, <3>2, OtherBytes, Zenon
<1>9. /\ h \in MemType /\ h.page_table = g.page_table /\ h.num_free_pages = g.num_free_pages
      /\ h.brk = g.brk /\ h.checkUB = g.checkUB /\ h.fault = g.fault
      /\ h.pages[s] = q /\ \A t \in Slot \ {s} : h.pages[t] = g.pages[t]
      /\ \A t \in Slot : h.pages[t].id = g.pages[t].id
  <2>1. q.id = g.pages[s].id
    BY <1>2, <1>p, <1>q
  <2>2. Repaged(g, h, s, q)
    BY <1>0, <1>3, <1>q, <1>8, <2>1, OtherContents, Zenon
  <2> QED
    BY <2>2, Zenon DEF Repaged
<1>10. MemOK(h) /\ Used(h) = Used(f) /\ Touched(h) = Touched(f)
  <2>1. MemOK(h) /\ Used(h) = Used(g) /\ Touched(h) = Touched(g)
    BY <1>3, <1>9, SameTable
  <2> QED
    BY <1>3, <2>1
<1>11. ~Ended(h) /\ h.brk = f.brk /\ h.checkUB = f.checkUB
  BY <1>2, <1>5, <1>9 DEF Ended
<1>S. /\ \A x \in Span(a, l) : x \in Nat /\ PageId(x) = id /\ Offset(x) - Offset(a) = x - a
      /\ \A x \in Nat : /\ PageId(x) = id /\ Offset(x) \in bits => x \in Span(a, l)
                        /\ x \in Span(a, l) => Offset(x) \in bits
  BY <1>1, SpanInPage
<1>12. ASSUME NEW x \in Nat, PageId(x) = id
       PROVE  /\ Cell(h, x) = IF Offset(x) \in q.initSet THEN put[Offset(x)] ELSE None
              /\ Cell(f, x) = IF Offset(x) \in f.pages[s].initSet THEN f.pages[s].bytes[Offset(x)] ELSE None
  <2>1. s \in Used(h) /\ h.pages[s].id = PageId(x) /\ h.pages[s] = q
    BY <1>9, <1>10, <1>q, <1>12
  <2>2. Cell(h, x) = IF Offset(x) \in q.initSet THEN q.bytes[Offset(x)] ELSE None
    BY <1>10, <2>1, CellInPage
  <2> QED
    BY <1>q, <1>12, <2>2, CellInPage
<1> HIDE DEF bits
<1>13. ASSUME NEW x \in Nat \ Span(a, l) PROVE Cell(h, x) = Cell(f, x)
  <2>1. CASE PageId(x) = id
    <3>1. Offset(x) \notin bits /\ Offset(x) \in InPage
      BY <1>S, <2>1, Addresses
    <3>2. put[Offset(x)] = f.pages[s].bytes[Offset(x)]
      <4>1. Offset(x) - Offset(a) + 1 \notin DOMAIN data
        <5>1. Offset(x) \in Nat /\ Offset(a) \in Nat /\ l \in Nat /\ DOMAIN data = 1 .. l
          BY Addresses
        <5> QED
          BY <3>1, <5>1, <1>1 DEF Span
      <4> QED
        BY <3>1, <4>1 DEF put
    <3>3. Offset(x) \in q.initSet <=> Offset(x) \in f.pages[s].initSet
      BY <1>q, <3>1
    <3> QED
      BY <1>12, <2>1, <3>2, <3>3
  <2>2. CASE PageId(x) # id
    <3>1. ASSUME NEW t \in Used(f), f.pages[t].id = PageId(x) PROVE Cell(h, x) = Cell(f, x)
      <4>1. t # s /\ t \in Slot
        BY <2>2, <3>1, Fields
      <4>2. h.pages[t] = f.pages[t] /\ t \in Used(h)
        BY <1>2, <1>9, <1>10, <4>1
      <4> QED
        BY <1>10, <3>1, <4>2, CellInPage
    <3>2. CASE \A t \in Used(f) : f.pages[t].id # PageId(x)
      <4>1. \A t \in Used(h) : h.pages[t].id # PageId(x)
        BY <1>2, <1>9, <1>10, <3>2, Fields
      <4> QED
        BY <1>10, <3>2, <4>1, CellNoPage
    <3> QED
      BY <3>1, <3>2
  <2> QED
    BY <2>1, <2>2
<1>14. ASSUME NEW x \in Span(a, l) PROVE Cell(h, x) = data[x - a + 1]
  <2>1. x \in Nat /\ PageId(x) = id /\ Offset(x) - Offset(a) = x - a /\ Offset(x) \in bits
    BY <1>S
  <2>2. Offset(x) \in q.initSet /\ Offset(x) \in InPage
    BY <1>q, <2>1, Addresses
  <2>3. x - a + 1 \in DOMAIN data
    BY DEF Span
  <2>4. put[Offset(x)] = data[x - a + 1]
    BY <2>1, <2>2, <2>3 DEF put
  <2> QED
    BY <1>12, <2>1, <2>2, <2>4
<1>15. Wrote(h, a, data)
  BY <1>14 DEF Wrote
<1> QED
  BY <1>10, <1>11, <1>13, <1>15 DEF h, WellPut

LEMMA WritePart ==
    ASSUME NEW m, MemOK(m), ~Ended(m), NEW a \in Nat, NEW n \in Nat \ {0}, NEW data \in Seq(Byte),
           Len(data) = LowPart(a, n), a + Len(data) <= m.brk, NEW h, h = Put(GetMem(m, a, n, TRUE), a, data)
    PROVE  Goes(m, h, {}, Span(a, Len(data))) /\ (~Ended(h) => Wrote(h, a, data))
<1> DEFINE l == Len(data)
           id == PageId(a)
           f == IF Lookup(m, id) = 0 THEN NewPage(m, id) ELSE m
           s == Lookup(f, id)
           g == GetMem(m, a, n, TRUE)
           W == Span(a, l)
<1>0. id \in Nat /\ m.brk \in Nat
  BY Addresses, Fields
<1>1. l \in Nat \ {0} /\ Offset(a) + l <= PageSize
  BY LowPartIs
<1>2. g = IF Ended(f) THEN f ELSE [f EXCEPT !.pages[s].initSet = @ \cup Span(Offset(a), LowPart(a, n))]
  <2>1. g = IF Ended(f) THEN f
            ELSE [f EXCEPT !.pages[s].initSet = @ \cup ((Offset(a) .. Offset(a) + n - 1) \cap (0 .. PageSize - 1))]
    BY Zenon DEF GetMem
  <2>2. (Offset(a) .. Offset(a) + n - 1) \cap (0 .. PageSize - 1) = Span(Offset(a), LowPart(a, n))
    BY LowPartIs, Zenon DEF InPage
  <2> HIDE DEF f, g, s
  <2> QED
    BY <2>1, <2>2, Zenon
<1>3. W \subseteq HeapBytes(m) /\ a \in W
  BY <1>0, <1>1 DEF Span, HeapBytes
<1>4. \/ /\ Ended(f) /\ f.fault = "exhausted"
         /\ m.num_free_pages = 0 /\ id \notin Touched(m)
      \/ Ready(m, f, id)
  BY <1>0, GetPage
<1>S. PagesOf(W) = {id}
  BY <1>1, SpanInPage
<1> HIDE DEF f, g, W
<1>5. CASE Ended(f) /\ f.fault = "exhausted" /\ m.num_free_pages = 0 /\ id \notin Touched(m)
  <2>1. Blamed(m, "exhausted", {}, W)
    BY <1>3, <1>5, BlameExhausted
  <2>2. h = f
    BY <1>2, <1>5, Zenon DEF Put, g
  <2> QED
    BY <1>5, <2>1, <2>2 DEF Goes, W
<1>6. CASE Ready(m, f, id)
  <2>1. MemOK(f) /\ ~Ended(f) /\ s \in Used(f) /\ f.pages[s].id = id
    BY <1>6 DEF Ready
  <2>2. h = Put(g, a, data) /\ g = [f EXCEPT !.pages[s].initSet = @ \cup Span(Offset(a), LowPart(a, n))]
    BY <1>2, <2>1, Zenon DEF g
  <2>3. /\ MemOK(h) /\ ~Ended(h) /\ h.brk = f.brk /\ h.checkUB = f.checkUB /\ Touched(h) = Touched(f)
        /\ \A x \in Nat \ W : Cell(h, x) = Cell(f, x)
        /\ Wrote(h, a, data)
    <3> HIDE DEF s
    <3>1. WellPut(f, h, a, data)
      BY <2>1, <2>2, PutIs, Zenon
    <3> QED
      BY <3>1, Zenon DEF WellPut, W
  <2>4. /\ f.brk = m.brk /\ f.checkUB = m.checkUB /\ Touched(f) = Touched(m) \cup {id}
        /\ \A x \in Nat : Cell(f, x) = Cell(m, x)
    BY <1>6 DEF Ready
  <2>5. Accessed(m, h, {}, W)
    BY <1>3, <1>S, <2>3, <2>4 DEF Accessed
  <2> QED
    BY <2>3, <2>5 DEF Goes, W
<1> QED
  BY <1>4, <1>5, <1>6

-----------------------------------------------------------------------------
(* mem_read and mem_write.                                                 *)

\* A page that has been got gives the bytes that may be found there.
LEMMA PageFound ==
    ASSUME NEW m, MemOK(m), NEW a \in Nat, NEW l \in Nat \ {0}, Offset(a) + l <= PageSize,
           PageId(a) \in Touched(m)
    PROVE  Found(m, a, PageBytes(m, a, l)) /\ Len(PageBytes(m, a, l)) = l
<1>0. PageId(a) \in Nat /\ Offset(a) \in Nat /\ PageSize \in Nat
  BY Addresses, SparseAssumption
<1>1. PICK s \in Used(m) : s = Lookup(m, PageId(a)) /\ m.pages[s].id = PageId(a)
  BY <1>0, TouchedIs, LookupIs
<1>2. m.pages[s].bytes \in [InPage -> Byte]
  BY Fields DEF Page
<1> DEFINE d == [i \in 1 .. l |-> m.pages[s].bytes[Offset(a) + i - 1]]
<1>3. PageBytes(m, a, l) = d
  BY <1>1, Zenon DEF PageBytes
<1>4. ASSUME NEW i \in 1 .. l
      PROVE  m.pages[s].bytes[Offset(a) + i - 1] \in SeenAt(m, a + i - 1)
  <2> DEFINE x == a + i - 1
  <2>1. x \in Span(a, l) /\ x - a = i - 1
    BY DEF Span
  <2>2. x \in Nat /\ PageId(x) = PageId(a) /\ Offset(x) - Offset(a) = x - a /\ Offset(x) \in Nat
    <3> HIDE DEF x
    <3>1. x \in Nat /\ PageId(x) = PageId(a) /\ Offset(x) - Offset(a) = x - a
      BY <2>1, SpanInPage
    <3> QED
      BY <3>1, Addresses
  <2>3. Offset(x) = Offset(a) + i - 1
    <3> HIDE DEF x
    <3> QED
      BY <1>0, <2>1, <2>2
  <2>4. Offset(x) \in InPage
    BY <2>2, Addresses
  <2>5. m.pages[s].bytes[Offset(x)] \in Byte
    BY <1>2, <2>4
  <2> HIDE DEF x
  <2>6. Cell(m, x) = IF Offset(x) \in m.pages[s].initSet THEN m.pages[s].bytes[Offset(x)] ELSE None
    BY <1>1, <2>2, CellInPage
  <2>7. m.pages[s].bytes[Offset(x)] \in SeenAt(m, x)
    BY <2>5, <2>6, SparseAssumption DEF SeenAt
  <2> QED
    BY <2>3, <2>7 DEF x
<1>5. \A i \in 1 .. l : Offset(a) + i - 1 \in InPage
  BY <1>0 DEF InPage
<1>6. \A i \in 1 .. l : m.pages[s].bytes[Offset(a) + i - 1] \in Byte
  BY <1>2, <1>5
<1>7. d \in Seq(Byte) /\ Len(d) = l /\ DOMAIN d = 1 .. l
  BY <1>6
<1>8. \A i \in DOMAIN d : d[i] \in SeenAt(m, a + i - 1)
  BY <1>4, <1>7
<1> HIDE DEF d
<1> QED
  BY <1>3, <1>7, <1>8 DEF Found

\* The second part starts its page, and is all in it.
LEMMA HighPart ==
    ASSUME NEW a \in Nat, NEW n \in Nat \ {0}, n <= PageSize, NEW l, l = LowPart(a, n), l # n
    PROVE  /\ l \in Nat \ {0} /\ n - l \in Nat \ {0} /\ a + l \in Nat
           /\ Offset(a + l) = 0 /\ LowPart(a + l, n - l) = n - l
           /\ Span(a, l) \cup Span(a + l, n - l) = Span(a, n)
           /\ Span(a, l) \cap Span(a + l, n - l) = {}
<1>1. l \in 1 .. n /\ Offset(a) + l = PageSize
  BY LowPartIs
<1>2. l \in Nat \ {0} /\ n - l \in Nat \ {0} /\ a + l \in Nat
  BY <1>1
<1>3. Offset(a + l) = 0
  <2> DEFINE q == PageId(a) + 1
  <2>1. PageSize \in Nat \ {0} /\ PageId(a) \in Nat /\ a = PageSize * PageId(a) + Offset(a) /\ Offset(a) \in Nat
    BY Addresses, SparseAssumption
  <2>2. PageSize * q = PageSize * PageId(a) + PageSize
    BY <2>1
  <2>3. PageSize * PageId(a) \in Nat
    BY <2>1
  <2>4. a + l = PageSize * q + 0
    BY <1>1, <2>1, <2>2, <2>3
  <2>5. q \in Nat /\ 0 \in 0 .. PageSize - 1
    BY <2>1
  <2> HIDE DEF q
  <2>6. (PageSize * q + 0) % PageSize = 0
    BY <2>1, <2>5, QuotientUnique
  <2> QED
    BY <2>4, <2>6 DEF Offset
<1>4. LowPart(a + l, n - l) = n - l
  <2>1. PICK b \in Nat, k \in Nat \ {0} : b = a + l /\ k = n - l
    BY <1>2
  <2>2. LowPart(b, k) \in 1 .. k /\ (LowPart(b, k) = k \/ Offset(b) + LowPart(b, k) = PageSize)
    BY LowPartIs
  <2>3. k <= PageSize /\ Offset(b) = 0 /\ PageSize \in Nat
    BY <1>2, <1>3, <2>1, SparseAssumption
  <2>4. LowPart(b, k) = k
    BY <2>2, <2>3
  <2> QED
    BY <2>1, <2>4
<1>5. Span(a, l) \cup Span(a + l, n - l) = Span(a, n) /\ Span(a, l) \cap Span(a + l, n - l) = {}
  BY <1>1, <1>2 DEF Span
<1> QED
  BY <1>2, <1>3, <1>4, <1>5

\* What an access that is not in the heap ends with, and where it is not.
LEMMA FaultIs ==
    ASSUME NEW m, MemOK(m), NEW why
    PROVE  [m EXCEPT !.fault = why].fault = why
BY DEF MemOK, MemType

LEMMA OutsideHeap ==
    ASSUME NEW m, MemOK(m), NEW a \in Nat, NEW n \in Nat \ {0}
    PROVE  InHeap(m, a, n) <=> Span(a, n) \subseteq HeapBytes(m)
<1>0. m.brk \in Nat
  BY Fields
<1>1. a + n - 1 \in Span(a, n)
  BY DEF Span
<1>2. InHeap(m, a, n) => Span(a, n) \subseteq HeapBytes(m)
  BY <1>0 DEF InHeap, Span, HeapBytes
<1>3. a + n - 1 \in HeapBytes(m) => a + n <= m.brk
  BY <1>0 DEF HeapBytes
<1> QED
  BY <1>1, <1>2, <1>3 DEF InHeap

\* What has been found after a read was there before it.
LEMMA FoundBefore ==
    ASSUME NEW m, NEW n, NEW R, Accessed(m, n, R, {}), NEW a \in Nat, NEW data, Found(n, a, data)
    PROVE  Found(m, a, data)
<1> SUFFICES ASSUME NEW i \in DOMAIN data PROVE data[i] \in SeenAt(m, a + i - 1)
  BY DEF Found
<1>1. data[i] \in SeenAt(n, a + i - 1) /\ i \in Nat \ {0}
  BY DEF Found
<1>2. a + i - 1 \in Nat
  BY <1>1
<1>3. Cell(n, a + i - 1) = Cell(m, a + i - 1)
  BY <1>2 DEF Accessed
<1> QED
  BY <1>1, <1>3 DEF SeenAt

LEMMA FoundBoth ==
    ASSUME NEW m, NEW a \in Nat, NEW d, Found(m, a, d), NEW l \in Nat, Len(d) = l, NEW e, Found(m, a + l, e)
    PROVE  Found(m, a, d \o e)
<1>1. d \in Seq(Byte) /\ e \in Seq(Byte)
  BY DEF Found
<1>2. d \o e \in Seq(Byte)
  BY <1>1
<1> SUFFICES ASSUME NEW i \in DOMAIN (d \o e) PROVE (d \o e)[i] \in SeenAt(m, a + i - 1)
  BY <1>2 DEF Found
<1>3. CASE i \in DOMAIN d
  <2>1. (d \o e)[i] = d[i]
    BY <1>1, <1>3
  <2> QED
    BY <1>3, <2>1 DEF Found
<1>4. CASE i \notin DOMAIN d
  <2>1. i - l \in DOMAIN e /\ (d \o e)[i] = e[i - l] /\ i \in Nat
    BY <1>1, <1>4
  <2>2. e[i - l] \in SeenAt(m, a + l + (i - l) - 1)
    BY <2>1 DEF Found
  <2>3. a + l + (i - l) - 1 = a + i - 1
    BY <2>1
  <2> QED
    BY <2>1, <2>2, <2>3
<1> QED
  BY <1>3, <1>4

\* mem_read: it ends for a reason, or gives what may be found.
WellRead(m, r, a, n) ==
    /\ Goes(m, r.mem, Span(a, n), {})
    /\ ~Ended(r.mem) => Found(m, a, r.data) /\ Len(r.data) = n

LEMMA MemReadIs ==
    ASSUME NEW m, MemOK(m), ~Ended(m), NEW a \in Nat, NEW n \in Nat \ {0}, n <= PageSize
    PROVE  WellRead(m, MemRead(m, a, n), a, n)
<1> DEFINE l == LowPart(a, n)
           lo == GetMem(m, a, n, FALSE)
           hi == IF l = n \/ Ended(lo) THEN lo ELSE GetMem(lo, a + l, n - l, FALSE)
           r == MemRead(m, a, n)
           S == Span(a, n)
<1>r. r = IF ~InHeap(m, a, n) THEN [mem |-> [m EXCEPT !.fault = "segv"], data |-> <<>>]
          ELSE IF Ended(hi) THEN [mem |-> [m EXCEPT !.fault = hi.fault], data |-> <<>>]
          ELSE [mem |-> hi, data |-> PageBytes(hi, a, l) \o (IF l = n THEN <<>> ELSE PageBytes(hi, a + l, n - l))]
  BY Zenon DEF MemRead
<1> HIDE DEF lo, hi, r
<1>0. m.brk \in Nat /\ l \in 1 .. n /\ Offset(a) + l <= PageSize /\ l \in Nat \ {0}
  <2>1. l \in 1 .. n /\ Offset(a) + l <= PageSize
    BY LowPartIs, Zenon
  <2>2. m.brk \in Nat
    BY Fields, Zenon
  <2> HIDE DEF l
  <2> QED
    BY <2>1, <2>2
<1> HIDE DEF l
<1>1. CASE ~InHeap(m, a, n)
  <2>1. r.mem.fault = "segv"
    BY <1>1, <1>r, FaultIs
  <2>2. Blamed(m, "segv", S, {})
    BY <1>1, OutsideHeap DEF Blamed
  <2> QED
    BY <2>1, <2>2 DEF WellRead, Goes, Ended, r
<1>2. CASE InHeap(m, a, n)
  <2>1. a + n <= m.brk /\ a + l <= m.brk
    BY <1>0, <1>2 DEF InHeap
  <2>2. Goes(m, lo, Span(a, l), {})
    BY <1>0, <2>1, ReadPart DEF lo, l
  <2>3. Goes(m, hi, S, {})
    <3>1. CASE l = n
      BY <2>2, <3>1 DEF hi
    <3>2. CASE l # n /\ Ended(lo)
      <4>1. Blamed(m, lo.fault, Span(a, l), {})
        BY <2>2, <3>2 DEF Goes
      <4>2. Span(a, l) \subseteq S
        BY <1>0 DEF Span
      <4>3. Blamed(m, lo.fault, S, {})
        BY <4>1, <4>2, BlameMore
      <4> QED
        BY <3>2, <4>3 DEF hi, Goes
    <3>3. CASE l # n /\ ~Ended(lo)
      <4>1. Accessed(m, lo, Span(a, l), {})
        BY <2>2, <3>3 DEF Goes
      <4>2. MemOK(lo) /\ lo.brk = m.brk
        BY <4>1 DEF Accessed
      <4>3. /\ n - l \in Nat \ {0} /\ a + l \in Nat /\ LowPart(a + l, n - l) = n - l
            /\ Span(a, l) \cup Span(a + l, n - l) = S
        BY <3>3, HighPart DEF l
      <4>4. PICK b \in Nat, k \in Nat \ {0} : b = a + l /\ k = n - l
        BY <4>3
      <4>5. b + k <= lo.brk
        BY <1>0, <2>1, <4>2, <4>4
      <4>6. k = LowPart(b, k)
        BY <4>3, <4>4
      <4>7. Goes(lo, GetMem(lo, b, k, FALSE), Span(b, k), {})
        BY <3>3, <4>2, <4>5, <4>6, ReadPart
      <4>8. hi = GetMem(lo, b, k, FALSE)
        BY <3>3, <4>4 DEF hi
      <4>9. Span(b, k) \subseteq Nat
        BY DEF Span
      <4>10. Goes(m, hi, Span(a, l) \cup Span(b, k), {} \cup {})
        BY <4>1, <4>7, <4>8, <4>9, GoesOn
      <4> QED
        BY <4>3, <4>4, <4>10
    <3> QED
      BY <3>1, <3>2, <3>3
  <2>4. CASE Ended(hi)
    <3>1. r.mem.fault = hi.fault
      BY <1>2, <1>r, <2>4, FaultIs
    <3> QED
      BY <2>3, <2>4, <3>1 DEF WellRead, Goes, Ended, r
  <2>5. CASE ~Ended(hi)
    <3>1. r.mem = hi /\ r.data = PageBytes(hi, a, l) \o (IF l = n THEN <<>> ELSE PageBytes(hi, a + l, n - l))
      BY <1>2, <1>r, <2>5
    <3>2. Accessed(m, hi, S, {})
      BY <2>3, <2>5 DEF Goes
    <3>3. MemOK(hi) /\ \A x \in S : PageId(x) \in Touched(hi)
      BY <3>2 DEF Accessed, PagesOf
    <3>4. a \in S
      BY DEF Span
    <3>5. Found(hi, a, PageBytes(hi, a, l)) /\ Len(PageBytes(hi, a, l)) = l
      BY <1>0, <3>3, <3>4, PageFound
    <3>6. CASE l = n
      <4>1. r.data = PageBytes(hi, a, l)
        <5>1. PageBytes(hi, a, l) \in Seq(Byte)
          BY <3>5 DEF Found
        <5> QED
          BY <3>1, <3>6, <5>1
      <4>2. Found(m, a, r.data) /\ Len(r.data) = n
        BY <3>2, <3>5, <3>6, <4>1, FoundBefore
      <4> QED
        BY <2>3, <3>1, <4>2 DEF WellRead, r
    <3>7. CASE l # n
      <4>1. /\ n - l \in Nat \ {0} /\ a + l \in Nat /\ Offset(a + l) = 0
        BY <3>7, HighPart DEF l
      <4>2. PICK b \in Nat, k \in Nat \ {0} : b = a + l /\ k = n - l /\ Offset(b) = 0
        BY <4>1
      <4>3. b \in S /\ Offset(b) + k <= PageSize
        BY <1>0, <4>2, SparseAssumption DEF Span
      <4>4. Found(hi, b, PageBytes(hi, b, k)) /\ Len(PageBytes(hi, b, k)) = k
        BY <3>3, <4>3, PageFound
      <4>5. PICK d, e : d = PageBytes(hi, a, l) /\ e = PageBytes(hi, b, k)
        OBVIOUS
      <4>6. r.data = d \o e
        BY <3>1, <3>7, <4>2, <4>5
      <4>7. Found(hi, a, d) /\ Len(d) = l /\ Found(hi, a + l, e) /\ Len(e) = k
        BY <3>5, <4>2, <4>4, <4>5
      <4>8. Found(hi, a, d \o e)
        BY <1>0, <4>7, FoundBoth
      <4>9. Len(d \o e) = n
        <5>1. d \in Seq(Byte) /\ e \in Seq(Byte)
          BY <4>7 DEF Found
        <5> QED
          BY <1>0, <4>2, <4>7, <5>1
      <4>10. Found(m, a, r.data) /\ Len(r.data) = n
        BY <3>2, <4>6, <4>8, <4>9, FoundBefore
      <4> QED
        BY <2>3, <3>1, <4>10 DEF WellRead, r
    <3> QED
      BY <3>6, <3>7
  <2> QED
    BY <2>4, <2>5
<1> QED
  BY <1>1, <1>2

\* mem_write: it ends for a reason, or leaves the data there.
WellWritten(m, h, a, data) ==
    /\ Goes(m, h, {}, Span(a, Len(data)))
    /\ ~Ended(h) => Wrote(h, a, data)

LEMMA MemWriteIs ==
    ASSUME NEW m, MemOK(m), ~Ended(m), NEW a \in Nat, NEW data \in Seq(Byte), data # <<>>,
           Len(data) <= PageSize
    PROVE  WellWritten(m, MemWrite(m, a, data), a, data)
<1> DEFINE n == Len(data)
           l == LowPart(a, n)
           lo == Put(GetMem(m, a, n, TRUE), a, SubSeq(data, 1, l))
           h == MemWrite(m, a, data)
           S == Span(a, n)
<1>h. h = IF ~InHeap(m, a, n) THEN [m EXCEPT !.fault = "segv"]
          ELSE IF l = n \/ Ended(lo) THEN lo
          ELSE Put(GetMem(lo, a + l, n - l, TRUE), a + l, SubSeq(data, l + 1, n))
  BY Zenon DEF MemWrite
<1>n. n \in Nat \ {0}
  OBVIOUS
<1>0. m.brk \in Nat /\ l \in 1 .. n /\ l \in Nat \ {0}
  <2>1. l \in 1 .. n
    BY <1>n, LowPartIs, Zenon
  <2>2. m.brk \in Nat
    BY Fields, Zenon
  <2> HIDE DEF l, lo, h
  <2> QED
    BY <1>n, <2>1, <2>2
<1>e. /\ SubSeq(data, l + 1, n) \in Seq(Byte) /\ Len(SubSeq(data, l + 1, n)) = n - l
      /\ \A i \in 1 .. n - l : SubSeq(data, l + 1, n)[i] = data[l + i]
  <2> HIDE DEF l, lo, h
  <2> QED
    BY <1>0
<1>d. /\ SubSeq(data, 1, l) \in Seq(Byte) /\ Len(SubSeq(data, 1, l)) = l
      /\ \A i \in 1 .. l : SubSeq(data, 1, l)[i] = data[i]
  <2> HIDE DEF l
  <2> QED
    BY <1>0
<1> HIDE DEF l, lo, h
<1>1. CASE ~InHeap(m, a, n)
  <2>1. h.fault = "segv"
    BY <1>1, <1>h, FaultIs
  <2>2. Blamed(m, "segv", {}, S)
    BY <1>1, <1>n, OutsideHeap DEF Blamed
  <2> QED
    BY <2>1, <2>2 DEF WellWritten, Goes, Ended, h
<1>2. CASE InHeap(m, a, n)
  <2>1. a + n <= m.brk /\ a + l <= m.brk
    BY <1>0, <1>2 DEF InHeap
  <2>2. PICK d \in Seq(Byte) : d = SubSeq(data, 1, l) /\ Len(d) = l /\ \A i \in 1 .. l : d[i] = data[i]
    BY <1>d
  <2>3. Goes(m, lo, {}, Span(a, l)) /\ (~Ended(lo) => Wrote(lo, a, d))
    <3>1. lo = Put(GetMem(m, a, n, TRUE), a, d) /\ Len(d) = LowPart(a, n) /\ a + Len(d) <= m.brk
      BY <2>1, <2>2 DEF lo, l
    <3> QED
      BY <1>n, <2>2, <3>1, WritePart
  <2>4. CASE l = n
    <3>1. h = lo
      BY <1>2, <1>h, <2>4
    <3>2. d = data
      BY <2>2, <2>4
    <3> QED
      BY <2>3, <2>4, <3>1, <3>2 DEF WellWritten, h
  <2>5. CASE l # n /\ Ended(lo)
    <3>1. Blamed(m, lo.fault, {}, Span(a, l))
      BY <2>3, <2>5 DEF Goes
    <3>2. Span(a, l) \subseteq S
      BY <1>0 DEF Span
    <3>3. Blamed(m, lo.fault, {}, S)
      BY <3>1, <3>2, BlameMore
    <3>4. h = lo
      BY <1>2, <1>h, <2>5
    <3> QED
      BY <2>5, <3>3, <3>4 DEF WellWritten, Goes, h
  <2>6. CASE l # n /\ ~Ended(lo)
    <3>1. Accessed(m, lo, {}, Span(a, l)) /\ Wrote(lo, a, d)
      BY <2>3, <2>6 DEF Goes
    <3>2. MemOK(lo) /\ lo.brk = m.brk
      BY <3>1 DEF Accessed
    <3>3. /\ n - l \in Nat \ {0} /\ a + l \in Nat /\ LowPart(a + l, n - l) = n - l
          /\ Span(a, l) \cup Span(a + l, n - l) = S /\ Span(a, l) \cap Span(a + l, n - l) = {}
      BY <1>n, <2>6, HighPart DEF l
    <3>4. PICK b \in Nat, k \in Nat \ {0} : b = a + l /\ k = n - l
      BY <3>3
    <3>5. PICK e \in Seq(Byte) : e = SubSeq(data, l + 1, n) /\ Len(e) = k /\ \A i \in 1 .. k : e[i] = data[l + i]
      BY <1>e, <3>4
    <3>6. b + k <= lo.brk /\ k = LowPart(b, k)
      BY <1>0, <2>1, <3>2, <3>3, <3>4
    <3>7. h = Put(GetMem(lo, b, k, TRUE), b, e)
      BY <1>2, <1>h, <2>6, <3>4, <3>5
    <3>8. Goes(lo, h, {}, Span(b, k)) /\ (~Ended(h) => Wrote(h, b, e))
      BY <2>6, <3>2, <3>5, <3>6, <3>7, WritePart
    <3>9. Goes(m, h, {} \cup {}, Span(a, l) \cup Span(b, k))
      BY <3>1, <3>8, GoesOn
    <3>10. Goes(m, h, {}, S)
      BY <3>3, <3>4, <3>9
    <3>11. ASSUME ~Ended(h), NEW x \in S PROVE Cell(h, x) = data[x - a + 1]
      <4>0. x \in Nat /\ x >= a /\ x < a + n
        BY <1>n DEF Span
      <4>1. CASE x \in Span(a, l)
        <5>1. x \notin Span(b, k)
          BY <3>3, <3>4, <4>1
        <5>2. Cell(h, x) = Cell(lo, x)
          BY <3>8, <3>11, <4>0, <5>1 DEF Goes, Accessed
        <5>3. Cell(lo, x) = d[x - a + 1]
          BY <2>2, <3>1, <4>1 DEF Wrote
        <5>4. x - a + 1 \in 1 .. l
          BY <1>0, <4>0, <4>1 DEF Span
        <5> QED
          BY <2>2, <5>2, <5>3, <5>4
      <4>2. CASE x \in Span(b, k)
        <5>1. Cell(h, x) = e[x - b + 1]
          BY <3>5, <3>8, <3>11, <4>2 DEF Wrote
        <5>2. x - b + 1 \in 1 .. k /\ l + (x - b + 1) = x - a + 1
          BY <1>0, <3>4, <4>0, <4>2 DEF Span
        <5>3. e[x - b + 1] = data[l + (x - b + 1)]
          BY <3>5, <5>2
        <5> QED
          BY <5>1, <5>2, <5>3
      <4> QED
        BY <3>3, <3>4, <4>1, <4>2
    <3>12. ~Ended(h) => Wrote(h, a, data)
      BY <3>11 DEF Wrote
    <3> QED
      BY <3>10, <3>12 DEF WellWritten, h
  <2> QED
    BY <2>4, <2>5, <2>6
<1> QED
  BY <1>1, <1>2

-----------------------------------------------------------------------------
(* mem_memcpy and mem_memset.                                              *)

LEMMA LastPartIs ==
    ASSUME NEW k \in Nat \ {0}
    PROVE  LastPart(k) \in 1 .. k /\ LastPart(k) <= PageSize
<1> DEFINE q == k \div Word
           r == k % Word
<1>1. Word \in Nat \ {0} /\ Word <= PageSize /\ PageSize \in Nat
  BY SparseAssumption
<1>2. q \in Int /\ r \in 0 .. Word - 1 /\ k = Word * q + r /\ q >= 0
  BY <1>1
<1>3. LastPart(k) = IF r = 0 THEN Word ELSE r
  BY DEF LastPart
<1> HIDE DEF q, r
<1>4. Word * q \in Nat /\ (q # 0 => Word * q >= Word)
  <2>1. q \in Nat /\ Word * q \in Nat
    BY <1>1, <1>2
  <2>2. ASSUME q # 0 PROVE Word * q >= Word
    <3>1. q - 1 \in Nat /\ Word * (q - 1) = Word * q - Word
      BY <1>1, <2>1, <2>2
    <3>2. Word * (q - 1) \in Nat
      BY <1>1, <3>1
    <3> QED
      BY <1>1, <2>1, <3>1, <3>2
  <2> QED
    BY <2>1, <2>2
<1>5. r = 0 => q # 0
  BY <1>1, <1>2
<1> QED
  BY <1>1, <1>2, <1>3, <1>4, <1>5

\* Nothing read or written.
LEMMA GoesNowhere ==
    ASSUME NEW m, MemOK(m), ~Ended(m)
    PROVE  Goes(m, m, {}, {})
BY DEF Goes, Accessed, PagesOf

LEMMA SpanJoins ==
    ASSUME NEW a \in Nat, NEW j \in Nat, NEW l \in Nat
    PROVE  /\ Span(a, j) \cup Span(a + j, l) = Span(a, j + l) /\ Span(a, 0) = {}
           /\ Span(a, j) \subseteq Nat /\ Span(a, j) \subseteq Span(a, j + l)
BY DEF Span

\* h holds at dst and after it what may be found in m at src and after it.
WellCopied(m, h, dst, src, k) ==
    /\ Goes(m, h, Span(src, k), Span(dst, k))
    /\ ~Ended(h) => \A x \in Span(dst, k) : Cell(h, x) \in SeenAt(m, x - dst + src)

LEMMA CopyNothing ==
    ASSUME NEW m, MemOK(m), ~Ended(m), NEW dst \in Nat, NEW src \in Nat
    PROVE  WellCopied(m, m, dst, src, 0)
<1>1. Span(dst, 0) = {} /\ Span(src, 0) = {}
  BY SpanJoins
<1> QED
  BY <1>1, GoesNowhere DEF WellCopied

Apart(dst, src, n) == dst + n <= src \/ src + n <= dst

\* One turn of the loop.
LEMMA CopyPartIs ==
    ASSUME NEW m, NEW p, NEW dst \in Nat, NEW src \in Nat, NEW n \in Nat, Apart(dst, src, n),
           NEW j \in Nat, NEW l \in Nat \ {0}, l <= PageSize, j + l <= n, WellCopied(m, p, dst, src, j),
           MemOK(m), NEW h, h = CopyPart(p, dst + j, src + j, l)
    PROVE  WellCopied(m, h, dst, src, j + l)
<1> DEFINE r == MemRead(p, src + j, l)
           R == Span(src, j)
           W == Span(dst, j)
           R2 == Span(src + j, l)
           W2 == Span(dst + j, l)
<1>h. h = IF Ended(p) THEN p ELSE IF Ended(r.mem) THEN r.mem ELSE MemWrite(r.mem, dst + j, r.data)
  BY Zenon DEF CopyPart
<1>S. /\ R \cup R2 = Span(src, j + l) /\ W \cup W2 = Span(dst, j + l) /\ R2 \subseteq Nat
      /\ W \cap R2 = {} /\ R \cup W \cup R2 \cup W2 \subseteq Nat
  BY DEF Span, Apart
<1> HIDE DEF r
<1>1. CASE Ended(p)
  <2>1. Blamed(m, p.fault, R, W)
    BY <1>1 DEF WellCopied, Goes
  <2>2. Blamed(m, p.fault, Span(src, j + l), Span(dst, j + l))
    BY <1>S, <2>1, BlameMore
  <2> QED
    BY <1>1, <1>h, <2>2 DEF WellCopied, Goes
<1>2. CASE ~Ended(p)
  <2>1. Accessed(m, p, R, W) /\ \A x \in W : Cell(p, x) \in SeenAt(m, x - dst + src)
    BY <1>2 DEF WellCopied, Goes
  <2>2. MemOK(p)
    BY <2>1 DEF Accessed
  <2>3. PICK b \in Nat, c \in Nat : b = src + j /\ c = dst + j
    OBVIOUS
  <2>4. WellRead(p, r, b, l)
    BY <1>2, <2>2, <2>3, MemReadIs DEF r
  <2>5. Goes(p, r.mem, R2, {})
    BY <2>3, <2>4 DEF WellRead
  <2>6. Goes(m, r.mem, R \cup R2, W \cup {})
    <3> HIDE DEF R, R2, W
    <3> QED
      BY <1>S, <2>1, <2>5, GoesOn
  <2>7. CASE Ended(r.mem)
    <3>1. Blamed(m, r.mem.fault, R \cup R2, W \cup {})
      BY <2>6, <2>7 DEF Goes
    <3>2. W \cup {} \subseteq Span(dst, j + l) /\ R \cup R2 \subseteq Span(src, j + l)
      BY <1>S
    <3>3. Blamed(m, r.mem.fault, Span(src, j + l), Span(dst, j + l))
      BY <3>1, <3>2, BlameMore
    <3>4. h = r.mem
      BY <1>2, <1>h, <2>7
    <3> QED
      BY <2>7, <3>3, <3>4 DEF WellCopied, Goes
  <2>8. CASE ~Ended(r.mem)
    <3>1. PICK q, d : q = r.mem /\ d = r.data
      OBVIOUS
    <3>2. Accessed(m, q, R \cup R2, W \cup {}) /\ Accessed(p, q, R2, {}) /\ Found(p, b, d) /\ Len(d) = l
      BY <2>4, <2>5, <2>6, <2>8, <3>1 DEF Goes, WellRead
    <3>3. MemOK(q) /\ ~Ended(q) /\ d \in Seq(Byte) /\ d # <<>>
      BY <3>2 DEF Accessed, Found
    <3>4. h = MemWrite(q, c, d)
      BY <1>2, <1>h, <2>3, <2>8, <3>1
    <3>5. WellWritten(q, h, c, d)
      BY <3>2, <3>3, <3>4, MemWriteIs
    <3>6. Goes(q, h, {}, W2) /\ (~Ended(h) => Wrote(h, c, d))
      BY <2>3, <3>2, <3>5 DEF WellWritten
    <3>7. Goes(m, h, (R \cup R2) \cup {}, (W \cup {}) \cup W2)
      <4> HIDE DEF R, R2, W, W2
      <4> QED
        BY <3>2, <3>6, GoesOn
    <3>8. Goes(m, h, Span(src, j + l), Span(dst, j + l))
      <4>1. (R \cup R2) \cup {} = Span(src, j + l) /\ (W \cup {}) \cup W2 = Span(dst, j + l)
        BY <1>S
      <4> QED
        BY <3>7, <4>1, Zenon
    <3>9. ASSUME ~Ended(h), NEW x \in Span(dst, j + l) PROVE Cell(h, x) \in SeenAt(m, x - dst + src)
      <4>0. x \in Nat /\ x - dst \in Nat /\ (x \in W \/ x \in W2)
        BY <1>S DEF Span
      <4>1. CASE x \in W2
        <5>1. Cell(h, x) = d[x - c + 1] /\ x - c + 1 \in DOMAIN d
          <6>1. x \in Span(c, Len(d)) /\ DOMAIN d = 1 .. l
            BY <2>3, <3>2, <3>3, <4>1
          <6>2. x - c + 1 \in 1 .. l
            BY <4>1, <2>3 DEF Span
          <6> QED
            BY <3>6, <3>9, <6>1, <6>2 DEF Wrote
        <5>2. d[x - c + 1] \in SeenAt(p, b + (x - c + 1) - 1)
          BY <3>2, <5>1 DEF Found
        <5>3. b + (x - c + 1) - 1 = x - dst + src /\ x - dst + src \in R2 /\ x - dst + src \in Nat
          <6>1. x >= dst + j /\ x <= dst + j + l - 1
            BY <4>1 DEF Span
          <6> QED
            BY <2>3, <4>0, <6>1 DEF Span
        <5>4. Cell(p, x - dst + src) = Cell(m, x - dst + src)
          <6>1. x - dst + src \in Nat \ W
            BY <1>S, <5>3
          <6> QED
            BY <2>1, <6>1 DEF Accessed
        <5>5. SeenAt(p, x - dst + src) = SeenAt(m, x - dst + src)
          BY <5>4 DEF SeenAt
        <5> QED
          BY <5>1, <5>2, <5>3, <5>5
      <4>2. CASE x \notin W2
        <5>1. Accessed(q, h, {}, W2)
          BY <3>6, <3>9 DEF Goes
        <5>2. Cell(h, x) = Cell(q, x)
          BY <4>0, <4>2, <5>1 DEF Accessed
        <5>3. Cell(q, x) = Cell(p, x)
          BY <3>2, <4>0 DEF Accessed
        <5> QED
          BY <2>1, <4>0, <4>2, <5>2, <5>3
      <4> QED
        BY <4>1, <4>2
    <3> QED
      BY <3>8, <3>9 DEF WellCopied
  <2> QED
    BY <2>7, <2>8
<1> QED
  BY <1>1, <1>2

\* The loop of mem_memcpy, as the recursive function it is.
CopyEq(f, m, dst, src, n) ==
    f = [k \in 0 .. n |-> IF k = 0 THEN m ELSE CopyPart(f[k - LastPart(k)], dst + k - LastPart(k), src + k - LastPart(k), LastPart(k))]

LEMMA CopyExists ==
    ASSUME NEW m, NEW dst, NEW src, NEW n \in Nat
    PROVE  \E f : CopyEq(f, m, dst, src, n)
<1> DEFINE T == {j \in Nat : ~\E f : CopyEq(f, m, dst, src, j)}
<1> SUFFICES ASSUME T # {} PROVE FALSE
  OBVIOUS
<1>1. PICK j \in T : \A i \in T : j <= i
  <2>1. T \in SUBSET Nat
    OBVIOUS
  <2> HIDE DEF T
  <2> QED
    BY <2>1, LeastNatural
<1>2. j \in Nat /\ ~\E f : CopyEq(f, m, dst, src, j)
  BY <1>1
<1>3. j # 0
  <2> SUFFICES ASSUME j = 0 PROVE FALSE
    OBVIOUS
  <2> DEFINE f == [k \in 0 .. 0 |-> m]
  <2>1. f = [k \in 0 .. 0 |-> IF k = 0 THEN m ELSE CopyPart(f[k - LastPart(k)], dst + k - LastPart(k), src + k - LastPart(k), LastPart(k))]
    OBVIOUS
  <2>2. CopyEq(f, m, dst, src, 0)
    BY <2>1, Zenon DEF CopyEq
  <2> QED
    BY <1>2, <2>2
<1>4. PICK g : CopyEq(g, m, dst, src, j - 1)
  <2>1. j - 1 \in Nat /\ j - 1 < j
    BY <1>2, <1>3
  <2>2. j - 1 \notin T
    <3> HIDE DEF T
    <3> QED
      BY <1>1, <1>2, <2>1
  <2> QED
    BY <2>1, <2>2
<1> DEFINE V(h, k) == IF k = 0 THEN m ELSE CopyPart(h[k - LastPart(k)], dst + k - LastPart(k), src + k - LastPart(k), LastPart(k))
           f == [k \in 0 .. j |-> V(g, k)]
<1>5. \A k \in 0 .. j - 1 : g[k] = V(g, k)
  BY <1>4, Zenon DEF CopyEq
<1>6. ASSUME NEW k \in 0 .. j PROVE V(f, k) = V(g, k)
  <2>1. CASE k = 0
    BY <2>1
  <2>2. CASE k # 0
    <3>1. LastPart(k) \in 1 .. k
      BY <2>2, LastPartIs
    <3>2. PICK i \in 0 .. j - 1 : i = k - LastPart(k)
      BY <3>1, <1>2
    <3>3. f[i] = g[i]
      <4>1. i \in 0 .. j
        BY <1>2, <3>2
      <4>2. f[i] = V(g, i)
        <5> HIDE DEF V
        <5> QED
          BY <4>1
      <4> HIDE DEF f, V
      <4> QED
        BY <1>5, <3>2, <4>2
    <3> HIDE DEF f
    <3> QED
      BY <2>2, <3>2, <3>3, Zenon
  <2> QED
    BY <2>1, <2>2
<1>7. CopyEq(f, m, dst, src, j)
  <2>1. f = [k \in 0 .. j |-> V(f, k)]
    <3>1. \A k \in 0 .. j : V(f, k) = V(g, k)
      BY <1>6
    <3> HIDE DEF V
    <3> QED
      BY <3>1, Zenon
  <2> HIDE DEF f
  <2> QED
    BY <2>1, Zenon DEF CopyEq
<1> QED
  BY <1>2, <1>7

\* mem_memcpy: it ends for a reason, or what was at src is at dst.
LEMMA MemMemcpyIs ==
    ASSUME NEW m, MemOK(m), ~Ended(m), NEW dst \in Nat, NEW src \in Nat,
           NEW n \in Nat, Apart(dst, src, n)
    PROVE  WellCopied(m, MemMemcpy(m, dst, src, n), dst, src, n)
<1> DEFINE f == CHOOSE h : CopyEq(h, m, dst, src, n)
<1>1. MemMemcpy(m, dst, src, n) = f[n]
  BY Zenon DEF MemMemcpy, CopyEq
<1>2. CopyEq(f, m, dst, src, n)
  BY CopyExists, Zenon
<1> HIDE DEF f
<1>3. \A k \in 0 .. n : f[k] = IF k = 0 THEN m ELSE CopyPart(f[k - LastPart(k)], dst + k - LastPart(k), src + k - LastPart(k), LastPart(k))
  BY <1>2, Zenon DEF CopyEq
<1> DEFINE T == {k \in 0 .. n : ~WellCopied(m, f[k], dst, src, k)}
<1>4. T = {}
  <2> SUFFICES ASSUME T # {} PROVE FALSE
    OBVIOUS
  <2>1. PICK k \in T : \A i \in T : k <= i
    <3>1. T \in SUBSET Nat
      OBVIOUS
    <3> HIDE DEF T
    <3> QED
      BY <3>1, LeastNatural
  <2>2. k \in 0 .. n /\ ~WellCopied(m, f[k], dst, src, k)
    BY <2>1
  <2>3. CASE k = 0
    <3>1. f[k] = m
      BY <1>3, <2>2, <2>3
    <3> QED
      BY <2>2, <2>3, <3>1, CopyNothing
  <2>4. CASE k # 0
    <3>1. LastPart(k) \in 1 .. k /\ LastPart(k) <= PageSize
      BY <2>2, <2>4, LastPartIs
    <3>2. PICK l \in Nat \ {0}, j \in Nat : l = LastPart(k) /\ j = k - l /\ l <= PageSize /\ j + l = k
      BY <2>2, <3>1
    <3>3. j \in 0 .. n /\ j < k /\ j + l <= n
      BY <2>2, <3>2
    <3>4. WellCopied(m, f[j], dst, src, j)
      <4>1. j \notin T
        <5> HIDE DEF T
        <5>1. \A i \in T : ~(i < k)
          <6>1. \A i \in T : k <= i /\ i \in Int
            BY <2>1 DEF T
          <6>2. k \in Int
            BY <2>2
          <6> QED
            BY <6>1, <6>2
        <5> QED
          BY <3>3, <5>1
      <4> QED
        BY <3>3, <4>1
    <3>5. f[k] = CopyPart(f[j], dst + j, src + j, l)
      <4>1. k - LastPart(k) = j
        BY <3>2
      <4>2. f[k] = CopyPart(f[k - LastPart(k)], dst + k - LastPart(k), src + k - LastPart(k), LastPart(k))
        BY <1>3, <2>2, <2>4, Zenon
      <4> QED
        BY <3>2, <4>1, <4>2, Zenon
    <3>6. WellCopied(m, f[k], dst, src, j + l)
      BY <3>2, <3>3, <3>4, <3>5, CopyPartIs
    <3> QED
      BY <2>2, <3>2, <3>6
  <2> QED
    BY <2>3, <2>4
<1>5. n \in 0 .. n /\ n \notin T
  BY <1>4
<1>6. WellCopied(m, f[n], dst, src, n)
  BY <1>5
<1> QED
  BY <1>1, <1>6, Zenon

\* h holds c at dst and after it.
WellSet(m, h, dst, c, k) ==
    /\ Goes(m, h, {}, Span(dst, k))
    /\ ~Ended(h) => \A x \in Span(dst, k) : Cell(h, x) = c

LEMMA SetNothing ==
    ASSUME NEW m, MemOK(m), ~Ended(m), NEW dst \in Nat, NEW c \in Byte
    PROVE  WellSet(m, m, dst, c, 0)
<1>1. Span(dst, 0) = {}
  BY SpanJoins
<1> QED
  BY <1>1, GoesNowhere DEF WellSet

\* One turn of the loop.
LEMMA SetPartIs ==
    ASSUME NEW m, NEW p, NEW dst \in Nat, NEW c \in Byte, NEW j \in Nat, NEW l \in Nat \ {0}, l <= PageSize,
           WellSet(m, p, dst, c, j), MemOK(m), NEW h, h = SetPart(p, dst + j, c, l)
    PROVE  WellSet(m, h, dst, c, j + l)
<1> DEFINE W == Span(dst, j)
           W2 == Span(dst + j, l)
           d == [i \in 1 .. l |-> c]
<1>h. h = IF Ended(p) THEN p ELSE MemWrite(p, dst + j, d)
  BY Zenon DEF SetPart
<1>S. W \cup W2 = Span(dst, j + l)
  BY SpanJoins
<1>d. d \in Seq(Byte) /\ d # <<>> /\ Len(d) = l /\ \A i \in 1 .. l : d[i] = c
  OBVIOUS
<1> HIDE DEF d
<1>1. CASE Ended(p)
  <2>1. Blamed(m, p.fault, {}, W)
    BY <1>1 DEF WellSet, Goes
  <2>2. Blamed(m, p.fault, {}, Span(dst, j + l))
    BY <1>S, <2>1, BlameMore
  <2> QED
    BY <1>1, <1>h, <2>2 DEF WellSet, Goes
<1>2. CASE ~Ended(p)
  <2>1. Accessed(m, p, {}, W) /\ \A x \in W : Cell(p, x) = c
    BY <1>2 DEF WellSet, Goes
  <2>2. MemOK(p)
    BY <2>1 DEF Accessed
  <2>3. PICK b \in Nat : b = dst + j
    OBVIOUS
  <2>4. WellWritten(p, h, b, d)
    BY <1>2, <1>h, <1>d, <2>2, <2>3, MemWriteIs
  <2>5. Goes(p, h, {}, W2) /\ (~Ended(h) => Wrote(h, b, d))
    BY <1>d, <2>3, <2>4 DEF WellWritten
  <2>6. Goes(m, h, {} \cup {}, W \cup W2)
    <3> HIDE DEF W, W2
    <3> QED
      BY <2>1, <2>5, GoesOn
  <2>7. ASSUME ~Ended(h), NEW x \in Span(dst, j + l) PROVE Cell(h, x) = c
    <3>0. x \in Nat /\ (x \in W \/ x \in W2)
      BY <1>S DEF Span
    <3>1. CASE x \in W2
      <4>1. Cell(h, x) = d[x - b + 1]
        BY <1>d, <2>3, <2>5, <2>7, <3>1 DEF Wrote
      <4>2. x - b + 1 \in 1 .. l
        BY <2>3, <3>1 DEF Span
      <4> QED
        BY <1>d, <4>1, <4>2
    <3>2. CASE x \notin W2
      <4>1. Cell(h, x) = Cell(p, x)
        BY <2>5, <2>7, <3>0, <3>2 DEF Goes, Accessed
      <4> QED
        BY <2>1, <3>0, <3>2, <4>1
    <3> QED
      BY <3>1, <3>2
  <2> QED
    BY <1>S, <2>6, <2>7 DEF WellSet
<1> QED
  BY <1>1, <1>2

\* The loop of mem_memset, as the recursive function it is.
SetEq(f, m, dst, c, n) ==
    f = [k \in 0 .. n |-> IF k = 0 THEN m ELSE SetPart(f[k - LastPart(k)], dst + k - LastPart(k), c, LastPart(k))]

LEMMA SetExists ==
    ASSUME NEW m, NEW dst, NEW c, NEW n \in Nat
    PROVE  \E f : SetEq(f, m, dst, c, n)
<1> DEFINE T == {j \in Nat : ~\E f : SetEq(f, m, dst, c, j)}
<1> SUFFICES ASSUME T # {} PROVE FALSE
  OBVIOUS
<1>1. PICK j \in T : \A i \in T : j <= i
  <2>1. T \in SUBSET Nat
    OBVIOUS
  <2> HIDE DEF T
  <2> QED
    BY <2>1, LeastNatural
<1>2. j \in Nat /\ ~\E f : SetEq(f, m, dst, c, j)
  BY <1>1
<1>3. j # 0
  <2> SUFFICES ASSUME j = 0 PROVE FALSE
    OBVIOUS
  <2> DEFINE f == [k \in 0 .. 0 |-> m]
  <2>1. f = [k \in 0 .. 0 |-> IF k = 0 THEN m ELSE SetPart(f[k - LastPart(k)], dst + k - LastPart(k), c, LastPart(k))]
    OBVIOUS
  <2>2. SetEq(f, m, dst, c, 0)
    BY <2>1, Zenon DEF SetEq
  <2> QED
    BY <1>2, <2>2
<1>4. PICK g : SetEq(g, m, dst, c, j - 1)
  <2>1. j - 1 \in Nat /\ j - 1 < j
    BY <1>2, <1>3
  <2>2. j - 1 \notin T
    <3> HIDE DEF T
    <3> QED
      BY <1>1, <1>2, <2>1
  <2> QED
    BY <2>1, <2>2
<1> DEFINE V(h, k) == IF k = 0 THEN m ELSE SetPart(h[k - LastPart(k)], dst + k - LastPart(k), c, LastPart(k))
           f == [k \in 0 .. j |-> V(g, k)]
<1>5. \A k \in 0 .. j - 1 : g[k] = V(g, k)
  BY <1>4, Zenon DEF SetEq
<1>6. ASSUME NEW k \in 0 .. j PROVE V(f, k) = V(g, k)
  <2>1. CASE k = 0
    BY <2>1
  <2>2. CASE k # 0
    <3>1. LastPart(k) \in 1 .. k
      BY <2>2, LastPartIs
    <3>2. PICK i \in 0 .. j - 1 : i = k - LastPart(k)
      BY <3>1, <1>2
    <3>3. f[i] = g[i]
      <4>1. i \in 0 .. j
        BY <1>2, <3>2
      <4>2. f[i] = V(g, i)
        <5> HIDE DEF V
        <5> QED
          BY <4>1
      <4> HIDE DEF f, V
      <4> QED
        BY <1>5, <3>2, <4>2
    <3> HIDE DEF f
    <3> QED
      BY <2>2, <3>2, <3>3, Zenon
  <2> QED
    BY <2>1, <2>2
<1>7. SetEq(f, m, dst, c, j)
  <2>1. f = [k \in 0 .. j |-> V(f, k)]
    <3>1. \A k \in 0 .. j : V(f, k) = V(g, k)
      BY <1>6
    <3> HIDE DEF V
    <3> QED
      BY <3>1, Zenon
  <2> HIDE DEF f
  <2> QED
    BY <2>1, Zenon DEF SetEq
<1> QED
  BY <1>2, <1>7

\* mem_memset: it ends for a reason, or leaves c there.
LEMMA MemMemsetIs ==
    ASSUME NEW m, MemOK(m), ~Ended(m), NEW dst \in Nat, NEW c \in Byte, NEW n \in Nat
    PROVE  WellSet(m, MemMemset(m, dst, c, n), dst, c, n)
<1> DEFINE f == CHOOSE h : SetEq(h, m, dst, c, n)
<1>1. MemMemset(m, dst, c, n) = f[n]
  BY Zenon DEF MemMemset, SetEq
<1>2. SetEq(f, m, dst, c, n)
  BY SetExists, Zenon
<1> HIDE DEF f
<1>3. \A k \in 0 .. n : f[k] = IF k = 0 THEN m ELSE SetPart(f[k - LastPart(k)], dst + k - LastPart(k), c, LastPart(k))
  BY <1>2, Zenon DEF SetEq
<1> DEFINE T == {k \in 0 .. n : ~WellSet(m, f[k], dst, c, k)}
<1>4. T = {}
  <2> SUFFICES ASSUME T # {} PROVE FALSE
    OBVIOUS
  <2>1. PICK k \in T : \A i \in T : k <= i
    <3>1. T \in SUBSET Nat
      OBVIOUS
    <3> HIDE DEF T
    <3> QED
      BY <3>1, LeastNatural
  <2>2. k \in 0 .. n /\ ~WellSet(m, f[k], dst, c, k)
    BY <2>1
  <2>3. CASE k = 0
    <3>1. f[k] = m
      BY <1>3, <2>2, <2>3
    <3> QED
      BY <2>2, <2>3, <3>1, SetNothing
  <2>4. CASE k # 0
    <3>1. LastPart(k) \in 1 .. k /\ LastPart(k) <= PageSize
      BY <2>2, <2>4, LastPartIs
    <3>2. PICK l \in Nat \ {0}, j \in Nat : l = LastPart(k) /\ j = k - l /\ l <= PageSize /\ j + l = k
      BY <2>2, <3>1
    <3>3. j \in 0 .. n /\ j < k /\ j + l <= n
      BY <2>2, <3>2
    <3>4. WellSet(m, f[j], dst, c, j)
      <4>1. j \notin T
        <5> HIDE DEF T
        <5>1. \A i \in T : ~(i < k)
          <6>1. \A i \in T : k <= i /\ i \in Int
            BY <2>1 DEF T
          <6>2. k \in Int
            BY <2>2
          <6> QED
            BY <6>1, <6>2
        <5> QED
          BY <3>3, <5>1
      <4> QED
        BY <3>3, <4>1
    <3>5. f[k] = SetPart(f[j], dst + j, c, l)
      <4>1. k - LastPart(k) = j
        BY <3>2
      <4>2. f[k] = SetPart(f[k - LastPart(k)], dst + k - LastPart(k), c, LastPart(k))
        BY <1>3, <2>2, <2>4, Zenon
      <4> QED
        BY <3>2, <4>1, <4>2, Zenon
    <3>6. WellSet(m, f[k], dst, c, j + l)
      BY <3>2, <3>3, <3>4, <3>5, SetPartIs
    <3> QED
      BY <2>2, <3>2, <3>6
  <2> QED
    BY <2>3, <2>4
<1>5. n \in 0 .. n /\ n \notin T
  BY <1>4
<1>6. WellSet(m, f[n], dst, c, n)
  BY <1>5
<1> QED
  BY <1>1, <1>6, Zenon

-----------------------------------------------------------------------------
(* The memory after each call.                                             *)

\* The same pages, the same bytes.
LEMMA SameCells ==
    ASSUME NEW f, MemOK(f), NEW g \in MemType, g.page_table = f.page_table,
           g.num_free_pages = f.num_free_pages, g.pages = f.pages
    PROVE  MemOK(g) /\ Touched(g) = Touched(f) /\ \A a \in Nat : Cell(g, a) = Cell(f, a)
<1>1. /\ MemOK(g) /\ Touched(g) = Touched(f)
      /\ \A id \in Nat : Lookup(g, id) = Lookup(f, id)
  <2>1. \A t \in Slot : g.pages[t].id = f.pages[t].id
    OBVIOUS
  <2> QED
    BY <2>1, SameTable
<1>2. ASSUME NEW a \in Nat PROVE Cell(g, a) = Cell(f, a)
  <2>1. Lookup(g, PageId(a)) = Lookup(f, PageId(a))
    BY <1>1, Addresses
  <2> QED
    BY <2>1 DEF Cell
<1> QED
  BY <1>1, <1>2

\* What ends the program leaves the flat view as it is.
LEMMA EndedIs ==
    ASSUME NEW m, MemOK(m), NEW why \in {"segv", "exhausted", "uninitialized"}, NEW g, g = [m EXCEPT !.fault = why]
    PROVE  /\ MemOK(g) /\ Touched(g) = Touched(m) /\ \A a \in Nat : Cell(g, a) = Cell(m, a)
           /\ g.fault = why /\ g.brk = m.brk /\ g.checkUB = m.checkUB
<1>1. /\ g \in MemType /\ g.page_table = m.page_table /\ g.num_free_pages = m.num_free_pages
      /\ g.pages = m.pages /\ g.fault = why /\ g.brk = m.brk /\ g.checkUB = m.checkUB
  BY DEF MemOK, MemType
<1> QED
  BY <1>1, SameCells

\* mem_sbrk and setUBCheck.
LEMMA GrownIs ==
    ASSUME NEW m, MemOK(m), NEW brk \in 0 .. MaxHeap, NEW g, g = [m EXCEPT !.brk = brk]
    PROVE  /\ MemOK(g) /\ Touched(g) = Touched(m) /\ \A a \in Nat : Cell(g, a) = Cell(m, a)
           /\ g.fault = m.fault /\ g.brk = brk /\ g.checkUB = m.checkUB
<1>1. /\ g \in MemType /\ g.page_table = m.page_table /\ g.num_free_pages = m.num_free_pages
      /\ g.pages = m.pages /\ g.fault = m.fault /\ g.brk = brk /\ g.checkUB = m.checkUB
  BY DEF MemOK, MemType
<1> QED
  BY <1>1, SameCells

LEMMA CheckedIs ==
    ASSUME NEW m, MemOK(m), NEW val \in BOOLEAN, NEW g, g = [m EXCEPT !.checkUB = val]
    PROVE  /\ MemOK(g) /\ Touched(g) = Touched(m) /\ \A a \in Nat : Cell(g, a) = Cell(m, a)
           /\ g.fault = m.fault /\ g.brk = m.brk /\ g.checkUB = val
<1>1. /\ g \in MemType /\ g.page_table = m.page_table /\ g.num_free_pages = m.num_free_pages
      /\ g.pages = m.pages /\ g.fault = m.fault /\ g.brk = m.brk /\ g.checkUB = val
  BY DEF MemOK, MemType
<1> QED
  BY <1>1, SameCells

\* mem_reset_brk, whatever the pages hold.
LEMMA FreshIs ==
    ASSUME NEW pages \in [Slot -> Page], NEW check \in BOOLEAN, NEW g, g = Fresh(pages, check)
    PROVE  /\ MemOK(g) /\ Touched(g) = {} /\ \A a \in Nat : Cell(g, a) = None
           /\ g.fault = "none" /\ g.brk = 0 /\ g.checkUB = check
<1>0. NumPages \in Nat /\ MaxHeap \in Nat
  BY SparseAssumption
<1>1. /\ g.brk = 0 /\ g.page_table = NoPages /\ g.pages = pages /\ g.num_free_pages = NumPages
      /\ g.checkUB = check /\ g.fault = "none"
  BY DEF Fresh
<1>2. NoPages \in [Bucket -> Seq(Slot)] /\ \A b \in Bucket : DOMAIN NoPages[b] = {}
  BY DEF NoPages, Bucket
<1>3. g \in MemType
  <2>1. PICK t : t = NoPages
    OBVIOUS
  <2>2. g = [brk |-> 0, page_table |-> t, pages |-> pages, num_free_pages |-> NumPages,
             checkUB |-> check, fault |-> "none"]
    BY <2>1, Zenon DEF Fresh
  <2>3. t \in [Bucket -> Seq(Slot)] /\ 0 \in 0 .. MaxHeap /\ NumPages \in 0 .. NumPages
    BY <1>0, <1>2, <2>1
  <2> QED
    BY <2>2, <2>3 DEF MemType
<1>4. Used(g) = {}
  BY <1>0, <1>1 DEF Used
<1>5. MemOK(g)
  BY <1>1, <1>2, <1>3, <1>4 DEF MemOK, ChainsSound
<1>6. Touched(g) = {}
  BY <1>4, <1>5, TouchedIs
<1>7. \A a \in Nat : Cell(g, a) = None
  BY <1>4, <1>5, CellNoPage
<1> QED
  BY <1>1, <1>5, <1>6, <1>7

LEMMA ZeroPagesAre == ZeroPages \in [Slot -> Page]
<1>1. [o \in 0 .. PageSize - 1 |-> 0] \in [InPage -> Byte]
  BY SparseAssumption DEF InPage
<1>2. [id |-> 0, initSet |-> {}, bytes |-> [o \in 0 .. PageSize - 1 |-> 0]] \in Page
  BY <1>1 DEF Page
<1> QED
  BY <1>2 DEF ZeroPages, Slot

-----------------------------------------------------------------------------
(* Steps of the sparse memory are steps of the flat one.                   *)

LEMMA FlatCounts == ASSUME NEW S PROVE Flat!Cardinality(S) = Cardinality(S)
  BY Zenon DEF Flat!Cardinality, Cardinality

\* A call that ends the program.
LEMMA MapFail ==
    ASSUME MemOK(mem), ~Ended(mem), NEW R, NEW W, NEW why, Blamed(mem, why, R, W), R \cup W \subseteq Nat,
           mem' = [mem EXCEPT !.fault = why]
    PROVE  Flat!FMFail(R, W) /\ MemOK(mem')
<1>1. PICK m, g : m = mem /\ g = mem'
  OBVIOUS
<1>2. why \in {"segv", "exhausted", "uninitialized"}
  <2>1. why = "segv" \/ why = "exhausted" \/ why = "uninitialized"
    BY Zenon DEF Blamed
  <2> QED
    BY <2>1
<1>3. /\ MemOK(g) /\ Touched(g) = Touched(m) /\ \A a \in Nat : Cell(g, a) = Cell(m, a)
      /\ g.fault = why /\ g.brk = m.brk /\ g.checkUB = m.checkUB
  BY <1>1, <1>2, EndedIs
<1>4. Addr \subseteq Nat /\ m.brk \in Nat /\ MaxHeap \in Nat /\ m.brk <= MaxHeap
  BY <1>1, Fields, SparseAssumption DEF Addr
<1>5. [a \in Addr |-> Cell(mem, a)]' = [a \in Addr |-> Cell(mem, a)]
  BY <1>1, <1>3, <1>4
<1>6. Touched(mem)' = Touched(mem) /\ (mem.fault)' = why /\ (mem.brk)' = mem.brk /\ (mem.checkUB)' = mem.checkUB
  BY <1>1, <1>3
<1>7. \/ why = "segv" /\ ~Flat!InHeap(R \cup W)
      \/ why = "exhausted" /\ Cardinality(Flat!Pages((R \cup W) \cap 0 .. mem.brk - 1)) > NumPages
      \/ why = "uninitialized" /\ mem.checkUB /\ \E a \in R : a < mem.brk /\ [x \in Addr |-> Cell(mem, x)][a] = None
  <2>1. CASE why = "segv" /\ ~(R \cup W \subseteq HeapBytes(mem))
    BY <2>1 DEF Flat!InHeap, HeapBytes
  <2>2. CASE why = "exhausted" /\ Cardinality(Touched(mem) \cup PagesOf((R \cup W) \cap HeapBytes(mem))) > NumPages
    <3>1. Flat!Pages((R \cup W) \cap 0 .. mem.brk - 1) = Touched(mem) \cup PagesOf((R \cup W) \cap HeapBytes(mem))
      BY Zenon DEF Flat!Pages, PagesOf, HeapBytes, PageId
    <3> QED
      BY <2>2, <3>1
  <2>3. CASE why = "uninitialized" /\ mem.checkUB /\ \E a \in R : a < mem.brk /\ Cell(mem, a) = None
    <3>1. PICK a \in R : a < mem.brk /\ Cell(mem, a) = None
      BY <2>3
    <3>2. a \in Addr
      BY <1>1, <1>4, <3>1 DEF Addr
    <3> QED
      BY <2>3, <3>1, <3>2
  <2> QED
    BY <2>1, <2>2, <2>3 DEF Blamed
<1>8. MemOK(mem')
  BY <1>1, <1>3
<1>9. UNCHANGED <<mem.brk, [a \in Addr |-> Cell(mem, a)], Touched(mem), mem.checkUB>>
  BY <1>5, <1>6
<1>10. Flat!Cardinality(Flat!Pages((R \cup W) \cap 0 .. mem.brk - 1)) =
         Cardinality(Flat!Pages((R \cup W) \cap 0 .. mem.brk - 1))
  BY FlatCounts
<1>11. Flat!FMFail(R, W)
  <2>1. (mem.fault)' = why
    BY <1>6
  <2> QED
    BY <1>7, <1>9, <1>10, <2>1 DEF Flat!FMFail
<1> QED
  BY <1>8, <1>11

\* A call that goes well.
LEMMA MapAccess ==
    ASSUME MemOK(mem), ~Ended(mem), NEW R, NEW W, Accessed(mem, mem', R, W),
           NEW STATE new, \A a \in W : Cell(mem', a) \in new[a]
    PROVE  Flat!FMAccess(R, W, new)
<1>1. PICK m, g : m = mem /\ g = mem'
  OBVIOUS
<1>2. Accessed(m, g, R, W) /\ MemOK(m) /\ ~Ended(m)
  BY <1>1
<1>3. /\ MemOK(g) /\ ~Ended(g) /\ g.brk = m.brk /\ g.checkUB = m.checkUB
      /\ R \cup W \subseteq HeapBytes(m)
      /\ Touched(g) = Touched(m) \cup PagesOf(R \cup W)
      /\ m.checkUB => \A a \in R : Cell(m, a) # None
      /\ \A a \in Nat \ W : Cell(g, a) = Cell(m, a)
  BY <1>2 DEF Accessed
<1>4. Addr \subseteq Nat /\ HeapBytes(m) \subseteq Addr
  <2>1. m.brk \in Nat /\ MaxHeap \in Nat /\ m.brk <= MaxHeap
    BY <1>2, Fields, SparseAssumption
  <2> QED
    BY <2>1 DEF Addr, HeapBytes
<1>5. Flat!InHeap(R \cup W)
  BY <1>1, <1>3 DEF Flat!InHeap, HeapBytes
<1>6. Touched(mem)' = Flat!Pages(R \cup W)
  <2>1. Touched(mem') = Touched(mem) \cup PagesOf(R \cup W)
    BY <1>1, <1>3
  <2> QED
    BY <2>1, Zenon DEF Flat!Pages, PagesOf, PageId
<1>7. Cardinality(Touched(mem)') <= NumPages
  <2>1. Cardinality(Touched(g)) = NumPages - g.num_free_pages
    BY <1>3, TouchedCount
  <2>2. g.num_free_pages \in 0 .. NumPages /\ NumPages \in Nat
    BY <1>3, Fields
  <2>3. Cardinality(Touched(g)) <= NumPages
    BY <2>1, <2>2
  <2> QED
    BY <1>1, <2>3
<1>8. (mem.checkUB) => \A a \in R : [x \in Addr |-> Cell(mem, x)][a] # None
  BY <1>1, <1>3, <1>4
<1>9. \A a \in Addr : IF a \in W THEN ([x \in Addr |-> Cell(mem, x)]')[a] \in new[a]
                      ELSE ([x \in Addr |-> Cell(mem, x)]')[a] = [x \in Addr |-> Cell(mem, x)][a]
  <2> TAKE a \in Addr
  <2>1. ([x \in Addr |-> Cell(mem, x)]')[a] = Cell(mem', a) /\ [x \in Addr |-> Cell(mem, x)][a] = Cell(mem, a)
    OBVIOUS
  <2>2. a \notin W => Cell(mem', a) = Cell(mem, a)
    BY <1>1, <1>3, <1>4
  <2> QED
    BY <2>1, <2>2
<1>10. (mem.brk)' = mem.brk /\ (mem.checkUB)' = mem.checkUB /\ (mem.fault)' = mem.fault
  BY <1>1, <1>2, <1>3 DEF Ended
<1> QED
  <2>1. UNCHANGED <<mem.brk, mem.checkUB, mem.fault>> /\ Flat!Addr = Addr
    BY <1>10 DEF Flat!Addr, Addr
  <2>2. Flat!Cardinality(Touched(mem)') <= NumPages
    BY <1>7, FlatCounts
  <2>3. \A a \in Flat!Addr : IF a \in W THEN ([x \in Addr |-> Cell(mem, x)]')[a] \in new[a]
                              ELSE ([x \in Addr |-> Cell(mem, x)]')[a] = [x \in Addr |-> Cell(mem, x)][a]
    BY <1>9, <2>1, Zenon
  <2> QED
    BY <1>5, <1>6, <1>8, <2>1, <2>2, <2>3 DEF Flat!FMAccess

\* What has happened to an access is what the flat memory allows.
LEMMA CallGoes ==
    ASSUME MemOK(mem), NEW m, NEW c, Call(m, c), NEW R, NEW W, R \cup W \subseteq Nat, Goes(mem, m, R, W)
    PROVE  /\ ~Ended(mem) /\ mem.fault = "none" /\ op' = c /\ MemOK(mem')
           /\ Flat!FMFail(R, W) \/ (mem' = m /\ ~Ended(m) /\ Accessed(mem, mem', R, W))
<1>1. ~Ended(mem) /\ mem.fault = "none" /\ op' = c
  BY DEF Call, Ended
<1>2. CASE Ended(m)
  <2>1. mem' = [mem EXCEPT !.fault = m.fault]
    BY <1>2 DEF Call
  <2>2. Blamed(mem, m.fault, R, W)
    BY <1>2 DEF Goes
  <2>3. PICK why : why = m.fault
    OBVIOUS
  <2>4. Flat!FMFail(R, W) /\ MemOK(mem')
    BY <1>1, <2>1, <2>2, <2>3, MapFail
  <2> QED
    BY <1>1, <2>4
<1>3. CASE ~Ended(m)
  <2>1. mem' = m
    BY <1>3 DEF Call
  <2>2. Accessed(mem, mem', R, W)
    BY <1>3, <2>1 DEF Goes
  <2>3. MemOK(mem')
    BY <2>2 DEF Accessed
  <2> QED
    BY <1>1, <1>3, <2>1, <2>2, <2>3
<1> QED
  BY <1>2, <1>3

LEMMA HeapInAddr ==
    ASSUME NEW m, MemOK(m)
    PROVE  HeapBytes(m) \subseteq Addr /\ Addr \subseteq Nat
<1>1. m.brk \in Nat /\ MaxHeap \in Nat /\ m.brk <= MaxHeap
  BY Fields, SparseAssumption
<1> QED
  BY <1>1 DEF Addr, HeapBytes

LEMMA FlatSeen ==
    ASSUME NEW a \in Addr
    PROVE  Flat!Seen(a) = SeenAt(mem, a)
<1>1. [x \in Addr |-> Cell(mem, x)][a] = Cell(mem, a)
  OBVIOUS
<1> QED
  BY <1>1 DEF Flat!Seen, SeenAt

LEMMA FlatSpan == ASSUME NEW a, NEW n PROVE Flat!Span(a, n) = Span(a, n)
  BY DEF Flat!Span, Span

LEMMA SpanNat ==
    ASSUME NEW a \in Nat, NEW n \in Nat
    PROVE  Span(a, n) \subseteq Nat
BY DEF Span

\* What the last call was says which step of the flat memory it has been.
LEMMA FlatStep ==
    ASSUME mem.fault = "none", NEW STATE at, NEW STATE arg, NEW STATE data
    PROVE  /\ op' = CallOf("read", at, arg, data) /\ Flat!FMRead(at, arg, data) => Flat!FMNext
           /\ op' = CallOf("write", at, arg, data) /\ Flat!FMWrite(at, data) => Flat!FMNext
           /\ op' = CallOf("memcpy", at, arg, data) /\ Flat!FMCopy(at, arg, Len(data)) => Flat!FMNext
           /\ op' = CallOf("sbrk", at, arg, data) /\ Flat!FMSbrk(arg, at) => Flat!FMNext
           /\ op' = CallOf("reset", at, arg, data) /\ Flat!FMReset(mem.checkUB) => Flat!FMNext
           /\ op' = CallOf("init", at, arg, data) /\ Flat!FMReset(TRUE) => Flat!FMNext
           /\ op' = CallOf("check", at, arg, data) /\ Flat!FMCheck(TRUE) => Flat!FMNext
           /\ op' = CallOf("nocheck", at, arg, data) /\ Flat!FMCheck(FALSE) => Flat!FMNext
<1>1. \A call : op' = CallOf(call, at, arg, data) =>
         /\ (op').call = call /\ (op').at = at /\ (op').arg = arg /\ (op').data = data
  BY DEF CallOf
<1>2. op' = CallOf("read", at, arg, data) /\ Flat!FMRead(at, arg, data) => Flat!FMNext
  BY <1>1 DEF Flat!FMNext
<1>3. op' = CallOf("write", at, arg, data) /\ Flat!FMWrite(at, data) => Flat!FMNext
  BY <1>1 DEF Flat!FMNext
<1>4. op' = CallOf("memcpy", at, arg, data) /\ Flat!FMCopy(at, arg, Len(data)) => Flat!FMNext
  BY <1>1 DEF Flat!FMNext
<1>5. op' = CallOf("sbrk", at, arg, data) /\ Flat!FMSbrk(arg, at) => Flat!FMNext
  BY <1>1 DEF Flat!FMNext
<1>6. op' = CallOf("reset", at, arg, data) /\ Flat!FMReset(mem.checkUB) => Flat!FMNext
  BY <1>1 DEF Flat!FMNext
<1>7. op' = CallOf("init", at, arg, data) /\ Flat!FMReset(TRUE) => Flat!FMNext
  BY <1>1 DEF Flat!FMNext
<1>8. op' = CallOf("check", at, arg, data) /\ Flat!FMCheck(TRUE) => Flat!FMNext
  BY <1>1 DEF Flat!FMNext
<1>9. op' = CallOf("nocheck", at, arg, data) /\ Flat!FMCheck(FALSE) => Flat!FMNext
  BY <1>1 DEF Flat!FMNext
<1> QED
  BY <1>2, <1>3, <1>4, <1>5, <1>6, <1>7, <1>8, <1>9, Zenon

LEMMA ReadIsFlat ==
    ASSUME MemOK(mem), NEW a \in Addr, NEW n \in 1 .. Word, Read(a, n)
    PROVE  Flat!FMNext /\ MemOK(mem')
<1>1. a \in Nat /\ n \in Nat \ {0} /\ n <= PageSize
  BY SparseAssumption DEF Addr
<1>2. PICK r : r = MemRead(mem, a, n)
  OBVIOUS
<1>3. Call(r.mem, CallOf("read", a, n, r.data))
  BY <1>2 DEF Read
<1>4. ~Ended(mem)
  BY <1>3 DEF Call
<1>5. WellRead(mem, r, a, n)
  BY <1>1, <1>2, <1>4, MemReadIs
<1>6. Goes(mem, r.mem, Span(a, n), {}) /\ (~Ended(r.mem) => Found(mem, a, r.data) /\ Len(r.data) = n)
  BY <1>5 DEF WellRead
<1>7. Span(a, n) \cup {} \subseteq Nat
  BY <1>1, SpanNat
<1>8. PICK c : c = CallOf("read", a, n, r.data)
  OBVIOUS
<1>9. /\ ~Ended(mem) /\ mem.fault = "none" /\ op' = c /\ MemOK(mem')
      /\ Flat!FMFail(Span(a, n), {}) \/ (mem' = r.mem /\ ~Ended(r.mem) /\ Accessed(mem, mem', Span(a, n), {}))
  BY <1>3, <1>6, <1>7, <1>8, CallGoes
<1>10. Flat!FMRead(a, n, r.data)
  <2>1. CASE Flat!FMFail(Span(a, n), {})
    BY <2>1, FlatSpan DEF Flat!FMRead
  <2>2. CASE mem' = r.mem /\ ~Ended(r.mem) /\ Accessed(mem, mem', Span(a, n), {})
    <3>1. \A x \in {} : Cell(mem', x) \in <<>>[x]
      OBVIOUS
    <3>2. Flat!FMAccess(Span(a, n), {}, <<>>)
      BY <1>9, <2>2, <3>1, MapAccess
    <3>3. Found(mem, a, r.data) /\ Len(r.data) = n
      BY <1>6, <2>2
    <3>4. \A i \in 1 .. n : r.data[i] \in Flat!Seen(a + i - 1)
      <4> TAKE i \in 1 .. n
      <4>1. a + i - 1 \in Span(a, n)
        BY <1>1 DEF Span
      <4>2. a + i - 1 \in Addr
        BY <2>2, <4>1, HeapInAddr DEF Accessed
      <4>3. r.data \in Seq(Byte) /\ i \in DOMAIN r.data
        BY <3>3 DEF Found
      <4>4. r.data[i] \in SeenAt(mem, a + i - 1)
        BY <3>3, <4>3 DEF Found
      <4> QED
        BY <4>2, <4>4, FlatSeen
    <3> QED
      BY <3>2, <3>3, <3>4, FlatSpan DEF Flat!FMRead
  <2> QED
    BY <1>9, <2>1, <2>2
<1> QED
  BY <1>8, <1>9, <1>10, FlatStep

\* mem_write and mem_memset: data has been written at a, unless the program ends.
LEMMA WrittenIsFlat ==
    ASSUME MemOK(mem), NEW a \in Nat, NEW data, NEW n \in Nat, Len(data) = n, NEW m,
           Call(m, CallOf("write", a, 0, data)), Goes(mem, m, {}, Span(a, n)),
           ~Ended(m) => \A x \in Span(a, n) : Cell(m, x) = data[x - a + 1]
    PROVE  Flat!FMNext /\ MemOK(mem')
<1>1. {} \cup Span(a, n) \subseteq Nat
  BY SpanNat
<1>2. PICK c : c = CallOf("write", a, 0, data)
  OBVIOUS
<1>3. PICK W : W = Span(a, n)
  OBVIOUS
<1>4. /\ ~Ended(mem) /\ mem.fault = "none" /\ op' = c /\ MemOK(mem')
      /\ Flat!FMFail({}, W) \/ (mem' = m /\ ~Ended(m) /\ Accessed(mem, mem', {}, W))
  BY <1>1, <1>2, <1>3, CallGoes
<1>5. Flat!FMFail({}, W) \/ Flat!FMAccess({}, W, [b \in W |-> {data[b - a + 1]}])
  <2>1. CASE mem' = m /\ ~Ended(m) /\ Accessed(mem, mem', {}, W)
    <3>1. PICK new : new = [b \in W |-> {data[b - a + 1]}]
      OBVIOUS
    <3>2. \A x \in W : Cell(mem', x) \in new[x]
      BY <1>3, <2>1, <3>1
    <3>3. Flat!FMAccess({}, W, new)
      BY <1>4, <2>1, <3>2, MapAccess
    <3> QED
      BY <3>1, <3>3
  <2> QED
    BY <1>4, <2>1
<1>6. Flat!FMWrite(a, data)
  BY <1>3, <1>5, FlatSpan DEF Flat!FMWrite
<1> QED
  BY <1>2, <1>4, <1>6, FlatStep

LEMMA WriteIsFlat ==
    ASSUME MemOK(mem), NEW a \in Addr, NEW n \in 1 .. Word, NEW data \in [1 .. n -> Byte], Write(a, data)
    PROVE  Flat!FMNext /\ MemOK(mem')
<1>1. a \in Nat /\ n \in Nat \ {0} /\ n <= PageSize
  BY SparseAssumption DEF Addr
<1>2. data \in Seq(Byte) /\ Len(data) = n /\ data # <<>>
  BY <1>1
<1>3. PICK m : m = MemWrite(mem, a, data)
  OBVIOUS
<1>4. Call(m, CallOf("write", a, 0, data))
  BY <1>3 DEF Write
<1>5. ~Ended(mem)
  BY <1>4 DEF Call
<1>6. WellWritten(mem, m, a, data)
  BY <1>1, <1>2, <1>3, <1>5, MemWriteIs
<1>7. Goes(mem, m, {}, Span(a, n)) /\ (~Ended(m) => \A x \in Span(a, n) : Cell(m, x) = data[x - a + 1])
  BY <1>2, <1>6 DEF WellWritten, Wrote
<1> QED
  BY <1>1, <1>2, <1>4, <1>7, WrittenIsFlat

LEMMA MemsetIsFlat ==
    ASSUME MemOK(mem), NEW dst \in Addr, NEW c \in Byte, NEW n \in Lengths, Memset(dst, c, n)
    PROVE  Flat!FMNext /\ MemOK(mem')
<1>1. dst \in Nat /\ n \in Nat \ {0}
  BY SparseAssumption DEF Addr
<1>2. PICK data : data = [i \in 1 .. n |-> c]
  OBVIOUS
<1>3. data \in [1 .. n -> Byte] /\ \A i \in 1 .. n : data[i] = c
  BY <1>2
<1>4. Len(data) = n
  BY <1>1, <1>3
<1>5. PICK m : m = MemMemset(mem, dst, c, n)
  OBVIOUS
<1>6. Call(m, CallOf("write", dst, 0, data))
  BY <1>2, <1>5 DEF Memset
<1>7. ~Ended(mem)
  BY <1>6 DEF Call
<1>8. WellSet(mem, m, dst, c, n)
  BY <1>1, <1>5, <1>7, MemMemsetIs
<1>9. \A x \in Span(dst, n) : data[x - dst + 1] = c
  <2> TAKE x \in Span(dst, n)
  <2>1. x - dst + 1 \in 1 .. n
    BY <1>1 DEF Span
  <2> QED
    BY <1>3, <2>1
<1>10. Goes(mem, m, {}, Span(dst, n)) /\ (~Ended(m) => \A x \in Span(dst, n) : Cell(m, x) = data[x - dst + 1])
  BY <1>8, <1>9 DEF WellSet
<1> QED
  BY <1>1, <1>4, <1>6, <1>10, WrittenIsFlat

LEMMA MemcpyIsFlat ==
    ASSUME MemOK(mem), NEW dst \in Addr, NEW src \in Addr, NEW n \in Lengths, Memcpy(dst, src, n)
    PROVE  Flat!FMNext /\ MemOK(mem')
<1>1. dst \in Nat /\ src \in Nat /\ n \in Nat \ {0}
  BY SparseAssumption DEF Addr
<1>2. PICK data : data = [i \in 1 .. n |-> 0]
  OBVIOUS
<1>3. Len(data) = n
  BY <1>1, <1>2
<1>4. PICK m : m = MemMemcpy(mem, dst, src, n)
  OBVIOUS
<1>5. Call(m, CallOf("memcpy", dst, src, data)) /\ Apart(dst, src, n)
  BY <1>2, <1>4 DEF Memcpy, Apart
<1>6. ~Ended(mem)
  BY <1>5 DEF Call
<1>7. WellCopied(mem, m, dst, src, n)
  BY <1>1, <1>4, <1>5, <1>6, MemMemcpyIs
<1>8. PICK R, W : R = Span(src, n) /\ W = Span(dst, n)
  OBVIOUS
<1>9. Goes(mem, m, R, W) /\ (~Ended(m) => \A x \in W : Cell(m, x) \in SeenAt(mem, x - dst + src))
  BY <1>7, <1>8 DEF WellCopied
<1>10. R \cup W \subseteq Nat
  BY <1>1, <1>8, SpanNat
<1>11. PICK c : c = CallOf("memcpy", dst, src, data)
  OBVIOUS
<1>12. /\ ~Ended(mem) /\ mem.fault = "none" /\ op' = c /\ MemOK(mem')
       /\ Flat!FMFail(R, W) \/ (mem' = m /\ ~Ended(m) /\ Accessed(mem, mem', R, W))
  BY <1>5, <1>9, <1>10, <1>11, CallGoes
<1>13. Flat!FMFail(R, W) \/ Flat!FMAccess(R, W, [a \in W |-> Flat!Seen(a - dst + src)])
  <2>1. CASE mem' = m /\ ~Ended(m) /\ Accessed(mem, mem', R, W)
    <3>1. \A x \in W : Cell(mem', x) \in [a \in W |-> Flat!Seen(a - dst + src)][x]
      <4> TAKE x \in W
      <4>1. Cell(mem', x) \in SeenAt(mem, x - dst + src)
        BY <1>9, <2>1
      <4>2. x - dst + src \in R
        BY <1>1, <1>8 DEF Span
      <4>3. x - dst + src \in Addr
        BY <2>1, <4>2, HeapInAddr DEF Accessed
      <4>4. Flat!Seen(x - dst + src) = SeenAt(mem, x - dst + src)
        BY <4>3, FlatSeen
      <4> QED
        BY <4>1, <4>4
    <3>2. Flat!FMAccess(R, W, [a \in W |-> Flat!Seen(a - dst + src)])
      BY <1>12, <2>1, <3>1, MapAccess
    <3> QED
      BY <3>2
  <2> QED
    BY <1>12, <2>1
<1>14. Flat!FMCopy(dst, src, Len(data))
  BY <1>3, <1>8, <1>13, FlatSpan DEF Flat!FMCopy
<1> QED
  BY <1>11, <1>12, <1>14, FlatStep

LEMMA SameView ==
    ASSUME NEW g, g = mem', \A a \in Nat : Cell(g, a) = Cell(mem, a), Touched(g) = Touched(mem)
    PROVE  UNCHANGED <<[a \in Addr |-> Cell(mem, a)], Touched(mem)>>
<1>1. Addr \subseteq Nat
  BY SparseAssumption DEF Addr
<1>2. \A a \in Addr : Cell(mem', a) = Cell(mem, a)
  BY <1>1
<1>3. [a \in Addr |-> Cell(mem, a)]' = [a \in Addr |-> Cell(mem, a)]
  BY <1>2
<1>4. Touched(mem)' = Touched(mem)
  OBVIOUS
<1> QED
  BY <1>3, <1>4

LEMMA SbrkIsFlat ==
    ASSUME MemOK(mem), NEW incr \in Increments, Sbrk(incr)
    PROVE  Flat!FMNext /\ MemOK(mem')
<1>1. incr \in Int /\ mem.brk \in Nat /\ mem.brk <= MaxHeap /\ MaxHeap \in Nat
  BY Fields, SparseAssumption
<1>2. CASE incr < 0 \/ mem.brk + incr > MaxHeap
  <2>1. Call(mem, CallOf("sbrk", -1, incr, <<>>))
    BY <1>2 DEF Sbrk
  <2>2. mem' = mem /\ op' = CallOf("sbrk", -1, incr, <<>>) /\ mem.fault = "none"
    BY <2>1 DEF Call, Ended
  <2>3. incr \notin 0 .. MaxHeap - mem.brk
    BY <1>1, <1>2
  <2>4. UNCHANGED <<mem.brk, mem.checkUB, mem.fault, [a \in Addr |-> Cell(mem, a)], Touched(mem)>>
    BY <2>2
  <2>5. Flat!FMSbrk(incr, -1)
    BY <2>3, <2>4 DEF Flat!FMSbrk
  <2> QED
    BY <2>2, <2>5, FlatStep
<1>3. CASE ~(incr < 0 \/ mem.brk + incr > MaxHeap)
  <2>1. PICK brk : brk = mem.brk + incr
    OBVIOUS
  <2>2. brk \in 0 .. MaxHeap /\ incr \in 0 .. MaxHeap - mem.brk
    BY <1>1, <1>3, <2>1
  <2>3. PICK g : g = [mem EXCEPT !.brk = brk]
    OBVIOUS
  <2>4. Call(g, CallOf("sbrk", mem.brk, incr, <<>>))
    BY <1>3, <2>1, <2>3 DEF Sbrk
  <2>5. ~Ended(mem)
    BY <2>4 DEF Call
  <2>6. /\ MemOK(g) /\ Touched(g) = Touched(mem) /\ \A a \in Nat : Cell(g, a) = Cell(mem, a)
        /\ g.fault = mem.fault /\ g.brk = brk /\ g.checkUB = mem.checkUB
    BY <2>2, <2>3, GrownIs
  <2>7. ~Ended(g)
    BY <2>5, <2>6 DEF Ended
  <2>8. mem' = g /\ op' = CallOf("sbrk", mem.brk, incr, <<>>) /\ mem.fault = "none"
    BY <2>4, <2>7 DEF Call, Ended
  <2>9. UNCHANGED <<[a \in Addr |-> Cell(mem, a)], Touched(mem)>>
    BY <2>6, <2>8, SameView
  <2>10. (mem.brk)' = mem.brk + incr /\ UNCHANGED <<mem.checkUB, mem.fault>>
    BY <2>1, <2>6, <2>8
  <2>11. Flat!FMSbrk(incr, mem.brk)
    BY <2>2, <2>9, <2>10 DEF Flat!FMSbrk
  <2> QED
    BY <2>6, <2>8, <2>11, FlatStep
<1> QED
  BY <1>2, <1>3

\* mem_reset_brk, and mem_init before it.
LEMMA FreshIsFlat ==
    ASSUME MemOK(mem), NEW pages \in [Slot -> Page], NEW check \in BOOLEAN, NEW c,
           Call(Fresh(pages, check), c)
    PROVE  Flat!FMReset(check) /\ MemOK(mem') /\ mem.fault = "none" /\ op' = c
<1>1. PICK g : g = Fresh(pages, check)
  OBVIOUS
<1>2. /\ MemOK(g) /\ Touched(g) = {} /\ \A a \in Nat : Cell(g, a) = None
      /\ g.fault = "none" /\ g.brk = 0 /\ g.checkUB = check
  BY <1>1, FreshIs
<1>3. Call(g, c) /\ ~Ended(g)
  BY <1>1, <1>2 DEF Ended
<1>4. mem' = g /\ op' = c /\ mem.fault = "none"
  BY <1>3 DEF Call, Ended
<1>5. Addr \subseteq Nat
  BY SparseAssumption DEF Addr
<1>6. [a \in Addr |-> Cell(mem, a)]' = [a \in Addr |-> None]
  BY <1>2, <1>4, <1>5
<1>7. Touched(mem)' = {} /\ (mem.brk)' = 0 /\ (mem.checkUB)' = check /\ (mem.fault)' = mem.fault
  BY <1>2, <1>4
<1>8. Flat!Addr = Addr
  BY DEF Flat!Addr, Addr
<1>9. Flat!FMReset(check)
  BY <1>6, <1>7, <1>8 DEF Flat!FMReset
<1> QED
  BY <1>2, <1>4, <1>9

LEMMA ResetIsFlat ==
    ASSUME MemOK(mem), ResetBrk \/ NextFile
    PROVE  Flat!FMNext /\ MemOK(mem')
<1>1. mem.pages \in [Slot -> Page] /\ mem.checkUB \in BOOLEAN
  BY Fields
<1>2. CASE ResetBrk
  <2>1. Call(Fresh(mem.pages, mem.checkUB), CallOf("reset", 0, 0, <<>>))
    BY <1>2 DEF ResetBrk
  <2>2. PICK pages, check, c : pages = mem.pages /\ check = mem.checkUB /\ c = CallOf("reset", 0, 0, <<>>)
    OBVIOUS
  <2>3. Flat!FMReset(check) /\ MemOK(mem') /\ mem.fault = "none" /\ op' = c
    BY <1>1, <2>1, <2>2, FreshIsFlat
  <2>4. Flat!FMReset(mem.checkUB)
    BY <2>2, <2>3
  <2> QED
    BY <2>2, <2>3, <2>4, FlatStep
<1>3. CASE NextFile
  <2>1. Call(Fresh(ZeroPages, TRUE), CallOf("init", 0, 0, <<>>))
    BY <1>3 DEF NextFile
  <2>2. Flat!FMReset(TRUE) /\ MemOK(mem') /\ mem.fault = "none" /\ op' = CallOf("init", 0, 0, <<>>)
    BY <2>1, ZeroPagesAre, FreshIsFlat
  <2> QED
    BY <2>2, FlatStep
<1> QED
  BY <1>2, <1>3

LEMMA CheckIsFlat ==
    ASSUME MemOK(mem), NEW val \in BOOLEAN, SetUBCheck(val)
    PROVE  Flat!FMNext /\ MemOK(mem')
<1>1. PICK g, c : g = [mem EXCEPT !.checkUB = val] /\ c = CallOf(IF val THEN "check" ELSE "nocheck", 0, 0, <<>>)
  OBVIOUS
<1>2. Call(g, c)
  BY <1>1 DEF SetUBCheck
<1>3. /\ MemOK(g) /\ Touched(g) = Touched(mem) /\ \A a \in Nat : Cell(g, a) = Cell(mem, a)
      /\ g.fault = mem.fault /\ g.brk = mem.brk /\ g.checkUB = val
  BY <1>1, CheckedIs
<1>4. ~Ended(mem)
  BY <1>2 DEF Call
<1>5. ~Ended(g)
  BY <1>3, <1>4 DEF Ended
<1>6. mem' = g /\ op' = c /\ mem.fault = "none"
  BY <1>2, <1>5 DEF Call, Ended
<1>7. UNCHANGED <<[a \in Addr |-> Cell(mem, a)], Touched(mem)>>
  BY <1>3, <1>6, SameView
<1>8. (mem.checkUB)' = val /\ UNCHANGED <<mem.brk, mem.fault>>
  BY <1>3, <1>6
<1>9. Flat!FMCheck(val)
  BY <1>7, <1>8 DEF Flat!FMCheck
<1>10. CASE val
  <2>1. op' = CallOf("check", 0, 0, <<>>) /\ val = TRUE
    BY <1>1, <1>6, <1>10
  <2>2. Flat!FMCheck(TRUE)
    BY <1>9, <2>1
  <2> QED
    BY <1>3, <1>6, <2>1, <2>2, FlatStep
<1>11. CASE ~val
  <2>1. op' = CallOf("nocheck", 0, 0, <<>>) /\ val = FALSE
    BY <1>1, <1>6, <1>11
  <2>2. Flat!FMCheck(FALSE)
    BY <1>9, <2>1
  <2> QED
    BY <1>3, <1>6, <2>1, <2>2, FlatStep
<1> QED
  BY <1>10, <1>11

LEMMA StepIsFlat ==
    ASSUME MemOK(mem), [Next]_vars
    PROVE  [Flat!FMNext]_(Flat!fmvars) /\ MemOK(mem')
<1>1. CASE Next
  <2>1. CASE \E a \in Addr, n \in 1 .. Word : Read(a, n) \/ \E data \in [1 .. n -> Byte] : Write(a, data)
    BY <2>1, ReadIsFlat, WriteIsFlat
  <2>2. CASE \E dst, src \in Addr, n \in Lengths : Memcpy(dst, src, n)
    BY <2>2, MemcpyIsFlat
  <2>3. CASE \E dst \in Addr, c \in Byte, n \in Lengths : Memset(dst, c, n)
    BY <2>3, MemsetIsFlat
  <2>4. CASE \E incr \in Increments : Sbrk(incr)
    BY <2>4, SbrkIsFlat
  <2>5. CASE ResetBrk \/ NextFile
    BY <2>5, ResetIsFlat
  <2>6. CASE \E val \in BOOLEAN : SetUBCheck(val)
    BY <2>6, CheckIsFlat
  <2> QED
    BY <1>1, <2>1, <2>2, <2>3, <2>4, <2>5, <2>6 DEF Next
<1>2. CASE UNCHANGED vars
  <2>1. mem' = mem /\ op' = op
    BY <1>2 DEF vars
  <2>2. UNCHANGED Flat!fmvars
    BY <2>1 DEF Flat!fmvars
  <2> QED
    BY <2>1, <2>2
<1> QED
  BY <1>1, <1>2

LEMMA InitIsFlat ==
    ASSUME Init
    PROVE  Flat!FMInit /\ MemOK(mem)
<1>1. PICK g : g = Fresh(ZeroPages, TRUE)
  OBVIOUS
<1>2. g = mem /\ op = CallOf("none", 0, 0, <<>>)
  BY <1>1 DEF Init
<1>3. /\ MemOK(g) /\ Touched(g) = {} /\ \A a \in Nat : Cell(g, a) = None
      /\ g.fault = "none" /\ g.brk = 0 /\ g.checkUB = TRUE
  BY <1>1, ZeroPagesAre, FreshIs
<1>4. Addr \subseteq Nat /\ Flat!Addr = Addr
  BY SparseAssumption DEF Addr, Flat!Addr
<1>5. [a \in Addr |-> Cell(mem, a)] = [a \in Addr |-> None]
  BY <1>2, <1>3, <1>4
<1>6. op.call = "none"
  BY <1>2 DEF CallOf
<1>7. Flat!FMInit
  BY <1>2, <1>3, <1>4, <1>5, <1>6 DEF Flat!FMInit
<1> QED
  BY <1>2, <1>3, <1>7

\* The page table is sound between any two calls: the pages handed out are the
\* first of the array, each with an id of its own, in the chain of that id and
\* in no other, whatever was written, reset and reused (get_mem, mem_reset_brk).
THEOREM PageTableSound == Spec => []MemOK(mem)
<1>1. Init => MemOK(mem)
  BY InitIsFlat
<1>2. MemOK(mem) /\ [Next]_vars => MemOK(mem)'
  BY StepIsFlat
<1> QED
  BY <1>1, <1>2, PTL DEF Spec

\* The sparse emulation is a flat memory: through get_mem's hash table of pages,
\* reused as they are after a reset, across page boundaries and in the word by
\* word loops of mem_memcpy and mem_memset, every call reads, writes, refuses
\* and ends the program as FlatMemory says.
THEOREM SparseImplementsFlat == Spec => ImplementsFlatMemory
<1>1. Init => Flat!FMInit
  BY InitIsFlat
<1>2. MemOK(mem) /\ [Next]_vars => [Flat!FMNext]_(Flat!fmvars)
  BY StepIsFlat
<1> QED
  BY <1>1, <1>2, PageTableSound, PTL DEF Spec, ImplementsFlatMemory, Flat!FMSpec
=============================================================================
