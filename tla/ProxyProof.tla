------------------------------ MODULE ProxyProof ------------------------------
(***************************************************************************)
(* Proofs about the proxy's cache and its threads, for any number of       *)
(* connections and any cache.                                              *)
(*                                                                         *)
(* HoldersInv says who may hold the lock for reading.  SharedInv says what the critical      *)
(* sections rely on and leave behind: the queue is a chain q[1], ..., q[n] *)
(* of allocated objects with distinct keys, cache_tail is allocated while  *)
(* the queue is not empty, and cache_size is the sum of what is allocated. *)
(* cache_tail need not be in the queue, and then what cacheAdd links to it *)
(* is lost as well.                                                        *)
(*                                                                         *)
(* Queue and TotalLen are recursive functions.  What they compute is shown *)
(* in three steps: a function that satisfies the recursive equation exists *)
(* and any two agree, so that CHOOSE picks it, and a statement about its   *)
(* values holds because it would have a smallest counterexample.           *)
(***************************************************************************)
EXTENDS Proxy, FiniteSetTheorems, SequenceTheorems, TLAPS

-----------------------------------------------------------------------------
(* The lock.                                                               *)

\* Who the lock knows as a reader is in the section that reads, though not
\* everyone in it need be known: the lock may have been initialised since.
HoldersInv ==
    /\ pc \in [Conn -> Pc]
    /\ \A c \in Conn : c \in readers => pc[c] \in {"find", "found"}

\* The steps of a thread that is no reader, or ceases to be one.
LEMMA NoReaderSteps ==
    ASSUME HoldersInv, NEW c \in Conn, c \notin readers', readers' \subseteq readers,
           NEW place \in Pc, pc' = pc \/ pc' = [pc EXCEPT ![c] = place]
    PROVE  HoldersInv'
<1>1. ASSUME NEW d \in Conn, d \in readers' PROVE d # c /\ pc'[d] = pc[d] /\ d \in readers
  BY <1>1 DEF HoldersInv
<1> QED
  BY <1>1 DEF HoldersInv

LEMMA NextHoldersInv ==
    ASSUME HoldersInv, [Next]_vars
    PROVE  HoldersInv'
<1>1. CASE UNCHANGED vars
  BY <1>1 DEF vars, HoldersInv
<1>2. ASSUME NEW c \in Conn, Accept(c) PROVE HoldersInv'
  BY <1>2 DEF Accept, Goto, HoldersInv, Pc
<1>3. ASSUME NEW c \in Conn, RdLock(c) PROVE HoldersInv'
  BY <1>3 DEF RdLock, Goto, HoldersInv, Pc
<1>4. ASSUME NEW c \in Conn, Find(c) PROVE HoldersInv'
  BY <1>4 DEF Find, Goto, HoldersInv, lockVars, Pc
<1>5. ASSUME NEW c \in Conn,
             \/ BadRequest(c) \/ (\E u \in Uri : Request(c, u)) \/ ServeHit(c)
             \/ WrLock(c) \/ Move(c) \/ Add(c)
             \/ ConnectFails(c) \/ SecondRequestLine(c) \/ Forward(c)
      PROVE  HoldersInv'
  <2>1. c \notin readers
    BY <1>5 DEF BadRequest, Request, ServeHit, WrLock, Move, Add, ConnectFails,
       SecondRequestLine, Forward, At, HoldersInv
  <2>2. readers' = readers
    BY <1>5 DEF BadRequest, Request, ServeHit, WrLock, Move, Add, ConnectFails,
       SecondRequestLine, Forward, lockVars
  <2>3. \E place \in Pc : pc' = pc \/ pc' = [pc EXCEPT ![c] = place]
    BY <1>5 DEF BadRequest, Request, ServeHit, WrLock, Move, Add, ConnectFails,
       SecondRequestLine, Forward, Finish, Goto, connVars, Pc
  <2> QED
    BY <2>1, <2>2, <2>3, NoReaderSteps
<1>6. ASSUME NEW c \in Conn, RdUnlock(c) \/ WrUnlock(c) PROVE HoldersInv'
  <2>1. c \notin readers' /\ readers' \subseteq readers
    BY <1>6 DEF RdUnlock, WrUnlock, Unlock, Holds, lockVars
  <2>2. \E place \in Pc : pc' = [pc EXCEPT ![c] = place]
    BY <1>6 DEF RdUnlock, WrUnlock, Finish, Goto, Pc
  <2> QED
    BY <2>1, <2>2, NoReaderSteps
<1> QED
  BY <1>1, <1>2, <1>3, <1>4, <1>5, <1>6 DEF Next, Serve, Inside

\* If a thread is given the lock while another one is in a section that excludes
\* its own, then the lock knows nothing of that other one.
LEMMA RaceMeansLostLock ==
    ASSUME HoldersInv, NEW c \in Conn, RdLock(c) \/ WrLock(c), fault' = "race"
    PROVE  \E d \in Conn : InSection(d)' /\ ~Holds(d)'
<1>1. fault = "none"
  BY DEF RdLock, WrLock, At
<1>2. CASE RdLock(c)
  <2>1. PICK d \in Conn \ {c} : Writing(d)
    BY <1>1, <1>2 DEF RdLock, EnterBeside, cacheVars
  <2>2. /\ pc'[d] = pc[d] /\ d \notin readers
        /\ readers' = readers \cup {c} /\ writer' = NULL
    BY <1>2, <2>1 DEF RdLock, Goto, HoldersInv, Writing
  <2> QED
    BY <2>1, <2>2, ProxyAssumption DEF InSection, Writing, Holds
<1>3. CASE WrLock(c)
  <2>1. PICK d \in Conn \ {c} : InSection(d)
    BY <1>1, <1>3 DEF WrLock, EnterBeside, cacheVars
  <2>2. pc'[d] = pc[d] /\ readers' = {} /\ writer' = c
    BY <1>3, <2>1 DEF WrLock, Goto, HoldersInv
  <2> QED
    BY <2>1, <2>2 DEF InSection, Holds
<1> QED
  BY <1>2, <1>3

-----------------------------------------------------------------------------
(* Induction over data: the least counterexample.                          *)

\* Every nonempty set of naturals has a least element.
LEMMA LeastNatural ==
    ASSUME NEW S, S \subseteq Nat, S # {}
    PROVE  \E n \in S : \A m \in S : n <= m
<1>1. PICK R : IsWellFoundedOn(R, Nat) /\ \A x, y \in Nat : x < y => <<x, y>> \in R
  BY NatLessThanWellFounded DEF OpToRel
<1>2. IsWellFoundedOn(R, Nat)
  BY <1>1
<1>3. PICK x \in S : \A y \in S : ~(<<y, x>> \in R)
  BY <1>2, WFMin
<1>4. ASSUME NEW y \in S PROVE x <= y
  <2>1. x \in Nat /\ y \in Nat
    OBVIOUS
  <2>2. ~(y < x)
    BY <1>1, <1>3, <2>1
  <2> QED
    BY <2>1, <2>2
<1> QED
  BY <1>4

\* Every nonempty family of subsets of a finite set has a minimal member.
LEMMA SmallestSet ==
    ASSUME NEW T, IsFiniteSet(T), NEW B, B \subseteq SUBSET T, B # {}
    PROVE  \E U \in B : \A V \in SUBSET U : V # U => V \notin B
<1>1. IsWellFoundedOn(StrictSubsetOrdering(T), SUBSET T)
  BY FS_StrictSubsetOrderingWellFounded, FS_FiniteSubsetsOfFinite
<1>2. PICK U \in B : \A V \in B : ~(<<V, U>> \in StrictSubsetOrdering(T))
  BY <1>1, WFMin
<1>3. ASSUME NEW V \in SUBSET U, V # U, V \in B PROVE FALSE
  <2>1. <<V, U>> \in StrictSubsetOrdering(T)
    BY <1>3 DEF StrictSubsetOrdering
  <2> QED
    BY <1>2, <1>3, <2>1
<1> QED
  BY <1>3

-----------------------------------------------------------------------------
(* Sums of lengths.  TotalLen is a fold over a set; what it computes for a *)
(* finite set is shown by looking at a smallest counterexample.            *)

Chosen(s) == CHOOSE x \in s : TRUE

\* g is what TotalLen computes on every subset of S, in heap h.
SumEq(g, h, S) ==
    g = [s \in SUBSET S |-> IF s = {} THEN 0 ELSE h[Chosen(s)].len + g[s \ {Chosen(s)}]]

LenSum(h, S) == (CHOOSE g : SumEq(g, h, S))[S]

\* TotalLen(S) is that function at S, in the heap as it is.
LEMMA TotalLenIsSum == \A S : TotalLen(S) = LenSum(heap, S)
BY DEF TotalLen, MapThenSumSet, MapThenFoldSet, LenSum, SumEq, Chosen

\* The member the fold takes next is one.
LEMMA ChosenMember == \A s : s # {} => Chosen(s) \in s
BY DEF Chosen

\* The functions for a set and for a subset of it agree where both are defined.
LEMMA SumAgrees ==
    ASSUME NEW h, NEW S, IsFiniteSet(S), NEW T \in SUBSET S, NEW g, NEW k,
           SumEq(g, h, S), SumEq(k, h, T)
    PROVE  \A s \in SUBSET T : g[s] = k[s]
<1> DEFINE B == {s \in SUBSET T : g[s] # k[s]}
<1> SUFFICES ASSUME B # {} PROVE FALSE
  OBVIOUS
<1>1. IsFiniteSet(T)
  BY FS_Subset
<1>0. \E s \in B : \A v \in SUBSET s : v # s => v \notin B
  <2>1. B \subseteq SUBSET T /\ IsFiniteSet(T)
    BY <1>1
  <2> HIDE DEF B
  <2> QED
    BY <2>1, SmallestSet
<1>2. PICK s \in B : \A v \in SUBSET s : v # s => v \notin B
  BY <1>0
<1>3. s \in SUBSET T /\ s \in SUBSET S /\ g[s] # k[s]
  OBVIOUS
<1>4. \A u \in SUBSET T :
         /\ g[u] = IF u = {} THEN 0 ELSE h[Chosen(u)].len + g[u \ {Chosen(u)}]
         /\ k[u] = IF u = {} THEN 0 ELSE h[Chosen(u)].len + k[u \ {Chosen(u)}]
  BY DEF SumEq
<1>5. s # {}
  BY <1>3, <1>4
<1>6. Chosen(s) \in s
  BY <1>5, ChosenMember
<1>7. s \ {Chosen(s)} \in SUBSET T /\ s \ {Chosen(s)} \notin B
  BY <1>2, <1>3, <1>6
<1>8. g[s \ {Chosen(s)}] = k[s \ {Chosen(s)}]
  BY <1>7
<1> QED
  BY <1>3, <1>4, <1>5, <1>8

\* There is such a function for every finite set.
LEMMA SumExists ==
    ASSUME NEW h, NEW T, IsFiniteSet(T)
    PROVE  \E g : SumEq(g, h, T)
<1> DEFINE B == {U \in SUBSET T : ~ \E g : SumEq(g, h, U)}
<1> SUFFICES ASSUME B # {} PROVE FALSE
  OBVIOUS
<1>0. \E U \in B : \A V \in SUBSET U : V # U => V \notin B
  <2>1. B \subseteq SUBSET T /\ IsFiniteSet(T)
    OBVIOUS
  <2> HIDE DEF B
  <2> QED
    BY <2>1, SmallestSet
<1>1. PICK U \in B : \A V \in SUBSET U : V # U => V \notin B
  BY <1>0
<1>2. U \in SUBSET T /\ IsFiniteSet(U)
  BY FS_Subset
<1>3. ASSUME NEW V \in SUBSET U, V # U
      PROVE  SumEq(CHOOSE g : SumEq(g, h, V), h, V)
  <2>1. \E g : SumEq(g, h, V)
    BY <1>1, <1>2, <1>3
  <2> QED
    BY <2>1
<1>4. ASSUME NEW V \in SUBSET U, V # U
      PROVE  LenSum(h, V) = IF V = {} THEN 0
                            ELSE h[Chosen(V)].len + LenSum(h, V \ {Chosen(V)})
  <2> DEFINE K == CHOOSE g : SumEq(g, h, V)
  <2>1. SumEq(K, h, V) /\ LenSum(h, V) = K[V]
    BY <1>3, <1>4 DEF LenSum
  <2> HIDE DEF K
  <2>2. K[V] = IF V = {} THEN 0 ELSE h[Chosen(V)].len + K[V \ {Chosen(V)}]
    BY <2>1 DEF SumEq
  <2>3. ASSUME V # {} PROVE LenSum(h, V \ {Chosen(V)}) = K[V \ {Chosen(V)}]
    <3> DEFINE W == V \ {Chosen(V)}
               L == CHOOSE g : SumEq(g, h, W)
    <3>1. W \in SUBSET U /\ W # U /\ W \in SUBSET V
      BY <1>4, <2>3, ChosenMember
    <3>2. SumEq(L, h, W) /\ LenSum(h, W) = L[W]
      BY <1>3, <3>1 DEF LenSum
    <3>3. IsFiniteSet(V) /\ W \in SUBSET W
      BY <1>2, FS_Subset
    <3> HIDE DEF W, L
    <3>4. K[W] = L[W]
      BY <2>1, <3>1, <3>2, <3>3, SumAgrees
    <3> QED
      BY <3>2, <3>4 DEF W
  <2> QED
    BY <2>1, <2>2, <2>3
<1> DEFINE f == [s \in SUBSET U |->
                   IF s = {} THEN 0 ELSE h[Chosen(s)].len + LenSum(h, s \ {Chosen(s)})]
<1>5. ASSUME NEW s \in SUBSET U, s # {}
      PROVE  LenSum(h, s \ {Chosen(s)}) = f[s \ {Chosen(s)}]
  <2> DEFINE V == s \ {Chosen(s)}
  <2>1. V \in SUBSET U /\ V # U
    BY <1>5, ChosenMember
  <2> HIDE DEF V
  <2>2. LenSum(h, V) = f[V]
    BY <1>4, <2>1
  <2> QED
    BY <2>2 DEF V
<1>6. f = [s \in SUBSET U |-> IF s = {} THEN 0 ELSE h[Chosen(s)].len + f[s \ {Chosen(s)}]]
  BY <1>5
<1> HIDE DEF f
<1>7. SumEq(f, h, U)
  BY <1>6 DEF SumEq
<1> QED
  BY <1>7

\* A sum is that of the chosen member and of the rest.
LEMMA SumUnfolds ==
    ASSUME NEW h, NEW V, IsFiniteSet(V)
    PROVE  LenSum(h, V) = IF V = {} THEN 0
                          ELSE h[Chosen(V)].len + LenSum(h, V \ {Chosen(V)})
<1> DEFINE W == V \ {Chosen(V)}
           K == CHOOSE g : SumEq(g, h, V)
           L == CHOOSE g : SumEq(g, h, W)
<1>1. IsFiniteSet(W) /\ W \in SUBSET V
  BY FS_Subset
<1>2. SumEq(K, h, V) /\ SumEq(L, h, W)
  <2>1. (\E g : SumEq(g, h, V)) /\ (\E g : SumEq(g, h, W))
    BY <1>1, SumExists
  <2> QED
    BY <2>1
<1>3. LenSum(h, V) = K[V] /\ LenSum(h, W) = L[W]
  BY DEF LenSum
<1> HIDE DEF K, L
<1>4. K[V] = IF V = {} THEN 0 ELSE h[Chosen(V)].len + K[W]
  BY <1>2 DEF SumEq
<1> HIDE DEF W
<1>5. K[W] = L[W]
  BY <1>1, <1>2, SumAgrees
<1> QED
  BY <1>3, <1>4, <1>5 DEF W

\* The sum does not depend on the order in which the members are chosen.
LEMMA SumRemove ==
    ASSUME NEW h, NEW V, IsFiniteSet(V), \A x \in V : h[x].len \in Nat
    PROVE  /\ LenSum(h, V) \in Nat
           /\ \A x \in V : LenSum(h, V) = h[x].len + LenSum(h, V \ {x})
<1> DEFINE Good(U) == /\ LenSum(h, U) \in Nat
                      /\ \A x \in U : LenSum(h, U) = h[x].len + LenSum(h, U \ {x})
           B == {U \in SUBSET V : ~Good(U)}
<1> SUFFICES ASSUME B # {} PROVE FALSE
  OBVIOUS
<1>0. \E U \in B : \A W \in SUBSET U : W # U => W \notin B
  <2>1. B \subseteq SUBSET V /\ IsFiniteSet(V)
    OBVIOUS
  <2> HIDE DEF B
  <2> QED
    BY <2>1, SmallestSet
<1>1. PICK U \in B : \A W \in SUBSET U : W # U => W \notin B
  BY <1>0
<1>2. U \in SUBSET V /\ IsFiniteSet(U) /\ ~Good(U)
  BY FS_Subset
<1>3. \A W \in SUBSET U : W # U => Good(W)
  BY <1>1, <1>2
<1> HIDE DEF B
<1>4. LenSum(h, U) = IF U = {} THEN 0 ELSE h[Chosen(U)].len + LenSum(h, U \ {Chosen(U)})
  BY <1>2, SumUnfolds
<1>5. U # {}
  BY <1>2, <1>4
<1> DEFINE y == Chosen(U)
<1>6. y \in U /\ h[y].len \in Nat
  BY <1>2, <1>5, ChosenMember
<1>7. LenSum(h, U) = h[y].len + LenSum(h, U \ {y})
  BY <1>4, <1>5
<1> HIDE DEF y
<1>8. LenSum(h, U \ {y}) \in Nat
  <2>1. U \ {y} \in SUBSET U /\ U \ {y} # U
    BY <1>6
  <2> QED
    BY <1>3, <2>1
<1>9. ASSUME NEW x \in U PROVE LenSum(h, U) = h[x].len + LenSum(h, U \ {x})
  <2>1. CASE x = y
    BY <1>7, <2>1
  <2>2. CASE x # y
    <3> DEFINE Wy == U \ {y}
               Wx == U \ {x}
               Z == U \ {x, y}
    <3>1. /\ Wy \in SUBSET U /\ Wy # U /\ x \in Wy /\ Wy \ {x} = Z
          /\ Wx \in SUBSET U /\ Wx # U /\ y \in Wx /\ Wx \ {y} = Z
          /\ Z \in SUBSET U /\ Z # U
      BY <1>6, <2>2
    <3>2. Good(Wy) /\ Good(Wx) /\ Good(Z)
      BY <1>3, <3>1
    <3>3. LenSum(h, Wy) = h[x].len + LenSum(h, Z)
      BY <3>1, <3>2
    <3>4. LenSum(h, Wx) = h[y].len + LenSum(h, Z)
      BY <3>1, <3>2
    <3>5. LenSum(h, Z) \in Nat /\ h[x].len \in Nat
      BY <1>2, <3>2
    <3>6. LenSum(h, U) = h[y].len + LenSum(h, Wy)
      BY <1>7
    <3> HIDE DEF Wy, Wx, Z
    <3>7. LenSum(h, U) = h[x].len + LenSum(h, Wx)
      BY <1>6, <3>3, <3>4, <3>5, <3>6
    <3> QED
      BY <3>7 DEF Wx
  <2> QED
    BY <2>1, <2>2
<1> QED
  BY <1>2, <1>6, <1>7, <1>8, <1>9

\* Two disjoint parts.
LEMMA SumSplit ==
    ASSUME NEW h, NEW A, IsFiniteSet(A), \A x \in A : h[x].len \in Nat, NEW V \in SUBSET A
    PROVE  LenSum(h, A) = LenSum(h, A \ V) + LenSum(h, V)
<1> DEFINE B == {U \in SUBSET V : LenSum(h, A) # LenSum(h, A \ U) + LenSum(h, U)}
<1> SUFFICES ASSUME B # {} PROVE FALSE
  OBVIOUS
<1>0. \E U \in B : \A W \in SUBSET U : W # U => W \notin B
  <2>1. B \subseteq SUBSET V /\ IsFiniteSet(V)
    BY FS_Subset
  <2> HIDE DEF B
  <2> QED
    BY <2>1, SmallestSet
<1>1. PICK U \in B : \A W \in SUBSET U : W # U => W \notin B
  BY <1>0
<1>2. /\ U \in SUBSET A /\ IsFiniteSet(U) /\ IsFiniteSet(A \ U)
      /\ LenSum(h, A) # LenSum(h, A \ U) + LenSum(h, U)
  BY FS_Subset
<1>3. \A W \in SUBSET U : W # U => LenSum(h, A) = LenSum(h, A \ W) + LenSum(h, W)
  BY <1>1
<1> HIDE DEF B
<1>4. U # {}
  <2>1. LenSum(h, {}) = 0 /\ LenSum(h, A) \in Nat
    BY SumUnfolds, SumRemove, FS_EmptySet
  <2>2. A \ {} = A
    OBVIOUS
  <2> QED
    BY <1>2, <2>1, <2>2
<1>5. PICK x \in U : TRUE
  BY <1>4
<1>6. LenSum(h, U) = h[x].len + LenSum(h, U \ {x})
  BY <1>2, SumRemove
<1> DEFINE C == A \ (U \ {x})
<1>7. IsFiniteSet(C) /\ x \in C /\ C \ {x} = A \ U /\ C \in SUBSET A
  BY <1>2, FS_Subset
<1>8. LenSum(h, C) = h[x].len + LenSum(h, A \ U)
  BY <1>7, SumRemove
<1>9. LenSum(h, A) = LenSum(h, C) + LenSum(h, U \ {x})
  BY <1>3
<1>10. /\ LenSum(h, A \ U) \in Nat /\ LenSum(h, U \ {x}) \in Nat /\ h[x].len \in Nat
  BY <1>2, SumRemove, FS_Subset
<1> HIDE DEF C
<1> QED
  BY <1>2, <1>6, <1>8, <1>9, <1>10

\* The sum depends on the lengths of the members only.
LEMMA SumSame ==
    ASSUME NEW h, NEW k, NEW V, IsFiniteSet(V), \A x \in V : h[x].len = k[x].len
    PROVE  LenSum(h, V) = LenSum(k, V)
<1> DEFINE B == {U \in SUBSET V : LenSum(h, U) # LenSum(k, U)}
<1> SUFFICES ASSUME B # {} PROVE FALSE
  OBVIOUS
<1>0. \E U \in B : \A W \in SUBSET U : W # U => W \notin B
  <2>1. B \subseteq SUBSET V /\ IsFiniteSet(V)
    OBVIOUS
  <2> HIDE DEF B
  <2> QED
    BY <2>1, SmallestSet
<1>1. PICK U \in B : \A W \in SUBSET U : W # U => W \notin B
  BY <1>0
<1>2. U \in SUBSET V /\ IsFiniteSet(U) /\ LenSum(h, U) # LenSum(k, U)
  BY FS_Subset
<1>3. /\ LenSum(h, U) = IF U = {} THEN 0 ELSE h[Chosen(U)].len + LenSum(h, U \ {Chosen(U)})
      /\ LenSum(k, U) = IF U = {} THEN 0 ELSE k[Chosen(U)].len + LenSum(k, U \ {Chosen(U)})
  BY <1>2, SumUnfolds
<1>4. U # {} /\ Chosen(U) \in U
  BY <1>2, <1>3, ChosenMember
<1>5. U \ {Chosen(U)} \in SUBSET U /\ U \ {Chosen(U)} # U
  BY <1>4
<1>6. LenSum(h, U \ {Chosen(U)}) = LenSum(k, U \ {Chosen(U)})
  BY <1>1, <1>5
<1> QED
  BY <1>2, <1>3, <1>4, <1>6

-----------------------------------------------------------------------------
(* The queue.                                                              *)

USE ProxyCacheAssumption

\* q[1], ..., q[n] are the objects that `next' links from head to NULL in h.
Chain(q, n, head, h) ==
    /\ n \in Nat /\ q \in [1 .. n -> Obj]
    /\ \A i, j \in 1 .. n : q[i] = q[j] => i = j
    /\ head = IF n = 0 THEN NULL ELSE q[1]
    /\ \A i \in 1 .. n : h[q[i]].next = IF i = n THEN NULL ELSE q[i + 1]

\* Functions on 1 .. n are sequences of length n, with Append adding at n + 1.
LEMMA FunctionsAreSequences ==
    ASSUME NEW n \in Nat, NEW s \in [1 .. n -> Obj]
    PROVE  s \in Seq(Obj) /\ Len(s) = n
<1>1. s \in Seq(Obj)
  BY SeqDef
<1>2. Len(s) \in Nat /\ 1 .. Len(s) = 1 .. n
  BY <1>1, LenProperties
<1>3. Len(s) = n
  BY <1>2
<1> QED
  BY <1>1, <1>3

\* The walk that defines Queue.
WalkStep(w, m) ==
    IF m = 0 THEN IF cache_head = NULL THEN <<>> ELSE <<cache_head>>
    ELSE IF Len(w[m - 1]) < m \/ heap[w[m - 1][m]].next = NULL THEN w[m - 1]
         ELSE Append(w[m - 1], heap[w[m - 1][m]].next)

WalkEq(w) == w = [m \in 0 .. Cardinality(Obj) |-> WalkStep(w, m)]

\* Queue is the last member of the walk along `next'.
LEMMA QueueIsWalk == Queue = (CHOOSE w : WalkEq(w))[Cardinality(Obj)]
BY DEF Queue, WalkEq, WalkStep

\* What the walk has found after m steps.
Found(q, n, m) == [i \in 1 .. (IF m + 1 <= n THEN m + 1 ELSE n) |-> q[i]]

\* A step of the walk along a chain finds the next object, or none at its end.
LEMMA FoundStep ==
    ASSUME NEW n, NEW q, Chain(q, n, cache_head, heap), NEW m \in Nat, NEW w,
           m # 0 => w[m - 1] = Found(q, n, m - 1)
    PROVE  WalkStep(w, m) = Found(q, n, m)
<1>1. n \in Nat /\ q \in [1 .. n -> Obj]
  BY DEF Chain
<1>2. CASE m = 0 /\ n = 0
  <2>1. cache_head = NULL
    BY <1>2 DEF Chain
  <2>2. Found(q, n, m) \in [1 .. 0 -> Obj]
    BY <1>2 DEF Found
  <2>3. Found(q, n, m) = <<>>
    BY <2>2, FunctionsAreSequences, EmptySeq
  <2> QED
    BY <1>2, <2>1, <2>3 DEF WalkStep
<1>3. CASE m = 0 /\ n # 0
  <2>1. cache_head = q[1] /\ q[1] \in Obj /\ cache_head # NULL
    BY <1>1, <1>3 DEF Chain
  <2>2. Found(q, n, m) \in [1 .. 1 -> Obj] /\ Found(q, n, m)[1] = q[1]
    BY <1>1, <1>3 DEF Found
  <2>3. Found(q, n, m) = <<q[1]>>
    <3>1. Found(q, n, m) \in Seq(Obj) /\ Len(Found(q, n, m)) = 1
      BY <2>2, FunctionsAreSequences
    <3>2. <<q[1]>> \in Seq(Obj) /\ Len(<<q[1]>>) = 1 /\ <<q[1]>>[1] = q[1]
      BY <2>1
    <3> QED
      BY <2>2, <3>1, <3>2, SeqEqual
  <2> QED
    BY <1>3, <2>1, <2>3 DEF WalkStep
<1>4. CASE m # 0 /\ n < m
  <2>1. Found(q, n, m - 1) = Found(q, n, m) /\ Found(q, n, m) \in [1 .. n -> Obj]
    BY <1>1, <1>4 DEF Found
  <2>2. Len(w[m - 1]) < m
    BY <1>1, <1>4, <2>1, FunctionsAreSequences
  <2> QED
    BY <1>4, <2>1, <2>2 DEF WalkStep
<1>5. CASE m # 0 /\ m <= n
  <2> DEFINE p == Found(q, n, m - 1)
  <2>1. p \in [1 .. m -> Obj] /\ \A i \in 1 .. m : p[i] = q[i]
    BY <1>1, <1>5 DEF Found
  <2>2. p \in Seq(Obj) /\ Len(p) = m /\ w[m - 1] = p /\ ~(Len(p) < m)
    BY <1>5, <2>1, FunctionsAreSequences
  <2>3. p[m] = q[m]
    BY <1>5, <2>1
  <2> HIDE DEF p
  <2>4. WalkStep(w, m) = IF heap[q[m]].next = NULL THEN p ELSE Append(p, heap[q[m]].next)
    BY <1>5, <2>2, <2>3 DEF WalkStep
  <2>5. CASE m = n
    <3>1. heap[q[m]].next = NULL
      BY <1>5, <2>5 DEF Chain
    <3>2. p = Found(q, n, m)
      BY <1>1, <1>5, <2>5 DEF p, Found
    <3> QED
      BY <2>4, <3>1, <3>2
  <2>6. CASE m # n
    <3>1. heap[q[m]].next = q[m + 1] /\ q[m + 1] \in Obj
      BY <1>1, <1>5, <2>6 DEF Chain
    <3>2. Found(q, n, m) \in [1 .. m + 1 -> Obj] /\ \A i \in 1 .. m + 1 : Found(q, n, m)[i] = q[i]
      BY <1>1, <1>5, <2>6 DEF Found
    <3>3. Found(q, n, m) \in Seq(Obj) /\ Len(Found(q, n, m)) = m + 1
      BY <3>2, FunctionsAreSequences
    <3>4. /\ Append(p, q[m + 1]) \in Seq(Obj) /\ Len(Append(p, q[m + 1])) = m + 1
          /\ \A i \in 1 .. m : Append(p, q[m + 1])[i] = p[i]
          /\ Append(p, q[m + 1])[m + 1] = q[m + 1]
      BY <2>2, <3>1, AppendProperties
    <3>5. \A i \in 1 .. m + 1 : Append(p, q[m + 1])[i] = Found(q, n, m)[i]
      BY <2>1, <3>2, <3>4 DEF p
    <3>6. Append(p, q[m + 1]) = Found(q, n, m)
      BY <3>3, <3>4, <3>5, SeqEqual
    <3>7. heap[q[m]].next # NULL
      BY <3>1
    <3> QED
      BY <2>4, <3>1, <3>6, <3>7
  <2> QED
    BY <2>5, <2>6
<1> QED
  BY <1>1, <1>2, <1>3, <1>4, <1>5

\* Where the links form a chain, Queue is that chain: the walk needs no more
\* steps than there are objects.
LEMMA QueueIsChain ==
    ASSUME NEW n, NEW q, Chain(q, n, cache_head, heap)
    PROVE  Queue = q /\ q \in Seq(Obj) /\ Len(q) = n /\ n <= Cardinality(Obj)
<1> DEFINE N == Cardinality(Obj)
<1>1. n \in Nat /\ q \in [1 .. n -> Obj] /\ N \in Nat
  BY FS_CardinalityType DEF Chain
<1>2. n <= N
  <2>1. q \in Injection(1 .. n, Obj)
    BY <1>1 DEF Chain, Injection, IsInjective
  <2>2. Cardinality(1 .. n) = n
    BY <1>1, FS_Interval
  <2>3. Cardinality(1 .. n) <= N
    BY <2>1, FS_Injection
  <2> QED
    BY <2>2, <2>3
<1> HIDE DEF N
<1>3. \E w : WalkEq(w)
  <2> DEFINE w == [m \in 0 .. N |-> Found(q, n, m)]
  <2>1. ASSUME NEW m \in 0 .. N PROVE WalkStep(w, m) = Found(q, n, m)
    <3>1. m # 0 => w[m - 1] = Found(q, n, m - 1)
      BY <1>1
    <3>2. m \in Nat
      BY <1>1
    <3> HIDE DEF w
    <3> QED
      BY <3>1, <3>2, FoundStep
  <2>2. w = [m \in 0 .. N |-> WalkStep(w, m)]
    <3>1. [m \in 0 .. N |-> Found(q, n, m)] = [m \in 0 .. N |-> WalkStep(w, m)]
      BY <2>1
    <3> QED
      BY <3>1
  <2> HIDE DEF w
  <2> QED
    BY <2>2 DEF WalkEq, N
<1> DEFINE v == CHOOSE w : WalkEq(w)
<1>4. WalkEq(v)
  BY <1>3
<1>5. Queue = v[N]
  BY QueueIsWalk DEF N
<1> HIDE DEF v
<1>6. \A m \in 0 .. N : v[m] = WalkStep(v, m)
  BY <1>4 DEF WalkEq, N
<1>7. \A m \in 0 .. N : v[m] = Found(q, n, m)
  <2> DEFINE B == {m \in 0 .. N : v[m] # Found(q, n, m)}
  <2> SUFFICES ASSUME B # {} PROVE FALSE
    OBVIOUS
  <2>1. \E m \in B : \A k \in B : m <= k
    <3>1. B \subseteq Nat
      BY <1>1
    <3> HIDE DEF B
    <3> QED
      BY <3>1, LeastNatural
  <2>2. PICK m \in B : \A k \in B : m <= k
    BY <2>1
  <2>3. m \in 0 .. N /\ m \in Nat /\ v[m] # Found(q, n, m)
    BY <1>1
  <2>4. m # 0 => v[m - 1] = Found(q, n, m - 1)
    BY <1>1, <2>2, <2>3
  <2> HIDE DEF B
  <2>5. WalkStep(v, m) = Found(q, n, m)
    BY <2>3, <2>4, FoundStep
  <2> QED
    BY <1>6, <2>3, <2>5
<1>8. Found(q, n, N) = q
  BY <1>1, <1>2 DEF Found
<1>9. q \in Seq(Obj) /\ Len(q) = n
  BY <1>1, FunctionsAreSequences
<1> QED
  BY <1>1, <1>2, <1>5, <1>7, <1>8, <1>9 DEF N

HeapType == heap \in [Obj -> [key : Uri \cup {NULL}, len : Nat, next : Obj \cup {NULL}]]

\* The queue is a chain of allocated objects without a repeated key.  While it
\* is not empty cache_tail is an allocated object: the last one of the chain or
\* one that is no longer in it, never one in the middle.
QueueOK(q, n, head, tail, h) ==
    /\ Chain(q, n, head, h)
    /\ \A i \in 1 .. n : h[q[i]].key # NULL
    /\ \A i, j \in 1 .. n : h[q[i]].key = h[q[j]].key => i = j
    /\ n # 0 => /\ tail \in Obj /\ h[tail].key # NULL
                /\ \A i \in 1 .. n : q[i] = tail => i = n

QueueInv == \E q, n : QueueOK(q, n, cache_head, cache_tail, heap)

CacheInv == HeapType /\ QueueInv /\ cache_size = LenSum(heap, Allocated)

\* What a search of the queue can read is the chain.
LEMMA ReachableIsChain ==
    ASSUME NEW n, NEW q, Chain(q, n, cache_head, heap)
    PROVE  /\ n \in Nat /\ q \in [1 .. n -> Obj] /\ DOMAIN Queue = 1 .. n
           /\ Reachable = {q[i] : i \in 1 .. n}
<1>1. Queue = q /\ n \in Nat /\ q \in [1 .. n -> Obj] /\ DOMAIN q = 1 .. n
  BY QueueIsChain DEF Chain
<1> QED
  BY <1>1 DEF Reachable

\* The invariant says that the queue is sound.
LEMMA CacheInvMeaning ==
    ASSUME CacheInv
    PROVE  QueueIsSound
<1>1. PICK q, n : QueueOK(q, n, cache_head, cache_tail, heap)
  BY DEF CacheInv, QueueInv
<1>2. Chain(q, n, cache_head, heap)
  BY <1>1 DEF QueueOK
<1>3. Reachable = {q[i] : i \in 1 .. n} /\ q \in [1 .. n -> Obj]
  BY <1>2, ReachableIsChain
<1>4. Len(Queue) <= Cardinality(Obj)
  BY <1>2, QueueIsChain
<1>5. Reachable \subseteq Allocated
  BY <1>1, <1>3 DEF QueueOK, Allocated
<1>6. KeysDistinct
  BY <1>1, <1>3 DEF QueueOK, KeysDistinct
<1>7. SizeAccounts
  BY TotalLenIsSum DEF CacheInv, SizeAccounts
<1> QED
  BY <1>4, <1>5, <1>6, <1>7 DEF QueueIsSound, QueueEnds

\* Min of a nonempty set of naturals is in it and least.
LEMMA LeastOfSet ==
    ASSUME NEW S \in SUBSET Nat, S # {}
    PROVE  Min(S) \in S /\ \A m \in S : Min(S) <= m
<1>1. PICK n \in S : \A m \in S : n <= m
  BY LeastNatural
<1>2. \A m \in S : n =< m
  BY <1>1
<1> QED
  BY <1>2 DEF Min

\* cacheFind finds an object of the queue, or nothing if there is none.
LEMMA FindProperties ==
    ASSUME NEW n, NEW q, Chain(q, n, cache_head, heap), NEW key
    PROVE  /\ CacheFind(key) = NULL => \A i \in 1 .. n : heap[q[i]].key # key
           /\ CacheFind(key) # NULL => CacheFind(key) \in Obj
<1> DEFINE found == {i \in DOMAIN Queue : heap[Queue[i]].key = key}
<1>1. Queue = q /\ DOMAIN Queue = 1 .. n /\ q \in [1 .. n -> Obj] /\ n \in Nat
  BY QueueIsChain, ReachableIsChain
<1>2. found = {i \in 1 .. n : heap[q[i]].key = key}
  BY <1>1
<1>3. CASE found = {}
  <2>1. CacheFind(key) = NULL
    BY <1>3 DEF CacheFind
  <2> QED
    BY <1>2, <1>3, <2>1
<1>4. CASE found # {}
  <2>1. found \in SUBSET Nat
    BY <1>1, <1>2
  <2>2. CacheFind(key) = Queue[Min(found)]
    BY <1>4 DEF CacheFind
  <2> HIDE DEF found
  <2>3. Min(found) \in found
    BY <1>4, <2>1, LeastOfSet
  <2>4. Queue[Min(found)] \in Obj
    BY <1>1, <1>2, <2>3
  <2> QED
    BY <2>2, <2>4
<1> QED
  BY <1>3, <1>4

-----------------------------------------------------------------------------
(* replace_tail.                                                           *)

\* Where the object was in the queue, and what the links are afterwards.
LEMMA ReplaceTailLinks ==
    ASSUME HeapType, NEW q, NEW n, QueueOK(q, n, cache_head, cache_tail, heap),
           NEW obj \in Obj, ReplaceTail(obj), fault = "none", fault' = "none"
    PROVE  \E k \in 1 .. n :
             /\ obj = q[k] /\ cache_tail' = obj /\ cache_tail \in Obj
             /\ cache_head' = IF k = 1 THEN heap[q[1]].next ELSE cache_head
             /\ heap' \in [Obj -> [key : Uri \cup {NULL}, len : Nat, next : Obj \cup {NULL}]]
             /\ \A o \in Obj :
                  /\ heap'[o].key = heap[o].key /\ heap'[o].len = heap[o].len
                  /\ heap'[o].next = IF o = cache_tail THEN obj
                                     ELSE IF o = obj THEN NULL
                                     ELSE IF k # 1 /\ o = q[k - 1] THEN heap[obj].next
                                     ELSE heap[o].next
<1>1. /\ n \in Nat /\ q \in [1 .. n -> Obj]
      /\ cache_head = IF n = 0 THEN NULL ELSE q[1]
      /\ Reachable = {q[i] : i \in 1 .. n}
  BY ReachableIsChain DEF QueueOK, Chain
<1>2. CASE obj = cache_head
  <2>1. n # 0 /\ obj = q[1] /\ 1 \in 1 .. n /\ cache_tail \in Obj
    BY <1>1, <1>2 DEF QueueOK
  <2>2. /\ cache_head' = heap[obj].next /\ cache_tail' = obj
        /\ heap' = [heap EXCEPT ![obj].next = NULL, ![cache_tail].next = obj]
    BY <1>2 DEF ReplaceTail, AtTail
  <2>3. heap' \in [Obj -> [key : Uri \cup {NULL}, len : Nat, next : Obj \cup {NULL}]]
    BY <2>1, <2>2 DEF HeapType
  <2>4. \A o \in Obj :
          /\ heap'[o].key = heap[o].key /\ heap'[o].len = heap[o].len
          /\ heap'[o].next = IF o = cache_tail THEN obj
                             ELSE IF o = obj THEN NULL ELSE heap[o].next
    BY <2>1, <2>2 DEF HeapType
  <2> QED
    BY <2>1, <2>2, <2>3, <2>4
<1>3. CASE obj # cache_head
  <2>1. PICK o \in Reachable :
          /\ heap[o].next = obj
          /\ heap' = AtTail([heap EXCEPT ![o].next = heap[obj].next], obj)
          /\ cache_tail' = obj /\ UNCHANGED cache_head
    BY <1>3 DEF ReplaceTail, Fails
  <2>2. PICK j \in 1 .. n : o = q[j]
    BY <1>1
  <2>3. j # n /\ q[j + 1] = obj /\ j + 1 \in 1 .. n /\ j + 1 # 1 /\ (j + 1) - 1 = j
    BY <1>1, <2>1, <2>2 DEF QueueOK, Chain
  <2>4. cache_tail \in Obj /\ o \in Obj /\ o # obj
    BY <1>1, <2>2, <2>3 DEF QueueOK, Chain
  <2>5. heap' = [[heap EXCEPT ![o].next = heap[obj].next]
                   EXCEPT ![obj].next = NULL, ![cache_tail].next = obj]
    BY <2>1 DEF AtTail
  <2>6. heap' \in [Obj -> [key : Uri \cup {NULL}, len : Nat, next : Obj \cup {NULL}]]
    BY <2>4, <2>5 DEF HeapType
  <2>7. \A p \in Obj :
          /\ heap'[p].key = heap[p].key /\ heap'[p].len = heap[p].len
          /\ heap'[p].next = IF p = cache_tail THEN obj
                             ELSE IF p = obj THEN NULL
                             ELSE IF p = o THEN heap[obj].next ELSE heap[p].next
    BY <2>4, <2>5 DEF HeapType
  <2>8. PICK k \in 1 .. n : k # 1 /\ q[k] = obj /\ q[k - 1] = o
    BY <2>2, <2>3
  <2>9. cache_head' = cache_head
    BY <2>1
  <2> QED
    BY ZenonT(60), <2>1, <2>4, <2>6, <2>7, <2>8, <2>9
<1> QED
  BY <1>2, <1>3

\* Moving an object to the end: the others keep their order; the object itself
\* is lost if it was last already, or if the tail is.
LEMMA ReplaceTailKeepsQueue ==
    ASSUME HeapType, QueueInv, NEW obj \in Obj, ReplaceTail(obj), fault = "none", fault' = "none"
    PROVE  /\ QueueInv' /\ HeapType'
           /\ \A o \in Obj : heap'[o].key = heap[o].key /\ heap'[o].len = heap[o].len
<1>1. PICK q, n : QueueOK(q, n, cache_head, cache_tail, heap)
  BY DEF QueueInv
<1>2. PICK k \in 1 .. n :
        /\ obj = q[k] /\ cache_tail' = obj /\ cache_tail \in Obj
        /\ cache_head' = IF k = 1 THEN heap[q[1]].next ELSE cache_head
        /\ heap' \in [Obj -> [key : Uri \cup {NULL}, len : Nat, next : Obj \cup {NULL}]]
        /\ \A o \in Obj :
             /\ heap'[o].key = heap[o].key /\ heap'[o].len = heap[o].len
             /\ heap'[o].next = IF o = cache_tail THEN obj
                                ELSE IF o = obj THEN NULL
                                ELSE IF k # 1 /\ o = q[k - 1] THEN heap[obj].next
                                ELSE heap[o].next
  BY <1>1, ReplaceTailLinks
<1>3. HeapType' /\ \A o \in Obj : heap'[o].key = heap[o].key /\ heap'[o].len = heap[o].len
  BY <1>2 DEF HeapType
<1>4. /\ n \in Nat \ {0} /\ q \in [1 .. n -> Obj] /\ cache_head = q[1]
      /\ \A i, j \in 1 .. n : q[i] = q[j] => i = j
      /\ \A i \in 1 .. n : heap[q[i]].next = IF i = n THEN NULL ELSE q[i + 1]
      /\ \A i \in 1 .. n : heap[q[i]].key # NULL
      /\ \A i, j \in 1 .. n : heap[q[i]].key = heap[q[j]].key => i = j
      /\ heap[cache_tail].key # NULL
      /\ \A i \in 1 .. n : q[i] = cache_tail => i = n
  BY SMTT(30), <1>1, <1>2 DEF QueueOK, Chain
<1>5. heap'[cache_tail'].key # NULL
  BY <1>2, <1>4
<1>6. CASE q[n] # cache_tail \/ k = n
  <2> DEFINE r == [i \in 1 .. n - 1 |-> IF i < k THEN q[i] ELSE q[i + 1]]
  <2>1. r \in [1 .. n - 1 -> Obj] /\ n - 1 \in Nat
    BY <1>4
  <2>2. \A i \in 1 .. n - 1 : r[i] # q[k] /\ (q[n] # cache_tail => r[i] # cache_tail)
    BY <1>2, <1>4
  <2>3. ASSUME NEW i \in 1 .. n - 1, NEW j \in 1 .. n - 1,
               r[i] = r[j] \/ heap[r[i]].key = heap[r[j]].key
        PROVE  i = j
    <3>1. PICK a \in 1 .. n : a = IF i < k THEN i ELSE i + 1
      BY <1>2, <1>4
    <3>2. PICK b \in 1 .. n : b = IF j < k THEN j ELSE j + 1
      BY <1>2, <1>4
    <3>3. r[i] = q[a] /\ r[j] = q[b]
      BY <3>1, <3>2
    <3>4. a = b
      BY <1>4, <2>3, <3>3
    <3> QED
      BY <3>1, <3>2, <3>4
  <2>4. \A i \in 1 .. n - 1 : heap[r[i]].key # NULL
    BY SMTT(30), <1>2, <1>4
  <2>5. cache_head' = IF n - 1 = 0 THEN NULL ELSE r[1]
    BY <1>2, <1>4
  <2>6. \A i \in 1 .. n - 1 : r[i] # cache_tail
    BY <1>2, <1>4, <1>6, <2>2
  <2>7. \A i \in 1 .. n - 1 : heap'[r[i]].next = IF i = n - 1 THEN NULL ELSE r[i + 1]
    <3>1. \A i \in 1 .. n - 1 : r[i] = IF i < k THEN q[i] ELSE q[i + 1]
      OBVIOUS
    <3> SUFFICES ASSUME NEW i \in 1 .. n - 1
                 PROVE  heap'[r[i]].next = IF i = n - 1 THEN NULL ELSE r[i + 1]
      OBVIOUS
    <3>2. heap'[r[i]].next = IF k # 1 /\ r[i] = q[k - 1] THEN heap[obj].next ELSE heap[r[i]].next
      BY <1>2, <2>1, <2>2, <2>6
    <3> HIDE DEF r
    <3>3. CASE i < k - 1
      <4>1. i \in 1 .. n /\ i + 1 \in 1 .. n - 1 /\ i + 1 < k /\ i < k /\ i # n - 1 /\ i # n
            /\ k # 1 /\ k - 1 \in 1 .. n /\ i # k - 1
        BY <1>2, <1>4, <3>3
      <4>2. r[i] = q[i] /\ r[i + 1] = q[i + 1]
        BY <3>1, <4>1
      <4>3. r[i] # q[k - 1] /\ heap[q[i]].next = q[i + 1]
        BY <1>4, <4>1, <4>2
      <4> QED
        BY <3>2, <4>1, <4>2, <4>3
    <3>4. CASE i = k - 1
      <4>1. r[i] = q[k - 1] /\ k # 1
        BY <1>2, <1>4, <3>1, <3>4
      <4>2. heap'[r[i]].next = heap[q[k]].next
        BY <1>2, <3>2, <4>1
      <4>3. i # n - 1 => r[i + 1] = q[k + 1]
        BY <1>2, <1>4, <3>1, <3>4
      <4>4. k = n <=> i = n - 1
        BY <1>4, <3>4
      <4>5. heap[q[k]].next = IF k = n THEN NULL ELSE q[k + 1]
        BY <1>4
      <4> QED
        BY <4>2, <4>3, <4>4, <4>5
    <3>5. CASE i > k - 1
      <4>1. i + 1 \in 1 .. n /\ ~(i < k) /\ (i + 1 = n <=> i = n - 1)
            /\ (i # n - 1 => i + 1 \in 1 .. n - 1 /\ ~(i + 1 < k))
            /\ (k # 1 => k - 1 \in 1 .. n /\ i + 1 # k - 1)
        BY <1>2, <1>4, <3>5
      <4>2. r[i] = q[i + 1] /\ (i # n - 1 => r[i + 1] = q[(i + 1) + 1])
        BY <3>1, <4>1
      <4>3. k # 1 => r[i] # q[k - 1]
        BY <1>4, <4>1, <4>2
      <4>4. heap[q[i + 1]].next = IF i + 1 = n THEN NULL ELSE q[(i + 1) + 1]
        BY <1>4, <4>1
      <4> QED
        BY <3>2, <4>1, <4>2, <4>3, <4>4
    <3> QED
      BY <1>2, <1>4, <3>3, <3>4, <3>5
  <2>8. \A i, j \in 1 .. n - 1 : heap'[r[i]].key = heap[r[i]].key /\ (r[i] = cache_tail' => FALSE)
    BY <1>2, <2>1, <2>2
  <2> HIDE DEF r
  <2>9. QueueOK(r, n - 1, cache_head', cache_tail', heap')
    BY <1>2, <1>5, <2>1, <2>3, <2>4, <2>5, <2>7, <2>8 DEF QueueOK, Chain
  <2> QED
    BY <1>3, <2>9 DEF QueueInv
<1>7. CASE q[n] = cache_tail /\ k # n
  <2> DEFINE r == [i \in 1 .. n |-> IF i < k THEN q[i] ELSE IF i < n THEN q[i + 1] ELSE q[k]]
  <2>1. r \in [1 .. n -> Obj]
    BY <1>4
  <2>2. ASSUME NEW i \in 1 .. n, NEW j \in 1 .. n,
               r[i] = r[j] \/ heap[r[i]].key = heap[r[j]].key
        PROVE  i = j
    <3>1. PICK a \in 1 .. n : a = IF i < k THEN i ELSE IF i < n THEN i + 1 ELSE k
      BY <1>2, <1>4
    <3>2. PICK b \in 1 .. n : b = IF j < k THEN j ELSE IF j < n THEN j + 1 ELSE k
      BY <1>2, <1>4
    <3>3. r[i] = q[a] /\ r[j] = q[b]
      BY <3>1, <3>2
    <3>4. a = b
      BY <1>4, <2>2, <3>3
    <3> QED
      BY <1>2, <1>4, <3>1, <3>2, <3>4
  <2>3. \A i \in 1 .. n : heap[r[i]].key # NULL
    BY <1>2, <1>4
  <2>4. cache_head' = r[1]
    BY <1>2, <1>4, <1>7
  <2>5. r[n] = q[k] /\ r[n - 1] = q[n] /\ n - 1 \in 1 .. n
    BY <1>2, <1>4, <1>7
  <2>6. \A i \in 1 .. n : heap'[r[i]].next = IF i = n THEN NULL ELSE r[i + 1]
    <3> SUFFICES ASSUME NEW i \in 1 .. n
                 PROVE  heap'[r[i]].next = IF i = n THEN NULL ELSE r[i + 1]
      OBVIOUS
    <3>1. CASE i < k - 1
      <4>1. r[i] = q[i] /\ r[i + 1] = q[i + 1] /\ r[i] # q[k - 1] /\ i # n
            /\ r[i] # obj /\ r[i] # cache_tail
        BY <1>2, <1>4, <1>7, <3>1
      <4> QED
        BY <1>2, <1>4, <2>1, <4>1
    <3>2. CASE i = k - 1
      <4>1. r[i] = q[k - 1] /\ k # 1 /\ r[i] # obj /\ r[i] # cache_tail
        BY <1>2, <1>4, <1>7, <3>2
      <4>2. heap'[r[i]].next = heap[q[k]].next
        BY <1>2, <2>1, <4>1
      <4>3. r[i + 1] = q[k + 1] /\ i # n
        BY <1>2, <1>4, <1>7, <3>2
      <4> QED
        BY <1>2, <1>4, <1>7, <4>2, <4>3
    <3>3. CASE i > k - 1 /\ i < n - 1
      <4>1. r[i] = q[i + 1] /\ i + 1 \in 1 .. n /\ i + 1 # n /\ (k # 1 => r[i] # q[k - 1])
            /\ r[i] # obj /\ r[i] # cache_tail
        BY <1>2, <1>4, <1>7, <3>3
      <4>2. r[i + 1] = q[(i + 1) + 1]
        BY <1>2, <1>4, <3>3
      <4>3. heap'[r[i]].next = heap[q[i + 1]].next
        BY <1>2, <2>1, <4>1
      <4> QED
        BY <1>4, <3>3, <4>1, <4>2, <4>3
    <3>4. CASE i = n - 1
      <4>1. r[i] = cache_tail /\ r[i + 1] = obj /\ i # n
        BY <1>2, <1>4, <1>7, <2>5, <3>4
      <4> QED
        BY <1>2, <2>1, <4>1
    <3>5. CASE i = n
      <4>1. r[i] = obj /\ obj # cache_tail
        BY <1>2, <1>4, <1>7, <2>5, <3>5
      <4> QED
        BY <1>2, <3>5, <4>1
    <3> QED
      BY <1>2, <1>4, <1>7, <3>1, <3>2, <3>3, <3>4, <3>5
  <2>7. \A i \in 1 .. n : heap'[r[i]].key = heap[r[i]].key /\ (r[i] = cache_tail' => i = n)
    <3>1. n \in 1 .. n /\ r[n] = cache_tail'
      BY <1>2, <1>4, <2>5
    <3> QED
      BY <1>2, <2>1, <2>2, <3>1
  <2> HIDE DEF r
  <2>8. QueueOK(r, n, cache_head', cache_tail', heap')
    BY ZenonT(60), <1>2, <1>4, <1>5, <2>1, <2>2, <2>3, <2>4, <2>6, <2>7 DEF QueueOK, Chain
  <2> QED
    BY <1>3, <2>8 DEF QueueInv
<1> QED
  BY <1>6, <1>7

-----------------------------------------------------------------------------
(* cacheAdd.                                                               *)

\* What evict may free: the first k objects of the queue.
LEMMA FirstObjectsOfChain ==
    ASSUME NEW q, NEW n, Chain(q, n, cache_head, heap), NEW k \in 0 .. n
    PROVE  FirstObjects(k) = {q[i] : i \in 1 .. k} /\ FirstObjects(k) \in SUBSET Obj
<1>1. Queue = q /\ n \in Nat /\ q \in [1 .. n -> Obj]
  BY QueueIsChain DEF Chain
<1> QED
  BY <1>1 DEF FirstObjects

\* evict frees a prefix of the queue and leaves cache_head behind it.
LEMMA EvictedProperties ==
    ASSUME NEW q, NEW n, Chain(q, n, cache_head, heap), NEW len,
           ~(OverCapacity(len) /\ EvictStops(len) = {})
    PROVE  /\ NumEvicted(len) \in 0 .. n
           /\ HeadAfter(NumEvicted(len)) = IF NumEvicted(len) = n THEN NULL
                                           ELSE q[NumEvicted(len) + 1]
<1> DEFINE k == NumEvicted(len)
<1>1. Queue = q /\ n \in Nat /\ Len(Queue) = n
  BY QueueIsChain DEF Chain
<1>2. k \in 0 .. n
  <2>1. CASE OverCapacity(len)
    <3>1. EvictStops(len) \in SUBSET Nat /\ EvictStops(len) \subseteq 0 .. n
      BY <1>1 DEF EvictStops
    <3>2. Min(EvictStops(len)) \in EvictStops(len)
      BY <2>1, <3>1, LeastOfSet
    <3> QED
      BY <2>1, <3>1, <3>2 DEF NumEvicted
  <2>2. CASE ~OverCapacity(len)
    BY <1>1, <2>2 DEF NumEvicted
  <2> QED
    BY <2>1, <2>2
<1> HIDE DEF k
<1>3. CASE k = 0
  BY <1>1, <1>3 DEF HeadAfter, Chain, k
<1>4. CASE k # 0
  <2>1. k \in 1 .. n /\ Queue[k] = q[k]
    BY <1>1, <1>2, <1>4
  <2>2. HeadAfter(k) = heap[q[k]].next
    BY <1>4, <2>1 DEF HeadAfter
  <2> QED
    BY <1>2, <2>1, <2>2 DEF Chain, k
<1> QED
  BY <1>2, <1>3, <1>4

\* The tail the new object is linked to is never one that evict has freed.
LEMMA TailIsNotEvicted ==
    ASSUME HeapType, NEW q, NEW n, QueueOK(q, n, cache_head, cache_tail, heap),
           NEW k \in 0 .. n, k # n
    PROVE  cache_tail \in Allocated \ {q[i] : i \in 1 .. k}
BY DEF QueueOK, Chain, Allocated

\* The new object's key is not in the queue.
LEMMA AddedKeyIsNew ==
    ASSUME NEW q, NEW n, QueueOK(q, n, cache_head, cache_tail, heap), NEW key,
           ~AlreadyCached(key)
    PROVE  \A i \in 1 .. n : heap[q[i]].key # key
BY FindProperties DEF QueueOK, AlreadyCached

\* What cacheAdd does when it succeeds.
Adds(key, len, q, n, k, obj) ==
    LET victims == {q[i] : i \in 1 .. k} IN
    /\ k \in 0 .. n /\ obj \in Obj \ Allocated
    /\ cache_size' = cache_size + len - LenSum(heap, victims)
    /\ cache_head' = IF k = n THEN obj ELSE q[k + 1]
    /\ cache_tail' = obj
    /\ heap' \in [Obj -> [key : Uri \cup {NULL}, len : Nat, next : Obj \cup {NULL}]]
    /\ heap'[obj].key = key /\ heap'[obj].len = len
    /\ heap'[obj].next = NULL
    /\ \A o \in victims : heap'[o].key = NULL
    /\ \A o \in Obj \ (victims \cup {obj}) :
          /\ heap'[o].key = heap[o].key /\ heap'[o].len = heap[o].len
          /\ heap'[o].next = IF k # n /\ o = cache_tail THEN obj ELSE heap[o].next
    /\ fault' = fault

\* cacheAdd does nothing, fails, or adds an object.
LEMMA CacheAddCases ==
    ASSUME HeapType, NEW q, NEW n, QueueOK(q, n, cache_head, cache_tail, heap),
           NEW key \in Uri, NEW len \in Nat, CacheAdd(key, len)
    PROVE  \/ UNCHANGED cacheVars
           \/ UNCHANGED <<cache_head, cache_tail, cache_size, heap>>
                /\ (fault' = "malloc" \/ (fault' = "evict" /\ OverCapacity(len)
                                            /\ EvictStops(len) = {}))
           \/ ~AlreadyCached(key) /\ \E k, obj : Adds(key, len, q, n, k, obj)
<1> DEFINE k == NumEvicted(len)
           victims == FirstObjects(k)
           head == HeadAfter(k)
<1>1. CASE AlreadyCached(key)
  BY <1>1 DEF CacheAdd
<1>2. CASE ~AlreadyCached(key) /\ Allocated = Obj
  BY <1>2 DEF CacheAdd, Fails
<1>3. CASE ~AlreadyCached(key) /\ Allocated # Obj /\ OverCapacity(len) /\ EvictStops(len) = {}
  BY <1>3 DEF CacheAdd, Fails
<1>4. CASE ~AlreadyCached(key) /\ Allocated # Obj /\ ~(OverCapacity(len) /\ EvictStops(len) = {})
  <2>1. Chain(q, n, cache_head, heap) /\ n \in Nat /\ q \in [1 .. n -> Obj]
    BY DEF QueueOK, Chain
  <2>2. k \in 0 .. n /\ head = IF k = n THEN NULL ELSE q[k + 1]
    BY <1>4, <2>1, EvictedProperties
  <2>3. victims = {q[i] : i \in 1 .. k}
    BY <2>1, <2>2, FirstObjectsOfChain
  <2>4. head = NULL <=> k = n
    BY <2>1, <2>2
  <2>5. head # NULL => cache_tail \in Allocated \ victims
    BY <2>2, <2>3, <2>4, TailIsNotEvicted
  <2>6. PICK obj \in Obj \ Allocated :
          LET new  == [key |-> key, len |-> len, next |-> NULL]
              kept == [o \in Obj |-> IF o = obj THEN new
                                     ELSE IF o \in victims THEN Free ELSE heap[o]]
          IN  /\ cache_size' = SizeAfter(len, victims)
              /\ cache_head' = IF head = NULL THEN obj ELSE head
              /\ cache_tail' = obj
              /\ heap' = IF head = NULL THEN kept ELSE AtTail(kept, obj)
              /\ UNCHANGED fault
    <3> HIDE DEF k
    <3> QED
      BY <1>4, <2>5 DEF CacheAdd, k
  <2> HIDE DEF k, head, victims
  <2>7. cache_size' = cache_size + len - LenSum(heap, victims)
    BY <2>6, TotalLenIsSum DEF SizeAfter
  <2>8. victims \subseteq Obj /\ victims \subseteq Allocated
    BY <2>1, <2>2, <2>3 DEF QueueOK, Allocated
  <2> DEFINE kept == [o \in Obj |-> IF o = obj THEN [key |-> key, len |-> len, next |-> NULL]
                                    ELSE IF o \in victims THEN Free ELSE heap[o]]
  <2>9. kept \in [Obj -> [key : Uri \cup {NULL}, len : Nat, next : Obj \cup {NULL}]]
    BY DEF HeapType, Free
  <2>10. /\ kept[obj].key = key /\ kept[obj].len = len /\ kept[obj].next = NULL
         /\ \A o \in victims : kept[o].key = NULL
         /\ \A o \in Obj \ (victims \cup {obj}) : kept[o] = heap[o]
    BY <2>8 DEF Free
  <2>11. heap' = IF head = NULL THEN kept ELSE AtTail(kept, obj)
    BY <2>6
  <2> HIDE DEF kept
  <2>12. /\ heap' \in [Obj -> [key : Uri \cup {NULL}, len : Nat, next : Obj \cup {NULL}]]
         /\ \A o \in Obj :
              /\ heap'[o].key = kept[o].key /\ heap'[o].len = kept[o].len
              /\ heap'[o].next = IF k # n /\ o = cache_tail THEN obj ELSE kept[o].next
    <3>1. CASE head = NULL
      BY <2>4, <2>9, <2>11, <3>1
    <3>2. CASE head # NULL
      <4>1. cache_tail \in Obj /\ cache_tail # obj
        BY <2>5, <3>2 DEF Allocated
      <4>2. heap' = [kept EXCEPT ![obj].next = NULL, ![cache_tail].next = obj]
        BY <2>11, <3>2 DEF AtTail
      <4>3. heap' \in [Obj -> [key : Uri \cup {NULL}, len : Nat, next : Obj \cup {NULL}]]
        BY <2>9, <4>1, <4>2
      <4>4. \A o \in Obj :
              /\ heap'[o].key = kept[o].key /\ heap'[o].len = kept[o].len
              /\ heap'[o].next = IF o = cache_tail THEN obj
                                 ELSE IF o = obj THEN NULL ELSE kept[o].next
        BY <2>9, <4>1, <4>2
      <4> QED
        BY <2>4, <2>10, <3>2, <4>3, <4>4
    <3> QED
      BY <3>1, <3>2
  <2>13. k # n => cache_tail # obj
    BY <2>4, <2>5
  <2>14. Adds(key, len, q, n, k, obj)
    BY ZenonT(60), <2>2, <2>3, <2>4, <2>6, <2>7, <2>8, <2>10, <2>12, <2>13 DEF Adds
  <2> QED
    BY <1>4, <2>14
<1> QED
  BY <1>1, <1>2, <1>3, <1>4

\* The queue keeps what evict left of it, and gets the new object at its end
\* unless the tail is lost: then the object is linked to that and lost too.
LEMMA AddKeepsQueue ==
    ASSUME HeapType, NEW q, NEW n, QueueOK(q, n, cache_head, cache_tail, heap),
           NEW key \in Uri, NEW len \in Nat, ~AlreadyCached(key),
           NEW k, NEW obj, Adds(key, len, q, n, k, obj)
    PROVE  QueueInv'
<1>1. /\ n \in Nat /\ q \in [1 .. n -> Obj]
      /\ \A i, j \in 1 .. n : q[i] = q[j] => i = j
      /\ \A i \in 1 .. n : heap[q[i]].next = IF i = n THEN NULL ELSE q[i + 1]
      /\ \A i \in 1 .. n : heap[q[i]].key # NULL
      /\ \A i, j \in 1 .. n : heap[q[i]].key = heap[q[j]].key => i = j
      /\ n # 0 => \A i \in 1 .. n : q[i] = cache_tail => i = n
  BY DEF QueueOK, Chain
<1>2. k \in 0 .. n /\ obj \in Obj /\ heap[obj].key = NULL
  BY DEF Adds, Allocated
<1>3. \A i \in 1 .. n : q[i] # obj /\ heap[q[i]].key # key
  BY <1>1, <1>2, AddedKeyIsNew
<1>4. /\ heap'[obj].key = key /\ heap'[obj].next = NULL /\ key # NULL
      /\ cache_head' = IF k = n THEN obj ELSE q[k + 1]
      /\ cache_tail' = obj
  BY DEF Adds
<1>5. ASSUME NEW i \in k + 1 .. n
      PROVE  /\ heap'[q[i]].key = heap[q[i]].key
             /\ heap'[q[i]].next = IF q[i] = cache_tail THEN obj ELSE heap[q[i]].next
  <2>1. i \in 1 .. n /\ k # n /\ \A j \in 1 .. k : j \in 1 .. n /\ j # i
    BY <1>1, <1>2
  <2>2. q[i] \in Obj \ ({q[j] : j \in 1 .. k} \cup {obj})
    BY <1>1, <1>3, <2>1
  <2> QED
    BY <2>1, <2>2 DEF Adds
<1>5a. k # n => n - k \in Nat \ {0} /\ n = (n - k) + k
  <2>1. n \in Nat /\ k \in 0 .. n
    BY <1>1, <1>2
  <2> QED
    BY <2>1
<1>6. CASE k = n
  <2> DEFINE r == [i \in 1 .. 1 |-> obj]
  <2>1. r \in [1 .. 1 -> Obj] /\ r[1] = obj /\ \A i \in 1 .. 1 : i = 1
    BY <1>2
  <2> HIDE DEF r
  <2>2. QueueOK(r, 1, cache_head', cache_tail', heap')
    BY <1>2, <1>4, <1>6, <2>1 DEF QueueOK, Chain
  <2> QED
    BY <2>2 DEF QueueInv
<1>7. CASE k # n /\ q[n] = cache_tail
  <2> DEFINE m == n - k
             r == [i \in 1 .. m + 1 |-> IF i <= m THEN q[i + k] ELSE obj]
  <2>1. m \in Nat \ {0} /\ n = m + k
    BY <1>5a, <1>7
  <2>2. r \in [1 .. m + 1 -> Obj] /\ r[m + 1] = obj /\ r[1] = q[1 + k]
    BY <1>1, <1>2, <2>1
  <2>3. \A i \in 1 .. m : r[i] = q[i + k] /\ i + k \in k + 1 .. n /\ i + k \in 1 .. n
    BY <1>1, <1>2, <2>1
  <2> HIDE DEF r
  <2>4. \A i \in 1 .. m : heap'[r[i]].key = heap[q[i + k]].key
    BY <1>5, <2>3
  <2>5. \A i \in 1 .. m + 1 : i = m + 1 \/ i \in 1 .. m
    BY <2>1
  <2>6. \A i \in 1 .. m + 1 : heap'[r[i]].key # NULL
    BY <1>1, <1>4, <2>2, <2>3, <2>4, <2>5
  <2>7. ASSUME NEW i \in 1 .. m + 1, NEW j \in 1 .. m + 1,
               r[i] = r[j] \/ heap'[r[i]].key = heap'[r[j]].key
        PROVE  i = j
    <3>1. CASE i \in 1 .. m /\ j \in 1 .. m
      <4>1. i + k = j + k
        BY <1>1, <2>3, <2>4, <2>7, <3>1
      <4> QED
        BY <1>2, <2>1, <3>1, <4>1
    <3>2. CASE i = m + 1 /\ j = m + 1
      BY <3>2
    <3>3. CASE i = m + 1 /\ j \in 1 .. m
      BY <1>3, <1>4, <2>2, <2>3, <2>4, <2>7, <3>3
    <3>4. CASE i \in 1 .. m /\ j = m + 1
      BY <1>3, <1>4, <2>2, <2>3, <2>4, <2>7, <3>4
    <3> QED
      BY <2>5, <3>1, <3>2, <3>3, <3>4
  <2>8. ASSUME NEW i \in 1 .. m + 1
        PROVE  heap'[r[i]].next = IF i = m + 1 THEN NULL ELSE r[i + 1]
    <3>1. CASE i = m + 1
      BY <1>4, <2>2, <3>1
    <3>2. CASE i = m
      <4>1. r[i] = cache_tail /\ heap'[q[i + k]].next = obj
        BY <1>2, <1>5, <1>7, <2>1, <2>3, <3>2
      <4> QED
        BY <1>2, <2>1, <2>2, <2>3, <3>2, <4>1
    <3>3. CASE i # m + 1 /\ i # m
      <4>1. i \in 1 .. m /\ i + 1 \in 1 .. m /\ i + k # n /\ (i + 1) + k = (i + k) + 1
        BY <1>2, <2>1, <3>3
      <4>2. q[i + k] # cache_tail
        BY <1>1, <2>3, <4>1
      <4>3. heap'[q[i + k]].next = q[(i + k) + 1]
        BY <1>1, <1>5, <2>3, <4>1, <4>2
      <4> QED
        BY <2>3, <3>3, <4>1, <4>3
    <3> QED
      BY <3>1, <3>2, <3>3
  <2>9. m + 1 \in Nat /\ m + 1 # 0 /\ 1 + k = k + 1
    BY <1>2, <2>1
  <2>10. \A i \in 1 .. m + 1 : r[i] = obj => i = m + 1
    BY <2>2, <2>7, <2>9
  <2> HIDE DEF m
  <2>11. QueueOK(r, m + 1, cache_head', cache_tail', heap')
    BY <1>2, <1>4, <1>7, <2>2, <2>6, <2>7, <2>8, <2>9, <2>10 DEF QueueOK, Chain
  <2> QED
    BY <2>11 DEF QueueInv
<1>8. CASE k # n /\ q[n] # cache_tail
  <2> DEFINE m == n - k
             r == [i \in 1 .. m |-> q[i + k]]
  <2>1. m \in Nat \ {0} /\ n = m + k
    BY <1>1, <1>2, <1>8
  <2>2. \A i \in 1 .. m : r[i] = q[i + k] /\ i + k \in k + 1 .. n /\ i + k \in 1 .. n
    BY <1>1, <1>2, <2>1
  <2>3. r \in [1 .. m -> Obj] /\ r[1] = q[1 + k]
    BY <1>1, <2>1, <2>2
  <2> HIDE DEF r
  <2>4. \A i \in 1 .. m : heap'[r[i]].key = heap[q[i + k]].key
    BY <1>5, <2>2
  <2>5. ASSUME NEW i \in 1 .. m, NEW j \in 1 .. m,
               r[i] = r[j] \/ heap'[r[i]].key = heap'[r[j]].key
        PROVE  i = j
    <3>1. i + k = j + k
      <4>1. /\ i + k \in 1 .. n /\ j + k \in 1 .. n
            /\ r[i] = q[i + k] /\ r[j] = q[j + k]
            /\ heap'[r[i]].key = heap[q[i + k]].key
            /\ heap'[r[j]].key = heap[q[j + k]].key
        BY <2>2, <2>4, <2>5
      <4>2. q[i + k] = q[j + k] \/ heap[q[i + k]].key = heap[q[j + k]].key
        BY <2>5, <4>1
      <4> QED
        BY <1>1, <4>1, <4>2
    <3> QED
      BY <1>2, <2>1, <3>1
  <2>6. ASSUME NEW i \in 1 .. m
        PROVE  heap'[r[i]].next = IF i = m THEN NULL ELSE r[i + 1]
    <3>1. q[i + k] # cache_tail
      BY <1>1, <1>8, <2>2
    <3>2. heap'[r[i]].next = heap[q[i + k]].next
      BY <1>5, <2>2, <3>1
    <3>3. CASE i = m
      BY <1>1, <1>2, <2>1, <2>2, <3>2, <3>3
    <3>4. CASE i # m
      <4>1. i + 1 \in 1 .. m /\ i + k # n /\ (i + 1) + k = (i + k) + 1
        BY <1>2, <2>1, <3>4
      <4> QED
        BY <1>1, <2>2, <3>2, <3>4, <4>1
    <3> QED
      BY <3>3, <3>4
  <2>7. m # 0 /\ 1 + k = k + 1 /\ m \in Nat
    BY <1>2, <2>1
  <2>8. \A i \in 1 .. m : r[i] # obj /\ heap'[r[i]].key # NULL
    BY <1>1, <1>3, <2>2, <2>4
  <2> HIDE DEF m
  <2>9. QueueOK(r, m, cache_head', cache_tail', heap')
    BY <1>2, <1>4, <1>8, <2>3, <2>5, <2>6, <2>7, <2>8 DEF QueueOK, Chain
  <2> QED
    BY <2>9 DEF QueueInv
<1> QED
  BY <1>6, <1>7, <1>8

\* cache_size follows what is allocated and what is freed.
LEMMA AddAccounts ==
    ASSUME HeapType, NEW q, NEW n, QueueOK(q, n, cache_head, cache_tail, heap),
           cache_size = LenSum(heap, Allocated),
           NEW key \in Uri, NEW len \in Nat,
           NEW k, NEW obj, Adds(key, len, q, n, k, obj)
    PROVE  cache_size' = LenSum(heap', Allocated')
<1> DEFINE V == {q[i] : i \in 1 .. k}
           W == Allocated \ V
           A == W \cup {obj}
<1>1. V \subseteq Allocated /\ Allocated \subseteq Obj /\ obj \in Obj /\ obj \notin Allocated
  BY DEF QueueOK, Chain, Adds, Allocated
<1>2. Allocated' = A
  BY <1>1 DEF Adds, Allocated
<1>3. IsFiniteSet(Allocated) /\ IsFiniteSet(W) /\ IsFiniteSet(A)
  BY <1>1, FS_Subset, FS_AddElement
<1>4. (\A x \in Allocated : heap[x].len \in Nat) /\ (\A x \in A : heap'[x].len \in Nat)
  BY <1>1 DEF HeapType, Adds
<1>5. \A x \in W : heap[x].len = heap'[x].len
  BY <1>1 DEF Adds
<1>6. cache_size' = cache_size + len - LenSum(heap, V) /\ heap'[obj].len = len
  BY DEF Adds
<1>7. V \in SUBSET Allocated /\ obj \in A /\ A \ {obj} = W
  BY <1>1
<1>8. LenSum(heap, W) \in Nat /\ LenSum(heap, V) \in Nat
  BY <1>3, <1>4, <1>7, SumRemove, FS_Subset
<1> HIDE DEF V, W, A
<1>9. LenSum(heap, Allocated) = LenSum(heap, Allocated \ V) + LenSum(heap, V)
  BY <1>3, <1>4, <1>7, SumSplit
<1>10. LenSum(heap', A) = heap'[obj].len + LenSum(heap', A \ {obj})
  BY <1>3, <1>4, <1>7, SumRemove
<1>11. LenSum(heap, W) = LenSum(heap', W)
  BY <1>3, <1>5, SumSame
<1>12. Allocated \ V = W
  BY DEF W
<1>13. LenSum(heap', A) = len + LenSum(heap, W)
  BY <1>6, <1>7, <1>10, <1>11
<1>14. cache_size = LenSum(heap, W) + LenSum(heap, V)
  BY <1>9, <1>12
<1>15. cache_size' = len + LenSum(heap, W)
  BY <1>6, <1>8, <1>14
<1> QED
  BY <1>2, <1>13, <1>15

-----------------------------------------------------------------------------
(* The operations keep the invariant of the cache.                         *)

\* The steps that leave the cache alone.
LEMMA CacheUntouched ==
    ASSUME UNCHANGED <<cache_head, cache_tail, cache_size, heap>>
    PROVE  (CacheInv => CacheInv') /\ Lost' = Lost
<1>1. Allocated' = Allocated
  BY DEF Allocated
<1>2. Queue' = Queue
  BY DEF Queue
<1> QED
  BY <1>1, <1>2 DEF CacheInv, HeapType, QueueInv, Lost, Reachable

\* replace_tail moves the object or fails to find it, and the sizes stay.
LEMMA ReplaceTailKeepsCache ==
    ASSUME CacheInv, NEW obj \in Obj, ReplaceTail(obj), fault = "none"
    PROVE  CacheInv' /\ fault' \in {"none", "search"} /\ (fault' # "none" => UNCHANGED heap)
<1>1. CASE fault' = "none"
  <2>1. /\ QueueInv' /\ HeapType'
        /\ \A o \in Obj : heap'[o].key = heap[o].key /\ heap'[o].len = heap[o].len
    BY <1>1, ReplaceTailKeepsQueue DEF CacheInv
  <2>2. Allocated' = Allocated /\ Allocated \subseteq Obj /\ IsFiniteSet(Allocated)
    BY <2>1, FS_Subset DEF Allocated
  <2>3. \A o \in Allocated : heap[o].len = heap'[o].len
    BY <2>1, <2>2
  <2>4. cache_size' = cache_size
    BY <1>1 DEF ReplaceTail, Fails
  <2>5. LenSum(heap, Allocated) = LenSum(heap', Allocated)
    BY <2>2, <2>3, SumSame
  <2>6. cache_size' = LenSum(heap', Allocated')
    BY <2>2, <2>4, <2>5 DEF CacheInv
  <2> QED
    BY <1>1, <2>1, <2>6 DEF CacheInv
<1>2. CASE fault' # "none"
  <2>1. fault' = "search" /\ UNCHANGED <<cache_head, cache_tail, cache_size, heap>>
    BY <1>2 DEF ReplaceTail, Fails
  <2> QED
    BY <2>1, CacheUntouched
<1> QED
  BY <1>1, <1>2

\* cacheAdd keeps the cache sound, and changes no object when it fails.
LEMMA CacheAddKeepsCache ==
    ASSUME CacheInv, NEW key \in Uri, NEW len \in Nat, CacheAdd(key, len), fault = "none"
    PROVE  /\ CacheInv'
           /\ \/ fault' = "none"
              \/ fault' = "malloc" /\ UNCHANGED heap
              \/ /\ fault' = "evict" /\ UNCHANGED <<cache_head, heap>>
                 /\ OverCapacity(len) /\ EvictStops(len) = {}
<1>1. PICK q, n : QueueOK(q, n, cache_head, cache_tail, heap)
  BY DEF CacheInv, QueueInv
<1>2. CASE UNCHANGED <<cache_head, cache_tail, cache_size, heap>>
  <2>1. CacheInv'
    BY <1>2, CacheUntouched
  <2>2. \/ UNCHANGED cacheVars
        \/ fault' = "malloc" \/ (fault' = "evict" /\ OverCapacity(len) /\ EvictStops(len) = {})
        \/ \E k, obj : Adds(key, len, q, n, k, obj)
    BY <1>1, CacheAddCases DEF CacheInv
  <2> QED
    BY <1>2, <2>1, <2>2 DEF Adds, cacheVars
<1>3. ASSUME ~AlreadyCached(key), NEW k, NEW obj, Adds(key, len, q, n, k, obj)
      PROVE  CacheInv' /\ fault' = fault
  <2>1. QueueInv'
    BY <1>1, <1>3, AddKeepsQueue DEF CacheInv
  <2>2. cache_size' = LenSum(heap', Allocated')
    BY <1>1, <1>3, AddAccounts DEF CacheInv
  <2>3. HeapType' /\ fault' = fault
    BY <1>3 DEF Adds, HeapType
  <2> QED
    BY <2>1, <2>2, <2>3 DEF CacheInv
<1>4. \/ UNCHANGED <<cache_head, cache_tail, cache_size, heap>>
      \/ ~AlreadyCached(key) /\ \E k, obj : Adds(key, len, q, n, k, obj)
  BY <1>1, CacheAddCases DEF CacheInv, cacheVars
<1> QED
  BY <1>2, <1>3, <1>4

\* evict runs out of objects only if some were lost to the queue: what is in
\* it takes more than half the cache, and an object is at most that half.
LEMMA EvictNeedsLostObjects ==
    ASSUME CacheInv, 2 * MaxObject <= MaxCache, NEW len \in Nat, len <= MaxObject,
           OverCapacity(len), EvictStops(len) = {}
    PROVE  Lost # {}
<1> SUFFICES ASSUME Lost = {} PROVE FALSE
  OBVIOUS
<1>1. PICK q, n : QueueOK(q, n, cache_head, cache_tail, heap)
  BY DEF CacheInv, QueueInv
<1>2. Chain(q, n, cache_head, heap)
  BY <1>1 DEF QueueOK
<1>3. /\ n \in Nat /\ Len(Queue) = n /\ Queue = q
      /\ Reachable = {q[i] : i \in 1 .. n}
  BY <1>2, ReachableIsChain, QueueIsChain
<1>4. Allocated = Reachable /\ FirstObjects(n) = Reachable
  <2>1. Reachable \subseteq Allocated
    BY CacheInvMeaning DEF QueueIsSound, QueueEnds
  <2>2. FirstObjects(n) = {q[i] : i \in 1 .. n}
    BY <1>3 DEF FirstObjects
  <2> QED
    BY <1>3, <2>1, <2>2 DEF Lost
<1>5. TotalLen(FirstObjects(n)) + 1 < len
  BY <1>3 DEF EvictStops
<1>6. TotalLen(FirstObjects(n)) = cache_size
  BY <1>4, TotalLenIsSum DEF CacheInv
<1>7. cache_size \in Nat
  <2>1. IsFiniteSet(Allocated) /\ \A o \in Allocated : heap[o].len \in Nat
    BY FS_Subset DEF Allocated, CacheInv, HeapType
  <2> QED
    BY <2>1, SumRemove DEF CacheInv
<1> QED
  BY <1>5, <1>6, <1>7 DEF OverCapacity

-----------------------------------------------------------------------------
(* The threads.                                                            *)

\* What the locals of a thread hold where it uses them.
ThreadInv ==
    /\ pc \in [Conn -> Pc]
    /\ uri \in [Conn -> Uri \cup {NULL}]
    /\ hit \in [Conn -> Obj \cup {NULL}]
    /\ got \in [Conn -> Nat]
    /\ \A c \in Conn :
         /\ pc[c] \notin {"idle", "request"} => uri[c] \in Uri
         /\ pc[c] \in {"hit", "touch", "move"} => hit[c] \in Obj
         /\ got[c] <= MaxObject

SharedInv == CacheInv /\ ThreadInv /\ HoldersInv

\* The cache is empty at first and no thread runs.
LEMMA InitSharedInv == Init => SharedInv
<1> SUFFICES ASSUME Init PROVE SharedInv
  OBVIOUS
<1> DEFINE none == [i \in 1 .. 0 |-> NULL]
<1>1. heap = [o \in Obj |-> Free] /\ cache_head = NULL /\ cache_size = 0
  BY DEF Init, CacheInit
<1>2. HeapType /\ Allocated = {}
  BY <1>1 DEF HeapType, Free, Allocated
<1>3. none \in [1 .. 0 -> Obj] /\ 1 .. 0 = {}
  OBVIOUS
<1> HIDE DEF none
<1>4. QueueOK(none, 0, cache_head, cache_tail, heap)
  BY <1>1, <1>3, FS_CardinalityType DEF QueueOK, Chain
<1>5. LenSum(heap, {}) = 0
  BY FS_EmptySet, SumUnfolds
<1>6. ThreadInv /\ HoldersInv
  BY DEF Init, ThreadInv, HoldersInv, Pc
<1> QED
  BY <1>1, <1>2, <1>4, <1>5, <1>6 DEF SharedInv, CacheInv, QueueInv


\* Every step of every thread keeps the cache and the locals as they should be.
LEMMA NextSharedInv ==
    ASSUME SharedInv, [Next]_vars
    PROVE  SharedInv' /\ (2 * MaxObject <= MaxCache /\ FaultsAreExplained => FaultsAreExplained')
<1> DEFINE CacheSame == UNCHANGED <<cache_head, cache_tail, cache_size, heap>>
           Goal == SharedInv' /\ (2 * MaxObject <= MaxCache /\ FaultsAreExplained
                                    => FaultsAreExplained')
<1>a. HoldersInv'
  BY NextHoldersInv DEF SharedInv
<1>1. ASSUME ThreadInv', CacheSame, fault' \notin {"evict", "tail", "race"}
      PROVE  Goal
  BY <1>1, <1>a, CacheUntouched DEF SharedInv, FaultsAreExplained
<1>2. ASSUME NEW c \in Conn, Finish(c) PROVE ThreadInv'
  BY <1>2 DEF Finish, Goto, SharedInv, ThreadInv, Pc
<1>3. CASE UNCHANGED vars
  <2>1. ThreadInv' /\ CacheSame /\ fault' = fault
    BY <1>3 DEF SharedInv, ThreadInv, vars, cacheVars
  <2>2. SharedInv'
    BY <1>a, <2>1, CacheUntouched DEF SharedInv
  <2>3. FaultsAreExplained => FaultsAreExplained'
    <3>1. Allocated' = Allocated /\ Queue' = Queue
      BY <2>1 DEF Allocated, Queue
    <3>2. Lost' = Lost
      BY <3>1 DEF Lost, Reachable
    <3>3. \A c \in Conn : (InSection(c)' <=> InSection(c)) /\ (Holds(c)' <=> Holds(c))
      BY <1>3 DEF vars, InSection, Holds
    <3> QED
      BY <2>1, <3>2, <3>3 DEF FaultsAreExplained
  <2> QED
    BY <2>2, <2>3
<1>4. ASSUME NEW c \in Conn, Accept(c) PROVE Goal
  <2>1. ThreadInv'
    BY <1>4 DEF Accept, At, Goto, SharedInv, ThreadInv, Pc
  <2> QED
    BY <1>1, <1>4, <2>1 DEF Accept, At, cacheVars
<1>13. ASSUME NEW c \in Conn, RdLock(c) \/ WrLock(c) PROVE Goal
  <2>1. ThreadInv'
    <3>1. CASE RdLock(c)
      BY <3>1 DEF RdLock, At, Goto, SharedInv, ThreadInv, Pc
    <3>2. CASE WrLock(c)
      BY <3>2 DEF WrLock, At, Goto, SharedInv, ThreadInv, Pc
    <3> QED
      BY <1>13, <3>1, <3>2
  <2>2. CacheSame /\ fault' \in {"none", "race"}
    BY <1>13 DEF RdLock, WrLock, EnterBeside, Fails, At, cacheVars
  <2>3. CASE fault' = "none"
    BY <1>1, <2>1, <2>2, <2>3
  <2>4. CASE fault' = "race"
    <3>1. \E d \in Conn : InSection(d)' /\ ~Holds(d)'
      BY <1>13, <2>4, RaceMeansLostLock DEF SharedInv
    <3>2. FaultsAreExplained'
      BY <2>4, <3>1 DEF FaultsAreExplained
    <3> QED
      BY <1>a, <2>1, <2>2, <3>2, CacheUntouched DEF SharedInv
  <2> QED
    BY <2>2, <2>3, <2>4
<1>14. ASSUME NEW c \in Conn, RdUnlock(c) \/ WrUnlock(c) PROVE Goal
  <2>1. ThreadInv'
    <3>1. CASE RdUnlock(c)
      BY <3>1 DEF RdUnlock, At, Goto, SharedInv, ThreadInv, Pc
    <3>2. CASE WrUnlock(c)
      BY <1>2, <3>2 DEF WrUnlock
    <3> QED
      BY <1>14, <3>1, <3>2
  <2>2. CacheSame /\ fault' \in {"none", "unlock"}
    BY <1>14 DEF RdUnlock, WrUnlock, Unlock, Fails, At, cacheVars
  <2> QED
    BY <1>1, <2>1, <2>2
<1>5. ASSUME NEW c \in Conn, BadRequest(c) \/ ConnectFails(c) PROVE Goal
  BY <1>1, <1>2, <1>5 DEF BadRequest, ConnectFails, At, cacheVars
<1>6. ASSUME NEW c \in Conn, NEW u \in Uri, Request(c, u) PROVE Goal
  BY <1>1, <1>6 DEF Request, At, Goto, SharedInv, ThreadInv, Pc, cacheVars
<1>7. ASSUME NEW c \in Conn, Find(c) PROVE Goal
  <2>1. CacheFind(uri[c]) # NULL => CacheFind(uri[c]) \in Obj
    <3>1. PICK q, n : QueueOK(q, n, cache_head, cache_tail, heap)
      BY DEF SharedInv, CacheInv, QueueInv
    <3> QED
      BY <3>1, FindProperties DEF QueueOK
  <2>2. ThreadInv'
    <3>1. CacheFind(uri[c]) \in Obj \cup {NULL}
      BY <2>1
    <3> QED
      BY <1>7, <3>1 DEF Find, At, Goto, SharedInv, ThreadInv, Pc
  <2> QED
    BY <1>1, <1>7, <2>2 DEF Find, At, cacheVars
<1>8. ASSUME NEW c \in Conn, ServeHit(c) PROVE Goal
  <2>1. ThreadInv'
    BY <1>8 DEF ServeHit, At, Goto, SharedInv, ThreadInv, Pc
  <2>2. CacheSame /\ fault' \in {"none", "stale"}
    BY <1>8 DEF ServeHit, Fails, At, cacheVars
  <2> QED
    BY <1>1, <2>1, <2>2
<1>9. ASSUME NEW c \in Conn, SecondRequestLine(c) PROVE Goal
  BY <1>1, <1>9 DEF SecondRequestLine, Fails, connVars, SharedInv, ThreadInv
<1>10. ASSUME NEW c \in Conn, Forward(c) PROVE Goal
  <2>1. pc[c] = "miss" /\ uri[c] \in Uri /\ Size[uri[c]] \in Nat
    BY <1>10, ProxyAssumption DEF Forward, At, SharedInv, ThreadInv
  <2>2. PICK m \in 0 .. Size[uri[c]] :
          IF FitsInCache(m)
          THEN got' = [got EXCEPT ![c] = m] /\ Goto(c, "store") /\ UNCHANGED <<uri, hit>>
          ELSE Finish(c)
    BY <1>10 DEF Forward
  <2>3. m \in Nat
    BY <2>1, <2>2
  <2>4. CASE FitsInCache(m)
    <3>1. ThreadInv'
      BY <2>1, <2>2, <2>3, <2>4 DEF FitsInCache, Goto, SharedInv, ThreadInv, Pc
    <3> QED
      BY <1>1, <1>10, <3>1 DEF Forward, At, cacheVars
  <2>5. CASE ~FitsInCache(m)
    BY <1>1, <1>2, <1>10, <2>2, <2>5 DEF Forward, At, cacheVars
  <2> QED
    BY <2>4, <2>5
<1>11. ASSUME NEW c \in Conn, Move(c) PROVE Goal
  <2>1. hit[c] \in Obj /\ fault = "none" /\ ReplaceTail(hit[c])
    BY <1>11 DEF Move, At, SharedInv, ThreadInv
  <2>2. CacheInv' /\ fault' \in {"none", "search"}
    BY <2>1, ReplaceTailKeepsCache DEF SharedInv
  <2>3. ThreadInv'
    BY <1>11 DEF Move, At, Goto, SharedInv, ThreadInv, Pc
  <2> QED
    BY <1>a, <2>2, <2>3 DEF SharedInv, FaultsAreExplained
<1>12. ASSUME NEW c \in Conn, Add(c) PROVE Goal
  <2>1. /\ uri[c] \in Uri /\ got[c] \in Nat /\ got[c] <= MaxObject
        /\ fault = "none" /\ CacheAdd(uri[c], got[c])
    BY <1>12 DEF Add, At, SharedInv, ThreadInv
  <2>2. /\ CacheInv'
        /\ \/ fault' \in {"none", "malloc"}
           \/ /\ fault' = "evict" /\ UNCHANGED <<cache_head, heap>>
              /\ OverCapacity(got[c]) /\ EvictStops(got[c]) = {}
    BY <2>1, CacheAddKeepsCache DEF SharedInv
  <2>3. ThreadInv' /\ HoldersInv'
    BY <1>a, <1>12 DEF Add, At, Goto, SharedInv, ThreadInv, Pc
  <2>4. CASE fault' \in {"none", "malloc"}
    BY <2>2, <2>3, <2>4 DEF SharedInv, FaultsAreExplained
  <2>5. CASE fault' = "evict"
    <3>1. 2 * MaxObject <= MaxCache => Lost # {}
      BY <2>1, <2>2, <2>5, EvictNeedsLostObjects DEF SharedInv
    <3>2. Lost' = Lost
      <4>1. Allocated' = Allocated /\ Queue' = Queue
        BY <2>2, <2>5 DEF Allocated, Queue
      <4> QED
        BY <4>1 DEF Lost, Reachable
    <3> QED
      BY <2>2, <2>3, <2>5, <3>1, <3>2 DEF SharedInv, FaultsAreExplained
  <2> QED
    BY <2>2, <2>4, <2>5
<1> QED
  BY <1>3, <1>4, <1>5, <1>6, <1>7, <1>8, <1>9, <1>10, <1>11, <1>12, <1>13, <1>14
     DEF Next, Serve, Inside

\* In whatever order threads start and run their critical sections, up to the
\* first data race, which a thread that initialises the lock anew may cause: a
\* search of the queue comes to an end and reads only allocated objects, no
\* key is in the queue twice, and cache_size is what the allocated objects take.
THEOREM QueueAlwaysSound == Spec => []QueueIsSound
<1>1. SharedInv => QueueIsSound
  BY CacheInvMeaning DEF SharedInv
<1>2. SharedInv /\ [Next]_vars => SharedInv'
  BY NextSharedInv
<1> QED
  BY <1>1, <1>2, InitSharedInv, PTL DEF Spec

\* The lock lets two threads into sections that exclude each other only after it
\* was initialised under the hands of one of them; evict runs out of objects
\* only after some were lost to the queue; and cacheAdd never links a new object to a freed tail.  An object may take at
\* most half the cache, as MAX_OBJECT_SIZE and MAX_CACHE_SIZE allow.
THEOREM FaultsAlwaysExplained == 2 * MaxObject <= MaxCache => (Spec => []FaultsAreExplained)
<1> SUFFICES ASSUME 2 * MaxObject <= MaxCache PROVE Spec => []FaultsAreExplained
  OBVIOUS
<1>1. Init => FaultsAreExplained
  BY DEF Init, CacheInit, FaultsAreExplained
<1>2. SharedInv /\ FaultsAreExplained /\ [Next]_vars => SharedInv' /\ FaultsAreExplained'
  BY NextSharedInv
<1> QED
  BY <1>1, <1>2, InitSharedInv, PTL DEF Spec

===============================================================================
