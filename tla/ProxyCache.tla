------------------------------ MODULE ProxyCache ------------------------------
(***************************************************************************)
(* The web proxy's cache (src/Lab6/proxy.c): a singly linked queue of      *)
(* malloc'd objects with global head, tail and size.  Lookups scan from    *)
(* the head, new and touched objects go to the tail, evict frees from the  *)
(* head.                                                                   *)
(*                                                                         *)
(* Pointers are modelled as the code manipulates them, because what goes   *)
(* wrong in this code are pointers: the queue is what can be reached from  *)
(* `cache_head', which is not always everything that was allocated.  A     *)
(* run-time error of the C code sets `fault', after which the model makes  *)
(* no further step.                                                        *)
(***************************************************************************)
EXTENDS Integers, Sequences, FiniteSets, FiniteSetsExt

CONSTANTS
    Uri,        \* the keys
    Obj,        \* addresses malloc may return for a struct cache_obj
    NULL,
    MaxCache,   \* MAX_CACHE_SIZE
    MaxObject   \* MAX_OBJECT_SIZE

ASSUME ProxyCacheAssumption ==
    /\ NULL \notin Uri \cup Obj
    /\ IsFiniteSet(Obj)
    /\ MaxCache \in Nat /\ MaxObject \in Nat
    /\ MaxObject <= MaxCache

VARIABLES
    cache_head,
    cache_tail,
    cache_size,
    heap,       \* per address: the object's key, len and next, key NULL when free
    fault       \* "none", or the run-time error that ended the program

cacheVars == <<cache_head, cache_tail, cache_size, heap, fault>>

Free == [key |-> NULL, len |-> 0, next |-> NULL]

CacheInit ==
    /\ cache_head = NULL
    /\ cache_tail = NULL
    /\ cache_size = 0
    /\ heap = [o \in Obj |-> Free]
    /\ fault = "none"

Allocated == {o \in Obj : heap[o].key # NULL}

\* The objects met when following `next' from cache_head, in order.  A walk
\* that meets more objects than there are goes round in circles.
Queue ==
    LET walk[n \in 0 .. Cardinality(Obj)] ==
          IF n = 0 THEN IF cache_head = NULL THEN <<>> ELSE <<cache_head>>
          ELSE LET q == walk[n - 1] IN
               IF Len(q) < n \/ heap[q[n]].next = NULL THEN q ELSE Append(q, heap[q[n]].next)
    IN  walk[Cardinality(Obj)]

Reachable == {Queue[i] : i \in DOMAIN Queue}
Lost == Allocated \ Reachable

TotalLen(S) == MapThenSumSet(LAMBDA o : heap[o].len, S)

\* cacheFind
CacheFind(key) ==
    LET found == {i \in DOMAIN Queue : heap[Queue[i]].key = key}
    IN  IF found = {} THEN NULL ELSE Queue[Min(found)]

FaultyAlreadyCached(key) == FALSE
AlreadyCached(key) == CacheFind(key) # NULL

-----------------------------------------------------------------------------
\* evict(len) frees the shortest prefix of the queue that ends its loop, which
\* goes on while aggreg_size + 1 < len.
FirstObjects(k) == {Queue[i] : i \in 1 .. k}
EvictStops(len) == {k \in 0 .. Len(Queue) : ~(TotalLen(FirstObjects(k)) + 1 < len)}
OverCapacity(len) == cache_size + len > MaxCache
NumEvicted(len) == IF OverCapacity(len) THEN Min(EvictStops(len)) ELSE 0

\* Where evict leaves cache_head.
FaultyHeadAfter(k) == IF k = 0 THEN cache_head ELSE Queue[k]
HeadAfter(k) == IF k = 0 THEN cache_head ELSE heap[Queue[k]].next

SizeAfter(len, victims) == cache_size + len - TotalLen(victims)

\* obj->next = NULL; cache_tail->next = obj: with obj already the tail this
\* makes obj its own successor.
AtTail(h, obj) == [h EXCEPT ![obj].next = NULL, ![cache_tail].next = obj]

Fails(f) == fault' = f /\ UNCHANGED <<cache_head, cache_tail, cache_size, heap>>

\* cacheAdd, with the write lock held.  The new object is allocated (its
\* malloc is not checked) before anything is evicted.
CacheAdd(key, len) ==
    IF AlreadyCached(key) THEN UNCHANGED cacheVars
    ELSE IF Allocated = Obj THEN Fails("malloc")
    ELSE IF OverCapacity(len) /\ EvictStops(len) = {} THEN Fails("evict")
    ELSE LET victims == FirstObjects(NumEvicted(len))
             head    == HeadAfter(NumEvicted(len))
         IN  IF head # NULL /\ cache_tail \notin Allocated \ victims THEN Fails("tail")
             ELSE \E obj \in Obj \ Allocated :
                LET new  == [key |-> key, len |-> len, next |-> NULL]
                    kept == [o \in Obj |-> IF o = obj THEN new
                                           ELSE IF o \in victims THEN Free ELSE heap[o]]
                IN  /\ cache_size' = SizeAfter(len, victims)
                    /\ cache_head' = IF head = NULL THEN obj ELSE head
                    /\ cache_tail' = obj
                    /\ heap' = IF head = NULL THEN kept ELSE AtTail(kept, obj)
                    /\ UNCHANGED fault

\* replace_tail, with the write lock held.  The search for obj's predecessor
\* dereferences NULL when obj is not in the queue.
ReplaceTail(obj) ==
    LET before == {o \in Reachable : heap[o].next = obj} IN
    IF obj = cache_head
    THEN /\ cache_head' = heap[obj].next
         /\ heap' = AtTail(heap, obj)
         /\ cache_tail' = obj
         /\ UNCHANGED <<cache_size, fault>>
    ELSE IF before = {} THEN Fails("search")
    ELSE \E o \in before :
         /\ heap' = AtTail([heap EXCEPT ![o].next = heap[obj].next], obj)
         /\ cache_tail' = obj
         /\ UNCHANGED <<cache_head, cache_size, fault>>

-----------------------------------------------------------------------------
\* A lookup comes to an end and reads only allocated objects.
QueueEnds == Len(Queue) <= Cardinality(Obj) /\ Reachable \subseteq Allocated

\* No key is in the queue twice: cacheAdd looks again under the write lock,
\* because two connections may have missed and fetched the same page.
KeysDistinct == \A o, p \in Reachable : heap[o].key = heap[p].key => o = p

\* cache_size is what the allocated objects take, those that were lost included.
SizeAccounts == cache_size = TotalLen(Allocated)

\* Whatever connections do, a search of the queue comes to an end, finds at
\* most one object for a key, and cache_size is what the allocated objects take.
QueueIsSound == QueueEnds /\ KeysDistinct /\ SizeAccounts

=============================================================================
