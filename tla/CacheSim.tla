------------------------------ MODULE CacheSim ------------------------------
(***************************************************************************)
(* The two cache simulators of src/Lab3 and a true LRU cache read the same *)
(* trace.  The LRU cache stands for the reference simulator csim-ref,      *)
(* which is only there as a binary: per set, the sequence of its blocks,   *)
(* the one used last first.                                                *)
(***************************************************************************)
EXTENDS Csim, SequencesExt

CONSTANT MaxAccesses    \* bounds the length of a trace

VARIABLES
    last,       \* per set, the last access: <<>>, or a tag and whether it was a store
    draft,      \* the sets of csimCP.c
    draftCount,
    lru,        \* the sets of the LRU cache
    lruCount,
    accesses

vars == <<arg, data, stats, junk, printed, last, draft, draftCount, lru, lruCount, accesses>>

Draft == INSTANCE DraftCsim

Zero == [hits |-> 0, misses |-> 0, evictions |-> 0, dirty_evictions |-> 0]

Init ==
    /\ CsimInit
    /\ last = [i \in DOMAIN data |-> <<>>]
    /\ draft = [i \in DOMAIN data |-> Draft!DraftSet(arg.E)]
    /\ lru = [i \in DOMAIN data |-> <<>>]
    /\ draftCount = Zero /\ lruCount = Zero
    /\ accesses = 0

Counted(c, hit, evicted, dirty) ==
    [hits |-> c.hits + IF hit THEN 1 ELSE 0,
     misses |-> c.misses + IF hit THEN 0 ELSE 1,
     evictions |-> c.evictions + IF evicted THEN 1 ELSE 0,
     dirty_evictions |-> c.dirty_evictions + IF evicted /\ dirty THEN Pow2[arg.b] ELSE 0]

DraftAccess(s, t, store) ==
    IF draft[s].crashed THEN UNCHANGED <<draft, draftCount>>
    ELSE LET r == Draft!DraftLoad(draft[s], t, store) IN
         /\ draft' = [draft EXCEPT ![s] = r.set]
         /\ draftCount' = IF r.set.crashed THEN draftCount
                          ELSE Counted(draftCount, r.hit, r.evicted, r.dirty)

LRUAccess(s, t, store) ==
    LET at == {i \in DOMAIN lru[s] : lru[s][i].tag = t}
        hit == at # {}
        others == IF hit THEN RemoveAt(lru[s], Min(at)) ELSE lru[s]
        full == ~hit /\ Len(lru[s]) = arg.E
        block == [tag |-> t, d |-> store \/ (hit /\ lru[s][Min(at)].d)]
    IN  /\ lru' = [lru EXCEPT ![s] = <<block>> \o IF full THEN Front(others) ELSE others]
        /\ lruCount' = Counted(lruCount, hit, full, full /\ Last(others).d)

Access(a, store) ==
    /\ accesses < MaxAccesses
    /\ accesses' = accesses + 1
    /\ Load(a, store)
    /\ last' = [last EXCEPT ![SetIndex(a)] = <<TagOf(a), store>>]
    /\ DraftAccess(SetIndex(a), TagOf(a), store)
    /\ LRUAccess(SetIndex(a), TagOf(a), store)

EndOfTrace == Summary /\ UNCHANGED <<last, draft, draftCount, lru, lruCount, accesses>>

Next == EndOfTrace \/ \E a \in Addr, store \in BOOLEAN : Access(a, store)

Spec == Init /\ [][Next]_vars

-----------------------------------------------------------------------------
LRUBlocks(s) == {[tag |-> lru[s][i].tag, d |-> lru[s][i].d] : i \in DOMAIN lru[s]}
CsimBlocks(s) == {[tag |-> L.tag, d |-> L.d] : L \in {data[s].lines[i] : i \in {j \in DOMAIN data[s].lines : data[s].lines[j].v}}}
DraftBlocks(s) == {[tag |-> L.tag, d |-> L.d] : L \in {draft[s].lines[i] : i \in {j \in DOMAIN draft[s].lines : draft[s].lines[j].v}}}

\* What csim has counted since its stats began as junk.
Since(f) == stats[f] - junk[f]
CsimCount == [f \in DOMAIN Zero |-> Since(f)]
PrintedCount == [f \in DOMAIN Zero |->
                    printed[1][f] - junk[f] + IF f = "dirty_evictions" THEN 1 ELSE 0]

\* With one or two lines per set csim is an LRU cache: the same blocks, dirty
\* in the same way, and the same counts, whatever the trace; the summary it
\* prints is off by exactly what the stack held in stats, and by one less for
\* the dirty evictions, from which main takes one.  So is csimCP with two
\* lines.  The victim is tracked for lines 0 and 1 only, so this is not so for
\* more lines.
IsLRU ==
    /\ arg.E <= 2 => /\ \A s \in DOMAIN data : CsimBlocks(s) = LRUBlocks(s)
                     /\ CsimCount = lruCount
                     /\ printed # <<>> => PrintedCount = lruCount
    /\ arg.E = 2 => /\ \A s \in DOMAIN draft : DraftBlocks(s) = LRUBlocks(s)
                    /\ draftCount = lruCount

\* The queue of csimCP, which keeps entries of evicted tags, always holds an
\* entry of each resident tag, so the eviction loop finds a victim before the
\* queue is empty; only a direct-mapped cache follows the null pointer.
DraftFindsVictim ==
    \A s \in DOMAIN draft :
        /\ draft[s].crashed => arg.E = 1
        /\ ~draft[s].crashed => \A b \in DraftBlocks(s) : b.tag = draft[s].MRU \/ Contains(draft[s].LRU, b.tag)

\* Both simulators implement BlockCache.
CsimCache == INSTANCE BlockCache WITH
    assoc <- arg.E,
    resident <- [s \in DOMAIN data |-> BlocksOf(data[s])],
    count <- [CsimCount EXCEPT !.dirty_evictions = @ \div Pow2[arg.b]]

DraftCache == INSTANCE BlockCache WITH
    assoc <- arg.E,
    resident <- [s \in DOMAIN draft |-> BlocksOf(draft[s])],
    count <- [draftCount EXCEPT !.dirty_evictions = @ \div Pow2[arg.b]]

Tags == {TagOf(a) : a \in Addr}

\* Both simulators are caches that never evict the block they used last, for
\* every number of lines, although csim tracks the victim between two of them
\* only and csimCP searches it in a queue with stale entries; csimCP is one
\* until a null pointer ends it.
ImplementsCache ==
    /\ CsimCache!BCInit /\ DraftCache!BCInit
    /\ [][CsimCache!BCNext(Tags)]_(CsimCache!bcVars)
    /\ [][(\E s \in DOMAIN draft : draft'[s].crashed) \/ DraftCache!BCNext(Tags)]_(DraftCache!bcVars)
=============================================================================
