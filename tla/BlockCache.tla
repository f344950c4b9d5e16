----------------------------- MODULE BlockCache -----------------------------
(***************************************************************************)
(* What the cache simulators of the cache lab promise, without lines, line *)
(* numbers or the bookkeeping that picks a victim: a set-associative,      *)
(* write-back, write-allocate cache that never evicts the block it used    *)
(* last.  With at most two lines per set this determines every victim and  *)
(* is LRU.  Csim and DraftCsim are shown to implement it.                  *)
(***************************************************************************)
EXTENDS Integers, FiniteSets

VARIABLES
    assoc,      \* E, the lines of a set
    resident,   \* per set, the blocks it holds: function from tag to dirty
    last,       \* per set, the last access: <<>>, or a tag and whether it was a store
    count       \* [hits, misses, evictions, dirty_evictions], the last in blocks

bcVars == <<assoc, resident, last, count>>

BCEmpty == [t \in {} |-> FALSE]
NoCounts == [hits |-> 0, misses |-> 0, evictions |-> 0, dirty_evictions |-> 0]

BCInit ==
    /\ assoc \in Nat \ {0}
    /\ resident = [s \in DOMAIN resident |-> BCEmpty]
    /\ last = [s \in DOMAIN resident |-> <<>>]
    /\ count = NoCounts

Without(blocks, t) == [u \in DOMAIN blocks \ {t} |-> blocks[u]]
With(blocks, t, dirty) == [u \in DOMAIN blocks \cup {t} |-> IF u = t THEN dirty ELSE blocks[u]]

Use(s, blocks, t, store) ==
    /\ resident' = [resident EXCEPT ![s] = blocks]
    /\ last' = [last EXCEPT ![s] = <<t, store>>]
    /\ UNCHANGED assoc

\* The block is there; a store makes it dirty.
Hit(s, t, store) ==
    /\ t \in DOMAIN resident[s]
    /\ Use(s, With(resident[s], t, resident[s][t] \/ store), t, store)
    /\ count' = [count EXCEPT !.hits = @ + 1]

\* The set has a free line.
Fill(s, t, store) ==
    /\ t \notin DOMAIN resident[s]
    /\ Cardinality(DOMAIN resident[s]) < assoc
    /\ Use(s, With(resident[s], t, store), t, store)
    /\ count' = [count EXCEPT !.misses = @ + 1]

\* The set is full: some block leaves, never the one used last unless it is
\* the only one; when it is dirty it is written back.
Evict(s, t, store) ==
    /\ t \notin DOMAIN resident[s]
    /\ Cardinality(DOMAIN resident[s]) = assoc
    /\ \E victim \in DOMAIN resident[s] :
          /\ victim # last[s][1] \/ assoc = 1
          /\ Use(s, With(Without(resident[s], victim), t, store), t, store)
          /\ count' = [count EXCEPT !.misses = @ + 1, !.evictions = @ + 1,
                                    !.dirty_evictions = @ + IF resident[s][victim] THEN 1 ELSE 0]

BCNext(Tags) == \E s \in DOMAIN resident, t \in Tags, store \in BOOLEAN :
                    Hit(s, t, store) \/ Fill(s, t, store) \/ Evict(s, t, store)

=============================================================================
