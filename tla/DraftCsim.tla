------------------------------ MODULE DraftCsim ------------------------------
(***************************************************************************)
(* A cache set of the earlier simulator (src/Lab3/csimCP.c): every access  *)
(* appends its tag to a queue, and the victim is the first tag of the      *)
(* queue that is still resident and was not used last.  Entries of evicted *)
(* tags stay in the queue.  deq() of an empty queue follows a null pointer:*)
(* the set becomes Crashed.                                                *)
(***************************************************************************)
EXTENDS Integers, Sequences, SequencesExt, FiniteSetsExt

DraftLine == [tag |-> 0, d |-> FALSE, v |-> FALSE]

DraftSet(E) == [lines |-> [j \in 0 .. E - 1 |-> DraftLine], MRU |-> 0, LRU |-> <<>>,
                crashed |-> FALSE]

\* enq and deq: a singly linked list with a head and a tail.
FaultyEnq(q, tag) == IF Contains(q, tag) THEN q ELSE Append(q, tag)
Enq(q, tag) == Append(q, tag)
DeqN(q, n) == SubSeq(q, n + 1, Len(q))

\* The lines at which the loop over the set ends: an invalid one or the tag's.
DraftStops(set, t) == {i \in DOMAIN set.lines : ~set.lines[i].v \/ set.lines[i].tag = t}

DraftUse(set, i, t, dirty, q) ==
    [set EXCEPT !.lines[i] = [tag |-> t, d |-> dirty, v |-> TRUE], !.MRU = t, !.LRU = Enq(q, t)]

DraftHolds(set, t) == {i \in DOMAIN set.lines : set.lines[i].tag = t}

\* The number of deq calls until a tag that may go, for each way to stop.
VictimEntries(set) ==
    {k \in DOMAIN set.LRU : DraftHolds(set, set.LRU[k]) # {} /\ set.LRU[k] # set.MRU}

\* load(): the access and what it adds to the counts.
DraftLoad(set, t, store) ==
    IF DraftStops(set, t) # {}
    THEN LET i == Min(DraftStops(set, t))
             L == set.lines[i]
         IN  [set |-> DraftUse(set, i, t, L.d \/ store, set.LRU), hit |-> L.v,
              evicted |-> FALSE, dirty |-> FALSE]
    ELSE IF VictimEntries(set) = {}
    THEN [set |-> [set EXCEPT !.crashed = TRUE, !.LRU = <<>>], hit |-> FALSE,
          evicted |-> FALSE, dirty |-> FALSE]
    ELSE LET k == Min(VictimEntries(set))
             i == Min(DraftHolds(set, set.LRU[k]))
         IN  [set |-> DraftUse(set, i, t, store, DeqN(set.LRU, k)), hit |-> FALSE,
              evicted |-> TRUE, dirty |-> set.lines[i].d]

=============================================================================
