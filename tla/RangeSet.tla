------------------------------ MODULE RangeSet -------------------------------
(***************************************************************************)
(* The malloc driver's set of ranges as it is built: records that form     *)
(* doubly linked lists, found through a splay tree by address              *)
(* (mdriver.c:774-889, stree.c).  The payloads are arbitrary, as from a    *)
(* faulty allocator.  A record is named by its lower end, its key in the   *)
(* tree.                                                                   *)
(***************************************************************************)
EXTENDS SplayTree, FiniteSetsExt

VARIABLES
    tree,       \* lo_tree
    rec,        \* the records, by key
    list,       \* the first record of the list
    verdict     \* what the last add_range has said

vars == <<tree, rec, list, verdict>>

NoRecord == [hi |-> NULL, prev |-> NULL, next |-> NULL]

\* new_range_set.
Init ==
    /\ tree = NewTree
    /\ rec = [k \in Key |-> NoRecord]
    /\ list = NULL
    /\ verdict = "ok"

\* Field f of record k, if there is one, is set to v.
SetField(r, k, f, v) == IF k = NULL THEN r ELSE [r EXCEPT ![k][f] = v]

\* add_range, after the checks of alignment and heap bounds, which are part of
\* module MallocDriver.
AddRange(lo, hi) ==
    LET prev == FindNearest(tree, lo)
        next == IF prev = NULL THEN NULL ELSE rec[prev].next
        new  == [hi |-> hi, prev |-> prev, next |-> next]
    IN  /\ verdict = "ok"
        /\ IF \/ prev # NULL /\ lo <= rec[prev].hi
              \/ next # NULL /\ hi >= next
           THEN verdict' = "overlap" /\ UNCHANGED <<tree, rec, list>>
           ELSE /\ rec' = [SetField(SetField(rec, prev, "next", lo), next, "prev", lo) EXCEPT ![lo] = new]
                /\ list' = IF prev = NULL THEN lo ELSE list
                /\ tree' = TreeInsert(tree, lo)
                /\ UNCHANGED verdict

\* remove_range, for a range that is there.
RemoveRange(lo) ==
    LET p == rec[lo] IN
    /\ verdict = "ok" /\ Search(tree, lo) = lo
    /\ tree' = TreeRemove(tree, lo)
    /\ rec' = [SetField(SetField(rec, p.prev, "next", p.next), p.next, "prev", p.prev) EXCEPT ![lo] = NoRecord]
    /\ list' = IF p.prev = NULL THEN p.next ELSE list
    /\ UNCHANGED verdict

\* free_range_set and new_range_set, between two traces.
NewRangeSet ==
    /\ tree' = NewTree
    /\ rec' = [k \in Key |-> NoRecord]
    /\ list' = NULL
    /\ verdict' = "ok"

Next ==
    \/ \E lo, hi \in Key : lo <= hi /\ AddRange(lo, hi)
    \/ \E lo \in Key : RemoveRange(lo)
    \/ NewRangeSet

Spec == Init /\ [][Next]_vars

-----------------------------------------------------------------------------
\* The keys that can be found from the root.
Found == {k \in Key : Search(tree, k) = k}

Abstract == INSTANCE IntervalSet WITH
    held <- [at |-> [k \in Found |-> rec[k].hi], heads |-> {k \in Found : rec[k].prev = NULL}]

\* Whatever the tree has been turned into by insertions and removals, and
\* however often the list has been cut, add_range finds each overlap with the
\* range before a payload and with the one after it, unless that one is the
\* head of a list; remove_range gives up that one range only.
ImplementsIntervals == Abstract!ISSpec
=============================================================================
