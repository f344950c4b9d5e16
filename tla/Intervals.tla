------------------------------ MODULE Intervals ------------------------------
(***************************************************************************)
(* What the malloc driver's set of ranges amounts to (mdriver.c:774-889):  *)
(* disjoint intervals of addresses, told apart by their lower ends.  It is *)
(* a set with a blind spot: add_range finds the successor of a new range   *)
(* through its predecessor only, so that a range that goes below all       *)
(* others gets no successor, and the range that was first so far is not    *)
(* looked at from below any more.  Such ranges are the "heads".            *)
(***************************************************************************)
EXTENDS Integers, Functions, FiniteSetsExt

\* at: the upper end of each range, by its lower end.
NoIntervals == [at |-> <<>>, heads |-> {}]

Held(s) == DOMAIN s.at
UpTo(s, lo) == {k \in Held(s) : k <= lo}
After(s, lo) == {k \in Held(s) : k > lo}

\* The last range that starts at or before lo, and the next one if it is seen
\* from there.
Before(s, lo) == IF UpTo(s, lo) = {} THEN {} ELSE {Max(UpTo(s, lo))}
NextSeen(s, lo) ==
    IF UpTo(s, lo) = {} \/ After(s, lo) = {} THEN {} ELSE {Min(After(s, lo))} \ s.heads

\* add_range finds that the range from lo to hi overlaps another one.
Overlaps(s, lo, hi) ==
    \/ \E k \in Before(s, lo) : lo <= s.at[k]
    \/ \E k \in NextSeen(s, lo) : hi >= k

\* add_range.
Added(s, lo, hi) ==
    [at    |-> [k \in Held(s) \cup {lo} |-> IF k = lo THEN hi ELSE s.at[k]],
     heads |-> s.heads \cup (IF Before(s, lo) = {} THEN {lo} ELSE {})]

\* remove_range.  The successor of a head that is seen from it becomes one.
Removed(s, lo) ==
    [at    |-> Restrict(s.at, Held(s) \ {lo}),
     heads |-> (s.heads \ {lo}) \cup (IF lo \in s.heads THEN NextSeen(s, lo) ELSE {})]
=============================================================================
