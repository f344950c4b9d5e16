----------------------------- MODULE IntervalSet -----------------------------
(***************************************************************************)
(* The abstract range set: what eval_mm_valid may rely on, whatever        *)
(* payloads an allocator returns.                                          *)
(***************************************************************************)
EXTENDS Intervals

CONSTANT Key    \* the addresses a payload may start or end at

VARIABLES
    held,       \* the ranges, as in module Intervals
    verdict     \* what the last add_range has said

ISInit == held = NoIntervals /\ verdict = "ok"

\* A payload is refused exactly if it overlaps a range that is seen.
AddInterval(lo, hi) ==
    /\ verdict = "ok"
    /\ IF Overlaps(held, lo, hi) THEN verdict' = "overlap" /\ UNCHANGED held
       ELSE held' = Added(held, lo, hi) /\ UNCHANGED verdict

RemoveInterval(lo) ==
    /\ verdict = "ok" /\ lo \in Held(held)
    /\ held' = Removed(held, lo)
    /\ UNCHANGED verdict

NewSet == held' = NoIntervals /\ verdict' = "ok"

ISNext ==
    \/ \E lo, hi \in Key : lo <= hi /\ AddInterval(lo, hi)
    \/ \E lo \in Key : RemoveInterval(lo)
    \/ NewSet

ISSpec == ISInit /\ [][ISNext]_<<held, verdict>>
=============================================================================
