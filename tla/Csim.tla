-------------------------------- MODULE Csim --------------------------------
(***************************************************************************)
(* The cache simulator of the cache lab (src/Lab3/csim.c): main reads the  *)
(* arguments -s -E -b and a trace, load() simulates one access, and the    *)
(* end of the trace prints the summary.                                    *)
(*                                                                         *)
(* main never initialises its csim_stats_t: `junk' is what the stack held  *)
(* there.                                                                  *)
(***************************************************************************)
EXTENDS Integers, Sequences, FiniteSets, FiniteSetsExt

CONSTANTS
    Arguments,      \* the command lines: records of s, E and b
    Addr,           \* the addresses of the trace
    Junk            \* what uninitialised stats may hold

ASSUME CsimAssumption ==
    /\ Arguments \subseteq [s : Nat, E : Nat \ {0}, b : Nat]
    /\ Addr \subseteq Nat
    /\ Junk \subseteq [hits : Int, misses : Int, evictions : Int,
                       dirty_bytes : Int, dirty_evictions : Int]

VARIABLES
    arg,        \* the arguments
    data,       \* C->data: per set its lines and LRU, the line to evict next
    stats,
    junk,       \* the value of stats before the first access
    printed     \* the summary, <<>> before the end

csimVars == <<arg, data, stats, junk, printed>>

\* 1 << n
Pow2[n \in Nat] == IF n = 0 THEN 1 ELSE 2 * Pow2[n - 1]

\* The set index and the tag of an address, as the two masks cut them out.
SetIndex(a) == (a % Pow2[arg.s + arg.b]) \div Pow2[arg.b]
TagOf(a) == a - (a % Pow2[arg.s + arg.b])

EmptyLine == [tag |-> 0, d |-> FALSE, v |-> FALSE]

\* initCache
InitSet(E) == [lines |-> [j \in 0 .. E - 1 |-> EmptyLine], LRU |-> IF E = 1 THEN 0 ELSE -1]

CsimInit ==
    /\ arg \in Arguments
    /\ data = [i \in 0 .. Pow2[arg.s] - 1 |-> InitSet(arg.E)]
    /\ junk \in Junk
    /\ stats = junk
    /\ printed = <<>>

\* The line to evict next is tracked between lines 0 and 1 only.
FaultyTouch(set, i) == IF arg.E > 1 /\ i \in {0, 1} /\ set.LRU = -1 THEN 1 - i ELSE set.LRU
Touch(set, i) == IF arg.E > 1 /\ i \in {0, 1} THEN 1 - i ELSE set.LRU

UseLine(set, i, t, dirty) ==
    [lines |-> [set.lines EXCEPT ![i] = [tag |-> t, d |-> dirty, v |-> TRUE]],
     LRU |-> Touch(set, i)]

\* The loop over the lines ends at the first invalid one or at the tag's.
Stops(set, t) == {i \in DOMAIN set.lines : ~set.lines[i].v \/ set.lines[i].tag = t}

LoadHit(s, t, store) ==
    /\ Stops(data[s], t) # {}
    /\ LET i == Min(Stops(data[s], t)) IN
       /\ data[s].lines[i].v
       /\ data' = [data EXCEPT ![s] = UseLine(@, i, t, @.lines[i].d \/ store)]
       /\ stats' = [stats EXCEPT !.hits = @ + 1]

LoadFill(s, t, store) ==
    /\ Stops(data[s], t) # {}
    /\ LET i == Min(Stops(data[s], t)) IN
       /\ ~data[s].lines[i].v
       /\ data' = [data EXCEPT ![s] = UseLine(@, i, t, @.lines[i].d \/ store)]
       /\ stats' = [stats EXCEPT !.misses = @ + 1]

FaultyLoadEvict(s, t, store) ==
    /\ Stops(data[s], t) = {}
    /\ LET victim == data[s].lines[data[s].LRU] IN
       /\ data' = [data EXCEPT ![s] = UseLine(@, @.LRU, t, victim.d \/ store)]
       /\ stats' = [stats EXCEPT !.misses = @ + 1, !.evictions = @ + 1,
                                 !.dirty_evictions = @ + IF victim.d THEN Pow2[arg.b] ELSE 0]

LoadEvict(s, t, store) ==
    /\ Stops(data[s], t) = {}
    /\ LET victim == data[s].lines[data[s].LRU] IN
       /\ data' = [data EXCEPT ![s] = UseLine(@, @.LRU, t, store)]
       /\ stats' = [stats EXCEPT !.misses = @ + 1, !.evictions = @ + 1,
                                 !.dirty_evictions = @ + IF victim.d THEN Pow2[arg.b] ELSE 0]

\* One `L' or `S' line of the trace; main skips the others.
Load(a, store) ==
    /\ printed = <<>>
    /\ \/ LoadHit(SetIndex(a), TagOf(a), store)
       \/ LoadFill(SetIndex(a), TagOf(a), store)
       \/ LoadEvict(SetIndex(a), TagOf(a), store)
    /\ UNCHANGED <<arg, junk, printed>>

DirtyLines == {c \in (DOMAIN data) \X (0 .. arg.E - 1) : data[c[1]].lines[c[2]].d}

\* The end of the trace: the dirty lines are counted, one dirty eviction is
\* taken off, and the summary is printed.
Summary ==
    /\ printed = <<>>
    /\ printed' = <<[stats EXCEPT !.dirty_bytes = @ + Pow2[arg.b] * Cardinality(DirtyLines),
                                  !.dirty_evictions = @ - 1]>>
    /\ UNCHANGED <<arg, data, stats, junk>>

CsimNext == Summary \/ \E a \in Addr, store \in BOOLEAN : Load(a, store)

CsimSpec == CsimInit /\ [][CsimNext]_csimVars

-----------------------------------------------------------------------------
\* The refinement: a set holds the tags of its valid lines.
LineOf(set, t) == CHOOSE i \in DOMAIN set.lines : set.lines[i].v /\ set.lines[i].tag = t
TagsOf(set) == {set.lines[i].tag : i \in {j \in DOMAIN set.lines : set.lines[j].v}}
BlocksOf(set) == [t \in TagsOf(set) |-> set.lines[LineOf(set, t)].d]

=============================================================================
