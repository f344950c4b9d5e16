----------------------------- MODULE MallocDriver -----------------------------
(***************************************************************************)
(* The allocator under its driver (src/Lab5/mdriver.c): eval_mm_valid      *)
(* interprets a trace of allocations, reallocations and frees, and keeps   *)
(* the range of every payload in a set of ranges, in which it looks for    *)
(* overlaps.  The set is the one of module Intervals, which module         *)
(* RangeSet implements.  Addresses in the heap are counted in words,       *)
(* ranges and lengths in bytes.                                            *)
(***************************************************************************)
EXTENDS Malloc, Intervals

CONSTANTS
    Index,      \* the block ids of a trace
    Request     \* the sizes asked for, in bytes

ASSUME DriverAssumption == Request \subseteq Nat \ {0}

VARIABLES
    heap,       \* the allocator's state
    blocks,     \* per id: the payload it was given last, or 0
    sizes,      \* block_sizes
    ranges,     \* the ranges of the payloads, as in module Intervals
    live,       \* the ids whose blocks the trace has not freed
    verdict     \* what eval_mm_valid has found

vars == <<heap, blocks, sizes, ranges, live, verdict>>

\* mem_init: the memory is a mapping of /dev/zero.
Zeroed == [w \in Address |-> Tag(0, FALSE, FALSE, FALSE)]

Init ==
    /\ heap = InitHeap(Zeroed)
    /\ blocks = [i \in Index |-> 0]
    /\ sizes = [i \in Index |-> 0]
    /\ ranges = NoIntervals
    /\ live = {}
    /\ verdict = "ok"

-----------------------------------------------------------------------------
(* The set of ranges.                                                      *)

PayloadEnd(lo, bytes) == 8 * lo + bytes - 1

\* add_range's checks of a payload of that many bytes at word lo.
RangeVerdict(s, lo, bytes, brk) ==
    IF lo % 2 # 0 THEN "misaligned"
    ELSE IF PayloadEnd(lo, bytes) >= 8 * brk THEN "outside"
    ELSE IF Overlaps(s, 8 * lo, PayloadEnd(lo, bytes)) THEN "overlap"
    ELSE "ok"

-----------------------------------------------------------------------------
(* eval_mm_valid.  It gives up at the first error, and so does the model    *)
(* once the allocator has gone wrong.                                       *)

Running == verdict = "ok" /\ heap.fault = "none"

\* The driver gives up.
GiveUp(v) == verdict' = v /\ UNCHANGED <<blocks, sizes, ranges, live>>

\* The allocator has returned [heap, bp] for id i, whose old range is not in the
\* set s (any more).
Receive(s, i, bytes, res) ==
    LET v == IF res.bp = 0 THEN "failed" ELSE RangeVerdict(s, res.bp, bytes, res.heap.brk) IN
    IF v # "ok" THEN GiveUp(v) /\ heap' = res.heap
    ELSE /\ ranges' = Added(s, 8 * res.bp, PayloadEnd(res.bp, bytes))
         /\ live' = live \cup {i}
         /\ blocks' = [blocks EXCEPT ![i] = res.bp]
         /\ sizes' = [sizes EXCEPT ![i] = bytes]
         /\ heap' = Fill(res.heap, res.bp, bytes)
         /\ UNCHANGED verdict

\* ALLOC, for an id that has no block.
Alloc(i, bytes) ==
    /\ Running /\ i \notin live
    /\ Receive(ranges, i, bytes, MallocBlock(heap, bytes))

\* REALLOC, of a block or of NULL, which has no range.
Realloc(i, bytes) ==
    /\ Running /\ (i \in live \/ blocks[i] = 0)
    /\ Receive(Removed(ranges, 8 * blocks[i]), i, bytes, ReallocBlock(heap, blocks[i], bytes))

\* The range and the block of id i are given up.
Release(i) ==
    /\ Running /\ i \in live
    /\ heap' = FreeBlock(heap, blocks[i])
    /\ ranges' = Removed(ranges, 8 * blocks[i])
    /\ live' = live \ {i}
    /\ UNCHANGED verdict

\* FREE.  The pointer stays in blocks.
Free(i) == Release(i) /\ UNCHANGED <<blocks, sizes>>

\* REALLOC to size 0.
ReallocZero(i) ==
    /\ Release(i)
    /\ blocks' = [blocks EXCEPT ![i] = 0]
    /\ sizes' = [sizes EXCEPT ![i] = 0]

\* The next trace, with a new range set.  A trace that went well is run again
\* over the memory as it is; the next file, or the next run, gets new memory.
NextTrace ==
    /\ \E mem \in {Zeroed} \cup (IF Running THEN {heap.mem} ELSE {}) : heap' = InitHeap(mem)
    /\ blocks' = [i \in Index |-> 0]
    /\ sizes' = [i \in Index |-> 0]
    /\ ranges' = NoIntervals
    /\ live' = {}
    /\ verdict' = "ok"

Next ==
    \/ \E i \in Index, bytes \in Request : Alloc(i, bytes) \/ Realloc(i, bytes)
    \/ \E i \in Index : Free(i) \/ ReallocZero(i)
    \/ NextTrace

Spec == Init /\ [][Next]_vars

-----------------------------------------------------------------------------
\* The headers met when walking the heap, the epilogue included.
Met[w \in Address] == \/ w = HeapStart
                      \/ \E v \in HeapStart .. w - 1 : NextBlock(heap, v) = w /\ Met[v]
Headers == {w \in Address : Met[w]}

Epilogue == heap.brk - 1
AllBlocks == Headers \ {Epilogue}
Sound == heap.fault = "none"
IsAlloc(b) == heap.mem[b].alloc

\* mm_checkheap: the blocks tile the heap, in whole double words, up to the
\* epilogue, and a free block above the minimum ends in a copy of its header.
BlocksTile == Sound =>
    /\ Epilogue \in Headers /\ Size(heap, Epilogue) = 0 /\ IsAlloc(Epilogue)
    /\ \A b \in AllBlocks :
          /\ b < Epilogue /\ heap.mem[b].kind = "tag" /\ Size(heap, b) >= MinBlock /\ Size(heap, b) % 2 = 0
          /\ ~IsAlloc(b) /\ Size(heap, b) > MinBlock =>
                LET foot == heap.mem[NextBlock(heap, b) - 1]
                IN  foot.kind = "tag" /\ foot.size = Size(heap, b)

\* mm_checkheap: no two free blocks are neighbours, and each header tells
\* whether the block before it is allocated and whether it is a minimum block,
\* through whatever splits, merges and extensions both have gone.
FlagsTell == Sound =>
    \A b \in AllBlocks :
        LET next == NextBlock(heap, b) IN
        next # Epilogue =>
            /\ IsAlloc(b) \/ IsAlloc(next)
            /\ heap.mem[next].prev_alloc = IsAlloc(b)
            /\ heap.mem[next].prev_min = (Size(heap, b) = MinBlock)

\* mm_checkheap: each free block is exactly once in the list of its class, and
\* the lists hold nothing else.
ListsExact == Sound =>
    LET free == {b \in AllBlocks : ~IsAlloc(b)} IN
    /\ \A c \in Classes : IsInjective(heap.seg[c]) /\ ToSet(heap.seg[c]) =
          {b \in free : Size(heap, b) > MinBlock /\ GetIndex(Size(heap, b)) = c}
    /\ \A c \in MinLists : IsInjective(heap.min[c]) /\ ToSet(heap.min[c]) =
          {b \in free : Size(heap, b) = MinBlock /\ MinIndex(b) = c}

\* check_index: what the user has written to a payload stays there until it is
\* freed.  The allocated blocks are those of the trace, each large enough.
PayloadsKept == Sound =>
    /\ {b \in AllBlocks : IsAlloc(b)} = {blocks[i] - 1 : i \in live}
    /\ \A i \in live :
          /\ 8 * (Size(heap, blocks[i] - 1) - 1) >= sizes[i]
          /\ \A w \in blocks[i] .. blocks[i] + (sizes[i] + 7) \div 8 - 1 : heap.mem[w] = User

\* A payload the driver gets is aligned, inside the heap and apart from the
\* others: it ends a trace only for lack of memory.
DriverAccepts == verdict \in {"ok", "failed"}

\* What mm_checkheap and the comment on heap_end want: it points to the last
\* block in the heap.  It does not always: freeing the last block behind a free
\* one leaves it in the middle of the merged block.
HeapEndIsLast == Sound => heap.end \in AllBlocks /\ NextBlock(heap, heap.end) = Epilogue

\* Nothing else makes the allocator go wrong: a list operation on a block in no
\* list, or a read of user data as a tag, comes only from a stale heap_end.
OnlyHeapEndFails == [][Sound /\ heap'.fault # "none" => ~HeapEndIsLast]_vars

=============================================================================
