-------------------------------- MODULE Malloc --------------------------------
(***************************************************************************)
(* The memory allocator (src/Lab5/mm.c): blocks with boundary tags, eight  *)
(* segregated free lists, and six lists for free blocks of minimum size,   *)
(* which have no room for a footer.                                        *)
(*                                                                         *)
(* The allocator is sequential.  Its state is one record, and each routine *)
(* of mm.c is an operator on it.  Addresses and sizes are counted in words *)
(* of eight bytes from the start of the heap, 0 standing for NULL.  A word *)
(* of the heap is a tag (header or footer), a list link or user data.  The *)
(* links are not followed: a free list is the sequence they spell out.     *)
(*                                                                         *)
(* Where the code would read a link or user data as a tag, or unlink a     *)
(* block that is in no list, what follows is undefined: `fault' says so.   *)
(***************************************************************************)
EXTENDS Integers, Sequences, SequencesExt, FiniteSets

CONSTANTS
    ChunkSize,      \* chunksize, in words (512 in mm.c)
    MaxHeap         \* the words mem_sbrk can hand out in all

ASSUME MallocAssumption ==
    /\ ChunkSize \in Nat /\ ChunkSize > 0 /\ ChunkSize % 2 = 0
    /\ MaxHeap \in Nat /\ ChunkSize + 2 <= MaxHeap

MinBlock == 2       \* min_block_size, in words
Classes == 0 .. 7
MinLists == 0 .. 5
Address == 0 .. MaxHeap - 1
HeapStart == 1      \* heap_start: the first header

Other(kind) == [kind |-> kind, size |-> 0, prev_min |-> FALSE, prev_alloc |-> FALSE, alloc |-> FALSE]
User == Other("user")
Link == Other("link")

\* pack
Tag(size, prev_min, prev_alloc, alloc) ==
    [kind |-> "tag", size |-> size, prev_min |-> prev_min, prev_alloc |-> prev_alloc, alloc |-> alloc]

\* The tag whose value is 1, with which prologue and epilogue are recognised.
One == Tag(0, FALSE, FALSE, TRUE)

Size(h, b) == h.mem[b].size
NextBlock(h, b) == b + Size(h, b)       \* find_next
Faulted(h, f) == [h EXCEPT !.fault = IF @ = "none" THEN f ELSE @]

\* write_block.  A free block above the minimum also has a footer.
FaultyWriteBlock(h, b, size, prev_min, prev_alloc, alloc) ==
    [h EXCEPT !.mem[b] = Tag(size, prev_min, prev_alloc, alloc)]

WriteBlock(h, b, size, prev_min, prev_alloc, alloc) ==
    LET tag == Tag(size, prev_min, prev_alloc, alloc) IN
    IF alloc \/ size = MinBlock THEN [h EXCEPT !.mem[b] = tag]
    ELSE [h EXCEPT !.mem[b] = tag, !.mem[b + size - 1] = tag]

-----------------------------------------------------------------------------
(* The free lists.                                                         *)

\* get_index: classes start at 64, 128, ..., 4096 bytes.
GetIndex(size) == Cardinality({k \in 3 .. 9 : size >= 2 ^ k})

\* The index of pop_min_block.  The heap starts at 0x800000000, which is 2 modulo 6.
MinIndex(b) == (8 * b + 2) % 6

\* push, push_min_block: to the front of the list.
Push(h, b) ==
    IF Size(h, b) = MinBlock
    THEN [h EXCEPT !.min[MinIndex(b)] = <<b>> \o @, !.mem[b + 1] = Link]
    ELSE [h EXCEPT !.seg[GetIndex(Size(h, b))] = <<b>> \o @,
                   !.mem[b + 1] = Link, !.mem[b + 2] = Link]

\* pop, pop_min_block: whatever the place in the list.
FaultyUnlinked(list, b) == Tail(list)
Unlinked(list, b) == RemoveAt(list, CHOOSE i \in DOMAIN list : list[i] = b)
Pop(h, b) ==
    LET i == GetIndex(Size(h, b)) IN
    IF Size(h, b) = MinBlock
    THEN IF b \in ToSet(h.min[MinIndex(b)])
         THEN [h EXCEPT !.min[MinIndex(b)] = Unlinked(@, b)] ELSE Faulted(h, "pop")
    ELSE IF b \in ToSet(h.seg[i])
         THEN [h EXCEPT !.seg[i] = Unlinked(@, b)] ELSE Faulted(h, "pop")

\* The first block of a list that is large enough, or 0.
FirstFit(h, list, asize) ==
    LET fits == {k \in DOMAIN list : asize <= Size(h, list[k])}
    IN  IF fits = {} THEN 0 ELSE list[Min(fits)]

\* find_fit: the first minimum block for a request of that size, else the first
\* block that is large enough, from the class of that size upwards.
FindFit(h, asize) ==
    LET minima  == {i \in MinLists : h.min[i] # <<>>}
        classes == {i \in GetIndex(asize) .. 7 : FirstFit(h, h.seg[i], asize) # 0}
    IN  IF asize = MinBlock /\ minima # {} THEN Head(h.min[Min(minima)])
        ELSE IF classes = {} THEN 0 ELSE FirstFit(h, h.seg[Min(classes)], asize)

-----------------------------------------------------------------------------
(* Coalescing.                                                             *)

\* The block before b, which is free: found by b's flag if it is a minimum
\* block, by its footer if not.
PrevBlock(h, b) == IF h.mem[b].prev_min THEN b - 2 ELSE b - Size(h, b - 1)

\* A free block that is in no list changes its size.
Resize(h, b, size) ==
    WriteBlock(h, b, size, h.mem[b].prev_min, h.mem[b].prev_alloc, FALSE)

ClearPrevMin(h, b) == [h EXCEPT !.mem[b].prev_min = FALSE]

EndAfterMerge(end, b, next, prev) == IF end \in {b, next} THEN prev ELSE end

\* coalesce_block, for a block that is marked free and in no list.  (The branch
\* for the first block is never taken: no header follows heap_start directly.)
\* heap_end is left alone when the block merges with the previous one only.
Coalesce(h, b) ==
    LET next  == NextBlock(h, b)
        after == NextBlock(h, next)
        prev  == PrevBlock(h, b)
        mergePrev == ~h.mem[b].prev_alloc
        mergeNext == ~h.mem[next].alloc
        whole == Size(h, b) + Size(h, next)
        Tidy(g) == IF h.mem[after] = One THEN g ELSE ClearPrevMin(g, after)
    IN  IF mergePrev /\ ~h.mem[b].prev_min /\ (h.mem[b - 1].kind # "tag" \/ Size(h, b - 1) = 0)
        THEN Faulted(h, "footer")
        ELSE IF ~mergePrev /\ ~mergeNext THEN Push(h, b)
        ELSE IF ~mergePrev
        THEN [Tidy(Push(Resize(Pop(h, next), b, whole), b))
                 EXCEPT !.end = IF @ = next THEN b ELSE @]
        ELSE IF ~mergeNext
        THEN Push(Resize(Pop(ClearPrevMin(h, next), prev), prev, Size(h, prev) + Size(h, b)), prev)
        ELSE [Tidy(Push(Resize(Pop(Pop(h, prev), next), prev, Size(h, prev) + whole), prev))
                 EXCEPT !.end = EndAfterMerge(@, b, next, prev)]

-----------------------------------------------------------------------------
(* The heap's end.                                                         *)

WriteEpilogue(h, b) == [h EXCEPT !.mem[b] = One]

\* extend_heap, when mem_sbrk has room for that many words: the old epilogue
\* becomes a header, or the last block grows.  (If prologue and epilogue are
\* adjacent there is no block yet.)  The result is [heap, block].
CanExtend(h, words) == h.brk + words <= MaxHeap

FaultyMinStatus(size) == FALSE
MinStatus(size) == size = MinBlock

ExtendHeap(h, words) ==
    LET b == h.brk - 1
        g == [h EXCEPT !.brk = @ + words]
        Fresh(prev_min) ==
            [Push(WriteBlock(g, b, words, prev_min, TRUE, FALSE), b) EXCEPT !.end = b]
        Closed(f, last) == [heap |-> WriteEpilogue(f, last + Size(f, last)), block |-> last]
    IN  IF h.mem[b - 1] = One /\ h.mem[b] = One THEN Closed(Fresh(FALSE), b)
        ELSE IF h.mem[h.end].kind # "tag" THEN [heap |-> Faulted(g, "end"), block |-> h.end]
        ELSE IF h.mem[h.end].alloc THEN Closed(Fresh(MinStatus(Size(h, h.end))), b)
        ELSE IF Pop(g, h.end).fault # "none" THEN [heap |-> Pop(g, h.end), block |-> h.end]
        ELSE Closed(Push(Resize(Pop(g, h.end), h.end, words + Size(h, h.end)), h.end), h.end)

\* mm_init, after mem_reset_brk: `mem' is what earlier traces left in memory.
InitHeap(mem) ==
    LET start == [mem |-> [mem EXCEPT ![0] = One, ![1] = One], brk |-> 2,
                  seg |-> [i \in Classes |-> <<>>], min |-> [i \in MinLists |-> <<>>],
                  end |-> HeapStart, fault |-> "none"]
    IN  ExtendHeap(start, ChunkSize).heap

-----------------------------------------------------------------------------
(* malloc and free.                                                        *)

\* split_block: b gets asize words of the block, or all if the rest is too
\* small.  The epilogue tells the last block, if its flags are clear.
SplitBlock(h, b, asize) ==
    LET size == Size(h, b)
        old  == h.mem[b]
        last == h.mem[NextBlock(h, b)] = One
        rest == b + asize
        next == b + size
        AtEnd(g, x) == IF last THEN [g EXCEPT !.end = x] ELSE g
    IN  IF size - asize >= MinBlock
        THEN LET taken == WriteBlock(Pop(h, b), b, asize, old.prev_min, old.prev_alloc, TRUE)
                 split == Push(WriteBlock(taken, rest, size - asize, MinStatus(asize), TRUE, FALSE), rest)
             IN  AtEnd([split EXCEPT !.mem[next].prev_min =
                           split.mem[next] # One /\ size - asize = MinBlock], rest)
        ELSE LET taken == WriteBlock(Pop(h, b), b, size, old.prev_min, old.prev_alloc, TRUE)
             IN  AtEnd([taken EXCEPT !.mem[next].prev_alloc = TRUE,
                                     !.mem[next].prev_min = @ \/ size = MinBlock], b)

\* The words a request of that many bytes needs: one for the header, and an
\* even number.
FaultyAdjustedSize(bytes) == IF bytes <= 8 THEN MinBlock ELSE 2 * ((bytes + 15) \div 16)
AdjustedSize(bytes) == IF bytes <= 8 THEN MinBlock ELSE 2 * ((bytes + 8 + 15) \div 16)

\* malloc(bytes): the result is [heap, bp], bp = 0 if there is no memory.
MallocBlock(h, bytes) ==
    LET asize == AdjustedSize(bytes)
        fit   == FindFit(h, asize)
        more  == IF asize > ChunkSize THEN asize ELSE ChunkSize
    IN  IF bytes = 0 \/ (fit = 0 /\ ~CanExtend(h, more)) THEN [heap |-> h, bp |-> 0]
        ELSE LET found == IF fit # 0 THEN [heap |-> h, block |-> fit] ELSE ExtendHeap(h, more)
             IN  [heap |-> IF found.heap.fault # "none" THEN found.heap
                           ELSE SplitBlock(found.heap, found.block, asize),
                  bp |-> found.block + 1]

\* free(bp)
FreeBlock(h, bp) ==
    LET b == bp - 1
        g == WriteBlock(h, b, Size(h, b), h.mem[b].prev_min, h.mem[b].prev_alloc, FALSE)
    IN  IF bp = 0 THEN h
        ELSE Coalesce([g EXCEPT !.mem[NextBlock(g, b)].prev_alloc = FALSE], b)

\* The user fills the block it was given.
Fill(h, bp, bytes) ==
    [h EXCEPT !.mem = [w \in Address |->
        IF w \in bp .. bp + ((bytes + 7) \div 8) - 1 THEN User ELSE h.mem[w]]]

\* realloc(bp, bytes): a new block, the copy, and the old one freed.
ReallocBlock(h, bp, bytes) ==
    LET new == MallocBlock(h, bytes) IN
    IF bytes = 0 THEN [heap |-> FreeBlock(h, bp), bp |-> 0]
    ELSE IF bp = 0 \/ new.bp = 0 THEN new
    ELSE [heap |-> IF new.heap.fault # "none" THEN new.heap
                   ELSE FreeBlock(Fill(new.heap, new.bp, bytes), bp),
          bp |-> new.bp]

=============================================================================
