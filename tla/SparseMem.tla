------------------------------ MODULE SparseMem ------------------------------
(***************************************************************************)
(* The sparse emulation of memory (src/Lab5/memlib.c), which lets the      *)
(* driver run traces over a heap far larger than the machine: get_mem      *)
(* looks a page up in a hash table and hands out the next page of an array *)
(* when it is not there.  The accesses are those of an arbitrary allocator *)
(* and of the driver, of any length up to a word and at any address, as    *)
(* the instrumentation of inst/ makes them.                                *)
(***************************************************************************)
EXTENDS Integers, Sequences, FiniteSetsExt

CONSTANTS
    PageSize,       \* SPARSE_PAGE_SIZE
    NumPages,       \* num_pages
    NumBuckets,     \* num_buckets
    MaxHeap,        \* MAX_SPARSE_HEAP
    Word,           \* sizeof(uint64_t)
    Byte,           \* the values of a byte, 0 among them
    Lengths,        \* how much is copied or set at once
    Increments,     \* the arguments of mem_sbrk
    None

ASSUME SparseAssumption ==
    /\ {PageSize, NumPages, NumBuckets, MaxHeap, Word} \subseteq Nat \ {0}
    /\ Word <= PageSize     \* an access touches two pages at most
    /\ Lengths \subseteq Nat \ {0} /\ Increments \subseteq Int
    /\ 0 \in Byte /\ None \notin Byte

VARIABLES
    mem,    \* the state of memlib.c
    op      \* the last call, with its arguments and what it returned

vars == <<mem, op>>

CallOf(call, at, arg, data) == [call |-> call, at |-> at, arg |-> arg, data |-> data]

Addr == 0 .. MaxHeap - 1
PageId(a) == a \div PageSize
Offset(a) == a % PageSize

\* The pages as mmap gives them, and an empty page table.
ZeroPages == [s \in 1 .. NumPages |-> [id |-> 0, initSet |-> {}, bytes |-> [o \in 0 .. PageSize - 1 |-> 0]]]
NoPages == [b \in 0 .. NumBuckets - 1 |-> <<>>]

\* mem_init and the mem_reset_brk that follows it.
Fresh(pages, check) ==
    [brk |-> 0, page_table |-> NoPages, pages |-> pages, num_free_pages |-> NumPages,
     checkUB |-> check, fault |-> "none"]

Init == mem = Fresh(ZeroPages, TRUE) /\ op = CallOf("none", 0, 0, <<>>)

Ended(m) == m.fault # "none"

-----------------------------------------------------------------------------
(* get_mem.                                                                *)

\* The first page of the chain that has that id, or 0 if none has.
Lookup(m, id) ==
    LET chain == m.page_table[id % NumBuckets]
        hits  == {i \in DOMAIN chain : m.pages[chain[i]].id = id}
    IN  IF hits = {} THEN 0 ELSE chain[Min(hits)]

\* A page is taken from the array, its contents as they are.
FaultyNewPage(m, id) ==
    LET s == NumPages - m.num_free_pages + 1 IN
    IF m.num_free_pages = 0 THEN [m EXCEPT !.fault = "exhausted"]
    ELSE [m EXCEPT !.num_free_pages = @ - 1, !.pages[s].id = id,
                   !.page_table[id % NumBuckets] = <<s>> \o @]
NewPage(m, id) ==
    LET s == NumPages - m.num_free_pages + 1 IN
    IF m.num_free_pages = 0 THEN [m EXCEPT !.fault = "exhausted"]
    ELSE [m EXCEPT !.num_free_pages = @ - 1, !.pages[s].id = id, !.pages[s].initSet = {},
                   !.page_table[id % NumBuckets] = <<s>> \o @]

\* The page of address a, with n bytes from a on (up to the page's end)
\* marked, or checked, as initialised.
GetMem(m, a, n, isWrite) ==
    LET found == IF Lookup(m, PageId(a)) = 0 THEN NewPage(m, PageId(a)) ELSE m
        s     == Lookup(found, PageId(a))
        bits  == (Offset(a) .. Offset(a) + n - 1) \cap (0 .. PageSize - 1)
    IN  IF Ended(found) THEN found
        ELSE IF isWrite THEN [found EXCEPT !.pages[s].initSet = @ \cup bits]
        ELSE IF found.checkUB /\ ~(bits \subseteq found.pages[s].initSet)
             THEN [found EXCEPT !.fault = "uninitialized"]
        ELSE found

-----------------------------------------------------------------------------
(* The accesses.  A heap access that crosses the end of a page is made in  *)
(* two parts; one that is not within the heap goes to the real memory,     *)
(* where there is nothing.                                                 *)

InHeap(m, a, n) == a + n <= m.brk
LowPart(a, n) == Min({n, PageSize - Offset(a)})

\* The bytes at a .. a + n - 1 of a page that has been got.
PageBytes(m, a, n) ==
    LET s == Lookup(m, PageId(a)) IN [i \in 1 .. n |-> m.pages[s].bytes[Offset(a) + i - 1]]

\* mem_read: the memory afterwards and the bytes.
MemRead(m, a, n) ==
    LET l  == LowPart(a, n)
        lo == GetMem(m, a, n, FALSE)
        hi == IF l = n \/ Ended(lo) THEN lo ELSE GetMem(lo, a + l, n - l, FALSE)
    IN  IF ~InHeap(m, a, n) THEN [mem |-> [m EXCEPT !.fault = "segv"], data |-> <<>>]
        ELSE IF Ended(hi) THEN [mem |-> [m EXCEPT !.fault = hi.fault], data |-> <<>>]
        ELSE [mem |-> hi, data |-> PageBytes(hi, a, l) \o (IF l = n THEN <<>> ELSE PageBytes(hi, a + l, n - l))]

\* The memory m, in which the page of a has been got, with data put at a.
Put(m, a, data) ==
    LET s == Lookup(m, PageId(a)) IN
    IF Ended(m) THEN m
    ELSE [m EXCEPT !.pages[s].bytes =
            [o \in DOMAIN @ |-> IF o - Offset(a) + 1 \in DOMAIN data THEN data[o - Offset(a) + 1] ELSE @[o]]]

\* mem_write.
MemWrite(m, a, data) ==
    LET n  == Len(data)
        l  == LowPart(a, n)
        lo == Put(GetMem(m, a, n, TRUE), a, SubSeq(data, 1, l))
    IN  IF ~InHeap(m, a, n) THEN [m EXCEPT !.fault = "segv"]
        ELSE IF l = n \/ Ended(lo) THEN lo
        ELSE Put(GetMem(lo, a + l, n - l, TRUE), a + l, SubSeq(data, l + 1, n))

\* mem_memcpy and mem_memset, which go by whole words and then by the rest:
\* how many of k bytes come last, one turn of the loop, and what the memory is
\* after k bytes.
LastPart(k) == IF k % Word = 0 THEN Word ELSE k % Word

CopyPart(m, dst, src, n) ==
    LET r == MemRead(m, src, n) IN
    IF Ended(m) THEN m
    ELSE IF Ended(r.mem) THEN r.mem
    ELSE MemWrite(r.mem, dst, r.data)

SetPart(m, dst, c, n) == IF Ended(m) THEN m ELSE MemWrite(m, dst, [i \in 1 .. n |-> c])

MemMemcpy(m, dst, src, n) ==
    LET after[k \in 0 .. n] ==
          LET l == LastPart(k) IN
          IF k = 0 THEN m ELSE CopyPart(after[k - l], dst + k - l, src + k - l, l)
    IN  after[n]

MemMemset(m, dst, c, n) ==
    LET after[k \in 0 .. n] ==
          LET l == LastPart(k) IN
          IF k = 0 THEN m ELSE SetPart(after[k - l], dst + k - l, c, l)
    IN  after[n]

-----------------------------------------------------------------------------
\* A call takes the memory to m.  When it ends the program, the memory does
\* not matter any more and stays as it was.
Call(m, c) ==
    /\ ~Ended(mem)
    /\ mem' = IF Ended(m) THEN [mem EXCEPT !.fault = m.fault] ELSE m
    /\ op' = c

Read(a, n) == LET r == MemRead(mem, a, n) IN Call(r.mem, CallOf("read", a, n, r.data))

Write(a, data) == Call(MemWrite(mem, a, data), CallOf("write", a, 0, data))

Memcpy(dst, src, n) ==
    /\ dst + n <= src \/ src + n <= dst
    /\ Call(MemMemcpy(mem, dst, src, n), CallOf("memcpy", dst, src, [i \in 1 .. n |-> 0]))

Memset(dst, c, n) == Call(MemMemset(mem, dst, c, n), CallOf("write", dst, 0, [i \in 1 .. n |-> c]))

\* mem_sbrk, which refuses to shrink the heap or to exceed its limit.
Sbrk(incr) ==
    IF incr < 0 \/ mem.brk + incr > MaxHeap
    THEN Call(mem, CallOf("sbrk", -1, incr, <<>>))
    ELSE Call([mem EXCEPT !.brk = @ + incr], CallOf("sbrk", mem.brk, incr, <<>>))

\* mem_reset_brk: the pages are given out again, as they are.
ResetBrk == Call(Fresh(mem.pages, mem.checkUB), CallOf("reset", 0, 0, <<>>))

\* The next trace file: mem_deinit, mem_init, and mem_reset_brk.  mem_deinit
\* unmaps the emulated heap, where nothing is, and leaves the pages mapped;
\* they are not used again.
NextFile == Call(Fresh(ZeroPages, TRUE), CallOf("init", 0, 0, <<>>))

SetUBCheck(val) ==
    Call([mem EXCEPT !.checkUB = val], CallOf(IF val THEN "check" ELSE "nocheck", 0, 0, <<>>))

Next ==
    \/ \E a \in Addr, n \in 1 .. Word : Read(a, n) \/ \E data \in [1 .. n -> Byte] : Write(a, data)
    \/ \E dst, src \in Addr, n \in Lengths : Memcpy(dst, src, n)
    \/ \E dst \in Addr, c \in Byte, n \in Lengths : Memset(dst, c, n)
    \/ \E incr \in Increments : Sbrk(incr)
    \/ ResetBrk \/ NextFile
    \/ \E val \in BOOLEAN : SetUBCheck(val)

Spec == Init /\ [][Next]_vars

-----------------------------------------------------------------------------
\* The ids of the pages in the table.
Touched(m) ==
    UNION {{m.pages[m.page_table[b][i]].id : i \in DOMAIN m.page_table[b]} : b \in DOMAIN m.page_table}

\* The byte at address a, if it has been written since the reset.
Cell(m, a) ==
    LET s == Lookup(m, PageId(a)) IN
    IF s # 0 /\ Offset(a) \in m.pages[s].initSet THEN m.pages[s].bytes[Offset(a)] ELSE None

Flat == INSTANCE FlatMemory WITH
    brk <- mem.brk,
    checkUB <- mem.checkUB,
    fault <- mem.fault,
    touched <- Touched(mem),
    cell <- [a \in Addr |-> Cell(mem, a)]

\* Each call does what it would do to a flat memory: through whatever pages were
\* handed out, reused after a reset and chained in one bucket, and across page
\* boundaries, a read returns what was written there last; with checking on the
\* program is ended exactly when it reads a byte that was not written since
\* the reset; and it is ended for want of pages only when more pages were
\* touched than there are.
ImplementsFlatMemory == Flat!FMSpec
=============================================================================
