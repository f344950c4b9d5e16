----------------------------- MODULE FlatMemory ------------------------------
(***************************************************************************)
(* What the sparse emulation of memory promises (src/Lab5/memlib.c): a     *)
(* heap of bytes that remembers which of them were written since it was    *)
(* reset.  With checking on, reading one that was not ends the program;    *)
(* with checking off it gives any value.  The emulation has room for       *)
(* NumPages pages: touching one more ends the program too.                 *)
(***************************************************************************)
EXTENDS Integers, Sequences, FiniteSets

CONSTANTS MaxHeap, PageSize, NumPages, Byte, None

Addr == 0 .. MaxHeap - 1
Span(a, n) == a .. a + n - 1

VARIABLES
    brk,
    cell,       \* the byte at each address, or None
    touched,    \* the pages that have been used since the reset
    checkUB,
    fault,      \* how the program has ended
    op          \* the last call: [call, at, arg, data]

fmvars == <<brk, cell, touched, checkUB, fault, op>>

FMInit ==
    /\ brk = 0
    /\ cell = [a \in Addr |-> None]
    /\ touched = {}
    /\ checkUB = TRUE
    /\ fault = "none"
    /\ op.call = "none"

Pages(S) == touched \cup {a \div PageSize : a \in S}
InHeap(S) == S \subseteq 0 .. brk - 1

\* The bytes that may be found at an address.
Seen(a) == IF cell[a] = None THEN Byte ELSE {cell[a]}

\* The program is ended by an access that reads R and writes W, for a reason
\* that a part of it gives.
FMFail(R, W) ==
    /\ \/ fault' = "segv" /\ ~InHeap(R \cup W)
       \/ fault' = "exhausted" /\ Cardinality(Pages((R \cup W) \cap 0 .. brk - 1)) > NumPages
       \/ fault' = "uninitialized" /\ checkUB /\ \E a \in R : a < brk /\ cell[a] = None
    /\ UNCHANGED <<brk, cell, touched, checkUB>>

\* It goes well; each address in W becomes one of the bytes that new gives.
FMAccess(R, W, new) ==
    /\ InHeap(R \cup W)
    /\ touched' = Pages(R \cup W) /\ Cardinality(touched') <= NumPages
    /\ checkUB => \A a \in R : cell[a] # None
    /\ \A a \in Addr : IF a \in W THEN cell'[a] \in new[a] ELSE cell'[a] = cell[a]
    /\ UNCHANGED <<brk, checkUB, fault>>

\* mem_read of n bytes at a.
FMRead(a, n, data) ==
    \/ FMFail(Span(a, n), {})
    \/ /\ FMAccess(Span(a, n), {}, <<>>)
       /\ Len(data) = n /\ \A i \in 1 .. n : data[i] \in Seen(a + i - 1)

\* mem_write and mem_memset.
FMWrite(a, data) ==
    LET W == Span(a, Len(data)) IN
    FMFail({}, W) \/ FMAccess({}, W, [b \in W |-> {data[b - a + 1]}])

\* mem_memcpy, between areas that do not overlap.
FMCopy(dst, src, n) ==
    LET R == Span(src, n)
        W == Span(dst, n)
    IN  FMFail(R, W) \/ FMAccess(R, W, [a \in W |-> Seen(a - dst + src)])

\* mem_sbrk: old is the break so far, or -1 for a refusal.
FMSbrk(incr, old) ==
    /\ IF incr \in 0 .. MaxHeap - brk THEN old = brk /\ brk' = brk + incr
       ELSE old = -1 /\ UNCHANGED brk
    /\ UNCHANGED <<cell, touched, checkUB, fault>>

FMReset(check) ==
    /\ brk' = 0 /\ touched' = {} /\ checkUB' = check
    /\ cell' = [a \in Addr |-> None]
    /\ UNCHANGED fault

FMCheck(val) == checkUB' = val /\ UNCHANGED <<brk, cell, touched, fault>>

FMNext == fault = "none" /\
    LET c == op' IN
    \/ c.call = "read" /\ FMRead(c.at, c.arg, c.data)
    \/ c.call = "write" /\ FMWrite(c.at, c.data)
    \/ c.call = "memcpy" /\ FMCopy(c.at, c.arg, Len(c.data))
    \/ c.call = "sbrk" /\ FMSbrk(c.arg, c.at)
    \/ c.call = "reset" /\ FMReset(checkUB)
    \/ c.call = "init" /\ FMReset(TRUE)
    \/ c.call = "check" /\ FMCheck(TRUE)
    \/ c.call = "nocheck" /\ FMCheck(FALSE)

FMSpec == FMInit /\ [][FMNext]_fmvars
=============================================================================
