--------------------------------- MODULE Rio ---------------------------------
(***************************************************************************)
(* The robust I/O package (src/Lab6/csapp.c) for one end of a connection:  *)
(* read() and write() transfer any part of what was asked for, the package *)
(* hides it.  A call is a record of its state: what it has read so far, or *)
(* what it has left to write.                                              *)
(*                                                                         *)
(* An EINTR only makes the package call again, which changes nothing, so   *)
(* it is a stuttering step here.  The sockets are those of Linux: bytes    *)
(* that arrived before a reset can still be read.                          *)
(***************************************************************************)
EXTENDS Integers, Sequences, FiniteSetsExt

CONSTANTS
    RioBufSize,     \* RIO_BUFSIZE
    SockBuf,        \* what the socket holds before write() blocks
    NewLine         \* the byte that ends a line

VARIABLES
    call,   \* the call in progress
    buf,    \* the unread bytes of the internal buffer: rio_cnt of them at rio_bufptr
    in,     \* the bytes that have arrived and were not read
    out,    \* the bytes written that the peer has not read
    eof,    \* the peer has closed its end
    rst     \* "no", "reset" (ECONNRESET is next) or "broken" (EPIPE from now on)

NoCall == [fn |-> "none", n |-> 0, data |-> <<>>, done |-> TRUE, ret |-> 0]
Call(fn, n, data) == [fn |-> fn, n |-> n, data |-> data, done |-> FALSE, ret |-> 0]

First(s, k) == SubSeq(s, 1, k)
Rest(s, k) == SubSeq(s, k + 1, Len(s))

Return(c, r) == [c EXCEPT !.done = TRUE, !.ret = r]

Buffered == ~call.done /\ call.fn \in {"readlineb", "readnb"}
Reading == Buffered \/ (~call.done /\ call.fn = "readn")
Writing == ~call.done /\ call.fn = "writen"

\* The most bytes a read call may return: rio_readlineb keeps one for the NUL.
Limit(c) == IF c.fn = "readlineb" THEN c.n - 1 ELSE c.n

\* The call after the bytes b were added to what it has read.
Got(c, b) ==
    LET d == c.data \o b
        full == Len(d) = Limit(c) \/ (c.fn = "readlineb" /\ d[Len(d)] = NewLine)
    IN  [c EXCEPT !.data = d, !.done = full, !.ret = IF full THEN Len(d) ELSE 0]

\* rio_read refills the internal buffer, and only if it is empty.
Refill ==
    /\ Buffered /\ buf = <<>> /\ in # <<>>
    /\ \E k \in 1 .. Min({RioBufSize, Len(in)}) : buf' = First(in, k) /\ in' = Rest(in, k)
    /\ UNCHANGED <<call, out, rst>>

\* rio_readn reads without the buffer.
Readn ==
    /\ Reading /\ ~Buffered /\ in # <<>>
    /\ \E k \in 1 .. Min({call.n - Len(call.data), Len(in)}) :
          call' = Got(call, First(in, k)) /\ in' = Rest(in, k)
    /\ UNCHANGED <<buf, out, rst>>

AtEof ==
    /\ Reading /\ buf = <<>> /\ in = <<>> /\ eof /\ rst # "reset"
    /\ call' = Return(call, Len(call.data))
    /\ UNCHANGED <<buf, in, out, rst>>

ReadError ==
    /\ Reading /\ buf = <<>> /\ in = <<>> /\ rst = "reset"
    /\ call' = Return(call, -1) /\ rst' = "broken"
    /\ UNCHANGED <<buf, in, out>>

\* How many bytes the loops of rio_readlineb and rio_readnb copy before they
\* end or need another read().
LineEnds == {k \in DOMAIN buf : call.fn = "readlineb" /\ buf[k] = NewLine}
Taken == Min({Len(buf), Limit(call) - Len(call.data)} \cup LineEnds)

Deliver ==
    /\ Buffered /\ buf # <<>>
    /\ call' = Got(call, First(buf, Taken))
    /\ buf' = Rest(buf, Taken)
    /\ UNCHANGED <<in, out, rst>>

Read == Refill \/ Readn \/ AtEof \/ ReadError \/ Deliver

-----------------------------------------------------------------------------
\* rio_writen after k more bytes were written: it writes on until none is left.
FaultyWritten(k) == Return(call, k)
Written(k) == LET left == [call EXCEPT !.data = Rest(@, k)]
              IN  IF left.data = <<>> THEN Return(left, call.n) ELSE left

Write ==
    /\ Writing /\ ~eof /\ rst = "no"
    /\ \E k \in 1 .. Min({Len(call.data), SockBuf - Len(out)}) :
          out' = out \o First(call.data, k) /\ call' = Written(k)
    /\ UNCHANGED <<buf, in, rst>>

\* The peer is gone: write() succeeds, and is answered by a reset.
WriteLost ==
    /\ Writing /\ eof /\ rst # "broken"
    /\ \E k \in 1 .. Min({Len(call.data), SockBuf}) : call' = Written(k)
    /\ rst' \in {rst, IF rst = "no" THEN "broken" ELSE rst}
    /\ UNCHANGED <<buf, in, out>>

WriteReset ==
    /\ Writing /\ rst = "reset"
    /\ call' = Return(call, -1) /\ rst' = "broken"
    /\ UNCHANGED <<buf, in, out>>

\* EPIPE: the process dies of SIGPIPE, or write() fails if that is ignored.
BrokenPipe == Writing /\ rst = "broken"
PipeError == BrokenPipe /\ call' = Return(call, -1) /\ UNCHANGED <<buf, in, out, rst>>
=============================================================================
