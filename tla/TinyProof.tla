----------------------------- MODULE TinyProof -----------------------------
(***************************************************************************)
(* Proofs about the Tiny server and its client, for any sizes of buffers,  *)
(* lines, reads and writes, any requests and any number of connections.    *)
(*                                                                         *)
(* ControlInv says where the two ends are and what their calls are doing.  *)
(* On it rest the two halves of a connection: RequestInv says that what    *)
(* the server has read of a line, its buffer, the connection and what the  *)
(* client has not sent are the request from the beginning of a line on,    *)
(* and that nothing of a well-formed request is left once it is answered;  *)
(* ReplyInv says that what the client was sent and what the server or its  *)
(* child has still to write make one response.                             *)
(***************************************************************************)
EXTENDS Tiny, SequenceTheorems, WellFoundedInduction, TLAPS

\* Requests and responses are made of these.
Byte == RequestByte \cup {"H", "B", "D", "G", "E", "L", "400", "403", "404", "501"}
Fns == {"none", "readlineb", "readnb", "readn", "writen"}
CallType == [fn : Fns, n : Nat, data : Seq(Byte), done : BOOLEAN, ret : Int]

-----------------------------------------------------------------------------
(* Sequences.                                                              *)

\* A set of natural numbers that is not empty has a least one.
LEMMA LeastNatural ==
    ASSUME NEW D, D \subseteq Nat, D # {}
    PROVE  \E x \in D : \A y \in D : x <= y
<1>1. PICK R : IsWellFoundedOn(R, Nat) /\ \A x, y \in Nat : x < y => <<x, y>> \in R
  BY NatLessThanWellFounded DEF OpToRel
<1>2. IsWellFoundedOn(R, D)
  BY <1>1, IsWellFoundedOnSubset
<1>3. PICK x \in D : \A y \in D : ~(<<y, x>> \in R)
  BY <1>2, WFMin
<1>4. ASSUME NEW y \in D PROVE x <= y
  <2>1. x \in Nat /\ y \in Nat
    OBVIOUS
  <2>2. ~(y < x)
    BY <1>1, <1>3, <2>1
  <2> QED
    BY <2>1, <2>2
<1> QED
  BY <1>4

\* A sequence is its first k elements and the rest.
LEMMA Split ==
    ASSUME NEW s \in Seq(Byte), NEW k \in 0 .. Len(s)
    PROVE  /\ S!First(s, k) \in Seq(Byte) /\ S!Rest(s, k) \in Seq(Byte)
           /\ Len(S!First(s, k)) = k /\ Len(S!Rest(s, k)) = Len(s) - k
           /\ \A i \in 1 .. k : S!First(s, k)[i] = s[i]
           /\ \A i \in 1 .. Len(s) - k : S!Rest(s, k)[i] = s[i + k]
           /\ S!First(s, k) \o S!Rest(s, k) = s
           /\ C!First(s, k) = S!First(s, k) /\ C!Rest(s, k) = S!Rest(s, k)
<1>0. /\ S!First(s, k) = SubSeq(s, 1, k) /\ C!First(s, k) = SubSeq(s, 1, k)
      /\ S!Rest(s, k) = SubSeq(s, k + 1, Len(s)) /\ C!Rest(s, k) = SubSeq(s, k + 1, Len(s))
  BY DEF S!First, C!First, S!Rest, C!Rest
<1>1. Len(s) \in Nat
  BY LenProperties
<1>2. /\ SubSeq(s, 1, k) \in Seq(Byte) /\ Len(SubSeq(s, 1, k)) = k
      /\ \A i \in 1 .. k : SubSeq(s, 1, k)[i] = s[i]
  BY <1>1, SubSeqProperties
<1>3. /\ SubSeq(s, k + 1, Len(s)) \in Seq(Byte) /\ Len(SubSeq(s, k + 1, Len(s))) = Len(s) - k
      /\ \A i \in 1 .. Len(s) - k : SubSeq(s, k + 1, Len(s))[i] = s[i + k]
  BY <1>1, SubSeqProperties
<1>4. SubSeq(s, 1, k) \o SubSeq(s, k + 1, Len(s)) = s
  <2>1. 1 \in 1 .. Len(s) + 1 /\ k \in 1 - 1 .. Len(s) /\ Len(s) \in k .. Len(s)
    BY <1>1
  <2>2. SubSeq(s, 1, k) \o SubSeq(s, k + 1, Len(s)) = SubSeq(s, 1, Len(s))
    BY <2>1, ConcatAdjacentSubSeq
  <2> QED
    BY <2>2, SubSeqFull
<1> QED
  BY <1>0, <1>1, <1>2, <1>3, <1>4

\* What two sequences make one after the other.
LEMMA Joins ==
    ASSUME NEW s \in Seq(Byte), NEW t \in Seq(Byte)
    PROVE  /\ s \o t \in Seq(Byte) /\ Len(s \o t) = Len(s) + Len(t)
           /\ \A i \in 1 .. Len(s) : (s \o t)[i] = s[i]
           /\ \A i \in 1 .. Len(t) : (s \o t)[Len(s) + i] = t[i]
           /\ s \o <<>> = s /\ <<>> \o s = s
           /\ s \o t = <<>> <=> s = <<>> /\ t = <<>>
           /\ Len(s) \in Nat /\ Len(t) \in Nat
           /\ s = <<>> <=> Len(s) = 0
<1>1. /\ s \o t \in Seq(Byte) /\ Len(s \o t) = Len(s) + Len(t)
      /\ Len(s) \in Nat /\ Len(t) \in Nat
  BY ConcatProperties, LenProperties
<1>2. \A i \in 1 .. Len(s) + Len(t) :
         (s \o t)[i] = IF i <= Len(s) THEN s[i] ELSE t[i - Len(s)]
  BY ConcatProperties, <1>1
<1>3. s \o <<>> = s /\ <<>> \o s = s
  BY ConcatEmptySeq
<1>4. (s = <<>> <=> Len(s) = 0) /\ (t = <<>> <=> Len(t) = 0)
  BY EmptySeq
<1>5. s \o t = <<>> <=> Len(s \o t) = 0
  BY <1>1, EmptySeq
<1> QED
  BY <1>1, <1>2, <1>3, <1>4, <1>5

\* Three sequences one after the other.
LEMMA Assoc ==
    ASSUME NEW s \in Seq(Byte), NEW t \in Seq(Byte), NEW u \in Seq(Byte)
    PROVE  (s \o t) \o u = s \o (t \o u)
BY ConcatAssociative

-----------------------------------------------------------------------------
(* Calls.                                                                  *)

\* c is a call that has just begun.
Fresh(c, fn, k, d) ==
    c \in CallType /\ c.fn = fn /\ c.n = k /\ c.data = d /\ ~c.done

\* A call begins with what it is given, the same for both ends.
LEMMA MakeCall ==
    ASSUME NEW fn \in Fns, NEW k \in Nat, NEW d \in Seq(Byte)
    PROVE  Fresh(S!Call(fn, k, d), fn, k, d) /\ C!Call(fn, k, d) = S!Call(fn, k, d)
BY DEF S!Call, C!Call, CallType, Fresh

\* No call in progress.
LEMMA NoCallIs ==
    /\ S!NoCall \in CallType /\ C!NoCall = S!NoCall
    /\ S!NoCall.fn = "none" /\ S!NoCall.data = <<>> /\ S!NoCall.done = TRUE /\ S!NoCall.ret = 0
<1>1. <<>> \in Seq(Byte)
  BY EmptySeq
<1> QED
  BY <1>1 DEF S!NoCall, C!NoCall, CallType, Fns

\* The fields of a call.
LEMMA Fields ==
    ASSUME NEW c \in CallType
    PROVE  /\ c.fn \in Fns /\ c.n \in Nat /\ c.data \in Seq(Byte)
           /\ c.done \in BOOLEAN /\ c.ret \in Int
           /\ Len(c.data) \in Nat
BY LenProperties DEF CallType

\* A call that returns is done, and its bytes stay.
LEMMA Returns ==
    ASSUME NEW c \in CallType, NEW r \in Int
    PROVE  /\ S!Return(c, r) \in CallType /\ C!Return(c, r) = S!Return(c, r)
           /\ S!Return(c, r).fn = c.fn /\ S!Return(c, r).n = c.n /\ S!Return(c, r).data = c.data
           /\ S!Return(c, r).done = TRUE /\ S!Return(c, r).ret = r
BY DEF S!Return, C!Return, CallType

\* The read call c has become g with the bytes b.
GotBytes(c, b, g) ==
    /\ g \in CallType /\ g.fn = c.fn /\ g.n = c.n /\ g.data = c.data \o b
    /\ g.done <=> Len(g.data) = S!Limit(c) \/ (c.fn = "readlineb" /\ g.data[Len(g.data)] = "nl")
    /\ g.done => g.ret = Len(g.data)
    /\ ~g.done => g.ret = 0

\* rio_readlineb and rio_readnb add the bytes they copied.
LEMMA Gets ==
    ASSUME NEW c \in CallType, NEW b \in Seq(Byte)
    PROVE  GotBytes(c, b, S!Got(c, b)) /\ C!Got(c, b) = S!Got(c, b)
<1> DEFINE g == S!Got(c, b)
<1> DEFINE d == c.data \o b
           full == Len(d) = S!Limit(c) \/ (c.fn = "readlineb" /\ d[Len(d)] = "nl")
<1>1. d \in Seq(Byte) /\ Len(d) \in Nat
  BY Fields, Joins, LenProperties
<1>2. C!Limit(c) = S!Limit(c)
  BY DEF S!Limit, C!Limit
<1>3. g = [c EXCEPT !.data = d, !.done = full, !.ret = IF full THEN Len(d) ELSE 0]
  BY DEF S!Got
<1>4. C!Got(c, b) = [c EXCEPT !.data = d, !.done = full, !.ret = IF full THEN Len(d) ELSE 0]
  BY <1>2 DEF C!Got
<1>5. full \in BOOLEAN /\ (IF full THEN Len(d) ELSE 0) \in Int
  BY <1>1
<1> HIDE DEF d, full, g
<1>6. PICK f : f = full
  OBVIOUS
<1>7. PICK r \in Int : r = IF full THEN Len(d) ELSE 0
  BY <1>5
<1>8. g = [c EXCEPT !.data = d, !.done = f, !.ret = r] /\ f \in BOOLEAN
  BY <1>3, <1>5, <1>6, <1>7
<1>9. /\ g \in CallType /\ g.fn = c.fn /\ g.n = c.n /\ g.data = d /\ g.done = f /\ g.ret = r
  BY <1>1, <1>8 DEF CallType
<1>10. g.done <=> Len(g.data) = S!Limit(c) \/ (c.fn = "readlineb" /\ g.data[Len(g.data)] = "nl")
  BY <1>6, <1>9 DEF full
<1>11. (g.done => g.ret = Len(g.data)) /\ (~g.done => g.ret = 0)
  BY <1>6, <1>7, <1>9
<1>12. GotBytes(c, b, g)
  BY <1>9, <1>10, <1>11 DEF d, GotBytes
<1>13. C!Got(c, b) = g
  BY <1>3, <1>4
<1> QED
  BY <1>12, <1>13 DEF g

\* The smaller of two numbers.
LEMMA MinOfTwo ==
    ASSUME NEW a \in Int, NEW b \in Int
    PROVE  /\ S!Min({a, b}) \in Int /\ S!Min({a, b}) <= a /\ S!Min({a, b}) <= b
           /\ C!Min({a, b}) = S!Min({a, b})
<1>1. \E x \in {a, b} : \A y \in {a, b} : x <= y
  BY DEF S!Min
<1>2. S!Min({a, b}) \in {a, b} /\ \A y \in {a, b} : S!Min({a, b}) <= y
  BY <1>1 DEF S!Min
<1> QED
  BY <1>2 DEF S!Min, C!Min

\* How many bytes of b the call c takes.
Takes(c, b) == S!Min({Len(b), S!Limit(c) - Len(c.data)}
                     \cup {k \in DOMAIN b : c.fn = "readlineb" /\ b[k] = "nl"})

\* How much is copied: some, no more than fits, and not past the end of a line.
LEMMA TakesSome ==
    ASSUME NEW c \in CallType, NEW b \in Seq(Byte), b # <<>>, Len(c.data) < S!Limit(c)
    PROVE  /\ Takes(c, b) \in 1 .. Len(b)
           /\ Len(c.data) + Takes(c, b) <= S!Limit(c)
           /\ c.fn = "readlineb" => \A j \in 1 .. Takes(c, b) - 1 : b[j] # "nl"
           /\ \/ Takes(c, b) = Len(b)
              \/ Len(c.data) + Takes(c, b) = S!Limit(c)
              \/ c.fn = "readlineb" /\ b[Takes(c, b)] = "nl"
<1> DEFINE ends == {k \in DOMAIN b : c.fn = "readlineb" /\ b[k] = "nl"}
           D == {Len(b), S!Limit(c) - Len(c.data)} \cup ends
<1>1. Len(b) \in Nat \ {0} /\ DOMAIN b = 1 .. Len(b)
  BY EmptySeq, LenProperties
<1>2. S!Limit(c) \in Int /\ Len(c.data) \in Nat
  BY Fields DEF S!Limit
<1>3. D \subseteq Nat \ {0} /\ D # {}
  BY <1>1, <1>2
<1>4. PICK x \in D : \A y \in D : x <= y
  BY <1>3, LeastNatural
<1>5. Takes(c, b) \in D /\ \A y \in D : Takes(c, b) <= y
  BY <1>4 DEF Takes, S!Min
<1> DEFINE t == Takes(c, b)
<1>6. t \in Nat /\ t > 0 /\ t <= Len(b) /\ t <= S!Limit(c) - Len(c.data)
  <2>1. t \in Nat \ {0} /\ t <= Len(b) /\ t <= S!Limit(c) - Len(c.data)
    BY <1>3, <1>5
  <2> HIDE DEF t
  <2> QED
    BY <2>1
<1>7. \/ t = Len(b) \/ t = S!Limit(c) - Len(c.data)
      \/ c.fn = "readlineb" /\ b[t] = "nl"
  BY <1>5
<1>8. ASSUME c.fn = "readlineb", NEW j \in 1 .. t - 1 PROVE b[j] # "nl"
  <2>1. j \in 1 .. Len(b) /\ ~(t <= j)
    <3> HIDE DEF t
    <3> QED
      BY <1>1, <1>6
  <2>2. j \notin ends
    BY <2>1, <1>5
  <2> QED
    BY <2>1, <2>2, <1>1, <1>8
<1> HIDE DEF t, ends, D
<1>9. t \in 1 .. Len(b) /\ Len(c.data) + t <= S!Limit(c)
  BY <1>1, <1>2, <1>6
<1>10. t = S!Limit(c) - Len(c.data) => Len(c.data) + t = S!Limit(c)
  BY <1>2, <1>6
<1> QED
  BY <1>7, <1>8, <1>9, <1>10 DEF t

\* Both ends copy by that rule.
LEMMA TakenIs ==
    /\ S!Taken = Takes(scall, sbuf)
    /\ C!Taken = Takes(ccall, cbuf)
<1>1. \A D : C!Min(D) = S!Min(D)
  BY DEF C!Min, S!Min
<1>2. C!Limit(ccall) = S!Limit(ccall)
  BY DEF C!Limit, S!Limit
<1> QED
  BY <1>1, <1>2 DEF S!Taken, C!Taken, S!LineEnds, C!LineEnds, Takes

\* The call c after k more bytes were written.
Wrote(c, k) ==
    IF S!Rest(c.data, k) = <<>> THEN [c EXCEPT !.data = <<>>, !.done = TRUE, !.ret = c.n]
    ELSE [c EXCEPT !.data = S!Rest(c.data, k)]

\* Both ends go on writing by that rule.
LEMMA WrittenIs ==
    ASSUME scall \in CallType, ccall \in CallType, NEW k
    PROVE  S!Written(k) = Wrote(scall, k) /\ C!Written(k) = Wrote(ccall, k)
<1>1. /\ C!Rest(ccall.data, k) = S!Rest(ccall.data, k)
  BY DEF C!Rest, S!Rest
<1>2. S!Written(k) = Wrote(scall, k)
  <2>1. PICK d : d = S!Rest(scall.data, k)
    OBVIOUS
  <2>2. S!Written(k) = LET left == [scall EXCEPT !.data = d]
                       IN  IF left.data = <<>> THEN S!Return(left, scall.n) ELSE left
    BY <2>1 DEF S!Written
  <2>3. [scall EXCEPT !.data = d].data = d
    BY DEF CallType
  <2>4. S!Return([scall EXCEPT !.data = d], scall.n)
        = [scall EXCEPT !.data = d, !.done = TRUE, !.ret = scall.n]
    BY DEF S!Return, CallType
  <2> QED
    BY <2>1, <2>2, <2>3, <2>4 DEF Wrote
<1>3. C!Written(k) = Wrote(ccall, k)
  <2>1. PICK d : d = S!Rest(ccall.data, k)
    OBVIOUS
  <2>2. C!Written(k) = LET left == [ccall EXCEPT !.data = d]
                       IN  IF left.data = <<>> THEN C!Return(left, ccall.n) ELSE left
    BY <2>1, <1>1 DEF C!Written
  <2>3. [ccall EXCEPT !.data = d].data = d
    BY DEF CallType
  <2>4. C!Return([ccall EXCEPT !.data = d], ccall.n)
        = [ccall EXCEPT !.data = d, !.done = TRUE, !.ret = ccall.n]
    BY DEF C!Return, CallType
  <2> QED
    BY <2>1, <2>2, <2>3, <2>4 DEF Wrote
<1> QED
  BY <1>2, <1>3

\* What is left after a part was written; the call ends when nothing is.
LEMMA Wrotes ==
    ASSUME NEW c \in CallType, NEW k \in 1 .. Len(c.data), NEW w, w = Wrote(c, k), ~c.done
    PROVE  /\ w \in CallType /\ w.fn = c.fn /\ w.n = c.n
           /\ w.data = S!Rest(c.data, k)
           /\ w.done <=> w.data = <<>>
           /\ w.done => w.ret >= 0
<1>1. S!Rest(c.data, k) \in Seq(Byte)
  <2>1. k \in 0 .. Len(c.data) /\ c.data \in Seq(Byte)
    BY Fields
  <2> QED
    BY <2>1, Split
<1>2. PICK d \in Seq(Byte) : d = S!Rest(c.data, k)
  BY <1>1
<1>3. c.n \in Int /\ c.n >= 0
  BY Fields
<1>4. CASE d = <<>>
  <2>1. w = [c EXCEPT !.data = d, !.done = TRUE, !.ret = c.n]
    BY <1>2, <1>4 DEF Wrote
  <2>2. /\ w \in CallType /\ w.fn = c.fn /\ w.n = c.n /\ w.data = d /\ w.done = TRUE /\ w.ret = c.n
    BY <2>1, <1>3 DEF CallType
  <2> QED
    BY <2>2, <1>2, <1>3, <1>4
<1>5. CASE d # <<>>
  <2>1. w = [c EXCEPT !.data = d]
    BY <1>2, <1>5 DEF Wrote
  <2>2. /\ w \in CallType /\ w.fn = c.fn /\ w.n = c.n /\ w.data = d /\ w.done = c.done
    BY <2>1 DEF CallType
  <2> QED
    BY <2>2, <1>2, <1>5
<1> QED
  BY <1>4, <1>5

-----------------------------------------------------------------------------
(* The invariant.                                                          *)

Reset == {"no", "reset", "broken"}
TypeOK ==
    /\ variant \in {"tiny", "tiny-static"}
    /\ pc \in {"start", "accept", "reqline", "headers", "uri", "write", "wait", "close",
               "dead", "exited"}
    /\ cpc \in {"idle", "send", "rest", "recv", "end", "closed", "refused"}
    /\ scall \in CallType /\ ccall \in CallType
    /\ sbuf \in Seq(Byte) /\ cbuf \in Seq(Byte) /\ got \in Seq(Byte) /\ request \in Seq(Byte)
    /\ toServer \in Seq(Byte) /\ toClient \in Seq(Byte) /\ child \in Seq(Byte)
    /\ respond \in {<<>>, <<ErrorBody>>, <<StaticBody>>, <<CgiOutput>>}
    /\ cut \in BOOLEAN /\ gaveUp \in BOOLEAN
    /\ clientClosed \in BOOLEAN /\ serverClosed \in BOOLEAN
    /\ n \in Nat /\ backlog \in Seq(Request) /\ rstToServer \in Reset /\ rstToClient \in Reset

\* Where the two ends are while they are open, and who can have been reset.
EndsInv ==
    /\ serverClosed => pc \in {"start", "exited", "dead", "accept"}
    /\ pc \in {"start", "exited", "dead", "accept"} => serverClosed
    /\ clientClosed <=> cpc \in {"idle", "closed", "refused"}
    /\ pc \in {"start", "exited"} => clientClosed
    /\ cpc \in {"idle", "end"} => serverClosed
    /\ cpc = "refused" => pc = "dead"
    /\ clientClosed /\ ~serverClosed => gaveUp
    /\ rstToServer # "no" => clientClosed
    /\ rstToClient # "no" => serverClosed
    /\ pc = "dead" => gaveUp /\ clientClosed
    /\ cpc # "idle" => request \in Request

\* The line that the server is reading: no end in the middle of it.
ReadsLine(c, gone) ==
    /\ c.fn = "readlineb" /\ c.n = MaxLine
    /\ Len(c.data) <= MaxLine - 1
    /\ \A j \in 1 .. Len(c.data) - 1 : c.data[j] # "nl"
    /\ ~c.done => Len(c.data) < MaxLine - 1 /\ (c.data = <<>> \/ c.data[Len(c.data)] # "nl")
    /\ c.done /\ ~gone => /\ c.ret = Len(c.data) /\ c.data # <<>>
                          /\ Len(c.data) = MaxLine - 1 \/ c.data[Len(c.data)] = "nl"

ServerCallInv ==
    /\ pc \in {"reqline", "headers"} => ReadsLine(scall, clientClosed)
    /\ pc = "write" =>
          /\ scall.fn = "writen"
          /\ ~clientClosed /\ scall.done => scall.data = <<>> /\ scall.ret >= 0

\* What a client is reading; it sees no end before the server has closed.
Fetches(c, b, i) ==
    /\ c.fn \in {"readnb", "readn"} /\ c.n = MaxBuf
    /\ c.fn = "readn" => b = <<>>
    /\ ~c.done => Len(c.data) < MaxBuf
    /\ c.done /\ c.ret <= 0 =>
          b = <<>> /\ i = <<>> /\ serverClosed /\ (c.ret = 0 => c.data = <<>>)

ClientCallInv ==
    /\ cpc \in {"send", "rest"} =>
          /\ ccall.fn = "writen" /\ cbuf = <<>>
          /\ ~serverClosed /\ ccall.done => ccall.data = <<>>
    /\ cpc \in {"recv", "end"} => Fetches(ccall, cbuf, toClient)
    /\ cpc = "end" => ccall.done /\ ccall.ret <= 0

ControlInv == TypeOK /\ EndsInv /\ ServerCallInv /\ ClientCallInv

-----------------------------------------------------------------------------
(* What a step of the I/O package does to a call and the bytes around it.  *)

\* All that a reader has and will have.
Bytes(c, b, i) == c.data \o (b \o i)

ReadStep(c, b, i, c2, b2, i2) ==
    /\ ~c.done
    /\ c2 \in CallType /\ b2 \in Seq(Byte) /\ i2 \in Seq(Byte) /\ c2.fn = c.fn /\ c2.n = c.n
    /\ Bytes(c2, b2, i2) = Bytes(c, b, i)
    /\ c2.done => c2.ret >= 0

WriteStep(c, o, c2, o2) ==
    /\ c2 \in CallType /\ o2 \in Seq(Byte) /\ c2.fn = c.fn
    /\ o2 \o c2.data = o \o c.data
    /\ c2.done => c2.data = <<>> /\ c2.ret >= 0

\* The internal buffer is filled: no byte is lost or moved.
LEMMA RefillStep ==
    ASSUME NEW c \in CallType, ~c.done, NEW i \in Seq(Byte), NEW k \in 1 .. Len(i)
    PROVE  ReadStep(c, <<>>, i, c, S!First(i, k), S!Rest(i, k))
<1>1. /\ S!First(i, k) \in Seq(Byte) /\ S!Rest(i, k) \in Seq(Byte)
      /\ S!First(i, k) \o S!Rest(i, k) = i
  <2>1. k \in 0 .. Len(i)
    OBVIOUS
  <2> QED
    BY <2>1, Split
<1>2. <<>> \o i = i
  BY Joins
<1> QED
  BY <1>1, <1>2 DEF ReadStep, Bytes

\* Bytes are copied from the internal buffer: no byte is lost or moved.
LEMMA DeliverStep ==
    ASSUME NEW c \in CallType, ~c.done, NEW b \in Seq(Byte), NEW i \in Seq(Byte),
           NEW k \in 1 .. Len(b)
    PROVE  /\ ReadStep(c, b, i, S!Got(c, S!First(b, k)), S!Rest(b, k), i)
           /\ S!First(b, k) \in Seq(Byte) /\ S!First(b, k) # <<>>
<1>1. /\ S!First(b, k) \in Seq(Byte) /\ S!Rest(b, k) \in Seq(Byte)
      /\ Len(S!First(b, k)) = k
      /\ S!First(b, k) \o S!Rest(b, k) = b
  <2>1. k \in 0 .. Len(b)
    OBVIOUS
  <2> QED
    BY <2>1, Split
<1>2. S!First(b, k) # <<>>
  BY <1>1, EmptySeq
<1>3. PICK f \in Seq(Byte) : f = S!First(b, k)
  BY <1>1
<1>4. PICK r \in Seq(Byte) : r = S!Rest(b, k)
  BY <1>1
<1>5. PICK g : g = S!Got(c, f)
  OBVIOUS
<1>6. /\ g \in CallType /\ g.fn = c.fn /\ g.n = c.n /\ g.data = c.data \o f
      /\ g.done => g.ret >= 0
  <2>1. GotBytes(c, f, g)
    BY <1>5, Gets
  <2>2. Len(g.data) >= 0
    BY <2>1, Fields DEF GotBytes
  <2> QED
    BY <2>1, <2>2 DEF GotBytes
<1>7. PICK d \in Seq(Byte) : d = c.data
  BY Fields
<1>8. (d \o f) \o (r \o i) = d \o (f \o (r \o i))
  <2>1. r \o i \in Seq(Byte)
    BY Joins
  <2> QED
    BY <2>1, Assoc
<1>9. f \o (r \o i) = (f \o r) \o i
  BY SMTT(30), Assoc
<1>10. f \o r = b
  BY <1>1, <1>3, <1>4
<1>11. Bytes(g, r, i) = Bytes(c, b, i)
  BY <1>6, <1>7, <1>8, <1>9, <1>10 DEF Bytes
<1> QED
  BY <1>2, <1>3, <1>4, <1>5, <1>6, <1>11 DEF ReadStep

\* Bytes are read without the buffer: no byte is lost or moved.
LEMMA ReadnStep ==
    ASSUME NEW c \in CallType, ~c.done, NEW i \in Seq(Byte), NEW k \in 1 .. Len(i),
           NEW b, b = <<>>
    PROVE  /\ ReadStep(c, b, i, S!Got(c, S!First(i, k)), b, S!Rest(i, k))
           /\ S!First(i, k) \in Seq(Byte) /\ S!First(i, k) # <<>> /\ Len(S!First(i, k)) = k
<1>1. /\ S!First(i, k) \in Seq(Byte) /\ S!Rest(i, k) \in Seq(Byte)
      /\ Len(S!First(i, k)) = k
      /\ S!First(i, k) \o S!Rest(i, k) = i
  <2>1. k \in 0 .. Len(i)
    OBVIOUS
  <2> QED
    BY <2>1, Split
<1>2. S!First(i, k) # <<>>
  BY <1>1, EmptySeq
<1>3. PICK f \in Seq(Byte) : f = S!First(i, k)
  BY <1>1
<1>4. PICK r \in Seq(Byte) : r = S!Rest(i, k)
  BY <1>1
<1>5. PICK g : g = S!Got(c, f)
  OBVIOUS
<1>6. /\ g \in CallType /\ g.fn = c.fn /\ g.n = c.n /\ g.data = c.data \o f
      /\ g.done => g.ret >= 0
  <2>1. GotBytes(c, f, g)
    BY <1>5, Gets
  <2>2. Len(g.data) >= 0
    BY <2>1, Fields DEF GotBytes
  <2> QED
    BY <2>1, <2>2 DEF GotBytes
<1>7. PICK d \in Seq(Byte) : d = c.data
  BY Fields
<1>8. (d \o f) \o r = d \o (f \o r)
  BY Assoc
<1>9. <<>> \o r = r /\ <<>> \o i = i /\ b \in Seq(Byte)
  BY Joins, EmptySeq
<1>10. f \o r = i
  BY <1>1, <1>3, <1>4
<1>11. Bytes(g, b, r) = Bytes(c, b, i)
  BY <1>6, <1>7, <1>8, <1>9, <1>10 DEF Bytes
<1> QED
  BY <1>1, <1>2, <1>3, <1>4, <1>5, <1>6, <1>9, <1>11 DEF ReadStep

\* A read ends with what it has.
LEMMA EofStep ==
    ASSUME NEW c \in CallType, ~c.done, NEW b \in Seq(Byte), NEW i \in Seq(Byte)
    PROVE  /\ ReadStep(c, b, i, S!Return(c, Len(c.data)), b, i)
           /\ S!Return(c, Len(c.data)).ret = Len(c.data)
           /\ S!Return(c, Len(c.data)).data = c.data
           /\ S!Return(c, Len(c.data)).done
<1>1. Len(c.data) \in Int /\ Len(c.data) >= 0
  BY Fields
<1> QED
  BY <1>1, Returns DEF ReadStep, Bytes

\* A part is written: it is on its way, the rest is still to be written.
LEMMA WroteStep ==
    ASSUME NEW c \in CallType, ~c.done, NEW o \in Seq(Byte), NEW k \in 1 .. Len(c.data)
    PROVE  WriteStep(c, o, Wrote(c, k), o \o S!First(c.data, k))
<1>1. c.data \in Seq(Byte)
  BY Fields
<1>2. /\ S!First(c.data, k) \in Seq(Byte) /\ S!Rest(c.data, k) \in Seq(Byte)
      /\ S!First(c.data, k) \o S!Rest(c.data, k) = c.data
  <2>1. k \in 0 .. Len(c.data)
    OBVIOUS
  <2> QED
    BY <1>1, <2>1, Split
<1>3. PICK w : w = Wrote(c, k)
  OBVIOUS
<1>4. /\ w \in CallType /\ w.fn = c.fn /\ w.data = S!Rest(c.data, k)
      /\ w.done <=> w.data = <<>>
      /\ w.done => w.ret >= 0
  BY <1>3, Wrotes
<1>5. (o \o S!First(c.data, k)) \o S!Rest(c.data, k)
      = o \o (S!First(c.data, k) \o S!Rest(c.data, k))
  BY <1>2, Assoc
<1>6. o \o S!First(c.data, k) \in Seq(Byte)
  BY <1>2, Joins
<1> QED
  BY <1>2, <1>3, <1>4, <1>5, <1>6 DEF WriteStep

-----------------------------------------------------------------------------
(* The steps of the two ends within a call.                                *)

ServerReadStep ==
    /\ pc \in {"reqline", "headers"}
    /\ ReadStep(scall, sbuf, toServer, scall', sbuf', toServer')
    /\ ReadsLine(scall', clientClosed)
    /\ UNCHANGED <<toClient, rstToServer>>

ServerWriteStep ==
    /\ pc = "write" /\ ~clientClosed
    /\ WriteStep(scall, toClient, scall', toClient')
    /\ UNCHANGED <<sbuf, toServer, rstToServer>>

ServerLoseStep ==
    /\ pc = "write" /\ clientClosed
    /\ scall' \in CallType /\ scall'.fn = "writen" /\ rstToServer' \in Reset
    /\ UNCHANGED <<sbuf, net>>

\* The server's buffer hands over bytes.
LEMMA LineGrows ==
    ASSUME NEW c \in CallType, ~c.done, ReadsLine(c, clientClosed), NEW b \in Seq(Byte), b # <<>>
    PROVE  /\ Takes(c, b) \in 1 .. Len(b)
           /\ ReadsLine(S!Got(c, S!First(b, Takes(c, b))), clientClosed)
<1>1. c.fn = "readlineb" /\ c.n = MaxLine /\ S!Limit(c) = MaxLine - 1 /\ MaxLine \in Int
  BY TinyAssumption DEF ReadsLine, S!Limit
<1>2. Len(c.data) < MaxLine - 1 /\ (c.data = <<>> \/ c.data[Len(c.data)] # "nl")
      /\ \A j \in 1 .. Len(c.data) - 1 : c.data[j] # "nl"
  BY DEF ReadsLine
<1>3. PICK k : k = Takes(c, b)
  OBVIOUS
<1>4. /\ k \in 1 .. Len(b) /\ Len(c.data) + k <= MaxLine - 1
      /\ \A j \in 1 .. k - 1 : b[j] # "nl"
  BY <1>1, <1>2, <1>3, TakesSome
<1>5. PICK f : f = S!First(b, k)
  OBVIOUS
<1>6. f \in Seq(Byte) /\ Len(f) = k /\ \A j \in 1 .. k : f[j] = b[j]
  <2>1. k \in 0 .. Len(b)
    BY <1>4
  <2> QED
    BY <2>1, <1>5, Split
<1>7. f # <<>>
  BY <1>4, <1>6, EmptySeq
<1>8. PICK g : g = S!Got(c, f)
  OBVIOUS
<1>9. GotBytes(c, f, g)
  BY <1>6, <1>8, Gets
<1>10. PICK d \in Seq(Byte) : d = c.data
  BY Fields
<1>11. PICK m \in Nat : m = Len(d)
  BY LenProperties
<1>12. /\ Len(g.data) = m + k
       /\ \A j \in 1 .. m : g.data[j] = d[j]
       /\ \A j \in 1 .. k : g.data[m + j] = f[j]
       /\ g.data # <<>>
  <2>1. g.data = d \o f /\ f \in Seq(Byte)
    BY <1>6, <1>9, <1>10 DEF GotBytes
  <2>2. /\ Len(d \o f) = m + k
        /\ \A j \in 1 .. m : (d \o f)[j] = d[j]
        /\ \A j \in 1 .. k : (d \o f)[m + j] = f[j]
        /\ d \o f # <<>>
    <3>1. /\ Len(d \o f) = Len(d) + Len(f)
          /\ \A j \in 1 .. Len(d) : (d \o f)[j] = d[j]
          /\ \A j \in 1 .. Len(f) : (d \o f)[Len(d) + j] = f[j]
      BY <2>1, Joins
    <3>2. d \o f # <<>>
      BY <2>1, <1>7, Joins
    <3> QED
      BY <3>1, <3>2, <1>6, <1>11
  <2> QED
    BY <2>1, <2>2
<1>13. d = <<>> => m = 0
  BY <1>11, EmptySeq
<1>14. ASSUME NEW j \in 1 .. m + k - 1 PROVE g.data[j] # "nl"
  <2>1. CASE j < m
    BY <2>1, <1>2, <1>10, <1>11, <1>12
  <2>2. CASE j = m
    BY <2>2, <1>2, <1>10, <1>11, <1>12, <1>13
  <2>3. CASE j > m
    <3>1. j - m \in 1 .. k - 1 /\ k \in Nat
      BY <2>3, <1>4, <1>11
    <3>2. g.data[m + (j - m)] = f[j - m]
      BY <3>1, <1>12
    <3>3. f[j - m] # "nl"
      BY <3>1, <1>4, <1>6
    <3> QED
      BY <3>2, <3>3, <1>11
  <2> QED
    BY <2>1, <2>2, <2>3, <1>11
<1>15. g.done <=> m + k = MaxLine - 1 \/ g.data[m + k] = "nl"
  BY <1>1, <1>9, <1>12 DEF GotBytes
<1>16. /\ g.fn = "readlineb" /\ g.n = MaxLine
       /\ m + k <= MaxLine - 1 /\ m + k \in Nat /\ (g.done => g.ret = m + k)
  BY <1>1, <1>4, <1>9, <1>10, <1>11, <1>12 DEF GotBytes
<1>17. ReadsLine(g, clientClosed)
  <2>1. g.fn = "readlineb" /\ g.n = MaxLine /\ Len(g.data) <= MaxLine - 1
    BY <1>12, <1>16
  <2>2. ASSUME NEW j \in 1 .. Len(g.data) - 1 PROVE g.data[j] # "nl"
    <3>1. Len(g.data) = m + k
      BY <1>12
    <3>2. j \in 1 .. m + k - 1
      BY <3>1, <1>4, <1>11
    <3> QED
      BY <3>2, <1>14
  <2>3. ~g.done => Len(g.data) < MaxLine - 1 /\ g.data[Len(g.data)] # "nl"
    BY <1>1, <1>12, <1>15, <1>16
  <2>4. g.done => /\ g.ret = Len(g.data) /\ g.data # <<>>
                  /\ Len(g.data) = MaxLine - 1 \/ g.data[Len(g.data)] = "nl"
    BY <1>12, <1>15, <1>16
  <2> QED
    BY <2>1, <2>2, <2>3, <2>4 DEF ReadsLine
<1> QED
  BY <1>3, <1>4, <1>5, <1>8, <1>17

\* The steps of the server within a call, by what they do.
LEMMA ServerIOSteps ==
    ASSUME ControlInv, ServerIO
    PROVE  /\ UNCHANGED <<serverVars, clientVars, clientEnd, closed>>
           /\ ServerReadStep \/ ServerWriteStep \/ ServerLoseStep
<1> USE DEF ControlInv, TypeOK
<1>1. /\ UNCHANGED <<serverVars, clientVars, clientEnd, closed>>
      /\ pc \in {"reqline", "headers", "write"}
  BY DEF ServerIO
<1>2. CASE S!Refill
  <2>1. ~scall.done /\ pc \in {"reqline", "headers"}
    BY <1>1, <1>2 DEF S!Refill, S!Buffered, ServerCallInv
  <2>2. PICK k \in 1 .. S!Min({RioBufSize, Len(toServer)}) :
          sbuf' = S!First(toServer, k) /\ toServer' = S!Rest(toServer, k)
    BY <1>2 DEF S!Refill
  <2>3. k \in 1 .. Len(toServer)
    <3>1. RioBufSize \in Int /\ Len(toServer) \in Int
      BY TinyAssumption, LenProperties
    <3>2. /\ S!Min({RioBufSize, Len(toServer)}) <= Len(toServer)
          /\ S!Min({RioBufSize, Len(toServer)}) \in Int
      BY <3>1, MinOfTwo
    <3> QED
      BY <3>1, <3>2
  <2>4. sbuf = <<>> /\ scall' = scall /\ toClient' = toClient /\ rstToServer' = rstToServer
    BY <1>2 DEF S!Refill
  <2>5. ReadStep(scall, sbuf, toServer, scall', sbuf', toServer')
    BY <2>1, <2>2, <2>3, <2>4, RefillStep
  <2>6. ReadsLine(scall', clientClosed)
    BY <2>1, <2>4 DEF ServerCallInv
  <2> QED
    BY <1>1, <2>1, <2>4, <2>5, <2>6 DEF ServerReadStep
<1>3. CASE S!AtEof
  <2>1. ~scall.done /\ pc \in {"reqline", "headers"} /\ clientClosed
    BY <1>1, <1>3 DEF S!AtEof, S!Reading, S!Buffered, ServerCallInv
  <2>2. /\ scall' = S!Return(scall, Len(scall.data))
        /\ UNCHANGED <<sbuf, toServer, toClient, rstToServer>>
    BY <1>3 DEF S!AtEof
  <2>3. ReadStep(scall, sbuf, toServer, scall', sbuf', toServer')
    BY <2>1, <2>2, EofStep
  <2>4. ReadsLine(scall, clientClosed)
    BY <2>1 DEF ServerCallInv
  <2>5. scall'.fn = scall.fn /\ scall'.n = scall.n /\ scall'.data = scall.data /\ scall'.done
    <3>1. Len(scall.data) \in Int
      BY Fields
    <3> QED
      BY <2>2, <3>1, Returns
  <2>6. ReadsLine(scall', clientClosed)
    BY <2>1, <2>4, <2>5 DEF ReadsLine
  <2> QED
    BY <1>1, <2>1, <2>2, <2>3, <2>6 DEF ServerReadStep
<1>4. CASE S!Deliver
  <2>1. ~scall.done /\ pc \in {"reqline", "headers"} /\ sbuf # <<>>
    BY <1>1, <1>4 DEF S!Deliver, S!Buffered, ServerCallInv
  <2>2. /\ scall' = S!Got(scall, S!First(sbuf, Takes(scall, sbuf)))
        /\ sbuf' = S!Rest(sbuf, Takes(scall, sbuf))
        /\ UNCHANGED <<toServer, toClient, rstToServer>>
    BY <1>4, TakenIs DEF S!Deliver
  <2>3. ReadsLine(scall, clientClosed)
    BY <2>1 DEF ServerCallInv
  <2>4. Takes(scall, sbuf) \in 1 .. Len(sbuf) /\ ReadsLine(scall', clientClosed)
    BY <2>1, <2>2, <2>3, LineGrows
  <2>5. ReadStep(scall, sbuf, toServer, scall', sbuf', toServer')
    BY <2>1, <2>2, <2>4, DeliverStep
  <2> QED
    BY <1>1, <2>1, <2>2, <2>4, <2>5 DEF ServerReadStep
<1>5. CASE S!Write
  <2>1. ~scall.done /\ pc = "write" /\ ~clientClosed
    BY <1>1, <1>5 DEF S!Write, S!Writing, ServerCallInv, ReadsLine
  <2>2. PICK k \in 1 .. S!Min({Len(scall.data), SockBuf - Len(toClient)}) :
          toClient' = toClient \o S!First(scall.data, k) /\ scall' = S!Written(k)
    BY <1>5 DEF S!Write
  <2>3. k \in 1 .. Len(scall.data)
    <3>1. Len(scall.data) \in Int /\ SockBuf - Len(toClient) \in Int
      BY TinyAssumption, LenProperties, Fields
    <3>2. /\ S!Min({Len(scall.data), SockBuf - Len(toClient)}) <= Len(scall.data)
          /\ S!Min({Len(scall.data), SockBuf - Len(toClient)}) \in Int
      BY <3>1, MinOfTwo
    <3> QED
      BY <3>1, <3>2
  <2>4. scall' = Wrote(scall, k)
    BY <2>2, WrittenIs
  <2>5. WriteStep(scall, toClient, scall', toClient')
    BY <2>1, <2>2, <2>3, <2>4, WroteStep
  <2>6. UNCHANGED <<sbuf, toServer, rstToServer>>
    BY <1>5 DEF S!Write
  <2> QED
    BY <1>1, <2>1, <2>5, <2>6 DEF ServerWriteStep
<1>6. CASE S!WriteLost
  <2>1. ~scall.done /\ pc = "write" /\ clientClosed
    BY <1>1, <1>6 DEF S!WriteLost, S!Writing, ServerCallInv, ReadsLine
  <2>2. PICK k \in 1 .. S!Min({Len(scall.data), SockBuf}) : scall' = S!Written(k)
    BY <1>6 DEF S!WriteLost
  <2>3. k \in 1 .. Len(scall.data)
    <3>1. Len(scall.data) \in Int /\ SockBuf \in Int
      BY TinyAssumption, Fields
    <3>2. /\ S!Min({Len(scall.data), SockBuf}) <= Len(scall.data)
          /\ S!Min({Len(scall.data), SockBuf}) \in Int
      BY <3>1, MinOfTwo
    <3> QED
      BY <3>1, <3>2
  <2>4. scall' = Wrote(scall, k)
    BY <2>2, WrittenIs
  <2>5. scall' \in CallType /\ scall'.fn = scall.fn
    BY <2>1, <2>3, <2>4, Wrotes
  <2>6. UNCHANGED <<sbuf, toServer, toClient>> /\ rstToServer' \in Reset
    BY <1>6 DEF S!WriteLost, Reset
  <2> QED
    BY <1>1, <2>1, <2>5, <2>6 DEF ServerLoseStep, ServerCallInv, net
<1>7. CASE S!WriteReset
  <2>1. pc = "write" /\ clientClosed
    BY <1>1, <1>7 DEF S!WriteReset, S!Writing, ServerCallInv, EndsInv, ReadsLine
  <2>2. /\ scall' = S!Return(scall, -1) /\ rstToServer' = "broken"
        /\ UNCHANGED <<sbuf, toServer, toClient>>
    BY <1>7 DEF S!WriteReset
  <2>3. scall' \in CallType /\ scall'.fn = scall.fn
    <3>1. -1 \in Int /\ scall \in CallType
      OBVIOUS
    <3>2. S!Return(scall, -1) \in CallType /\ S!Return(scall, -1).fn = scall.fn
      BY <3>1, Returns
    <3> QED
      BY <3>2, <2>2
  <2> QED
    BY <1>1, <2>1, <2>2, <2>3 DEF ServerLoseStep, ServerCallInv, net, Reset
<1> QED
  BY <1>1, <1>2, <1>3, <1>4, <1>5, <1>6, <1>7 DEF ServerIO

ClientReadStep ==
    /\ cpc = "recv"
    /\ ReadStep(ccall, cbuf, toClient, ccall', cbuf', toClient')
    /\ Fetches(ccall', cbuf', toClient')
    /\ UNCHANGED <<toServer, rstToClient>>

\* The reset from a server that has closed.
ClientErrorStep ==
    /\ cpc = "recv" /\ rstToClient = "reset" /\ rstToClient' \in Reset
    /\ ccall' \in CallType /\ ccall'.done /\ ccall'.ret = -1
    /\ Fetches(ccall', cbuf', toClient')
    /\ UNCHANGED <<cbuf, net>>

ClientWriteStep ==
    /\ cpc \in {"send", "rest"} /\ ~serverClosed
    /\ WriteStep(ccall, toServer, ccall', toServer')
    /\ UNCHANGED <<cbuf, toClient, rstToClient>>

ClientLoseStep ==
    /\ cpc \in {"send", "rest"} /\ serverClosed
    /\ ccall.data # <<>> \/ rstToClient # "no"
    /\ ccall' \in CallType /\ ccall'.fn = "writen" /\ rstToClient' \in Reset
    /\ UNCHANGED <<cbuf, net>>

\* A read of the client's adds some bytes.
LEMMA FetchGrows ==
    ASSUME NEW c \in CallType, ~c.done, NEW b, NEW i, Fetches(c, b, i),
           NEW f \in Seq(Byte), f # <<>>,
           Len(c.data) + Len(f) <= MaxBuf, NEW b2, NEW i2, c.fn = "readn" => b2 = <<>>
    PROVE  C!Got(c, f) = S!Got(c, f) /\ Fetches(S!Got(c, f), b2, i2)
<1>1. c.fn \in {"readnb", "readn"} /\ c.n = MaxBuf /\ S!Limit(c) = MaxBuf
  BY DEF Fetches, S!Limit
<1>2. PICK g : g = S!Got(c, f)
  OBVIOUS
<1>3. GotBytes(c, f, g) /\ C!Got(c, f) = g
  BY <1>2, Gets
<1>4. Len(g.data) = Len(c.data) + Len(f) /\ Len(c.data) \in Nat /\ Len(f) \in Nat \ {0}
  <2>1. g.data = c.data \o f /\ c.data \in Seq(Byte)
    BY <1>3, Fields DEF GotBytes
  <2>2. Len(c.data \o f) = Len(c.data) + Len(f)
    BY <2>1, Joins
  <2>3. Len(c.data) \in Nat /\ Len(f) \in Nat \ {0}
    BY <2>1, LenProperties, EmptySeq
  <2> QED
    BY <2>1, <2>2, <2>3
<1>5. g.done <=> Len(g.data) = MaxBuf
  BY <1>1, <1>3 DEF GotBytes
<1>6. g.done => g.ret > 0
  BY <1>3, <1>4 DEF GotBytes
<1>7. g.fn = c.fn /\ g.n = c.n /\ g.done \in BOOLEAN /\ g.ret \in Int /\ MaxBuf \in Int
  BY <1>3, Fields, TinyAssumption DEF GotBytes
<1>8. Fetches(g, b2, i2)
  BY <1>1, <1>4, <1>5, <1>6, <1>7 DEF Fetches
<1> QED
  BY <1>2, <1>3, <1>8

\* The steps of the client within a call, by what they do.
LEMMA ClientIOSteps ==
    ASSUME ControlInv, ClientIO
    PROVE  /\ UNCHANGED <<serverVars, clientVars, serverEnd, closed>>
           /\ ClientReadStep \/ ClientErrorStep \/ ClientWriteStep \/ ClientLoseStep
<1> USE DEF ControlInv, TypeOK
<1>1. UNCHANGED <<serverVars, clientVars, serverEnd, closed>> /\ cpc \in {"send", "rest", "recv"}
  BY DEF ClientIO
<1>1a. /\ serverClosed' = serverClosed
       /\ cpc \in {"send", "rest"} => ccall.fn = "writen"
       /\ cpc = "recv" => Fetches(ccall, cbuf, toClient) /\ ccall.fn \in {"readnb", "readn"}
  BY <1>1 DEF closed, ClientCallInv, Fetches
<1>2. CASE C!Refill
  <2>1. ~ccall.done /\ cpc = "recv" /\ cbuf = <<>> /\ ccall.fn = "readnb"
    BY <1>1, <1>1a, <1>2 DEF C!Refill, C!Buffered
  <2>2. PICK k \in 1 .. C!Min({RioBufSize, Len(toClient)}) :
          cbuf' = C!First(toClient, k) /\ toClient' = C!Rest(toClient, k)
    BY <1>2 DEF C!Refill
  <2>3. k \in 1 .. Len(toClient)
    <3>1. RioBufSize \in Int /\ Len(toClient) \in Int
      BY TinyAssumption, LenProperties
    <3>2. /\ C!Min({RioBufSize, Len(toClient)}) <= Len(toClient)
          /\ C!Min({RioBufSize, Len(toClient)}) \in Int
      BY <3>1, MinOfTwo
    <3> QED
      BY <3>1, <3>2
  <2>4. ccall' = ccall /\ toServer' = toServer /\ rstToClient' = rstToClient
    BY <1>2 DEF C!Refill
  <2>5. cbuf' = S!First(toClient, k) /\ toClient' = S!Rest(toClient, k)
    <3>1. k \in 0 .. Len(toClient)
      BY <2>3
    <3> QED
      BY <3>1, <2>2, Split
  <2>6. ReadStep(ccall, cbuf, toClient, ccall', cbuf', toClient')
    BY <2>1, <2>3, <2>4, <2>5, RefillStep
  <2>7. Fetches(ccall', cbuf', toClient')
    BY <1>1a, <2>1, <2>4 DEF Fetches
  <2> QED
    BY <1>1, <2>1, <2>4, <2>6, <2>7 DEF ClientReadStep
<1>3. CASE C!Readn
  <2>1. ~ccall.done /\ cpc = "recv"
    BY <1>1, <1>1a, <1>3 DEF C!Readn, C!Reading, C!Buffered
  <2>0. cbuf = <<>>
    BY <1>1a, <1>3, <2>1 DEF C!Readn, C!Buffered, Fetches
  <2>2. PICK k \in 1 .. C!Min({ccall.n - Len(ccall.data), Len(toClient)}) :
          ccall' = C!Got(ccall, C!First(toClient, k)) /\ toClient' = C!Rest(toClient, k)
    BY <1>3 DEF C!Readn
  <2>3. k \in 1 .. Len(toClient) /\ Len(ccall.data) + k <= MaxBuf /\ ccall.n = MaxBuf
    <3>1. ccall.n = MaxBuf /\ Len(ccall.data) \in Int /\ Len(toClient) \in Int /\ MaxBuf \in Int
      BY <2>1, <1>1a, TinyAssumption, LenProperties, Fields DEF Fetches
    <3>2. /\ C!Min({ccall.n - Len(ccall.data), Len(toClient)}) <= Len(toClient)
          /\ C!Min({ccall.n - Len(ccall.data), Len(toClient)}) <= ccall.n - Len(ccall.data)
          /\ C!Min({ccall.n - Len(ccall.data), Len(toClient)}) \in Int
      <4>1. ccall.n - Len(ccall.data) \in Int
        BY <3>1
      <4> QED
        BY <3>1, <4>1, MinOfTwo
    <3> QED
      BY <3>1, <3>2
  <2>4. toServer' = toServer /\ rstToClient' = rstToClient /\ cbuf' = cbuf
    BY <1>3 DEF C!Readn
  <2>5. PICK f : f = S!First(toClient, k)
    OBVIOUS
  <2>6. C!First(toClient, k) = f /\ C!Rest(toClient, k) = S!Rest(toClient, k)
        /\ f \in Seq(Byte) /\ Len(f) = k /\ f # <<>>
    <3>1. k \in 0 .. Len(toClient) /\ k > 0
      BY <2>3
    <3>2. /\ C!First(toClient, k) = f /\ C!Rest(toClient, k) = S!Rest(toClient, k)
          /\ f \in Seq(Byte) /\ Len(f) = k
      BY <3>1, <2>5, Split
    <3> QED
      BY <3>1, <3>2, EmptySeq
  <2>7. C!Got(ccall, f) = S!Got(ccall, f) /\ Fetches(S!Got(ccall, f), cbuf', toClient')
    <3>1. Fetches(ccall, cbuf, toClient) /\ Len(ccall.data) + Len(f) <= MaxBuf /\ cbuf' = <<>>
      BY <1>1a, <2>0, <2>1, <2>3, <2>4, <2>6
    <3> QED
      BY <3>1, <2>1, <2>6, FetchGrows
  <2>8. ReadStep(ccall, cbuf, toClient,
                 S!Got(ccall, S!First(toClient, k)), cbuf, S!Rest(toClient, k))
    BY <2>1, <2>3, <2>0, ReadnStep
  <2>9. ccall' = S!Got(ccall, S!First(toClient, k)) /\ toClient' = S!Rest(toClient, k)
    BY <2>2, <2>5, <2>6, <2>7
  <2>10. Fetches(ccall', cbuf', toClient')
    BY <2>5, <2>7, <2>9
  <2> QED
    BY <1>1, <2>1, <2>4, <2>8, <2>9, <2>10 DEF ClientReadStep
<1>4. CASE C!AtEof
  <2>1. ~ccall.done /\ cpc = "recv" /\ serverClosed /\ cbuf = <<>> /\ toClient = <<>>
    BY <1>1, <1>1a, <1>4 DEF C!AtEof, C!Reading, C!Buffered
  <2>2. /\ ccall' = C!Return(ccall, Len(ccall.data))
        /\ UNCHANGED <<cbuf, toServer, toClient, rstToClient>>
    BY <1>4 DEF C!AtEof
  <2>3. Len(ccall.data) \in Int /\ ccall.data \in Seq(Byte)
    BY Fields
  <2>4. /\ ccall' = S!Return(ccall, Len(ccall.data))
        /\ ccall'.fn = ccall.fn /\ ccall'.n = ccall.n /\ ccall'.data = ccall.data /\ ccall'.done
        /\ ccall'.ret = Len(ccall.data)
    <3>1. C!Return(ccall, Len(ccall.data)) = S!Return(ccall, Len(ccall.data))
      BY <2>3, Returns
    <3>2. /\ S!Return(ccall, Len(ccall.data)).fn = ccall.fn
          /\ S!Return(ccall, Len(ccall.data)).n = ccall.n
          /\ S!Return(ccall, Len(ccall.data)).data = ccall.data
          /\ S!Return(ccall, Len(ccall.data)).done
          /\ S!Return(ccall, Len(ccall.data)).ret = Len(ccall.data)
      BY <2>3, Returns
    <3> QED
      BY <3>1, <3>2, <2>2
  <2>5. ReadStep(ccall, cbuf, toClient, ccall', cbuf', toClient')
    BY <2>1, <2>2, <2>4, EofStep
  <2>6. ccall'.ret = 0 => ccall'.data = <<>>
    BY <2>3, <2>4, EmptySeq
  <2>7. Fetches(ccall', cbuf', toClient')
    BY <1>1a, <2>1, <2>2, <2>4, <2>6 DEF Fetches
  <2> QED
    BY <1>1, <2>1, <2>2, <2>5, <2>7 DEF ClientReadStep
<1>5. CASE C!ReadError
  <2>1. /\ ~ccall.done /\ cpc = "recv" /\ cbuf = <<>> /\ toClient = <<>>
        /\ rstToClient = "reset" /\ serverClosed
    BY <1>1, <1>1a, <1>5 DEF C!ReadError, C!Reading, C!Buffered, EndsInv
  <2>2. /\ ccall' = C!Return(ccall, -1) /\ rstToClient' = "broken"
        /\ UNCHANGED <<cbuf, toServer, toClient>>
    BY <1>5 DEF C!ReadError
  <2>3. -1 \in Int /\ ccall \in CallType
    OBVIOUS
  <2>4. /\ ccall' \in CallType /\ ccall'.fn = ccall.fn /\ ccall'.n = ccall.n /\ ccall'.done
        /\ ccall'.ret = -1
    <3>1. PICK r \in Int : r = -1
      OBVIOUS
    <3>2. C!Return(ccall, r) = S!Return(ccall, r)
      BY Returns
    <3>3. /\ S!Return(ccall, r) \in CallType /\ S!Return(ccall, r).fn = ccall.fn
          /\ S!Return(ccall, r).n = ccall.n /\ S!Return(ccall, r).done
          /\ S!Return(ccall, r).ret = r
      BY Returns
    <3> QED
      BY <3>1, <3>2, <3>3, <2>2
  <2>5. Fetches(ccall', cbuf', toClient')
    BY <1>1a, <2>1, <2>2, <2>4 DEF Fetches
  <2> QED
    BY <1>1, <2>1, <2>2, <2>4, <2>5 DEF ClientErrorStep, net, Reset
<1>6. CASE C!Deliver
  <2>1. ~ccall.done /\ cpc = "recv" /\ cbuf # <<>>
    BY <1>1, <1>1a, <1>6 DEF C!Deliver, C!Buffered
  <2>2. /\ ccall' = C!Got(ccall, C!First(cbuf, Takes(ccall, cbuf)))
        /\ cbuf' = C!Rest(cbuf, Takes(ccall, cbuf))
        /\ UNCHANGED <<toServer, toClient, rstToClient>>
    BY <1>6, TakenIs DEF C!Deliver
  <2>3. PICK k : k = Takes(ccall, cbuf)
    OBVIOUS
  <2>4. k \in 1 .. Len(cbuf) /\ Len(ccall.data) + k <= MaxBuf
    <3>1. S!Limit(ccall) = MaxBuf /\ Len(ccall.data) < S!Limit(ccall)
      BY <1>1a, <2>1 DEF Fetches, S!Limit
    <3> QED
      BY <3>1, <2>1, <2>3, TakesSome
  <2>5. PICK f : f = S!First(cbuf, k)
    OBVIOUS
  <2>6. C!First(cbuf, k) = f /\ C!Rest(cbuf, k) = S!Rest(cbuf, k)
        /\ f \in Seq(Byte) /\ Len(f) = k /\ f # <<>>
    <3>1. k \in 0 .. Len(cbuf) /\ k > 0
      BY <2>4
    <3>2. /\ C!First(cbuf, k) = f /\ C!Rest(cbuf, k) = S!Rest(cbuf, k)
          /\ f \in Seq(Byte) /\ Len(f) = k
      BY <3>1, <2>5, Split
    <3> QED
      BY <3>1, <3>2, EmptySeq
  <2>7. C!Got(ccall, f) = S!Got(ccall, f) /\ Fetches(S!Got(ccall, f), cbuf', toClient')
    <3>1. /\ Fetches(ccall, cbuf, toClient) /\ Len(ccall.data) + Len(f) <= MaxBuf
          /\ ccall.fn # "readn"
      BY <1>1a, <2>1, <2>4, <2>6 DEF Fetches
    <3> QED
      BY <3>1, <2>1, <2>6, FetchGrows
  <2>8. ReadStep(ccall, cbuf, toClient, S!Got(ccall, S!First(cbuf, k)), S!Rest(cbuf, k), toClient)
    BY <2>1, <2>4, DeliverStep
  <2> QED
    BY <1>1, <2>1, <2>2, <2>3, <2>5, <2>6, <2>7, <2>8 DEF ClientReadStep
<1>7. CASE C!Write
  <2>1. ~ccall.done /\ cpc \in {"send", "rest"} /\ ~serverClosed
    BY <1>1, <1>1a, <1>7 DEF C!Write, C!Writing
  <2>2. PICK k \in 1 .. C!Min({Len(ccall.data), SockBuf - Len(toServer)}) :
          toServer' = toServer \o C!First(ccall.data, k) /\ ccall' = C!Written(k)
    BY <1>7 DEF C!Write
  <2>3. k \in 1 .. Len(ccall.data)
    <3>1. Len(ccall.data) \in Int /\ SockBuf - Len(toServer) \in Int
      BY TinyAssumption, LenProperties, Fields
    <3>2. /\ C!Min({Len(ccall.data), SockBuf - Len(toServer)}) <= Len(ccall.data)
          /\ C!Min({Len(ccall.data), SockBuf - Len(toServer)}) \in Int
      BY <3>1, MinOfTwo
    <3> QED
      BY <3>1, <3>2
  <2>4. ccall' = Wrote(ccall, k)
    BY <2>2, WrittenIs
  <2>5. C!First(ccall.data, k) = S!First(ccall.data, k)
    <3>1. k \in 0 .. Len(ccall.data) /\ ccall.data \in Seq(Byte)
      BY <2>3, Fields
    <3> QED
      BY <3>1, Split
  <2>6. WriteStep(ccall, toServer, ccall', toServer')
    BY <2>1, <2>2, <2>3, <2>4, <2>5, WroteStep
  <2>7. UNCHANGED <<cbuf, toClient, rstToClient>>
    BY <1>7 DEF C!Write
  <2> QED
    BY <1>1, <2>1, <2>6, <2>7 DEF ClientWriteStep
<1>8. CASE C!WriteLost
  <2>1. ~ccall.done /\ cpc \in {"send", "rest"} /\ serverClosed
    BY <1>1, <1>1a, <1>8 DEF C!WriteLost, C!Writing
  <2>2. PICK k \in 1 .. C!Min({Len(ccall.data), SockBuf}) : ccall' = C!Written(k)
    BY <1>8 DEF C!WriteLost
  <2>3. k \in 1 .. Len(ccall.data)
    <3>1. Len(ccall.data) \in Int /\ SockBuf \in Int
      BY TinyAssumption, Fields
    <3>2. /\ C!Min({Len(ccall.data), SockBuf}) <= Len(ccall.data)
          /\ C!Min({Len(ccall.data), SockBuf}) \in Int
      BY <3>1, MinOfTwo
    <3> QED
      BY <3>1, <3>2
  <2>4. ccall' = Wrote(ccall, k)
    BY <2>2, WrittenIs
  <2>5. ccall' \in CallType /\ ccall'.fn = ccall.fn
    BY <2>1, <2>3, <2>4, Wrotes
  <2>6. ccall.data # <<>>
    BY <2>3, EmptySeq
  <2>7. UNCHANGED <<cbuf, toServer, toClient>> /\ rstToClient' \in Reset
    BY <1>8 DEF C!WriteLost, Reset
  <2> QED
    BY <1>1, <1>1a, <2>1, <2>5, <2>6, <2>7 DEF ClientLoseStep, net
<1>9. CASE C!WriteReset \/ C!PipeError
  <2>1. cpc \in {"send", "rest"} /\ rstToClient # "no" /\ serverClosed
    BY <1>1, <1>1a, <1>9 DEF C!WriteReset, C!PipeError, C!BrokenPipe, C!Writing, EndsInv
  <2>2. /\ ccall' = C!Return(ccall, -1) /\ rstToClient' \in Reset
        /\ UNCHANGED <<cbuf, toServer, toClient>>
    BY <1>9 DEF C!WriteReset, C!PipeError, Reset
  <2>3. -1 \in Int /\ ccall \in CallType
    OBVIOUS
  <2>4. ccall' \in CallType /\ ccall'.fn = ccall.fn
    <3>1. PICK r \in Int : r = -1
      OBVIOUS
    <3>2. C!Return(ccall, r) = S!Return(ccall, r)
      BY Returns
    <3>3. /\ S!Return(ccall, r) \in CallType /\ S!Return(ccall, r).fn = ccall.fn
          /\ S!Return(ccall, r).n = ccall.n /\ S!Return(ccall, r).done
          /\ S!Return(ccall, r).ret = r
      BY Returns
    <3> QED
      BY <3>1, <3>2, <3>3, <2>2
  <2> QED
    BY <1>1, <1>1a, <2>1, <2>2, <2>4 DEF ClientLoseStep, net
<1> QED
  BY <1>1, <1>2, <1>3, <1>4, <1>5, <1>6, <1>7, <1>8, <1>9 DEF ClientIO, C!Read

-----------------------------------------------------------------------------
(* Types.                                                                  *)

\* The pieces of the responses are sequences of bytes.
LEMMA Pieces ==
    /\ StaticHead \in Seq(Byte) /\ StaticBody \in Seq(Byte) /\ DynamicHead \in Seq(Byte)
    /\ CgiOutput \in Seq(Byte) /\ ErrorBody \in Seq(Byte) /\ <<"L">> \in Seq(Byte)
    /\ <<>> \in Seq(Byte)
    /\ \A code \in Byte : <<code>> \in Seq(Byte)
<1>1. \A a, b \in Byte : <<a, b>> \in Seq(Byte) /\ <<a>> \in Seq(Byte)
  OBVIOUS
<1>2. "H" \in Byte /\ "B" \in Byte /\ "D" \in Byte /\ "G" \in Byte /\ "E" \in Byte /\ "L" \in Byte
  BY DEF Byte
<1>3. <<>> \in Seq(Byte)
  BY EmptySeq
<1> QED
  BY <1>1, <1>2, <1>3 DEF StaticHead, StaticBody, DynamicHead, CgiOutput, ErrorBody

\* A request is its line and the rest.
LEMMA RequestType ==
    ASSUME NEW r \in Request
    PROVE  /\ r \in Seq(Byte) /\ Len(r) \in Nat /\ Len(r) > 1
           /\ Line1(r) = S!First(r, 2) /\ S!First(r, 2) \in Seq(Byte) /\ Len(S!First(r, 2)) = 2
           /\ C!Rest(r, 2) = S!Rest(r, 2) /\ S!Rest(r, 2) \in Seq(Byte)
           /\ S!First(r, 2) \o S!Rest(r, 2) = r
<1>1. r \in Seq(Byte) /\ Len(r) > 1
  <2>1. r \in Seq(RequestByte) /\ Len(r) > 1 /\ RequestByte \subseteq Byte
    BY TinyAssumption DEF Byte
  <2> QED
    BY <2>1, SeqMonotonic
<1>2. Len(r) \in Nat
  BY <1>1, LenProperties
<1>3. 2 \in 0 .. Len(r)
  BY <1>1, <1>2
<1>4. Line1(r) = S!First(r, 2)
  BY DEF Line1, S!First
<1>5. /\ S!First(r, 2) \in Seq(Byte) /\ Len(S!First(r, 2)) = 2
      /\ C!Rest(r, 2) = S!Rest(r, 2) /\ S!Rest(r, 2) \in Seq(Byte)
      /\ S!First(r, 2) \o S!Rest(r, 2) = r
  BY <1>1, <1>3, Split
<1> QED
  BY <1>1, <1>2, <1>4, <1>5

\* The server begins to write p, and what it writes next is in rest.
Says(p, rest) ==
    /\ pc' = "write" /\ respond' = rest
    /\ scall' \in CallType /\ scall'.fn = "writen" /\ scall'.data = p /\ ~scall'.done

\* A response of two pieces begins with the first.
LEMMA WritingTwo ==
    ASSUME NEW p \in Seq(Byte), NEW q \in Seq(Byte), Writing(<<p, q>>)
    PROVE  Says(p, <<q>>)
<1>1. <<p, q>>[1] = p /\ Tail(<<p, q>>) = <<q>>
  OBVIOUS
<1>2. Len(p) \in Nat /\ "writen" \in Fns
  BY LenProperties DEF Fns
<1>3. pc' = "write" /\ respond' = <<q>> /\ scall' = S!Call("writen", Len(p), p)
  BY <1>1 DEF Writing
<1>4. Fresh(S!Call("writen", Len(p), p), "writen", Len(p), p)
  BY <1>2, MakeCall
<1> QED
  BY <1>3, <1>4 DEF Says, Fresh

\* The last piece of a response.
LEMMA WritingOne ==
    ASSUME NEW p \in Seq(Byte), Writing(<<p>>)
    PROVE  Says(p, <<>>)
<1>1. <<p>>[1] = p /\ Tail(<<p>>) = <<>>
  OBVIOUS
<1>2. Len(p) \in Nat /\ "writen" \in Fns
  BY LenProperties DEF Fns
<1>3. pc' = "write" /\ respond' = <<>> /\ scall' = S!Call("writen", Len(p), p)
  BY <1>1 DEF Writing
<1>4. Fresh(S!Call("writen", Len(p), p), "writen", Len(p), p)
  BY <1>2, MakeCall
<1> QED
  BY <1>3, <1>4 DEF Says, Fresh

\* clienterror begins with the status.
LEMMA ErrorSays ==
    ASSUME NEW code \in Byte, Error(code)
    PROVE  Says(<<code>>, <<ErrorBody>>)
BY Pieces, WritingTwo DEF Error

\* The server begins to read a line.
LEMMA LineCall ==
    ASSUME NEW gone
    PROVE  /\ S!Call("readlineb", MaxLine, <<>>) \in CallType
           /\ S!Call("readlineb", MaxLine, <<>>).data = <<>>
           /\ ReadsLine(S!Call("readlineb", MaxLine, <<>>), gone)
<1>1. MaxLine \in Nat /\ MaxLine > 1 /\ "readlineb" \in Fns /\ <<>> \in Seq(Byte)
  BY TinyAssumption, EmptySeq DEF Fns
<1>2. PICK c : c = S!Call("readlineb", MaxLine, <<>>)
  OBVIOUS
<1>3. Fresh(c, "readlineb", MaxLine, <<>>)
  BY <1>1, <1>2, MakeCall
<1>4. Len(c.data) = 0
  BY <1>3, EmptySeq DEF Fresh
<1>5. ReadsLine(c, gone)
  BY <1>1, <1>3, <1>4 DEF ReadsLine, Fresh
<1> QED
  BY <1>2, <1>3, <1>5 DEF Fresh

\* The client begins to read.
LEMMA FetchCall ==
    ASSUME NEW fn \in {"readnb", "readn"}, NEW b, NEW i, fn = "readn" => b = <<>>
    PROVE  /\ C!Call(fn, MaxBuf, <<>>) \in CallType
           /\ C!Call(fn, MaxBuf, <<>>).data = <<>> /\ ~C!Call(fn, MaxBuf, <<>>).done
           /\ C!Call(fn, MaxBuf, <<>>).fn = fn
           /\ Fetches(C!Call(fn, MaxBuf, <<>>), b, i)
<1>1. MaxBuf \in Nat /\ MaxBuf > 0 /\ fn \in Fns /\ <<>> \in Seq(Byte)
  BY TinyAssumption, EmptySeq DEF Fns
<1>2. PICK c : c = C!Call(fn, MaxBuf, <<>>)
  OBVIOUS
<1>3. Fresh(c, fn, MaxBuf, <<>>)
  BY <1>1, <1>2, MakeCall
<1>4. Len(c.data) = 0
  BY <1>3, EmptySeq DEF Fresh
<1>5. Fetches(c, b, i)
  BY <1>1, <1>3, <1>4 DEF Fetches, Fresh
<1> QED
  BY <1>2, <1>3, <1>5 DEF Fresh

\* The client begins to write.
LEMMA SendCall ==
    ASSUME NEW d \in Seq(Byte), NEW k \in Nat
    PROVE  /\ C!Call("writen", k, d) \in CallType
           /\ C!Call("writen", k, d).fn = "writen" /\ C!Call("writen", k, d).data = d
           /\ ~C!Call("writen", k, d).done
<1>1. "writen" \in Fns
  BY DEF Fns
<1>2. PICK c : c = C!Call("writen", k, d)
  OBVIOUS
<1>3. Fresh(c, "writen", k, d)
  BY <1>1, <1>2, MakeCall
<1> QED
  BY <1>2, <1>3 DEF Fresh

\* close() leaves what was sent, or its beginning.
LEMMA CloseKeeps ==
    ASSUME NEW unread \in Seq(Byte), NEW sent \in Seq(Byte), NEW sent2, NEW rst \in Reset, NEW rst2,
           IF unread = <<>> THEN sent2 = sent /\ rst2 = rst
           ELSE /\ sent2 \in {SubSeq(sent, 1, k) : k \in 0 .. Len(sent)}
                /\ rst2 = IF rst = "no" THEN "reset" ELSE rst
    PROVE  /\ sent2 \in Seq(Byte) /\ rst2 \in Reset
           /\ \E k \in 0 .. Len(sent) : sent2 = S!First(sent, k)
           /\ unread = <<>> => sent2 = sent /\ rst2 = rst
<1>1. Len(sent) \in 0 .. Len(sent)
  BY LenProperties
<1>2. S!First(sent, Len(sent)) = sent
  BY SubSeqFull DEF S!First
<1>3. \E k \in 0 .. Len(sent) : sent2 = S!First(sent, k)
  BY <1>1, <1>2 DEF S!First
<1>4. sent2 \in Seq(Byte)
  BY <1>3, Split
<1> QED
  BY <1>3, <1>4 DEF Reset

\* The steps of the server's program.
Responds == {<<>>, <<ErrorBody>>, <<StaticBody>>, <<CgiOutput>>}
Proceeds ==
    /\ KeepServer /\ UNCHANGED sbuf
    /\ \/ \E p \in Seq(Byte), rest \in Responds : Says(p, rest)
       \/ /\ pc' \in {"reqline", "headers"} /\ scall' = S!Call("readlineb", MaxLine, <<>>)
          /\ UNCHANGED respond
       \/ pc' \in {"close", "wait"} /\ scall' = S!NoCall /\ respond' = <<>>
       \/ pc' \in {"uri", "close"} /\ UNCHANGED <<scall, respond>>

\* The steps of the server's program keep the connection and its bytes.
LEMMA ServerProceeds ==
    ASSUME ControlInv,
           RequestLine \/ Headers \/ Respond \/ NextPiece \/ FileFails \/ Written \/ Fork \/ Reap
    PROVE  /\ Proceeds /\ child' \in Seq(Byte) /\ cut' \in BOOLEAN /\ UNCHANGED fds
           /\ pc \in {"reqline", "headers", "uri", "write", "wait"} /\ pc' # "reqline"
<1> USE DEF ControlInv, TypeOK
<1>1. \A code \in {"400", "403", "404", "501"} : Error(code) => Says(<<code>>, <<ErrorBody>>)
  BY ErrorSays DEF Byte
<1>2. \A code \in {"400", "403", "404", "501"} :
         Error(code) => \E p \in Seq(Byte), rest \in Responds : Says(p, rest)
  <2> SUFFICES ASSUME NEW code \in {"400", "403", "404", "501"}, Error(code)
               PROVE  \E p \in Seq(Byte), rest \in Responds : Says(p, rest)
    OBVIOUS
  <2>1. <<code>> \in Seq(Byte)
    BY Pieces DEF Byte
  <2>2. <<ErrorBody>> \in Responds
    BY DEF Responds
  <2> QED
    BY <1>1, <2>1, <2>2
<1>3. Closing => pc' \in {"close", "wait"} /\ scall' = S!NoCall /\ respond' = <<>>
  BY DEF Closing
<1>4. ASSUME NEW place \in {"reqline", "headers"}, Reading(place)
      PROVE  /\ pc' \in {"reqline", "headers"} /\ scall' = S!Call("readlineb", MaxLine, <<>>)
             /\ UNCHANGED respond
  BY <1>4 DEF Reading
<1>5. CASE RequestLine
  <2>1. KeepServer /\ UNCHANGED <<sbuf, child, fds, cut>> /\ pc = "reqline"
    BY <1>5 DEF RequestLine
  <2>2. Closing \/ Reading("headers") \/ Error("501") \/ Error("400")
    BY <1>5 DEF RequestLine
  <2>3. pc' # "reqline"
    BY <2>2 DEF Closing, Reading, Error, Writing
  <2>4. Proceeds
    BY <1>2, <1>3, <1>4, <2>1, <2>2 DEF Proceeds
  <2> QED
    BY <2>1, <2>3, <2>4
<1>6. CASE Headers
  <2>1. KeepServer /\ UNCHANGED <<sbuf, child, fds, cut>> /\ pc = "headers"
    BY <1>6 DEF Headers
  <2>2. \/ Closing \/ Reading("headers") \/ Error("400")
        \/ pc' = "uri" /\ UNCHANGED <<scall, respond>>
    BY <1>6 DEF Headers
  <2>3. pc' # "reqline"
    BY <2>2 DEF Closing, Reading, Error, Writing
  <2>4. Proceeds
    BY <1>2, <1>3, <1>4, <2>1, <2>2 DEF Proceeds
  <2> QED
    BY <2>1, <2>3, <2>4
<1>7. CASE Respond
  <2>1. KeepServer /\ UNCHANGED <<sbuf, child, fds, cut>> /\ pc = "uri"
    BY <1>7 DEF Respond
  <2>2. \/ Error("400") \/ Error("404") \/ Error("403")
        \/ Writing(<<StaticHead, StaticBody>>) \/ Writing(<<DynamicHead, CgiOutput>>)
    BY <1>7 DEF Respond
  <2>3. pc' # "reqline"
    BY <2>2 DEF Error, Writing
  <2>4. Writing(<<StaticHead, StaticBody>>) => Says(StaticHead, <<StaticBody>>)
    BY Pieces, WritingTwo
  <2>5. Writing(<<DynamicHead, CgiOutput>>) => Says(DynamicHead, <<CgiOutput>>)
    BY Pieces, WritingTwo
  <2>6. \E p \in Seq(Byte), rest \in Responds : Says(p, rest)
    <3>1. StaticHead \in Seq(Byte) /\ DynamicHead \in Seq(Byte)
      BY Pieces
    <3>2. <<StaticBody>> \in Responds /\ <<CgiOutput>> \in Responds
      BY DEF Responds
    <3> QED
      BY <1>2, <2>2, <2>4, <2>5, <3>1, <3>2
  <2>7. Proceeds
    BY <2>1, <2>6 DEF Proceeds
  <2> QED
    BY <2>1, <2>3, <2>7
<1>8. CASE NextPiece
  <2>1. /\ KeepServer /\ UNCHANGED <<sbuf, child, fds, cut>>
        /\ pc = "write" /\ respond # <<>> /\ Writing(respond)
    BY <1>8 DEF NextPiece, GoesOn
  <2>2. PICK p \in Seq(Byte) : respond = <<p>>
    BY <2>1, Pieces
  <2>3. Says(p, <<>>)
    BY <2>1, <2>2, WritingOne
  <2>4. Proceeds /\ pc' # "reqline"
    BY <2>1, <2>3 DEF Proceeds, Responds, Says
  <2> QED
    BY <2>1, <2>4
<1>9. CASE FileFails \/ Written
  <2>1. KeepServer /\ UNCHANGED <<sbuf, child, fds>> /\ pc = "write" /\ Closing /\ cut' \in BOOLEAN
    BY <1>9 DEF FileFails, Written
  <2>2. Proceeds
    BY <1>3, <2>1 DEF Proceeds
  <2> QED
    BY <2>1, <2>2 DEF Closing
<1>10. CASE Fork
  <2>1. /\ KeepServer /\ UNCHANGED <<sbuf, fds>>
        /\ pc = "write" /\ scall' = S!NoCall /\ respond' = <<>>
    BY <1>10 DEF Fork
  <2>2. /\ pc' \in {"close", "wait"} /\ cut' \in BOOLEAN
        /\ child' \in {CgiOutput, <<>>, <<"L">>, child}
    BY <1>10 DEF Fork
  <2>3. child' \in Seq(Byte)
    BY <2>2, Pieces
  <2> QED
    BY <2>1, <2>2, <2>3 DEF Proceeds
<1>11. CASE Reap
  BY <1>11 DEF Reap, Proceeds
<1> QED
  BY <1>5, <1>6, <1>7, <1>8, <1>9, <1>10, <1>11

Program == RequestLine \/ Headers \/ Respond \/ NextPiece \/ FileFails \/ Written \/ Fork \/ Reap

\* Before the first connection.
LEMMA InitControl == Init => ControlInv /\ cpc = "idle" /\ clientClosed /\ fds = {} /\ pc = "start"
<1> SUFFICES ASSUME Init
             PROVE  ControlInv /\ cpc = "idle" /\ clientClosed /\ fds = {} /\ pc = "start"
  OBVIOUS
<1>1. scall \in CallType /\ ccall \in CallType
  BY NoCallIs DEF Init
<1>2. <<>> \in Seq(Byte) /\ <<>> \in Seq(Request)
  BY EmptySeq
<1>3. TypeOK
  BY <1>1, <1>2 DEF Init, TypeOK, Reset
<1>4. EndsInv /\ ServerCallInv /\ ClientCallInv
  BY DEF Init, EndsInv, ServerCallInv, ClientCallInv
<1> QED
  BY <1>3, <1>4 DEF ControlInv, Init

\* The first client of the backlog, and the rest of it.
LEMMA Waiting ==
    ASSUME NEW b \in Seq(Request)
    PROVE  /\ \A r \in Request : Append(b, r) \in Seq(Request)
           /\ b # <<>> => Head(b) \in Request /\ Tail(b) \in Seq(Request)
<1>1. \A r \in Request : Append(b, r) \in Seq(Request)
  BY AppendProperties
<1>2. b # <<>> => Head(b) \in Request /\ Tail(b) \in Seq(Request)
  BY HeadTailProperties
<1> QED
  BY <1>1, <1>2

\* Every step keeps the types.
LEMMA TypeStep ==
    ASSUME ControlInv, [Next]_vars
    PROVE  TypeOK'
<1> USE DEF ControlInv, serverVars, clientVars, clientEnd, serverEnd, net, closed, arrivals
<1>0. TypeOK
  OBVIOUS
<1>1. ASSUME NEW r \in Request, Connect(r) PROVE TypeOK'
  <2>1. Append(backlog, r) \in Seq(Request)
    BY <1>0, Waiting DEF TypeOK
  <2> QED
    BY <1>1, <2>1 DEF Connect, TypeOK
<1>2. CASE ClientIO
  <2>1. UNCHANGED <<serverVars, clientVars, serverEnd, closed>>
    BY <1>2, ClientIOSteps
  <2>2. /\ ccall' \in CallType /\ cbuf' \in Seq(Byte) /\ toServer' \in Seq(Byte)
        /\ toClient' \in Seq(Byte) /\ rstToClient' \in Reset
    BY <1>2, ClientIOSteps DEF ClientReadStep, ClientErrorStep, ClientWriteStep, ClientLoseStep,
       ReadStep, WriteStep, TypeOK
  <2> QED
    BY <2>1, <2>2 DEF TypeOK
<1>3. CASE SendRest
  <2>1. request \in Request
    BY <1>3 DEF SendRest, EndsInv
  <2>2. C!Call("writen", Len(request) - 2, C!Rest(request, 2)) \in CallType
    <3>1. C!Rest(request, 2) \in Seq(Byte) /\ Len(request) - 2 \in Nat
      BY <2>1, RequestType
    <3> QED
      BY <3>1, SendCall
  <2> QED
    BY <1>3, <2>2 DEF SendRest, TypeOK
<1>4. CASE Fetch
  <2>1. ccall' \in CallType
    <3>1. \A fn \in {"readnb", "readn"} : C!Call(fn, MaxBuf, <<>>) \in CallType
      <4> TAKE fn \in {"readnb", "readn"}
      <4>1. MaxBuf \in Nat /\ fn \in Fns /\ <<>> \in Seq(Byte)
        BY TinyAssumption, EmptySeq DEF Fns
      <4>2. /\ Fresh(S!Call(fn, MaxBuf, <<>>), fn, MaxBuf, <<>>)
            /\ C!Call(fn, MaxBuf, <<>>) = S!Call(fn, MaxBuf, <<>>)
        BY <4>1, MakeCall
      <4> QED
        BY <4>2 DEF Fresh
    <3>2. cpc # "rest" => ccall.fn \in {"readnb", "readn"}
      BY <1>4 DEF Fetch, ClientCallInv, Fetches
    <3> QED
      BY <1>4, <3>1, <3>2 DEF Fetch, TypeOK
  <2>2. got' \in Seq(Byte)
    <3>1. ccall.data \in Seq(Byte) /\ got \in Seq(Byte)
      BY Fields DEF TypeOK
    <3>2. got \o ccall.data \in Seq(Byte)
      BY <3>1, Joins
    <3> QED
      BY <1>4, <3>1, <3>2 DEF Fetch
  <2>3. cpc' \in {"recv", "end"}
    BY <1>4 DEF Fetch
  <2> QED
    BY <1>4, <2>1, <2>2, <2>3 DEF Fetch, TypeOK
<1>5. CASE ClientClose
  <2>1. toServer' \in Seq(Byte) /\ rstToServer' \in Reset /\ toClient' \in Seq(Byte)
    <3>1. /\ toClient \in Seq(Byte) /\ toServer \in Seq(Byte) /\ rstToServer \in Reset
          /\ toClient' = <<>> /\ Close(toClient, toServer, rstToServer)
      BY <1>5 DEF ClientClose, TypeOK
    <3>2. toServer' \in Seq(Byte) /\ rstToServer' \in Reset
      BY <3>1, CloseKeeps DEF Close
    <3> QED
      BY <3>1, <3>2, EmptySeq
  <2>2. ccall' \in CallType
    BY <1>5, NoCallIs DEF ClientClose
  <2> QED
    BY <1>5, <2>1, <2>2 DEF ClientClose, TypeOK
<1>6. CASE Refused
  <2>1. Head(backlog) \in Request /\ Tail(backlog) \in Seq(Request)
    BY <1>0, <1>6, Waiting DEF Refused, TypeOK
  <2>2. Head(backlog) \in Seq(Byte) /\ <<>> \in Seq(Byte)
    BY <2>1, RequestType, EmptySeq
  <2> QED
    BY <1>6, <2>1, <2>2 DEF Refused, TypeOK
<1>7. ASSUME NEW o, Listen(o) PROVE TypeOK'
  BY <1>7 DEF Listen, TypeOK
<1>8. CASE Accept
  <2>1. scall' \in CallType /\ sbuf' \in Seq(Byte) /\ <<>> \in Seq(Byte)
    BY <1>8, LineCall, EmptySeq DEF Accept, Readinitb
  <2>2. Head(backlog) \in Request /\ Tail(backlog) \in Seq(Request)
    BY <1>0, <1>8, Waiting DEF Accept, TypeOK
  <2>3. Head(backlog) \in Seq(Byte) /\ Line1(Head(backlog)) \in Seq(Byte)
    BY <2>2, RequestType
  <2>4. C!Call("writen", 2, Line1(Head(backlog))) \in CallType
    BY <2>3, SendCall
  <2>5. n + 1 \in Nat
    BY <1>0 DEF TypeOK
  <2> QED
    BY <1>8, <2>1, <2>2, <2>3, <2>4, <2>5 DEF Accept, TypeOK, Reset
<1>9. CASE ServerIO
  <2>1. UNCHANGED <<serverVars, clientVars, clientEnd, closed>>
    BY <1>9, ServerIOSteps
  <2>2. /\ scall' \in CallType /\ sbuf' \in Seq(Byte) /\ toServer' \in Seq(Byte)
        /\ toClient' \in Seq(Byte) /\ rstToServer' \in Reset
    BY <1>9, ServerIOSteps DEF ServerReadStep, ServerWriteStep, ServerLoseStep,
       ReadStep, WriteStep, TypeOK
  <2> QED
    BY <2>1, <2>2 DEF TypeOK
<1>10. CASE Program
  <2>1. Proceeds /\ child' \in Seq(Byte) /\ cut' \in BOOLEAN
    BY <1>10, ServerProceeds DEF Program
  <2>2. pc' \in {"reqline", "headers", "uri", "write", "wait", "close"}
    BY <2>1 DEF Proceeds, Says
  <2>3. scall' \in CallType
    BY <2>1, LineCall, NoCallIs DEF Proceeds, Says, TypeOK
  <2>4. respond' \in Responds
    BY <2>1 DEF Proceeds, Says, TypeOK, Responds
  <2> QED
    BY <2>1, <2>2, <2>3, <2>4 DEF Proceeds, KeepServer, TypeOK, Responds
<1>11. CASE ServerClose
  <2>1. toClient' \in Seq(Byte) /\ rstToClient' \in Reset /\ toServer' \in Seq(Byte)
    <3>1. /\ toClient \in Seq(Byte) /\ toServer \in Seq(Byte) /\ rstToClient \in Reset
          /\ toServer' = <<>> /\ Close(toServer, toClient, rstToClient)
      BY <1>11 DEF ServerClose, TypeOK
    <3>2. toClient' \in Seq(Byte) /\ rstToClient' \in Reset
      BY <3>1, CloseKeeps DEF Close
    <3> QED
      BY <3>1, <3>2, EmptySeq
  <2> QED
    BY <1>11, <2>1 DEF ServerClose, TypeOK
<1>12. CASE Die
  BY <1>12 DEF Die, TypeOK
<1>13. CASE ChildWrites
  <2>1. child' \in Seq(Byte) /\ toClient' \in Seq(Byte)
    <3>1. CASE clientClosed
      BY <1>13, <3>1, EmptySeq DEF ChildWrites, TypeOK
    <3>2. CASE ~clientClosed
      <4>1. PICK k \in 1 .. Len(child) :
              /\ toClient' = toClient \o SubSeq(child, 1, k)
              /\ child' = SubSeq(child, k + 1, Len(child))
        BY <1>13, <3>2 DEF ChildWrites
      <4>2. k \in 0 .. Len(child) /\ child \in Seq(Byte) /\ toClient \in Seq(Byte)
        BY DEF TypeOK
      <4>3. S!First(child, k) \in Seq(Byte) /\ S!Rest(child, k) \in Seq(Byte)
        BY <4>2, Split
      <4>4. toClient \o S!First(child, k) \in Seq(Byte)
        BY <4>2, <4>3, Joins
      <4> QED
        BY <4>1, <4>3, <4>4 DEF S!First, S!Rest
    <3> QED
      BY <3>1, <3>2 DEF TypeOK
  <2> QED
    BY <1>13, <2>1 DEF ChildWrites, TypeOK
<1>14. CASE UNCHANGED vars
  BY <1>14 DEF vars, TypeOK
<1> QED
  BY <1>1, <1>2, <1>3, <1>4, <1>5, <1>6, <1>7, <1>8, <1>9, <1>10, <1>11, <1>12, <1>13, <1>14
     DEF Next, Client, Server, Program

-----------------------------------------------------------------------------
(* Where the two ends are.                                                 *)

\* Every step keeps the two ends where they may be.
LEMMA EndsStep ==
    ASSUME ControlInv, [Next]_vars
    PROVE  EndsInv'
<1> USE DEF ControlInv, serverVars, clientVars, clientEnd, serverEnd, net, closed, arrivals
<1>0. TypeOK /\ EndsInv /\ ServerCallInv /\ ClientCallInv
  OBVIOUS
<1>1. ASSUME NEW r \in Request, Connect(r) PROVE EndsInv'
  BY <1>0, <1>1 DEF Connect, EndsInv
<1>2. CASE ClientIO
  <2>1. UNCHANGED <<serverVars, clientVars, serverEnd, closed>>
    BY <1>2, ClientIOSteps
  <2>2. rstToClient' = rstToClient \/ serverClosed
    BY <1>0, <1>2, ClientIOSteps
       DEF ClientReadStep, ClientErrorStep, ClientWriteStep, ClientLoseStep, EndsInv
  <2> QED
    BY <1>0, <2>1, <2>2 DEF EndsInv
<1>3. CASE SendRest
  BY <1>0, <1>3 DEF SendRest, EndsInv
<1>4. CASE Fetch
  <2>1. cpc' = "recv" \/ (cpc' = "end" /\ serverClosed)
    <3>1. CASE cpc = "rest"
      BY <1>4, <3>1 DEF Fetch
    <3>2. CASE cpc # "rest"
      <4>1. cpc = "recv" /\ ccall.done /\ Fetches(ccall, cbuf, toClient) /\ ccall.ret \in Int
        BY <1>0, <1>4, <3>2, Fields DEF Fetch, ClientCallInv, TypeOK
      <4>2. CASE ccall.ret > 0
        BY <1>4, <3>2, <4>1, <4>2 DEF Fetch
      <4>3. CASE ~(ccall.ret > 0)
        BY <1>4, <3>2, <4>1, <4>3 DEF Fetch, Fetches
      <4> QED
        BY <4>2, <4>3
    <3> QED
      BY <3>1, <3>2
  <2>2. /\ UNCHANGED <<serverVars, request, gaveUp, rstToClient, serverEnd, closed>>
        /\ cpc \in {"rest", "recv"}
    BY <1>4 DEF Fetch
  <2> QED
    BY <1>0, <2>1, <2>2 DEF EndsInv
<1>5. CASE ClientClose
  BY <1>0, <1>5 DEF ClientClose, EndsInv, TypeOK
<1>6. CASE Refused
  <2>1. Head(backlog) \in Request
    BY <1>0, <1>6, Waiting DEF Refused, TypeOK
  <2>2. pc = "dead" /\ clientClosed
    BY <1>0, <1>6 DEF Refused, EndsInv
  <2> QED
    BY <1>0, <1>6, <2>1, <2>2 DEF Refused, EndsInv
<1>7. ASSUME NEW o, Listen(o) PROVE EndsInv'
  BY <1>0, <1>7 DEF Listen, EndsInv
<1>8. CASE Accept
  <2>1. Head(backlog) \in Request
    BY <1>0, <1>8, Waiting DEF Accept, TypeOK
  <2> QED
    BY <1>0, <1>8, <2>1 DEF Accept, EndsInv
<1>9. CASE ServerIO
  <2>1. UNCHANGED <<serverVars, clientVars, clientEnd, closed>>
    BY <1>9, ServerIOSteps
  <2>2. rstToServer' = rstToServer \/ clientClosed
    BY <1>0, <1>9, ServerIOSteps DEF ServerReadStep, ServerWriteStep, ServerLoseStep
  <2> QED
    BY <1>0, <2>1, <2>2 DEF EndsInv
<1>10. CASE Program
  <2>1. Proceeds /\ pc \in {"reqline", "headers", "uri", "write", "wait"}
    BY <1>10, ServerProceeds DEF Program
  <2>2. pc' \in {"reqline", "headers", "uri", "write", "wait", "close"}
    BY <2>1 DEF Proceeds, Says
  <2>3. KeepServer
    BY <2>1 DEF Proceeds
  <2> QED
    BY <1>0, <2>1, <2>2, <2>3 DEF KeepServer, EndsInv
<1>11. CASE ServerClose
  BY <1>0, <1>11 DEF ServerClose, EndsInv
<1>12. CASE Die
  BY <1>0, <1>12 DEF Die, EndsInv, S!BrokenPipe
<1>13. CASE ChildWrites
  BY <1>0, <1>13 DEF ChildWrites, EndsInv
<1>14. CASE UNCHANGED vars
  BY <1>0, <1>14 DEF vars, EndsInv
<1> QED
  BY <1>1, <1>2, <1>3, <1>4, <1>5, <1>6, <1>7, <1>8, <1>9, <1>10, <1>11, <1>12, <1>13, <1>14
     DEF Next, Client, Server, Program

\* A line that is being read stays one when the client closes.
LEMMA LineStays ==
    ASSUME NEW c, NEW gone \in BOOLEAN, ReadsLine(c, gone)
    PROVE  ReadsLine(c, TRUE)
BY DEF ReadsLine

\* Every step keeps the server's call sound.
LEMMA ServerCallStep ==
    ASSUME ControlInv, [Next]_vars
    PROVE  ServerCallInv'
<1> USE DEF ControlInv, serverVars, clientVars, clientEnd, serverEnd, net, closed, arrivals
<1>0. TypeOK /\ EndsInv /\ ServerCallInv /\ ClientCallInv
  OBVIOUS
<1>1. ASSUME UNCHANGED <<pc, scall>>, clientClosed' = clientClosed \/ clientClosed'
      PROVE  ServerCallInv'
  <2>1. clientClosed \in BOOLEAN
    BY <1>0 DEF TypeOK
  <2>2. clientClosed' = clientClosed \/ clientClosed' = TRUE
    BY <1>1, <2>1
  <2>3. pc' \in {"reqline", "headers"} => ReadsLine(scall', clientClosed')
    BY <1>0, <1>1, <2>1, <2>2, LineStays DEF ServerCallInv
  <2> QED
    BY <1>0, <1>1, <2>2, <2>3 DEF ServerCallInv
<1>2. CASE Client
  <2>1. ASSUME NEW r \in Request, Connect(r) PROVE ServerCallInv'
    BY <1>1, <2>1 DEF Connect
  <2>2. CASE ClientIO \/ SendRest \/ Fetch \/ Refused
    BY <1>1, <2>2 DEF ClientIO, SendRest, Fetch, Refused
  <2>3. CASE ClientClose
    <3>1. UNCHANGED <<pc, scall>> /\ clientClosed' = TRUE
      BY <2>3 DEF ClientClose
    <3> QED
      BY <1>1, <3>1
  <2> QED
    BY <1>2, <2>1, <2>2, <2>3 DEF Client
<1>3. CASE ChildWrites \/ UNCHANGED vars
  BY <1>1, <1>3 DEF ChildWrites, vars
<1>4. CASE \/ \E o \in Outcomes : Listen(o)
           \/ ServerClose \/ Die
  BY <1>4 DEF Listen, ServerClose, Die, ServerCallInv
<1>5. CASE Accept
  <2>1. pc' = "reqline" /\ scall' = S!Call("readlineb", MaxLine, <<>>)
    BY <1>5 DEF Accept
  <2>2. ReadsLine(scall', clientClosed')
    BY <2>1, LineCall
  <2> QED
    BY <2>1, <2>2 DEF ServerCallInv
<1>6. CASE ServerIO
  <2>1. UNCHANGED <<pc, clientClosed>>
    BY <1>6, ServerIOSteps
  <2>2. CASE ServerReadStep
    BY <2>1, <2>2 DEF ServerReadStep, ServerCallInv
  <2>3. CASE ServerWriteStep
    BY <1>0, <2>1, <2>3 DEF ServerWriteStep, WriteStep, ServerCallInv
  <2>4. CASE ServerLoseStep
    BY <2>1, <2>4 DEF ServerLoseStep, ServerCallInv
  <2> QED
    BY <1>6, <2>2, <2>3, <2>4, ServerIOSteps
<1>7. CASE Program
  <2>1. Proceeds /\ pc \in {"reqline", "headers", "uri", "write", "wait"}
    BY <1>7, ServerProceeds DEF Program
  <2>2. CASE \E p \in Seq(Byte), rest \in Responds : Says(p, rest)
    BY <2>2 DEF Says, ServerCallInv
  <2>3. CASE pc' \in {"reqline", "headers"} /\ scall' = S!Call("readlineb", MaxLine, <<>>)
    BY <2>3, LineCall DEF ServerCallInv
  <2>4. CASE pc' \in {"close", "wait", "uri"}
    BY <2>4 DEF ServerCallInv
  <2> QED
    BY <2>1, <2>2, <2>3, <2>4 DEF Proceeds
<1> QED
  BY <1>2, <1>3, <1>4, <1>5, <1>6, <1>7 DEF Next, Server, Program

\* Every step keeps the client's call sound.
LEMMA ClientCallStep ==
    ASSUME ControlInv, [Next]_vars
    PROVE  ClientCallInv'
<1> USE DEF ControlInv, serverVars, clientVars, clientEnd, serverEnd, net, closed, arrivals
<1>0. TypeOK /\ EndsInv /\ ServerCallInv /\ ClientCallInv
  OBVIOUS
<1>1. ASSUME UNCHANGED <<cpc, ccall, cbuf, serverClosed>>, serverClosed => UNCHANGED toClient
      PROVE  ClientCallInv'
  <2>1. cpc \in {"recv", "end"} => Fetches(ccall, cbuf, toClient)'
    BY <1>0, <1>1 DEF ClientCallInv, Fetches
  <2> QED
    BY <1>0, <1>1, <2>1 DEF ClientCallInv
<1>2. ASSUME NEW r \in Request, Connect(r) PROVE ClientCallInv'
  BY <1>1, <1>2 DEF Connect
<1>3. CASE ClientIO
  <2>1. UNCHANGED <<cpc, serverClosed>>
    BY <1>3, ClientIOSteps
  <2>2. CASE ClientReadStep
    BY <2>1, <2>2 DEF ClientReadStep, ClientCallInv, Fetches
  <2>3. CASE ClientErrorStep
    BY <2>1, <2>3 DEF ClientErrorStep, ClientCallInv, Fetches
  <2>4. CASE ClientWriteStep
    BY <1>0, <2>1, <2>4 DEF ClientWriteStep, WriteStep, ClientCallInv
  <2>5. CASE ClientLoseStep
    BY <1>0, <2>1, <2>5 DEF ClientLoseStep, ClientCallInv
  <2> QED
    BY <1>3, <2>2, <2>3, <2>4, <2>5, ClientIOSteps
<1>4. CASE SendRest
  <2>1. request \in Request
    BY <1>0, <1>4 DEF SendRest, EndsInv
  <2>2. C!Rest(request, 2) \in Seq(Byte) /\ Len(request) - 2 \in Nat
    BY <2>1, RequestType
  <2>3. /\ C!Call("writen", Len(request) - 2, C!Rest(request, 2)).fn = "writen"
        /\ ~C!Call("writen", Len(request) - 2, C!Rest(request, 2)).done
    BY <2>2, SendCall
  <2>4. /\ cbuf' = cbuf /\ cpc = "send" /\ cpc' = "rest"
        /\ ccall' = C!Call("writen", Len(request) - 2, C!Rest(request, 2))
    BY <1>4 DEF SendRest
  <2> QED
    BY <1>0, <2>3, <2>4 DEF ClientCallInv
<1>5. CASE Fetch
  <2>1. CASE cpc = "rest"
    <3>1. PICK fn \in {"readnb", "readn"} : ccall' = C!Call(fn, MaxBuf, <<>>)
      BY <1>5, <2>1 DEF Fetch
    <3>2. cbuf' = <<>> /\ cpc' = "recv"
      BY <1>0, <1>5, <2>1 DEF Fetch, ClientCallInv
    <3>3. Fetches(ccall', cbuf', toClient')
      BY <3>1, <3>2, FetchCall
    <3>4. serverClosed' = serverClosed
      BY <1>5 DEF Fetch
    <3> QED
      BY <3>2, <3>3, <3>4 DEF ClientCallInv, Fetches
  <2>2. CASE cpc # "rest"
    <3>1. /\ cpc = "recv" /\ ccall.done /\ Fetches(ccall, cbuf, toClient) /\ ccall.ret \in Int
          /\ UNCHANGED <<cbuf, toClient, serverClosed>>
      BY <1>0, <1>5, <2>2, Fields DEF Fetch, ClientCallInv, TypeOK
    <3>2. CASE ccall.ret > 0
      <4>1. ccall' = C!Call(ccall.fn, MaxBuf, <<>>) /\ cpc' = "recv"
        BY <1>5, <2>2, <3>1, <3>2 DEF Fetch
      <4>2. ccall.fn \in {"readnb", "readn"} /\ (ccall.fn = "readn" => cbuf' = <<>>)
        BY <3>1 DEF Fetches
      <4>3. Fetches(ccall', cbuf', toClient')
        BY <4>1, <4>2, FetchCall
      <4> QED
        BY <3>1, <4>1, <4>3 DEF ClientCallInv, Fetches
    <3>3. CASE ~(ccall.ret > 0)
      <4>1. cpc' = "end" /\ ccall' = ccall
        BY <1>5, <2>2, <3>1, <3>3 DEF Fetch
      <4> QED
        BY <3>1, <3>3, <4>1 DEF ClientCallInv, Fetches
    <3> QED
      BY <3>2, <3>3
  <2> QED
    BY <2>1, <2>2
<1>6. CASE ClientClose \/ Refused
  BY <1>6 DEF ClientClose, Refused, ClientCallInv
<1>7. CASE \E o \in Outcomes : Listen(o)
  BY <1>1, <1>7 DEF Listen
<1>8. CASE Accept
  <2>1. Line1(Head(backlog)) \in Seq(Byte)
    BY <1>0, <1>8, Waiting, RequestType DEF Accept, TypeOK
  <2>2. /\ C!Call("writen", 2, Line1(Head(backlog))).fn = "writen"
        /\ ~C!Call("writen", 2, Line1(Head(backlog))).done
    BY <2>1, SendCall
  <2>3. cpc' = "send" /\ ccall' = C!Call("writen", 2, Line1(Head(backlog))) /\ cbuf' = <<>>
    BY <1>8 DEF Accept
  <2> QED
    BY <2>2, <2>3 DEF ClientCallInv
<1>9. CASE ServerIO
  <2>1. UNCHANGED <<cpc, ccall, cbuf, serverClosed>>
    BY <1>9, ServerIOSteps
  <2>2. serverClosed => UNCHANGED toClient
    BY <1>0, <1>9, ServerIOSteps DEF ServerReadStep, ServerWriteStep, ServerLoseStep, EndsInv
  <2> QED
    BY <1>1, <2>1, <2>2
<1>10. CASE Program
  <2>1. KeepServer
    BY <1>10, ServerProceeds DEF Program, Proceeds
  <2> QED
    BY <1>1, <2>1 DEF KeepServer
<1>11. CASE ServerClose
  <2>1. /\ pc = "close" /\ ~serverClosed /\ serverClosed' = TRUE
        /\ UNCHANGED <<cpc, ccall, cbuf>>
    BY <1>0, <1>11 DEF ServerClose, EndsInv
  <2>2. cpc \in {"recv", "end"} => Fetches(ccall', cbuf', toClient')
    BY <1>0, <2>1 DEF ClientCallInv, Fetches
  <2> QED
    BY <1>0, <2>1, <2>2 DEF ClientCallInv, Fetches
<1>12. CASE Die
  <2>1. clientClosed /\ UNCHANGED cpc
    BY <1>0, <1>12 DEF Die, EndsInv, S!BrokenPipe
  <2> QED
    BY <1>0, <2>1 DEF EndsInv, ClientCallInv
<1>13. CASE ChildWrites
  <2>1. ~serverClosed /\ UNCHANGED <<cpc, ccall, cbuf, serverClosed>>
    BY <1>0, <1>13 DEF ChildWrites, EndsInv
  <2> QED
    BY <1>1, <2>1
<1>14. CASE UNCHANGED vars
  BY <1>1, <1>14 DEF vars
<1> QED
  BY <1>2, <1>3, <1>4, <1>5, <1>6, <1>7, <1>8, <1>9, <1>10, <1>11, <1>12, <1>13, <1>14
     DEF Next, Client, Server, Program

\* Every step keeps the control.
LEMMA ControlStep ==
    ASSUME ControlInv, [Next]_vars
    PROVE  ControlInv'
BY TypeStep, EndsStep, ServerCallStep, ClientCallStep DEF ControlInv

-----------------------------------------------------------------------------
(* Descriptors.                                                            *)

FdsInv ==
    /\ pc \in {"start", "exited", "dead"} => fds = {}
    /\ pc \notin {"start", "exited", "dead"} => \E i \in 1 .. Addresses : fds \subseteq
          {<<"listen", i>>} \cup (IF serverClosed THEN {} ELSE {<<"conn", n>>})

\* Of the sockets that open_listenfd made one is left, the first that works.
LEMMA OneOpened ==
    ASSUME NEW o \in Outcomes, Works(o) # {}
    PROVE  \E i \in 1 .. Addresses : Opened(o) \subseteq {<<"listen", i>>}
<1>1. Works(o) \subseteq 1 .. Addresses /\ Addresses \in Nat
  BY TinyAssumption DEF Outcomes, Works
<1>2. \A i, j \in Sockets(o) \cap Works(o) : i = j
  <2> TAKE i, j \in Sockets(o) \cap Works(o)
  <2>1. i <= j /\ j <= i
    BY DEF Sockets, Tried
  <2> QED
    BY <1>1, <2>1
<1>3. CASE Sockets(o) \cap Works(o) = {}
  BY <1>1, <1>3 DEF Opened
<1>4. CASE Sockets(o) \cap Works(o) # {}
  <2>1. PICK i : i \in Sockets(o) \cap Works(o)
    BY <1>4
  <2>2. i \in 1 .. Addresses /\ Sockets(o) \cap Works(o) = {i}
    BY <1>1, <1>2, <2>1
  <2> QED
    BY <2>2 DEF Opened
<1> QED
  BY <1>3, <1>4

\* Every step keeps the descriptors.
LEMMA FdsStep ==
    ASSUME ControlInv, FdsInv, [Next]_vars
    PROVE  FdsInv'
<1> USE DEF serverVars, clientVars, clientEnd, serverEnd, net, closed, arrivals
<1>0. EndsInv
  BY DEF ControlInv
<1>1. ASSUME UNCHANGED <<pc, fds, n, serverClosed>> PROVE FdsInv'
  BY <1>1 DEF FdsInv
<1>2. ASSUME NEW r \in Request, Connect(r) PROVE FdsInv'
  BY <1>1, <1>2 DEF Connect
<1>3. CASE ClientIO \/ SendRest \/ Fetch \/ ClientClose \/ Refused \/ ChildWrites \/ ServerIO
  BY <1>1, <1>3 DEF ClientIO, SendRest, Fetch, ClientClose, Refused, ChildWrites, ServerIO
<1>4. ASSUME NEW o \in Outcomes, Listen(o) PROVE FdsInv'
  <2>1. CASE Works(o) # {} /\ pc' = "accept" /\ fds' = Opened(o)
    <3>1. PICK i \in 1 .. Addresses : Opened(o) \subseteq {<<"listen", i>>}
      BY <2>1, OneOpened
    <3> QED
      BY <2>1, <3>1 DEF FdsInv
  <2>2. CASE pc' = "exited" /\ fds' = {}
    BY <2>2 DEF FdsInv
  <2> QED
    BY <1>4, <2>1, <2>2 DEF Listen
<1>5. CASE Accept
  <2>1. /\ pc = "accept" /\ pc' = "reqline" /\ serverClosed /\ serverClosed' = FALSE
        /\ n' = n + 1 /\ fds' = fds \cup {<<"conn", n'>>}
    BY <1>0, <1>5 DEF Accept, EndsInv
  <2> QED
    BY <2>1 DEF FdsInv
<1>6. CASE Program
  <2>1. UNCHANGED <<n, serverClosed, fds>> /\ pc \notin {"start", "exited", "dead"}
    BY <1>6, ServerProceeds DEF Program, Proceeds, KeepServer
  <2>2. pc' \in {"reqline", "headers", "uri", "write", "wait", "close"}
    BY <1>6, ServerProceeds DEF Program, Proceeds, Says
  <2> QED
    BY <2>1, <2>2 DEF FdsInv
<1>7. CASE ServerClose
  <2>1. /\ pc = "close" /\ pc' = "accept" /\ serverClosed' = TRUE
        /\ fds' = fds \ {<<"conn", n>>}
    BY <1>7 DEF ServerClose
  <2> QED
    BY <2>1 DEF FdsInv
<1>8. CASE Die
  BY <1>8 DEF Die, FdsInv
<1>9. CASE UNCHANGED vars
  BY <1>1, <1>9 DEF vars
<1> QED
  BY <1>2, <1>3, <1>4, <1>5, <1>6, <1>7, <1>8, <1>9 DEF Next, Client, Server, Program

-----------------------------------------------------------------------------
(* What is left of a request.                                              *)

Unsent == IF cpc = "send" THEN ccall.data \o S!Rest(request, 2)
          ELSE IF cpc = "rest" THEN ccall.data ELSE <<>>
Coming == toServer \o Unsent
LineStart(p) == p > 0 /\ (WellFormed => request[p] = "nl")
Answering == pc \in {"uri", "write", "wait", "close"} \/ serverClosed

RequestInv == ~clientClosed =>
    /\ pc \in {"reqline", "headers"} =>
          \E p \in 0 .. Len(request) :
             /\ IF pc = "headers" THEN LineStart(p) ELSE p = 0
             /\ Bytes(scall, sbuf, Coming) = S!Rest(request, p)
    /\ WellFormed /\ Answering => toServer = <<>> /\ Unsent = <<>> /\ rstToClient = "no"

\* What is said of a request depends on the request only.
LEMMA RequestSame ==
    ASSUME UNCHANGED <<variant, request>>
    PROVE  /\ WellFormed' <=> WellFormed
           /\ Responses' = Responses /\ Asked' = Asked
           /\ \A p : LineStart(p)' <=> LineStart(p)
<1>1. request' = request /\ variant' = variant
  OBVIOUS
<1>2. Asked' = Asked
  BY <1>1 DEF Asked
<1>3. LinesFit' <=> LinesFit
  BY <1>1 DEF LinesFit
<1>4. \A i : (HeaderAt(i)' <=> HeaderAt(i)) /\ (EmptyLineAt(i)' <=> EmptyLineAt(i))
  BY <1>1 DEF HeaderAt, EmptyLineAt
<1>5. WellFormed' <=> WellFormed
  BY <1>1, <1>2, <1>3, <1>4 DEF WellFormed
<1>6. Content' = Content
  BY <1>1, <1>2 DEF Content
<1>7. Responses' = Responses
  BY <1>5, <1>6 DEF Responses, Errors
<1>8. \A p : LineStart(p)' <=> LineStart(p)
  BY <1>1, <1>5 DEF LineStart
<1> QED
  BY <1>2, <1>5, <1>7, <1>8

\* What is to come is a sequence of bytes.
LEMMA ComingType ==
    ControlInv => /\ Unsent \in Seq(Byte) /\ Coming \in Seq(Byte) /\ TypeOK
                  /\ ccall.data \in Seq(Byte)
<1> SUFFICES ASSUME ControlInv
             PROVE  /\ Unsent \in Seq(Byte) /\ Coming \in Seq(Byte) /\ TypeOK
                    /\ ccall.data \in Seq(Byte)
  OBVIOUS
<1>1. ccall.data \in Seq(Byte) /\ toServer \in Seq(Byte)
  BY Fields DEF ControlInv, TypeOK
<1>2. <<>> \in Seq(Byte)
  BY EmptySeq
<1>3. cpc = "send" => S!Rest(request, 2) \in Seq(Byte)
  BY RequestType DEF ControlInv, EndsInv
<1>4. cpc = "send" => ccall.data \o S!Rest(request, 2) \in Seq(Byte)
  BY <1>1, <1>3, Joins
<1>5. Unsent \in Seq(Byte)
  BY <1>1, <1>2, <1>4 DEF Unsent
<1> QED
  BY <1>1, <1>5, Joins DEF Coming, ControlInv

\* The client goes on: what is to come stays the same.
LEMMA ComingStays ==
    ASSUME ControlInv, ControlInv', ClientIO \/ SendRest \/ Fetch
    PROVE  /\ ~serverClosed => Coming' = Coming /\ rstToClient' = rstToClient
           /\ toServer = <<>> /\ Unsent = <<>> /\ rstToClient = "no" =>
                 toServer' = <<>> /\ Unsent' = <<>> /\ rstToClient' = "no"
<1> USE DEF serverVars, clientVars, clientEnd, serverEnd, net, closed, arrivals
<1>0. TypeOK /\ EndsInv /\ ClientCallInv
  BY DEF ControlInv
<1>1. /\ ccall.data \in Seq(Byte) /\ toServer \in Seq(Byte) /\ Unsent \in Seq(Byte)
      /\ cpc = "send" => S!Rest(request, 2) \in Seq(Byte) /\ C!Rest(request, 2) = S!Rest(request, 2)
  BY <1>0, ComingType, Fields, RequestType DEF TypeOK, EndsInv
<1>2. /\ ccall'.data \in Seq(Byte) /\ toServer' \in Seq(Byte) /\ Unsent' \in Seq(Byte)
  <2>1. (Unsent \in Seq(Byte) /\ TypeOK /\ ccall.data \in Seq(Byte))'
    BY ComingType, PTL
  <2> QED
    BY <2>1 DEF TypeOK
<1>3. CASE ClientIO
  <2>1. UNCHANGED <<cpc, request, serverClosed>>
    BY <1>3, ClientIOSteps
  <2>2. CASE ClientReadStep \/ ClientErrorStep
    <3>1. cpc = "recv" /\ UNCHANGED toServer
      BY <2>2 DEF ClientReadStep, ClientErrorStep
    <3>2. Unsent' = Unsent
      BY <2>1, <3>1 DEF Unsent
    <3>3. rstToClient' = rstToClient \/ (rstToClient = "reset" /\ serverClosed)
      BY <1>0, <2>2 DEF ClientReadStep, ClientErrorStep, EndsInv
    <3> QED
      BY <3>1, <3>2, <3>3 DEF Coming
  <2>3. CASE ClientWriteStep
    <3>1. toServer' \o ccall'.data = toServer \o ccall.data
      BY <2>3 DEF ClientWriteStep, WriteStep
    <3>2. CASE cpc = "rest"
      BY SMTT(30), <2>1, <2>3, <3>1, <3>2, <1>1, <1>2, Joins DEF ClientWriteStep, Unsent, Coming
    <3>3. CASE cpc = "send"
      <4>1. PICK r \in Seq(Byte) : r = S!Rest(request, 2) /\ r = S!Rest(request', 2)
        BY <1>1, <2>1, <3>3
      <4>2. Unsent = ccall.data \o r /\ Unsent' = ccall'.data \o r
        BY <2>1, <3>3, <4>1 DEF Unsent
      <4>3. (toServer \o ccall.data) \o r = toServer \o (ccall.data \o r)
        BY ZenonT(60), <1>1, Assoc
      <4>4. (toServer' \o ccall'.data) \o r = toServer' \o (ccall'.data \o r)
        BY <1>2, Assoc
      <4>5. Coming' = Coming
        BY <3>1, <4>2, <4>3, <4>4 DEF Coming
      <4>6. toServer = <<>> /\ Unsent = <<>> => Coming = <<>>
        BY <1>1, Joins DEF Coming
      <4>7. Coming' = <<>> => toServer' = <<>> /\ Unsent' = <<>>
        BY <1>2, Joins DEF Coming
      <4> QED
        BY <2>3, <4>5, <4>6, <4>7 DEF ClientWriteStep
    <3> QED
      BY <2>3, <3>2, <3>3 DEF ClientWriteStep
  <2>4. CASE ClientLoseStep
    <3>1. serverClosed /\ (ccall.data # <<>> \/ rstToClient # "no") /\ cpc \in {"send", "rest"}
      BY <2>4 DEF ClientLoseStep
    <3>2. Unsent = <<>> => ccall.data = <<>>
      <4>1. CASE cpc = "rest"
        BY <4>1 DEF Unsent
      <4>2. CASE cpc = "send"
        <5>1. Unsent = ccall.data \o S!Rest(request, 2)
          BY <4>2 DEF Unsent
        <5> QED
          BY <1>1, <4>2, <5>1, Joins
      <4> QED
        BY <3>1, <4>1, <4>2
    <3> QED
      BY <3>1, <3>2
  <2> QED
    BY <1>3, <2>2, <2>3, <2>4, ClientIOSteps
<1>4. CASE SendRest
  <2>1. /\ cpc = "send" /\ cpc' = "rest" /\ ccall.done /\ toServer' = toServer
        /\ rstToClient' = rstToClient
        /\ ccall' = C!Call("writen", Len(request) - 2, C!Rest(request, 2))
    BY <1>4 DEF SendRest
  <2>2. ccall'.data = S!Rest(request, 2)
    BY <2>1, <1>1 DEF C!Call
  <2>3. Unsent = ccall.data \o S!Rest(request, 2) /\ Unsent' = S!Rest(request, 2)
    BY <2>1, <2>2 DEF Unsent
  <2>4. ~serverClosed => ccall.data = <<>>
    BY <1>0, <2>1 DEF ClientCallInv
  <2>5. /\ <<>> \o S!Rest(request, 2) = S!Rest(request, 2)
        /\ Unsent = <<>> => S!Rest(request, 2) = <<>>
    BY <1>1, <2>1, <2>3, Joins
  <2> QED
    BY <2>1, <2>3, <2>4, <2>5 DEF Coming
<1>5. CASE Fetch
  <2>1. toServer' = toServer /\ rstToClient' = rstToClient /\ cpc \in {"rest", "recv"} /\ ccall.done
        /\ cpc' \in {"recv", "end"}
    BY <1>5 DEF Fetch
  <2>2. Unsent' = <<>>
    BY <2>1 DEF Unsent
  <2>3. ~serverClosed => Unsent = <<>>
    BY <1>0, <2>1 DEF ClientCallInv, Unsent
  <2> QED
    BY <2>1, <2>2, <2>3 DEF Coming
<1> QED
  BY <1>3, <1>4, <1>5

\* A line was read from what is left of the request after p: what is left now.
LEMMA LineIs ==
    ASSUME request \in Seq(Byte), NEW d \in Seq(Byte), d # <<>>,
           NEW p \in 0 .. Len(request), NEW x \in Seq(Byte), d \o x = S!Rest(request, p),
           Len(d) = MaxLine - 1 \/ d[Len(d)] = "nl",
           \A j \in 1 .. Len(d) - 1 : d[j] # "nl"
    PROVE  /\ p + Len(d) \in 1 .. Len(request)
           /\ x = S!Rest(request, p + Len(d))
           /\ d[1] = request[p + 1]
           /\ LineStart(p + Len(d))
<1>1. PICK l \in Nat : l = Len(request)
  BY LenProperties
<1>2. PICK m \in Nat : m = Len(d) /\ m > 0
  BY LenProperties, EmptySeq
<1>3. PICK u \in Nat : u = Len(x)
  BY LenProperties
<1>4. p \in Nat /\ p <= l
  BY <1>1
<1>5. /\ S!Rest(request, p) \in Seq(Byte) /\ Len(S!Rest(request, p)) = l - p
      /\ \A i \in 1 .. l - p : S!Rest(request, p)[i] = request[i + p]
  BY <1>1, Split
<1>6. /\ Len(d \o x) = m + u
      /\ \A i \in 1 .. m : (d \o x)[i] = d[i]
      /\ \A i \in 1 .. u : (d \o x)[m + i] = x[i]
  BY <1>2, <1>3, Joins
<1>7. l - p = m + u
  BY <1>5, <1>6
<1>8. p + m \in 1 .. l /\ l - (p + m) = u
  BY <1>1, <1>2, <1>3, <1>4, <1>7
<1>9. ASSUME NEW j \in 1 .. m PROVE d[j] = request[p + j]
  <2>1. j \in 1 .. l - p /\ j + p = p + j
    BY <1>1, <1>2, <1>3, <1>4, <1>7
  <2>2. S!Rest(request, p)[j] = request[j + p]
    BY <2>1, <1>5
  <2>3. (d \o x)[j] = d[j]
    BY <1>6
  <2> QED
    BY <2>1, <2>2, <2>3
<1>10. x = S!Rest(request, p + m)
  <2>1. p + m \in 0 .. Len(request)
    BY <1>1, <1>8
  <2>2. PICK r \in Seq(Byte) : r = S!Rest(request, p + m)
    BY <2>1, Split
  <2>3. Len(r) = u /\ \A i \in 1 .. u : r[i] = request[i + (p + m)]
    <3>1. /\ Len(S!Rest(request, p + m)) = Len(request) - (p + m)
          /\ \A i \in 1 .. Len(request) - (p + m) : S!Rest(request, p + m)[i] = request[i + (p + m)]
      BY <2>1, Split
    <3> QED
      BY <3>1, <2>2, <1>1, <1>8
  <2>4. ASSUME NEW i \in 1 .. u PROVE x[i] = r[i]
    <3>1. m + i \in 1 .. l - p /\ (m + i) + p = i + (p + m)
      BY <1>1, <1>2, <1>3, <1>4, <1>7
    <3>2. S!Rest(request, p)[m + i] = request[(m + i) + p]
      BY <3>1, <1>5
    <3>3. (d \o x)[m + i] = x[i]
      BY <1>6
    <3> QED
      BY <3>1, <3>2, <3>3, <2>3
  <2>5. x = r
    BY <2>3, <2>4, <1>3, SeqEqual
  <2> QED
    BY <2>2, <2>5
<1>11. LineStart(p + m)
  <2>1. p + m > 0
    BY <1>8
  <2>2. ASSUME WellFormed PROVE request[p + m] = "nl"
    <3>1. CASE d[m] = "nl"
      <4>1. m \in 1 .. m
        BY <1>2
      <4> QED
        BY <3>1, <4>1, <1>9
    <3>2. CASE d[m] # "nl"
      <4>1. m = MaxLine - 1 /\ MaxLine \in Int
        BY <3>2, <1>2, TinyAssumption
      <4>2. p + 1 \in DOMAIN request /\ p + 1 \in 1 .. l
        BY <1>1, <1>2, <1>4, <1>8, LenProperties
      <4>3. PICK j \in p + 1 .. Len(request) : request[j] = "nl" /\ j - (p + 1) < MaxLine - 1
        BY <2>2, <4>2 DEF WellFormed, LinesFit
      <4>4. j - p \in 1 .. m /\ j = p + (j - p)
        BY <4>1, <4>3, <1>1, <1>2, <1>4
      <4>5. d[j - p] = "nl"
        BY <4>3, <4>4, <1>9
      <4>6. j - p = m
        <5>1. ~(j - p \in 1 .. m - 1)
          BY <4>5, <1>2
        <5> QED
          BY <5>1, <4>4
      <4> QED
        BY <4>3, <4>4, <4>6
    <3> QED
      BY <3>1, <3>2
  <2> QED
    BY <2>1, <2>2 DEF LineStart
<1>12. d[1] = request[p + 1]
  BY <1>2, <1>9
<1> QED
  BY <1>1, <1>2, <1>8, <1>10, <1>11, <1>12

\* In a well-formed request a line after the first is empty, and the last, or a
\* header.
LEMMA HeaderIs ==
    ASSUME WellFormed, request \in Request, NEW p \in Nat, p > 0, p < Len(request),
           request[p] = "nl"
    PROVE  /\ request[p + 1] \in {"h", "nl"}
           /\ request[p + 1] = "nl" => p + 1 = Len(request)
<1>1. Len(request) \in Nat /\ DOMAIN request = 1 .. Len(request)
  BY RequestType, LenProperties
<1>2. p + 1 \in DOMAIN request /\ (p + 1) - 1 = p /\ p + 1 > 1
  BY <1>1
<1>3. ~HeaderAt(p + 1)
  BY <1>2 DEF WellFormed
<1>4. request[p + 1] \in {"h", "nl"}
  BY <1>2, <1>3 DEF HeaderAt
<1>5. request[p + 1] = "nl" => p + 1 = Len(request)
  BY <1>2 DEF WellFormed, EmptyLineAt
<1> QED
  BY <1>4, <1>5

\* The server has read a line: what it was, and what is left.
LEMMA HasLine ==
    ASSUME ControlInv, RequestInv, ~clientClosed, pc \in {"reqline", "headers"}, scall.done
    PROVE  /\ scall.ret > 0 /\ scall.data \in Seq(Byte) /\ scall.data # <<>>
           /\ Len(scall.data) > 1 => scall.data[1] # "nl"
           /\ \E p \in 0 .. Len(request) :
                 /\ IF pc = "headers" THEN LineStart(p) ELSE p = 0
                 /\ p + Len(scall.data) \in 1 .. Len(request)
                 /\ scall.data[1] = request[p + 1]
                 /\ LineStart(p + Len(scall.data))
                 /\ sbuf \o Coming = S!Rest(request, p + Len(scall.data))
<1>1. TypeOK /\ EndsInv /\ ReadsLine(scall, clientClosed) /\ Coming \in Seq(Byte)
  BY ComingType DEF ControlInv, ServerCallInv
<1>2. scall.data \in Seq(Byte) /\ sbuf \in Seq(Byte) /\ request \in Seq(Byte)
  BY <1>1, Fields DEF TypeOK
<1>3. PICK d \in Seq(Byte) : d = scall.data
  BY <1>2
<1>4. /\ scall.ret = Len(d) /\ d # <<>>
      /\ Len(d) = MaxLine - 1 \/ d[Len(d)] = "nl"
      /\ \A j \in 1 .. Len(d) - 1 : d[j] # "nl"
  BY <1>1, <1>3 DEF ReadsLine
<1>5. Len(d) \in Nat /\ Len(d) > 0
  BY <1>4, LenProperties, EmptySeq
<1>6. PICK p \in 0 .. Len(request) :
         /\ IF pc = "headers" THEN LineStart(p) ELSE p = 0
         /\ Bytes(scall, sbuf, Coming) = S!Rest(request, p)
  BY DEF RequestInv
<1>7. PICK x \in Seq(Byte) : x = sbuf \o Coming
  BY <1>1, <1>2, Joins
<1>8. d \o x = S!Rest(request, p)
  BY <1>3, <1>6, <1>7 DEF Bytes
<1>9. /\ p + Len(d) \in 1 .. Len(request)
      /\ x = S!Rest(request, p + Len(d))
      /\ d[1] = request[p + 1]
      /\ LineStart(p + Len(d))
  BY <1>2, <1>4, <1>8, LineIs
<1>10. Len(d) > 1 => d[1] # "nl"
  BY <1>4, <1>5
<1> QED
  BY <1>3, <1>4, <1>5, <1>6, <1>7, <1>9, <1>10

\* What the server does with a request line or a header.
LEMMA LineStep ==
    ASSUME ControlInv, RequestInv, ~clientClosed, RequestLine \/ Headers
    PROVE  /\ UNCHANGED <<variant, request, clientClosed, serverClosed>>
           /\ pc' = "headers" => \E p \in 0 .. Len(request') :
                 LineStart(p)' /\ Bytes(scall', sbuf', Coming') = S!Rest(request', p)
           /\ pc' \in {"headers", "uri", "write"}
           /\ WellFormed => \/ pc' = "headers"
                            \/ pc' = "uri" /\ toServer' = <<>> /\ Unsent' = <<>>
           /\ pc' = "write" => Error("400") \/ Error("501")
<1> USE DEF serverVars, clientVars, clientEnd, serverEnd, net, closed, arrivals
<1>1. /\ pc \in {"reqline", "headers"} /\ scall.done
      /\ KeepServer /\ UNCHANGED <<sbuf, child, fds, cut>>
      /\ ~serverClosed /\ TypeOK /\ EndsInv
  BY DEF RequestLine, Headers, ControlInv, EndsInv
<1>2. UNCHANGED <<variant, request, clientClosed, serverClosed, toServer, sbuf, cpc, ccall>>
  BY <1>1 DEF KeepServer
<1>3. Coming' = Coming /\ Unsent' = Unsent
  BY <1>2 DEF Coming, Unsent
<1>4. /\ scall.ret > 0 /\ scall.data \in Seq(Byte) /\ scall.data # <<>>
      /\ Len(scall.data) > 1 => scall.data[1] # "nl"
  BY <1>1, HasLine
<1>5. PICK p \in 0 .. Len(request) :
         /\ IF pc = "headers" THEN LineStart(p) ELSE p = 0
         /\ p + Len(scall.data) \in 1 .. Len(request)
         /\ scall.data[1] = request[p + 1]
         /\ LineStart(p + Len(scall.data))
         /\ sbuf \o Coming = S!Rest(request, p + Len(scall.data))
  BY <1>1, HasLine
<1>6. PICK q \in 1 .. Len(request) : q = p + Len(scall.data)
  BY <1>5
<1>7. ~(scall.ret <= 0)
  BY <1>4, <1>1, Fields DEF TypeOK
<1>8. /\ request \in Request /\ request \in Seq(Byte) /\ Len(request) \in Nat /\ Asked = request[1]
      /\ sbuf \in Seq(Byte) /\ toServer \in Seq(Byte)
      /\ Unsent \in Seq(Byte) /\ Coming \in Seq(Byte)
  BY <1>1, ComingType, RequestType DEF EndsInv, TypeOK, Asked
<1>9. ASSUME Reading("headers")
      PROVE  /\ pc' = "headers"
             /\ \E k \in 0 .. Len(request') :
                  LineStart(k)' /\ Bytes(scall', sbuf', Coming') = S!Rest(request', k)
  <2>1. pc' = "headers" /\ scall'.data = <<>>
    BY <1>9, LineCall DEF Reading
  <2>2. sbuf \o Coming \in Seq(Byte)
    BY <1>8, Joins
  <2>3. Bytes(scall', sbuf', Coming') = sbuf \o Coming
    BY <2>1, <2>2, <1>2, <1>3, Joins DEF Bytes
  <2>4. LineStart(q)'
    BY <1>2, <1>5, <1>6, RequestSame
  <2>5. q \in 0 .. Len(request')
    BY <1>2, <1>6
  <2> QED
    BY <2>1, <2>3, <2>4, <2>5, <1>2, <1>5, <1>6
<1>10. \A code \in {"400", "501"} : Error(code) => pc' = "write"
  BY DEF Error, Writing
<1>11. CASE RequestLine
  <2>1. /\ pc = "reqline"
        /\ IF scall.data[1] \in Targets THEN Reading("headers")
           ELSE Error(IF scall.data[1] = "post" THEN "501" ELSE "400")
    BY <1>7, <1>11 DEF RequestLine
  <2>2. scall.data[1] = Asked
    BY <1>5, <1>8, <2>1
  <2>3. WellFormed => scall.data[1] \in Targets
    BY <2>2 DEF WellFormed, Targets
  <2>4. CASE Reading("headers")
    BY <2>4, <1>2, <1>9
  <2>5. CASE Error("501") \/ Error("400")
    <3>1. pc' = "write"
      BY <2>5, <1>10
    <3>2. ~WellFormed
      BY <2>1, <2>3, <3>1 DEF Reading
    <3> QED
      BY <2>5, <3>1, <3>2, <1>2
  <2> QED
    BY <2>1, <2>4, <2>5
<1>12. CASE Headers
  <2>1. /\ pc = "headers" /\ LineStart(p)
        /\ IF HeadersEnd(scall.data) THEN pc' = "uri" /\ UNCHANGED <<scall, respond>>
           ELSE IF IsHeader(scall.data) THEN Reading("headers")
           ELSE Error("400")
    BY <1>5, <1>7, <1>12 DEF Headers
  <2>2. WellFormed => /\ scall.data[1] \in {"h", "nl"}
                      /\ scall.data[1] = "nl" => p + 1 = Len(request)
    <3> SUFFICES ASSUME WellFormed
                 PROVE  /\ scall.data[1] \in {"h", "nl"}
                        /\ scall.data[1] = "nl" => p + 1 = Len(request)
      OBVIOUS
    <3>1. p \in Nat /\ p > 0 /\ request[p] = "nl"
      BY <2>1, <1>8 DEF LineStart
    <3>2. p < Len(request)
      <4>1. Len(scall.data) \in Nat /\ Len(scall.data) > 0
        BY <1>4, LenProperties, EmptySeq
      <4> QED
        BY <4>1, <1>5, <1>8
    <3> QED
      BY <3>1, <3>2, <1>5, <1>8, HeaderIs
  <2>3. CASE HeadersEnd(scall.data)
    <3>1. pc' = "uri"
      BY <2>1, <2>3
    <3>2. ASSUME WellFormed PROVE toServer' = <<>> /\ Unsent' = <<>>
      <4>1. scall.data = <<"nl">> /\ Len(scall.data) = 1 /\ scall.data[1] = "nl"
        BY <2>3 DEF HeadersEnd
      <4>2. q = Len(request)
        BY <2>2, <3>2, <4>1, <1>6
      <4>3. sbuf \o Coming = S!Rest(request, Len(request))
        BY <4>2, <1>5, <1>6
      <4>4. S!Rest(request, Len(request)) = <<>>
        <5>1. Len(request) \in 0 .. Len(request)
          BY <1>8
        <5>2. PICK r \in Seq(Byte) : r = S!Rest(request, Len(request))
          BY <5>1, <1>8, Split
        <5>3. Len(r) = Len(request) - Len(request)
          BY <5>1, <5>2, <1>8, Split
        <5>4. Len(r) = 0
          BY <5>3, <1>8
        <5> QED
          BY <5>2, <5>4, EmptySeq
      <4>5. Coming = <<>>
        BY <4>3, <4>4, <1>8, Joins
      <4>6. toServer = <<>> /\ Unsent = <<>>
        BY <4>5, <1>8, Joins DEF Coming
      <4> QED
        BY <4>6, <1>2, <1>3
    <3> QED
      BY <3>1, <3>2, <1>2
  <2>4. CASE ~HeadersEnd(scall.data) /\ Reading("headers")
    BY <2>4, <1>2, <1>9
  <2>5. CASE ~HeadersEnd(scall.data) /\ ~IsHeader(scall.data)
    <3>1. Error("400") /\ pc' = "write"
      BY <2>1, <2>5, <1>10
    <3>2. ASSUME WellFormed PROVE FALSE
      <4>1. scall.data[1] = "nl"
        BY <2>2, <2>5, <3>2 DEF IsHeader
      <4>2. Len(scall.data) = 1
        <5>1. Len(scall.data) \in Nat /\ Len(scall.data) # 0
          BY <1>4, LenProperties, EmptySeq
        <5>2. ~(Len(scall.data) > 1)
          BY <4>1, <1>4
        <5>3. \A m \in Nat : m # 0 /\ ~(m > 1) => m = 1
          OBVIOUS
        <5> QED
          BY <5>1, <5>2, <5>3
      <4>3. scall.data = <<"nl">>
        <5>1. \A s \in Seq(Byte) : Len(s) = 1 => s = <<s[1]>>
          OBVIOUS
        <5> QED
          BY <5>1, <4>1, <4>2, <1>4
      <4> QED
        BY <4>3, <2>5 DEF HeadersEnd
    <3> QED
      BY <3>1, <3>2, <1>2
  <2> QED
    BY <2>1, <2>3, <2>4, <2>5
<1> QED
  BY <1>11, <1>12

\* Every step keeps what is left of the request.
LEMMA RequestStep ==
    ASSUME ControlInv, ControlInv', RequestInv, [Next]_vars
    PROVE  RequestInv'
<1> USE DEF serverVars, clientVars, clientEnd, serverEnd, net, closed, arrivals
<1>0. TypeOK /\ EndsInv
  BY DEF ControlInv
<1>1. SUFFICES ASSUME ~clientClosed' PROVE RequestInv'
  BY DEF RequestInv
<1>2. ASSUME UNCHANGED <<variant, request, pc, scall, sbuf, clientClosed, serverClosed>>,
             ~serverClosed => Coming' = Coming /\ rstToClient' = rstToClient,
             toServer = <<>> /\ Unsent = <<>> /\ rstToClient = "no" =>
                 toServer' = <<>> /\ Unsent' = <<>> /\ rstToClient' = "no"
      PROVE  RequestInv'
  <2>1. /\ WellFormed' <=> WellFormed
        /\ \A p : LineStart(p)' <=> LineStart(p)
    BY <1>2, RequestSame
  <2>3. ASSUME pc' \in {"reqline", "headers"}
        PROVE  \E p \in 0 .. Len(request') :
                  /\ IF pc' = "headers" THEN LineStart(p)' ELSE p = 0
                  /\ Bytes(scall', sbuf', Coming') = S!Rest(request', p)
    <3>1. ~serverClosed /\ Coming' = Coming
      BY <1>0, <1>2, <2>3 DEF EndsInv
    <3> QED
      BY <3>1, <2>1, <2>3, <1>1, <1>2 DEF RequestInv
  <2>4. (WellFormed /\ Answering)' => toServer' = <<>> /\ Unsent' = <<>> /\ rstToClient' = "no"
    BY <2>1, <1>1, <1>2 DEF RequestInv, Answering
  <2> QED
    BY <2>3, <2>4 DEF RequestInv
<1>3. ASSUME NEW r \in Request, Connect(r) PROVE RequestInv'
  <2>1. UNCHANGED <<variant, request, pc, scall, sbuf, clientClosed, serverClosed>>
    BY <1>3 DEF Connect
  <2>2. UNCHANGED <<toServer, cpc, ccall, rstToClient>>
    BY <1>3 DEF Connect
  <2>3. Unsent' = Unsent /\ Coming' = Coming
    BY <2>1, <2>2 DEF Unsent, Coming
  <2> QED
    BY <1>2, <2>1, <2>2, <2>3
<1>4. CASE ClientIO \/ SendRest \/ Fetch
  <2>1. UNCHANGED <<variant, request, pc, scall, sbuf, clientClosed, serverClosed>>
    BY <1>4 DEF ClientIO, SendRest, Fetch
  <2> QED
    BY <1>2, <1>4, <2>1, ComingStays
<1>5. CASE ClientClose \/ Refused
  BY <1>0, <1>1, <1>5 DEF ClientClose, Refused, EndsInv
<1>6. ASSUME NEW o, Listen(o) PROVE RequestInv'
  <2>1. clientClosed' = clientClosed /\ pc = "start"
    BY <1>6 DEF Listen
  <2> QED
    BY <2>1, <1>0, <1>1 DEF EndsInv
<1>7. CASE Accept
  <2>1. PICK r \in Request : r = Head(backlog)
    BY <1>0, <1>7, Waiting DEF Accept, TypeOK
  <2>2. /\ pc' = "reqline" /\ toServer' = <<>> /\ cpc' = "send" /\ request' = r
        /\ ccall' = C!Call("writen", 2, Line1(r)) /\ serverClosed' = FALSE
        /\ sbuf' = <<>> /\ scall' = S!Call("readlineb", MaxLine, <<>>)
    BY <1>7, <2>1 DEF Accept, Readinitb
  <2>3. /\ Line1(r) = S!First(r, 2) /\ S!First(r, 2) \in Seq(Byte)
        /\ S!First(r, 2) \o S!Rest(r, 2) = r /\ r \in Seq(Byte)
    BY RequestType
  <2>4. ccall'.data = S!First(r, 2)
    BY <2>2, <2>3 DEF C!Call
  <2>5. Unsent' = r
    BY <2>2, <2>3, <2>4 DEF Unsent
  <2>6. Coming' = r
    BY <2>2, <2>3, <2>5, Joins DEF Coming
  <2>7. scall'.data = <<>> /\ <<>> \in Seq(Byte)
    BY <2>2, LineCall, EmptySeq
  <2>8. Bytes(scall', sbuf', Coming') = r
    BY <2>2, <2>3, <2>6, <2>7, Joins DEF Bytes
  <2>9. S!Rest(r, 0) = r
    BY <2>3, SubSeqFull DEF S!Rest
  <2>10. 0 \in 0 .. Len(r)
    BY <2>3, LenProperties
  <2>11. ~Answering'
    BY <2>2 DEF Answering
  <2> QED
    BY <2>2, <2>8, <2>9, <2>10, <2>11 DEF RequestInv
<1>8. CASE ServerIO
  <2>1. UNCHANGED <<serverVars, clientVars, clientEnd, closed>>
    BY <1>8, ServerIOSteps
  <2>2. Unsent' = Unsent
    BY <2>1 DEF Unsent
  <2>3. CASE ServerReadStep
    <3>1. ReadStep(scall, sbuf, toServer, scall', sbuf', toServer') /\ pc \in {"reqline", "headers"}
      BY <2>3 DEF ServerReadStep
    <3>2. PICK u \in Seq(Byte) : u = Unsent
      BY ComingType
    <3>3. \A d, b, i \in Seq(Byte) : d \o (b \o (i \o u)) = (d \o (b \o i)) \o u
      <4> TAKE d, b, i \in Seq(Byte)
      <4>1. b \o i \in Seq(Byte)
        BY Joins
      <4>2. (d \o (b \o i)) \o u = d \o ((b \o i) \o u)
        BY SMTT(30), <4>1, Assoc
      <4>3. (b \o i) \o u = b \o (i \o u)
        BY Assoc
      <4> QED
        BY <4>2, <4>3
    <3>4. /\ scall.data \in Seq(Byte) /\ sbuf \in Seq(Byte) /\ toServer \in Seq(Byte)
      BY <1>0, Fields DEF TypeOK
    <3>5. /\ scall'.data \in Seq(Byte) /\ sbuf' \in Seq(Byte) /\ toServer' \in Seq(Byte)
      BY <3>1, Fields DEF ReadStep
    <3>6. Bytes(scall', sbuf', toServer' \o u) = Bytes(scall, sbuf, toServer \o u)
      <4>1. Bytes(scall', sbuf', toServer') = Bytes(scall, sbuf, toServer)
        BY <3>1 DEF ReadStep
      <4>2. Bytes(scall', sbuf', toServer' \o u) = Bytes(scall', sbuf', toServer') \o u
        BY <3>3, <3>5 DEF Bytes
      <4>3. Bytes(scall, sbuf, toServer \o u) = Bytes(scall, sbuf, toServer) \o u
        BY <3>3, <3>4 DEF Bytes
      <4> QED
        BY <4>1, <4>2, <4>3
    <3>7. Bytes(scall', sbuf', Coming') = Bytes(scall, sbuf, Coming)
      BY <3>2, <3>6, <2>2 DEF Coming
    <3>8. \A p : LineStart(p)' <=> LineStart(p)
      BY <2>1, RequestSame
    <3>9. ~Answering' /\ pc' # "accept"
      BY <2>1, <3>1, <1>0 DEF Answering, EndsInv
    <3> QED
      BY <2>1, <3>1, <3>7, <3>8, <3>9, <1>1 DEF RequestInv
  <2>4. CASE ServerWriteStep \/ ServerLoseStep
    <3>1. pc = "write" /\ toServer' = toServer
      BY <2>4 DEF ServerWriteStep, ServerLoseStep
    <3>2. WellFormed' <=> WellFormed
      BY <2>1, RequestSame
    <3> QED
      BY <2>1, <2>2, <3>1, <3>2, <1>1 DEF RequestInv, Answering
  <2> QED
    BY <1>8, <2>3, <2>4, ServerIOSteps
<1>9. CASE RequestLine \/ Headers
  <2>1. KeepServer /\ pc \in {"reqline", "headers"}
    BY <1>9 DEF RequestLine, Headers
  <2>2. ~clientClosed /\ ~serverClosed
    BY <1>0, <1>1, <2>1 DEF KeepServer, EndsInv
  <2>3. UNCHANGED <<variant, request, serverClosed, rstToClient>> /\ rstToClient = "no"
    BY <1>0, <2>1, <2>2 DEF KeepServer, EndsInv
  <2>4. WellFormed' <=> WellFormed
    BY <2>3, RequestSame
  <2>5. /\ pc' = "headers" => \E p \in 0 .. Len(request') :
              LineStart(p)' /\ Bytes(scall', sbuf', Coming') = S!Rest(request', p)
        /\ pc' \in {"headers", "uri", "write"}
        /\ WellFormed => \/ pc' = "headers"
                         \/ pc' = "uri" /\ toServer' = <<>> /\ Unsent' = <<>>
    BY <1>9, <2>2, LineStep
  <2>6. (WellFormed /\ Answering)' => toServer' = <<>> /\ Unsent' = <<>> /\ rstToClient' = "no"
    BY <2>2, <2>3, <2>4, <2>5 DEF Answering
  <2> QED
    BY <2>5, <2>6 DEF RequestInv
<1>10. CASE Respond \/ NextPiece \/ FileFails \/ Written \/ Fork \/ Reap
  <2>1. Proceeds /\ pc \in {"uri", "write", "wait"}
    <3>1. Proceeds
      BY <1>10, ServerProceeds
    <3> QED
      BY <3>1, <1>10 DEF Respond, NextPiece, FileFails, Written, Fork, Reap
  <2>2. /\ UNCHANGED <<variant, request, clientClosed, serverClosed>>
        /\ UNCHANGED <<toServer, cpc, ccall, rstToClient>>
    BY <2>1 DEF Proceeds, KeepServer
  <2>3. pc' \in {"write", "wait", "close"}
    BY <1>10 DEF Respond, NextPiece, FileFails, Written, Fork, Reap, Error, Writing, Closing
  <2>4. Unsent' = Unsent
    BY <2>2 DEF Unsent
  <2>5. WellFormed' <=> WellFormed
    BY <2>2, RequestSame
  <2> QED
    BY <2>1, <2>2, <2>3, <2>4, <2>5, <1>1 DEF RequestInv, Answering
<1>11. CASE ServerClose
  <2>1. /\ pc = "close" /\ pc' = "accept" /\ serverClosed' = TRUE /\ toServer' = <<>>
        /\ Close(toServer, toClient, rstToClient)
        /\ UNCHANGED <<variant, request, clientClosed, cpc, ccall>>
    BY <1>11 DEF ServerClose
  <2>2. Unsent' = Unsent
    BY <2>1 DEF Unsent
  <2>3. WellFormed' <=> WellFormed
    BY <2>1, RequestSame
  <2>4. toServer = <<>> => rstToClient' = rstToClient
    BY <2>1 DEF Close
  <2> QED
    BY <2>1, <2>2, <2>3, <2>4, <1>1 DEF RequestInv, Answering
<1>12. CASE Die
  BY <1>0, <1>1, <1>12 DEF Die, EndsInv, S!BrokenPipe
<1>13. CASE ChildWrites
  <2>1. /\ UNCHANGED <<variant, request, pc, scall, sbuf, clientClosed, serverClosed>>
        /\ UNCHANGED <<toServer, cpc, ccall, rstToClient>>
    BY <1>13 DEF ChildWrites
  <2>2. Unsent' = Unsent /\ Coming' = Coming
    BY <2>1 DEF Unsent, Coming
  <2> QED
    BY <1>2, <2>1, <2>2
<1>14. CASE UNCHANGED vars
  <2>1. /\ UNCHANGED <<variant, request, pc, scall, sbuf, clientClosed, serverClosed>>
        /\ UNCHANGED <<toServer, cpc, ccall, rstToClient>>
    BY <1>14 DEF vars
  <2>2. Unsent' = Unsent /\ Coming' = Coming
    BY <2>1 DEF Unsent, Coming
  <2> QED
    BY <1>2, <2>1, <2>2
<1> QED
  BY <1>3, <1>4, <1>5, <1>6, <1>7, <1>8, <1>9, <1>10, <1>11, <1>12, <1>13, <1>14
     DEF Next, Client, Server

-----------------------------------------------------------------------------
(* What the client was sent.                                               *)

\* What a read in progress has, and a failed one has lost.
Held == IF ccall.fn # "writen" /\ ~(ccall.done /\ ccall.ret <= 0) THEN ccall.data ELSE <<>>

\* How pieces may be put together.
Groups(s, t, u) == (s \o t) \o u = s \o (t \o u)
GroupsFour(s, t, u, v) ==
    /\ ((s \o t) \o u) \o v = s \o (t \o (u \o v))
    /\ (s \o (t \o u)) \o v = s \o (t \o (u \o v))

\* Three pieces.
LEMMA AssocThree ==
    ASSUME NEW s \in Seq(Byte), NEW t \in Seq(Byte), NEW u \in Seq(Byte)
    PROVE  Groups(s, t, u)
BY Assoc DEF Groups

\* Four pieces.
LEMMA AssocFour ==
    ASSUME NEW s \in Seq(Byte), NEW t \in Seq(Byte), NEW u \in Seq(Byte), NEW v \in Seq(Byte)
    PROVE  GroupsFour(s, t, u, v)
<1>1. s \o t \in Seq(Byte) /\ t \o u \in Seq(Byte) /\ u \o v \in Seq(Byte)
  BY Joins
<1>2. \A x \in Seq(Byte) : (x \o u) \o v = x \o (u \o v)
  BY SMTT(30), Assoc
<1>3. \A x \in Seq(Byte) : (s \o t) \o x = s \o (t \o x)
  BY Assoc
<1>4. \A x \in Seq(Byte) : (s \o x) \o v = s \o (x \o v)
  BY SMTT(30), Assoc
<1>5. ((s \o t) \o u) \o v = (s \o t) \o (u \o v)
  BY <1>1, <1>2
<1>6. (s \o t) \o (u \o v) = s \o (t \o (u \o v))
  BY <1>1, <1>3
<1>7. (s \o (t \o u)) \o v = s \o ((t \o u) \o v)
  BY <1>1, <1>4
<1>8. (t \o u) \o v = t \o (u \o v)
  BY <1>2
<1> QED
  BY <1>5, <1>6, <1>7, <1>8 DEF GroupsFour

\* The reply: received, held by the read in progress, buffered, on its way.
LEMMA ReplyIs ==
    ControlInv => /\ Held \in Seq(Byte) /\ Reply \in Seq(Byte)
                  /\ Reply = got \o (Held \o (cbuf \o toClient)) /\ TypeOK
<1> SUFFICES ASSUME ControlInv
             PROVE  /\ Held \in Seq(Byte) /\ Reply \in Seq(Byte)
                    /\ Reply = got \o (Held \o (cbuf \o toClient)) /\ TypeOK
  OBVIOUS
<1>1. /\ got \in Seq(Byte) /\ cbuf \in Seq(Byte) /\ toClient \in Seq(Byte) /\ <<>> \in Seq(Byte)
      /\ ccall.data \in Seq(Byte) /\ TypeOK
  BY Fields, EmptySeq DEF ControlInv, TypeOK
<1>2. PICK h \in Seq(Byte) : h = Held
  BY <1>1 DEF Held
<1>3. Reply = ((got \o h) \o cbuf) \o toClient
  BY <1>2 DEF Reply, Held
<1>4. ((got \o h) \o cbuf) \o toClient = got \o (h \o (cbuf \o toClient))
  <2>1. GroupsFour(got, h, cbuf, toClient)
    BY <1>1, AssocFour
  <2> QED
    BY <2>1 DEF GroupsFour
<1>5. got \o (h \o (cbuf \o toClient)) \in Seq(Byte)
  <2>1. cbuf \o toClient \in Seq(Byte)
    BY <1>1, Joins
  <2>2. h \o (cbuf \o toClient) \in Seq(Byte)
    BY <2>1, Joins
  <2> QED
    BY <2>2, <1>1, Joins
<1> QED
  BY <1>1, <1>2, <1>3, <1>4, <1>5

\* The server added bytes, which can only go to the end.
LEMMA ReplyGrows ==
    ASSUME ControlInv, ControlInv', UNCHANGED <<got, ccall, cbuf>>, NEW a \in Seq(Byte),
           NEW b \in Seq(Byte), toClient' \o b = toClient \o a
    PROVE  Reply' \o b = Reply \o a
<1>1. /\ Held \in Seq(Byte) /\ Reply = got \o (Held \o (cbuf \o toClient)) /\ TypeOK
  BY ReplyIs
<1>2. (/\ Held \in Seq(Byte) /\ Reply = got \o (Held \o (cbuf \o toClient)) /\ TypeOK)'
  BY ReplyIs, PTL
<1>3. Held' = Held
  BY DEF Held
<1>4. PICK h \in Seq(Byte) : h = Held
  BY <1>1
<1>5. PICK g \in Seq(Byte) : g = got
  BY <1>1 DEF TypeOK
<1>6. PICK c \in Seq(Byte) : c = cbuf
  BY <1>1 DEF TypeOK
<1>7. \A s, x \in Seq(Byte) : (g \o (h \o (c \o s))) \o x = g \o (h \o (c \o (s \o x)))
  <2> TAKE s, x \in Seq(Byte)
  <2>1. PICK cs \in Seq(Byte) : cs = c \o s
    BY Joins
  <2>2. (g \o (h \o cs)) \o x = g \o (h \o (cs \o x))
    <3>1. GroupsFour(g, h, cs, x)
      BY AssocFour
    <3> QED
      BY <3>1 DEF GroupsFour
  <2>3. cs \o x = c \o (s \o x)
    <3>1. Groups(c, s, x)
      BY AssocThree
    <3> QED
      BY <2>1, <3>1 DEF Groups
  <2> QED
    BY <2>1, <2>2, <2>3
<1>8. PICK t \in Seq(Byte) : t = toClient
  BY <1>1 DEF TypeOK
<1>9. PICK u \in Seq(Byte) : u = toClient'
  BY <1>2 DEF TypeOK
<1>10. Reply' = g \o (h \o (c \o u)) /\ Reply = g \o (h \o (c \o t)) /\ u \o b = t \o a
  BY <1>1, <1>2, <1>3, <1>4, <1>5, <1>6, <1>8, <1>9
<1>11. /\ (g \o (h \o (c \o u))) \o b = g \o (h \o (c \o (u \o b)))
       /\ (g \o (h \o (c \o t))) \o a = g \o (h \o (c \o (t \o a)))
  BY <1>7
<1> QED
  BY <1>10, <1>11

\* s is the beginning of t.
Begins(s, t) == \E k \in 0 .. Len(t) : s = S!First(t, k)

\* A beginning is a prefix, and something completes it.
LEMMA BeginsIs ==
    ASSUME NEW s \in Seq(Byte), NEW t \in Seq(Byte)
    PROVE  /\ Begins(s, t) => IsPrefix(s, t)
           /\ Begins(s, t) => \E x \in Seq(Byte) : s \o x = t
           /\ Begins(s, s \o t)
<1>1. Len(t) \in Nat /\ Len(s) \in Nat
  BY LenProperties
<1>2. ASSUME NEW k \in 0 .. Len(t), s = S!First(t, k)
      PROVE  IsPrefix(s, t) /\ \E x \in Seq(Byte) : s \o x = t
  <2>1. Len(s) = k /\ S!Rest(t, k) \in Seq(Byte) /\ s \o S!Rest(t, k) = t
    BY <1>2, Split
  <2>2. SubSeq(s, 1, Len(s)) = s
    BY SubSeqFull
  <2> QED
    BY <2>1, <2>2, <1>1, <1>2 DEF IsPrefix, S!First
<1>3. Begins(s, s \o t)
  <2>1. /\ s \o t \in Seq(Byte) /\ Len(s \o t) = Len(s) + Len(t)
        /\ \A i \in 1 .. Len(s) : (s \o t)[i] = s[i]
    BY Joins
  <2>2. Len(s) \in 0 .. Len(s \o t)
    BY <2>1, <1>1
  <2>3. PICK f \in Seq(Byte) : f = S!First(s \o t, Len(s))
    BY <2>1, <2>2, Split
  <2>4. Len(f) = Len(s) /\ \A i \in 1 .. Len(s) : f[i] = (s \o t)[i]
    BY <2>1, <2>2, <2>3, Split
  <2>5. f = s
    BY <2>1, <2>4, SeqEqual
  <2> QED
    BY <2>2, <2>3, <2>5 DEF Begins
<1> QED
  BY <1>2, <1>3 DEF Begins

\* The beginning of a beginning is one.
LEMMA BeginsTrans ==
    ASSUME NEW s \in Seq(Byte), NEW t \in Seq(Byte), NEW u \in Seq(Byte),
           Begins(s, t), Begins(t, u)
    PROVE  Begins(s, u)
<1>1. PICK x \in Seq(Byte) : s \o x = t
  BY BeginsIs
<1>2. PICK y \in Seq(Byte) : t \o y = u
  BY BeginsIs
<1>3. s \o (x \o y) = u /\ x \o y \in Seq(Byte)
  <2>1. (s \o x) \o y = s \o (x \o y)
    BY SMTT(30), Assoc
  <2>2. x \o y \in Seq(Byte)
    BY Joins
  <2> QED
    BY <1>1, <1>2, <2>1, <2>2
<1>4. Begins(s, s \o (x \o y))
  BY <1>3, BeginsIs
<1> QED
  BY <1>3, <1>4

\* The client reads on: it was sent the same, unless a reset took some of it.
LEMMA ReplyStays ==
    ASSUME ControlInv, ControlInv', ClientIO \/ SendRest \/ Fetch
    PROVE  Reply' = Reply \/ (rstToClient = "reset" /\ Begins(Reply', Reply))
<1> USE DEF serverVars, clientVars, clientEnd, serverEnd, net, closed, arrivals
<1>1. /\ Held \in Seq(Byte) /\ Reply \in Seq(Byte)
      /\ Reply = got \o (Held \o (cbuf \o toClient)) /\ TypeOK
  BY ReplyIs
<1>2. (/\ Held \in Seq(Byte) /\ Reply \in Seq(Byte)
       /\ Reply = got \o (Held \o (cbuf \o toClient)) /\ TypeOK)'
  BY ReplyIs, PTL
<1>3. /\ got \in Seq(Byte) /\ cbuf \in Seq(Byte) /\ toClient \in Seq(Byte) /\ ccall \in CallType
      /\ ccall.data \in Seq(Byte) /\ ccall.ret \in Int
  BY <1>1, Fields DEF TypeOK
<1>4. cpc = "recv" => Fetches(ccall, cbuf, toClient)
  BY DEF ControlInv, ClientCallInv
<1>5. cpc \in {"send", "rest"} => ccall.fn = "writen" /\ Held = <<>>
  BY DEF ControlInv, ClientCallInv, Held
<1>6. CASE ClientIO
  <2>1. UNCHANGED <<cpc, got>>
    BY <1>6, ClientIOSteps
  <2>2. CASE ClientReadStep
    <3>1. /\ ccall.fn \in {"readnb", "readn"} /\ ~ccall.done
          /\ ccall'.fn = ccall.fn /\ (ccall'.done => ccall'.ret >= 0)
          /\ Bytes(ccall', cbuf', toClient') = Bytes(ccall, cbuf, toClient)
      BY <1>4, <2>2 DEF ClientReadStep, ReadStep, Fetches
    <3>2. ccall'.done /\ ccall'.ret <= 0 => ccall'.data = <<>>
      <4>1. ccall'.done /\ ccall'.ret = 0 => ccall'.data = <<>>
        BY <2>2 DEF ClientReadStep, Fetches
      <4>2. ccall'.ret \in Int
        BY <1>2, Fields DEF TypeOK
      <4> QED
        BY <3>1, <4>1, <4>2
    <3>3. Held = ccall.data /\ Held' = ccall'.data
      BY <3>1, <3>2 DEF Held
    <3> QED
      BY <1>1, <1>2, <2>1, <3>1, <3>3 DEF Bytes
  <2>3. CASE ClientErrorStep
    <3>1. /\ rstToClient = "reset" /\ ccall'.done /\ ccall'.ret = -1
          /\ Fetches(ccall', cbuf', toClient')
      BY <2>3 DEF ClientErrorStep
    <3>2. ccall'.done /\ ccall'.ret <= 0
      <4>1. PICK r \in Int : r = -1
        OBVIOUS
      <4>2. r <= 0
        BY <4>1
      <4> QED
        BY <3>1, <4>1, <4>2
    <3>3. cbuf' = <<>> /\ toClient' = <<>> /\ Held' = <<>>
      BY <3>1, <3>2 DEF Fetches, Held
    <3>4. Reply' = got
      <4>1. Reply' = got \o (<<>> \o (<<>> \o <<>>))
        BY <1>2, <2>1, <3>3
      <4>2. <<>> \o <<>> = <<>> /\ got \o <<>> = got
        BY <1>3, Joins, EmptySeq
      <4> QED
        BY <4>1, <4>2
    <3>5. Held \o (cbuf \o toClient) \in Seq(Byte)
      <4>1. cbuf \o toClient \in Seq(Byte)
        BY <1>3, Joins
      <4> QED
        BY <4>1, <1>1, Joins
    <3>6. Begins(Reply', Reply)
      BY <1>1, <1>3, <3>4, <3>5, BeginsIs
    <3> QED
      BY <3>1, <3>6
  <2>4. CASE ClientWriteStep \/ ClientLoseStep
    <3>1. cpc \in {"send", "rest"} /\ ccall'.fn = "writen" /\ UNCHANGED <<cbuf, toClient>>
      BY <1>5, <2>4 DEF ClientWriteStep, WriteStep, ClientLoseStep
    <3>2. Held' = Held
      BY <1>5, <3>1 DEF Held
    <3> QED
      BY <1>1, <1>2, <2>1, <3>1, <3>2
  <2> QED
    BY <1>6, <2>2, <2>3, <2>4, ClientIOSteps
<1>7. CASE SendRest
  <2>1. /\ cpc = "send" /\ UNCHANGED <<got, cbuf, toClient>>
        /\ ccall' = C!Call("writen", Len(request) - 2, C!Rest(request, 2))
    BY <1>7 DEF SendRest
  <2>2. Held' = <<>>
    BY <2>1 DEF C!Call, Held
  <2> QED
    BY <1>1, <1>2, <1>5, <2>1, <2>2
<1>8. CASE Fetch
  <2>1. /\ cpc \in {"rest", "recv"} /\ ccall.done /\ UNCHANGED <<cbuf, toClient>>
    BY <1>8 DEF Fetch
  <2>2. \A fn : C!Call(fn, MaxBuf, <<>>).data = <<>>
    BY DEF C!Call
  <2>3. CASE cpc = "rest"
    <3>1. got' = got /\ \E fn \in {"readnb", "readn"} : ccall' = C!Call(fn, MaxBuf, <<>>)
      BY <1>8, <2>3 DEF Fetch
    <3>2. Held' = <<>>
      BY <3>1, <2>2 DEF Held
    <3> QED
      BY <1>1, <1>2, <1>5, <2>1, <2>3, <3>1, <3>2
  <2>4. CASE cpc = "recv" /\ ccall.ret > 0
    <3>1. got' = got \o ccall.data /\ ccall' = C!Call(ccall.fn, MaxBuf, <<>>)
      BY <1>8, <2>4 DEF Fetch
    <3>2. Held' = <<>>
      BY <3>1, <2>2 DEF Held
    <3>3. Held = ccall.data
      <4>1. ~(ccall.ret <= 0) /\ ccall.fn # "writen"
        BY <1>3, <1>4, <2>4 DEF Fetches
      <4> QED
        BY <4>1 DEF Held
    <3>4. PICK x \in Seq(Byte) : x = cbuf \o toClient
      BY <1>3, Joins
    <3>5. Groups(got, ccall.data, x)
      BY <1>3, AssocThree
    <3>6. Reply' = (got \o ccall.data) \o (<<>> \o x)
      BY <1>2, <2>1, <3>1, <3>2, <3>4
    <3>7. <<>> \o x = x
      BY Joins
    <3> QED
      BY <1>1, <3>3, <3>4, <3>5, <3>6, <3>7 DEF Groups
  <2>5. CASE cpc = "recv" /\ ~(ccall.ret > 0)
    <3>1. UNCHANGED <<got, ccall>>
      BY <1>8, <2>5 DEF Fetch
    <3>2. Held' = Held
      BY <3>1 DEF Held
    <3> QED
      BY <1>1, <1>2, <2>1, <3>1, <3>2
  <2> QED
    BY <2>1, <2>3, <2>4, <2>5
<1> QED
  BY <1>6, <1>7, <1>8

-----------------------------------------------------------------------------
Allowed == Responses \cup (IF cut THEN {DynamicHead \o <<"L">>} ELSE {})

\* What is to be said after the call in progress.
Then == IF respond = <<>> THEN <<>> ELSE respond[1]

\* While the client waits: nothing was said, the rest makes it a response, or
\* all was said.
ReplyInv == ~clientClosed =>
    /\ pc \in {"reqline", "headers", "uri"} => Reply = <<>>
    /\ pc = "write" => /\ Reply \o (scall.data \o Then) \in Responses
                       /\ IsDynamic => Reply \o scall.data = DynamicHead
    /\ pc = "wait" => \/ Reply \o child \in Responses
                      \/ cut /\ Reply \o child \in {DynamicHead, DynamicHead \o <<"L">>}
    /\ pc = "close" \/ serverClosed =>
          /\ \E r \in Allowed : Begins(Reply, r)
          /\ WellFormed /\ ~cut => Reply \in Responses

\* The responses are sequences of bytes.
LEMMA ResponsesType ==
    /\ Responses \subseteq Seq(Byte) /\ Allowed \subseteq Seq(Byte)
    /\ Responses # {} /\ Responses \subseteq Allowed
    /\ DynamicHead \o <<"L">> \in Seq(Byte)
<1>1. /\ StaticHead \o StaticBody \in Seq(Byte) /\ DynamicHead \o CgiOutput \in Seq(Byte)
      /\ DynamicHead \o <<"L">> \in Seq(Byte)
  BY Pieces, Joins
<1>2. Content \in Seq(Byte)
  BY <1>1 DEF Content
<1>3. \A codes \in SUBSET {"400", "403", "404", "501"} : Errors(codes) \subseteq Seq(Byte)
  <2> SUFFICES ASSUME NEW code \in {"400", "403", "404", "501"}
               PROVE  <<code>> \o ErrorBody \in Seq(Byte)
    BY DEF Errors
  <2>1. <<code>> \in Seq(Byte) /\ ErrorBody \in Seq(Byte)
    BY Pieces DEF Byte
  <2> QED
    BY <2>1, Joins
<1>4. Responses \subseteq Seq(Byte)
  BY <1>2, <1>3 DEF Responses
<1>5. Content \in Responses
  BY DEF Responses
<1> QED
  BY <1>1, <1>4, <1>5 DEF Allowed

\* Nothing but the reply changes, and that only by a loss at its end.
LEMMA ReplyKept ==
    ASSUME ControlInv, ControlInv', ReplyInv,
           UNCHANGED <<variant, request, cut, pc, scall, respond, child>>,
           UNCHANGED <<clientClosed, serverClosed>>,
           \/ Reply' = Reply
           \/ serverClosed /\ Begins(Reply', Reply) /\ (~clientClosed => ~WellFormed)
    PROVE  ReplyInv'
<1>1. /\ WellFormed' <=> WellFormed
      /\ Responses' = Responses
  BY RequestSame
<1>2. Allowed' = Allowed
  BY <1>1 DEF Allowed
<1>3. Then' = Then /\ (IsDynamic' <=> IsDynamic)
  BY DEF Then, IsDynamic
<1>4. CASE Reply' = Reply
  BY <1>1, <1>2, <1>3, <1>4 DEF ReplyInv
<1>5. CASE serverClosed /\ Begins(Reply', Reply) /\ (~clientClosed => ~WellFormed)
  <2>1. pc \notin {"reqline", "headers", "uri", "write", "wait", "close"}
    BY <1>5 DEF ControlInv, EndsInv
  <2>2. ASSUME ~clientClosed PROVE \E r \in Allowed : Begins(Reply', r)
    <3>1. PICK r \in Allowed : Begins(Reply, r)
      BY <1>5, <2>2 DEF ReplyInv
    <3>2. r \in Seq(Byte)
      BY ResponsesType
    <3>3. Reply \in Seq(Byte)
      BY ReplyIs
    <3>4. (Reply \in Seq(Byte))'
      BY ReplyIs, PTL
    <3>5. Begins(Reply', r)
      BY <1>5, <3>1, <3>2, <3>3, <3>4, BeginsTrans
    <3> QED
      BY <3>5
  <2> QED
    BY <1>1, <1>2, <1>5, <2>1, <2>2 DEF ReplyInv
<1> QED
  BY <1>4, <1>5

\* The server's program changes nothing that was sent.
LEMMA ProgramKeeps ==
    ASSUME KeepServer
    PROVE  /\ UNCHANGED <<variant, request, clientClosed, serverClosed>> /\ Reply' = Reply
           /\ WellFormed' <=> WellFormed
           /\ Responses' = Responses /\ Asked' = Asked
<1>1. UNCHANGED <<variant, request, clientClosed, serverClosed, got, ccall, cbuf, toClient>>
  BY DEF KeepServer, clientVars, clientEnd, net, closed
<1>2. Reply' = Reply
  BY <1>1 DEF Reply
<1> QED
  BY <1>1, <1>2, RequestSame

\* The server begins a response.
LEMMA Begun ==
    ASSUME Reply = <<>>, Reply' = Reply, Responses' = Responses,
           NEW p \in Seq(Byte), NEW q \in Seq(Byte),
           Says(p, <<q>>), p \o q \in Responses, q = CgiOutput => p = DynamicHead,
           UNCHANGED serverClosed, ~serverClosed
    PROVE  ReplyInv'
<1>1. pc' = "write" /\ scall'.data = p /\ respond' = <<q>> /\ <<q>>[1] = q /\ <<q>> # <<>>
  BY DEF Says
<1>2. Then' = q
  BY <1>1 DEF Then
<1>3. p \o q \in Seq(Byte)
  BY Joins
<1>4. <<>> \o (p \o q) = p \o q /\ <<>> \o p = p
  BY <1>3, Joins
<1>5. IsDynamic' => q = CgiOutput
  BY <1>1 DEF IsDynamic
<1> QED
  BY <1>1, <1>2, <1>4, <1>5 DEF ReplyInv

\* The server begins to report an error.
LEMMA ErrorBegun ==
    ASSUME Reply = <<>>, Reply' = Reply, Responses' = Responses,
           NEW code \in {"400", "403", "404", "501"}, Error(code),
           WellFormed => code \in {"403", "404"},
           UNCHANGED serverClosed, ~serverClosed
    PROVE  ReplyInv'
<1>1. code \in Byte /\ <<code>> \in Seq(Byte) /\ ErrorBody \in Seq(Byte)
  BY Pieces DEF Byte
<1>2. Says(<<code>>, <<ErrorBody>>)
  BY <1>1, ErrorSays
<1>3. <<code>> \o ErrorBody \in Responses
  BY DEF Responses, Errors
<1>4. ErrorBody # CgiOutput
  BY DEF ErrorBody, CgiOutput
<1> QED
  BY <1>1, <1>2, <1>3, <1>4, Begun

\* Where the responses begin.
LEMMA RespondReplies ==
    ASSUME ControlInv, RequestInv, ReplyInv, ~clientClosed, RequestLine \/ Headers \/ Respond
    PROVE  ReplyInv'
<1>1. KeepServer /\ pc \in {"reqline", "headers", "uri"}
  BY DEF RequestLine, Headers, Respond
<1>2. ~serverClosed
  BY <1>1 DEF ControlInv, EndsInv
<1>3. Reply = <<>>
  BY <1>1, <1>2 DEF ReplyInv
<1>4. /\ UNCHANGED <<clientClosed, serverClosed>> /\ Reply' = Reply
      /\ Responses' = Responses /\ Asked' = Asked
  BY <1>1, ProgramKeeps
<1>5. CASE RequestLine \/ Headers
  <2>1. /\ pc' \in {"headers", "uri", "write"}
        /\ WellFormed => pc' \in {"headers", "uri"}
        /\ pc' = "write" => Error("400") \/ Error("501")
    BY <1>5, LineStep
  <2>2. CASE pc' \in {"headers", "uri"}
    BY <1>2, <1>3, <1>4, <2>2 DEF ReplyInv
  <2>3. CASE pc' = "write"
    <3>1. ~WellFormed
      BY <2>1, <2>3
    <3>2. PICK code \in {"400", "501"} : Error(code)
      BY <2>1, <2>3
    <3> QED
      BY <1>2, <1>3, <1>4, <3>1, <3>2, ErrorBegun
  <2> QED
    BY <2>1, <2>2, <2>3
<1>6. CASE Respond
  <2>1. CASE Asked = "baduri" /\ Error("400")
    <3>1. ~WellFormed
      BY <2>1 DEF WellFormed
    <3> QED
      BY <1>2, <1>3, <1>4, <2>1, <3>1, ErrorBegun
  <2>2. CASE Error("404")
    BY <1>2, <1>3, <1>4, <2>2, ErrorBegun
  <2>3. CASE Error("403")
    BY <1>2, <1>3, <1>4, <2>3, ErrorBegun
  <2>4. CASE (Asked = "static" \/ ServesHomePage) /\ Writing(<<StaticHead, StaticBody>>)
    <3>1. StaticHead \in Seq(Byte) /\ StaticBody \in Seq(Byte)
      BY Pieces
    <3>2. Says(StaticHead, <<StaticBody>>)
      BY <2>4, <3>1, WritingTwo
    <3>3. StaticHead \o StaticBody \in Responses
      BY <2>4 DEF Responses, Content, ServesHomePage
    <3>4. StaticBody # CgiOutput
      BY DEF StaticBody, CgiOutput
    <3> QED
      BY <1>2, <1>3, <1>4, <3>1, <3>2, <3>3, <3>4, Begun
  <2>5. CASE Asked = "dynamic" /\ variant = "tiny" /\ Writing(<<DynamicHead, CgiOutput>>)
    <3>1. DynamicHead \in Seq(Byte) /\ CgiOutput \in Seq(Byte)
      BY Pieces
    <3>2. Says(DynamicHead, <<CgiOutput>>)
      BY <2>5, <3>1, WritingTwo
    <3>3. DynamicHead \o CgiOutput \in Responses
      BY <2>5 DEF Responses, Content
    <3> QED
      BY <1>2, <1>3, <1>4, <3>1, <3>2, <3>3, Begun
  <2> QED
    BY <1>6, <2>1, <2>2, <2>3, <2>4, <2>5 DEF Respond
<1> QED
  BY <1>5, <1>6

\* A piece was written, and what follows it.
LEMMA WrittenReplies ==
    ASSUME ControlInv, ReplyInv, ~clientClosed, NextPiece \/ FileFails \/ Written \/ Fork
    PROVE  ReplyInv'
<1>1. KeepServer /\ pc = "write" /\ scall.done
  BY DEF NextPiece, FileFails, Written, Fork
<1>2. /\ UNCHANGED <<variant, request, clientClosed, serverClosed>> /\ Reply' = Reply
      /\ WellFormed' <=> WellFormed
      /\ Responses' = Responses
  BY <1>1, ProgramKeeps
<1>3. scall.data = <<>> /\ scall.ret >= 0 /\ ~serverClosed /\ TypeOK
  BY <1>1 DEF ControlInv, ServerCallInv, EndsInv
<1>4. Reply \in Seq(Byte) /\ Then \in Seq(Byte) /\ <<>> \in Seq(Byte)
  <2>1. \A p : <<p>>[1] = p /\ <<p>> # <<>>
    OBVIOUS
  <2>2. Then \in {<<>>, ErrorBody, StaticBody, CgiOutput}
    BY <1>3, <2>1 DEF TypeOK, Then
  <2> QED
    BY <2>2, ReplyIs, Pieces
<1>5. Reply \o Then \in Responses /\ (IsDynamic => Reply = DynamicHead)
  <2>1. /\ Reply \o (<<>> \o Then) \in Responses
        /\ IsDynamic => Reply \o <<>> = DynamicHead
    BY <1>1, <1>3 DEF ReplyInv
  <2>2. <<>> \o Then = Then /\ Reply \o <<>> = Reply
    BY <1>4, Joins
  <2> QED
    BY <2>1, <2>2
<1>6. Begins(Reply, Reply \o Then)
  BY <1>4, BeginsIs
<1>7. CASE NextPiece
  <2>1. respond # <<>> /\ Writing(respond)
    BY <1>7 DEF NextPiece, GoesOn
  <2>2. PICK p \in Seq(Byte) : respond = <<p>>
    BY <1>3, <2>1, Pieces DEF TypeOK
  <2>3. Says(p, <<>>)
    BY <2>1, <2>2, WritingOne
  <2>4. Then = p
    BY <2>2 DEF Then
  <2>5. Then' = <<>> /\ ~IsDynamic'
    BY <2>3 DEF Says, Then, IsDynamic, CgiOutput
  <2>6. p \o <<>> = p
    BY Joins
  <2> QED
    BY <1>2, <1>3, <1>5, <2>3, <2>4, <2>5, <2>6 DEF ReplyInv, Says
<1>8. CASE FileFails
  <2>1. pc' = "close" /\ cut' = TRUE
    BY <1>8 DEF FileFails, Closing
  <2>2. Responses \subseteq Allowed'
    BY <1>2 DEF Allowed
  <2> QED
    BY <1>2, <1>3, <1>5, <1>6, <2>1, <2>2 DEF ReplyInv
<1>9. CASE Written
  <2>1. pc' = "close" /\ UNCHANGED cut /\ (IF IsDynamic THEN scall.ret < 0 ELSE ~GoesOn)
    BY <1>9 DEF Written, Closing
  <2>2. ~(scall.ret < 0)
    BY <1>3, Fields DEF TypeOK
  <2>3. respond = <<>>
    BY <1>3, <2>1, <2>2 DEF GoesOn
  <2>4. Reply \in Responses
    <3>1. Reply \o <<>> = Reply
      BY <1>4, Joins
    <3> QED
      BY <1>5, <2>3, <3>1 DEF Then
  <2>5. Responses \subseteq Allowed'
    BY <1>2 DEF Allowed
  <2>6. Begins(Reply, Reply)
    <3>1. Reply \o <<>> = Reply
      BY <1>4, Joins
    <3>2. Begins(Reply, Reply \o <<>>)
      BY <1>4, BeginsIs
    <3> QED
      BY <3>1, <3>2
  <2> QED
    BY <1>2, <1>3, <2>1, <2>4, <2>5, <2>6 DEF ReplyInv
<1>10. CASE Fork
  <2>1. /\ IsDynamic /\ \/ pc' = "wait" /\ child' = CgiOutput /\ UNCHANGED cut
                        \/ pc' = "wait" /\ child' \in {<<>>, <<"L">>} /\ cut' = TRUE
                        \/ pc' = "close" /\ cut' = TRUE
    BY <1>10 DEF Fork
  <2>2. Reply = DynamicHead /\ Then = CgiOutput
    BY <1>5, <2>1 DEF IsDynamic, Then
  <2>3. CASE pc' = "wait" /\ child' = CgiOutput
    BY <1>2, <1>3, <1>5, <2>2, <2>3 DEF ReplyInv
  <2>4. CASE pc' = "wait" /\ child' \in {<<>>, <<"L">>} /\ cut' = TRUE
    <3>1. DynamicHead \o <<>> = DynamicHead
      BY Pieces, Joins
    <3> QED
      BY <1>2, <1>3, <2>2, <2>4, <3>1 DEF ReplyInv
  <2>5. CASE pc' = "close" /\ cut' = TRUE
    <3>1. DynamicHead \o <<"L">> \in Allowed'
      BY <2>5 DEF Allowed
    <3>2. Begins(DynamicHead, DynamicHead \o <<"L">>)
      BY Pieces, BeginsIs
    <3> QED
      BY <1>2, <1>3, <2>2, <2>5, <3>1, <3>2 DEF ReplyInv
  <2> QED
    BY <2>1, <2>3, <2>4, <2>5
<1> QED
  BY <1>7, <1>8, <1>9, <1>10

\* The program has written all that it had.
LEMMA ReapReplies ==
    ASSUME ControlInv, ReplyInv, ~clientClosed, Reap
    PROVE  ReplyInv'
<1>1. KeepServer /\ pc = "wait" /\ pc' = "close" /\ UNCHANGED cut /\ child = <<>>
  BY DEF Reap
<1>2. /\ UNCHANGED <<variant, request, clientClosed, serverClosed>> /\ Reply' = Reply
      /\ WellFormed' <=> WellFormed
      /\ Responses' = Responses
  BY <1>1, ProgramKeeps
<1>3. ~serverClosed /\ Reply \in Seq(Byte) /\ <<>> \in Seq(Byte)
  BY <1>1, ReplyIs, EmptySeq DEF ControlInv, EndsInv
<1>4. Reply \o <<>> = Reply
  BY <1>3, Joins
<1>5. \/ Reply \in Responses
      \/ cut /\ Reply \in {DynamicHead, DynamicHead \o <<"L">>}
  BY <1>1, <1>4 DEF ReplyInv
<1>6. Begins(Reply, Reply)
  <2>1. Begins(Reply, Reply \o <<>>)
    BY <1>3, BeginsIs
  <2> QED
    BY <1>4, <2>1
<1>7. Begins(DynamicHead, DynamicHead \o <<"L">>)
  BY Pieces, BeginsIs
<1>8. Allowed' = Responses \cup (IF cut THEN {DynamicHead \o <<"L">>} ELSE {})
  BY <1>1, <1>2 DEF Allowed
<1>9. \E r \in Allowed' : Begins(Reply, r)
  BY <1>5, <1>6, <1>7, <1>8
<1> QED
  BY <1>1, <1>2, <1>3, <1>5, <1>9 DEF ReplyInv

\* Every step keeps the reply.
LEMMA ReplyStep ==
    ASSUME ControlInv, ControlInv', RequestInv, ReplyInv, [Next]_vars
    PROVE  ReplyInv'
<1> USE DEF serverVars, clientVars, clientEnd, serverEnd, net, closed, arrivals
<1>0. TypeOK /\ EndsInv
  BY DEF ControlInv
<1>1. SUFFICES ASSUME ~clientClosed' PROVE ReplyInv'
  BY DEF ReplyInv
<1>2. ASSUME NEW r \in Request, Connect(r) PROVE ReplyInv'
  <2>1. /\ UNCHANGED <<variant, request, cut, pc, scall, respond, child>>
        /\ UNCHANGED <<clientClosed, serverClosed>>
        /\ UNCHANGED <<got, ccall, cbuf, toClient>>
    BY <1>2 DEF Connect
  <2>2. Reply' = Reply
    BY <2>1 DEF Reply
  <2> QED
    BY <2>1, <2>2, ReplyKept
<1>3. CASE ClientIO \/ SendRest \/ Fetch
  <2>1. UNCHANGED <<variant, request, cut, pc, scall, respond, child, clientClosed, serverClosed>>
    BY <1>3 DEF ClientIO, SendRest, Fetch
  <2>2. Reply' = Reply \/ (rstToClient = "reset" /\ Begins(Reply', Reply))
    BY <1>3, ReplyStays
  <2>3. rstToClient = "reset" => serverClosed /\ ~WellFormed
    BY <1>0, <1>1, <2>1 DEF EndsInv, RequestInv, Answering
  <2> QED
    BY <2>1, <2>2, <2>3, ReplyKept
<1>4. CASE ClientClose \/ Refused
  BY <1>0, <1>1, <1>4 DEF ClientClose, Refused, EndsInv
<1>5. ASSUME NEW o, Listen(o) PROVE ReplyInv'
  <2>1. clientClosed' = clientClosed /\ pc = "start"
    BY <1>5 DEF Listen
  <2> QED
    BY <2>1, <1>0, <1>1 DEF EndsInv
<1>6. CASE Accept
  <2>1. /\ pc' = "reqline" /\ got' = <<>> /\ cbuf' = <<>> /\ toClient' = <<>>
        /\ ccall' = C!Call("writen", 2, Line1(Head(backlog))) /\ serverClosed' = FALSE
    BY <1>6 DEF Accept
  <2>2. Held' = <<>>
    BY <2>1 DEF Held, C!Call
  <2>3. (Reply = got \o (Held \o (cbuf \o toClient)))'
    BY ReplyIs, PTL
  <2>4. Reply' = <<>>
    <3>1. <<>> \in Seq(Byte) /\ <<>> \o <<>> = <<>>
      BY EmptySeq, Joins
    <3>2. Reply' = <<>> \o (<<>> \o (<<>> \o <<>>))
      BY <2>1, <2>2, <2>3
    <3> QED
      BY <3>1, <3>2
  <2> QED
    BY <2>1, <2>4 DEF ReplyInv
<1>7. CASE ServerIO
  <2>1. UNCHANGED <<serverVars, clientVars, clientEnd, closed>>
    BY <1>7, ServerIOSteps
  <2>2. CASE ServerReadStep
    <3>1. toClient' = toClient /\ pc \in {"reqline", "headers"}
      BY <2>2 DEF ServerReadStep
    <3>2. Reply' = Reply
      BY <2>1, <3>1 DEF Reply
    <3> QED
      BY <1>0, <1>1, <2>1, <3>1, <3>2 DEF ReplyInv, EndsInv
  <2>3. CASE ServerWriteStep
    <3>1. /\ pc = "write" /\ scall' \in CallType
          /\ toClient' \o scall'.data = toClient \o scall.data
      BY <2>3 DEF ServerWriteStep, WriteStep
    <3>2. scall.data \in Seq(Byte) /\ scall'.data \in Seq(Byte)
      BY <1>0, <3>1, Fields DEF TypeOK
    <3>3. Reply' \o scall'.data = Reply \o scall.data
      BY <2>1, <3>1, <3>2, ReplyGrows
    <3>4. Then' = Then /\ (IsDynamic' <=> IsDynamic) /\ Responses' = Responses
      BY <2>1, RequestSame DEF Then, IsDynamic
    <3>5. Then \in Seq(Byte)
      <4>1. \A p : <<p>>[1] = p /\ <<p>> # <<>>
        OBVIOUS
      <4>2. Then \in {<<>>, ErrorBody, StaticBody, CgiOutput}
        BY <1>0, <4>1 DEF TypeOK, Then
      <4> QED
        BY <4>2, Pieces
    <3>6. Reply' \o (scall'.data \o Then) = Reply \o (scall.data \o Then)
      <4>1. Reply \in Seq(Byte)
        BY ReplyIs
      <4>2. (Reply \in Seq(Byte))'
        BY ReplyIs, PTL
      <4>3. Groups(Reply, scall.data, Then) /\ Groups(Reply', scall'.data, Then)
        BY <3>2, <3>5, <4>1, <4>2, AssocThree
      <4> QED
        BY <4>3, <3>3 DEF Groups
    <3>7. ~serverClosed
      BY <1>0, <3>1 DEF EndsInv
    <3> QED
      BY <1>1, <2>1, <3>1, <3>3, <3>4, <3>6, <3>7 DEF ReplyInv
  <2>4. CASE ServerLoseStep
    BY <1>1, <2>1, <2>4 DEF ServerLoseStep
  <2> QED
    BY <1>7, <2>2, <2>3, <2>4, ServerIOSteps
<1>8. CASE Program
  <2>1. ~clientClosed
    <3>1. KeepServer
      BY <1>8, ServerProceeds DEF Program, Proceeds
    <3> QED
      BY <3>1, <1>1 DEF KeepServer
  <2> QED
    BY <1>8, <2>1, RespondReplies, WrittenReplies, ReapReplies DEF Program
<1>9. CASE ServerClose
  <2>1. /\ pc = "close" /\ pc' = "accept" /\ serverClosed' = TRUE
        /\ Close(toServer, toClient, rstToClient)
        /\ UNCHANGED <<variant, request, cut, clientClosed, got, ccall, cbuf>>
    BY <1>9 DEF ServerClose
  <2>2. /\ \E r \in Allowed : Begins(Reply, r)
        /\ WellFormed /\ ~cut => Reply \in Responses
    BY <1>1, <2>1 DEF ReplyInv
  <2>3. (WellFormed' <=> WellFormed) /\ Responses' = Responses
    BY <2>1, RequestSame
  <2>4. Allowed' = Allowed
    BY <2>1, <2>3 DEF Allowed
  <2>5. PICK k \in 0 .. Len(toClient) : toClient' = S!First(toClient, k)
    <3>1. toServer \in Seq(Byte) /\ toClient \in Seq(Byte) /\ rstToClient \in Reset
      BY <1>0 DEF TypeOK
    <3>2. CASE toServer = <<>>
      <4>1. toClient' = toClient /\ Len(toClient) \in 0 .. Len(toClient)
        BY <2>1, <3>1, <3>2, LenProperties DEF Close
      <4>2. toClient = S!First(toClient, Len(toClient))
        BY <3>1, SubSeqFull DEF S!First
      <4> QED
        BY <4>1, <4>2
    <3>3. CASE toServer # <<>>
      BY <2>1, <3>3 DEF Close, S!First
    <3> QED
      BY <3>2, <3>3
  <2>6. Begins(Reply', Reply)
    <3>1. toClient \in Seq(Byte) /\ Reply \in Seq(Byte) /\ <<>> \in Seq(Byte)
      BY <1>0, ReplyIs, EmptySeq DEF TypeOK
    <3>2. (Reply \in Seq(Byte) /\ TypeOK)'
      BY ReplyIs, PTL
    <3>3. PICK x \in Seq(Byte) : toClient' \o x = toClient
      <4>1. Begins(toClient', toClient)
        BY <2>5 DEF Begins
      <4>2. toClient' \in Seq(Byte)
        BY <3>2 DEF TypeOK
      <4> QED
        BY <3>1, <4>1, <4>2, BeginsIs
    <3>4. toClient \o <<>> = toClient /\ Reply \o <<>> = Reply
      BY <3>1, Joins
    <3>5. Reply' \o x = Reply \o <<>>
      BY <2>1, <3>1, <3>3, <3>4, ReplyGrows
    <3>6. Begins(Reply', Reply' \o x)
      BY <3>2, BeginsIs
    <3> QED
      BY <3>4, <3>5, <3>6
  <2>7. \E r \in Allowed : Begins(Reply', r)
    <3>1. PICK r \in Allowed : Begins(Reply, r)
      BY <2>2
    <3>2. r \in Seq(Byte) /\ Reply \in Seq(Byte)
      BY ResponsesType, ReplyIs
    <3>3. (Reply \in Seq(Byte))'
      BY ReplyIs, PTL
    <3>4. Begins(Reply', r)
      BY <2>6, <3>1, <3>2, <3>3, BeginsTrans
    <3> QED
      BY <3>4
  <2>8. WellFormed => Reply' = Reply
    <3> SUFFICES ASSUME WellFormed PROVE Reply' = Reply
      OBVIOUS
    <3>1. toServer = <<>>
      BY <1>1, <2>1 DEF RequestInv, Answering
    <3>2. toClient' = toClient
      BY <2>1, <3>1 DEF Close
    <3> QED
      BY <2>1, <3>2 DEF Reply
  <2> QED
    BY <2>1, <2>2, <2>3, <2>4, <2>7, <2>8 DEF ReplyInv
<1>10. CASE Die
  BY <1>0, <1>1, <1>10 DEF Die, EndsInv, S!BrokenPipe
<1>11. CASE ChildWrites
  <2>1. /\ pc = "wait" /\ ~clientClosed
        /\ UNCHANGED <<variant, request, cut, pc, scall, got, ccall, cbuf>>
        /\ UNCHANGED <<clientClosed, serverClosed>>
    BY <1>1, <1>11 DEF ChildWrites
  <2>2. PICK k \in 1 .. Len(child) :
          toClient' = toClient \o S!First(child, k) /\ child' = S!Rest(child, k)
    BY <1>11, <2>1 DEF ChildWrites, S!First, S!Rest
  <2>3. k \in 0 .. Len(child) /\ child \in Seq(Byte) /\ toClient \in Seq(Byte)
    BY <1>0 DEF TypeOK
  <2>4. /\ S!First(child, k) \in Seq(Byte) /\ S!Rest(child, k) \in Seq(Byte)
        /\ S!First(child, k) \o S!Rest(child, k) = child
    BY <2>3, Split
  <2>5. Groups(toClient, S!First(child, k), S!Rest(child, k))
    BY <2>3, <2>4, AssocThree
  <2>6. toClient' \o child' = toClient \o child /\ child' \in Seq(Byte)
    BY <2>2, <2>4, <2>5 DEF Groups
  <2>7. Reply' \o child' = Reply \o child
    BY <2>1, <2>3, <2>6, ReplyGrows
  <2>8. Responses' = Responses /\ ~serverClosed
    BY <1>0, <2>1, RequestSame DEF EndsInv
  <2> QED
    BY <2>1, <2>7, <2>8 DEF ReplyInv
<1>12. CASE UNCHANGED vars
  <2>1. /\ UNCHANGED <<variant, request, cut, pc, scall, respond, child>>
        /\ UNCHANGED <<clientClosed, serverClosed>>
        /\ UNCHANGED <<got, ccall, cbuf, toClient>>
    BY <1>12 DEF vars
  <2>2. Reply' = Reply
    BY <2>1 DEF Reply
  <2> QED
    BY <2>1, <2>2, ReplyKept
<1> QED
  BY <1>2, <1>3, <1>4, <1>5, <1>6, <1>7, <1>8, <1>9, <1>10, <1>11, <1>12
     DEF Next, Client, Server, Program

-----------------------------------------------------------------------------
(* The theorems.                                                           *)

IInv == ControlInv /\ FdsInv /\ RequestInv /\ ReplyInv

\* The invariant holds at the start.
LEMMA IInvInit == Init => IInv
<1>1. Init => ControlInv /\ FdsInv /\ clientClosed
  BY InitControl DEF FdsInv
<1>2. clientClosed => RequestInv /\ ReplyInv
  BY DEF RequestInv, ReplyInv
<1> QED
  BY <1>1, <1>2 DEF IInv

\* Every step keeps the invariant.
LEMMA IInvNext == IInv /\ [Next]_vars => IInv'
<1> SUFFICES ASSUME IInv, [Next]_vars PROVE IInv'
  OBVIOUS
<1>1. ControlInv'
  BY ControlStep DEF IInv
<1>2. FdsInv'
  BY FdsStep DEF IInv
<1>3. RequestInv'
  BY <1>1, RequestStep DEF IInv
<1>4. ReplyInv'
  BY <1>1, ReplyStep DEF IInv
<1> QED
  BY <1>1, <1>2, <1>3, <1>4 DEF IInv

\* The invariant always holds.
LEMMA IInvAlways == Spec => []IInv
BY IInvInit, IInvNext, PTL DEF Spec

\* By the invariant a reply is the beginning of a response: something completes it.
LEMMA AnyReply == IInv => RepliesAreResponses
<1> SUFFICES ASSUME IInv, ~clientClosed PROVE \E r \in Allowed : IsPrefix(Reply, r)
  BY DEF RepliesAreResponses, Allowed
<1>0. ControlInv /\ ReplyInv /\ TypeOK /\ EndsInv /\ Reply \in Seq(Byte)
  BY ReplyIs DEF IInv, ControlInv
<1>1. \E r \in Allowed : Begins(Reply, r)
  <2>1. CASE pc \in {"reqline", "headers", "uri"}
    <3>1. PICK r \in Allowed : r \in Seq(Byte)
      BY ResponsesType
    <3>2. Reply = <<>>
      BY <1>0, <2>1 DEF ReplyInv
    <3>3. <<>> \o r = r /\ <<>> \in Seq(Byte)
      BY <3>1, EmptySeq, Joins
    <3>4. Begins(<<>>, <<>> \o r)
      BY <3>1, <3>3, BeginsIs
    <3> QED
      BY <3>1, <3>2, <3>3, <3>4
  <2>2. CASE pc = "write"
    <3>1. Reply \o (scall.data \o Then) \in Responses
      BY <1>0, <2>2 DEF ReplyInv
    <3>2. scall.data \o Then \in Seq(Byte)
      <4>1. \A p : <<p>>[1] = p /\ <<p>> # <<>>
        OBVIOUS
      <4>2. Then \in {<<>>, ErrorBody, StaticBody, CgiOutput}
        BY <1>0, <4>1 DEF TypeOK, Then
      <4>3. Then \in Seq(Byte) /\ scall.data \in Seq(Byte)
        BY <1>0, <4>2, Pieces, Fields DEF TypeOK
      <4> QED
        BY <4>3, Joins
    <3>3. Begins(Reply, Reply \o (scall.data \o Then))
      BY <1>0, <3>2, BeginsIs
    <3> QED
      BY <3>1, <3>3 DEF Allowed
  <2>3. CASE pc = "wait"
    <3>1. \/ Reply \o child \in Responses
          \/ cut /\ Reply \o child \in {DynamicHead, DynamicHead \o <<"L">>}
      BY <1>0, <2>3 DEF ReplyInv
    <3>2. child \in Seq(Byte)
      BY <1>0 DEF TypeOK
    <3>3. Begins(Reply, Reply \o child)
      BY <1>0, <3>2, BeginsIs
    <3>4. CASE Reply \o child \in Responses \cup {DynamicHead \o <<"L">>}
      BY <3>1, <3>3, <3>4 DEF Allowed
    <3>5. CASE cut /\ Reply \o child = DynamicHead
      <4>1. Begins(DynamicHead, DynamicHead \o <<"L">>)
        BY Pieces, BeginsIs
      <4>2. Begins(Reply, DynamicHead)
        BY <3>3, <3>5
      <4>3. DynamicHead \in Seq(Byte) /\ DynamicHead \o <<"L">> \in Seq(Byte)
        BY Pieces, ResponsesType
      <4>4. Begins(Reply, DynamicHead \o <<"L">>)
        BY <1>0, <4>1, <4>2, <4>3, BeginsTrans
      <4> QED
        BY <3>5, <4>4 DEF Allowed
    <3> QED
      BY <3>1, <3>4, <3>5
  <2>4. CASE pc = "close" \/ serverClosed
    BY <1>0, <2>4 DEF ReplyInv
  <2> QED
    BY <1>0, <2>1, <2>2, <2>3, <2>4 DEF TypeOK, EndsInv
<1>2. PICK r \in Allowed : Begins(Reply, r)
  BY <1>1
<1>3. r \in Seq(Byte)
  BY ResponsesType
<1> QED
  BY <1>0, <1>2, <1>3, BeginsIs

\* By the invariant nothing is left to be received when a client has read to the end.
LEMMA WholeReply == IInv => ResponsesAreWhole
<1>0. IInv => (cpc = "refused" => pc = "dead" /\ gaveUp)
  BY DEF IInv, ControlInv, EndsInv
<1> SUFFICES ASSUME IInv, cpc = "end", WellFormed, ~cut PROVE got \in Responses
  BY <1>0 DEF ResponsesAreWhole
<1>1. TypeOK /\ EndsInv /\ ClientCallInv /\ ReplyInv /\ Reply = got \o (Held \o (cbuf \o toClient))
  BY ReplyIs DEF IInv, ControlInv
<1>2. serverClosed /\ ~clientClosed
  BY <1>1 DEF EndsInv
<1>3. Reply \in Responses
  BY <1>1, <1>2 DEF ReplyInv
<1>4. Held = <<>> /\ cbuf = <<>> /\ toClient = <<>>
  BY <1>1 DEF ClientCallInv, Fetches, Held
<1>5. got \in Seq(Byte) /\ <<>> \in Seq(Byte)
  BY <1>1, EmptySeq DEF TypeOK
<1>6. Reply = got
  <2>1. <<>> \o <<>> = <<>> /\ got \o <<>> = got
    BY <1>5, Joins
  <2> QED
    BY <1>1, <1>4, <2>1
<1> QED
  BY <1>3, <1>6

\* What a client receives is the beginning of one response to its own request.
THEOREM EveryReplyIsAResponse == Spec => []RepliesAreResponses
BY IInvAlways, AnyReply, PTL

\* A client that is accepted, sends a well-formed request and reads to the end
\* has a whole response: the server has read all of the request before it
\* closes, so no reset takes the response away.  A client that waits in the
\* backlog is refused only when the one being served gave up and killed the server.
THEOREM EveryResponseIsWhole == Spec => []ResponsesAreWhole
BY IInvAlways, WholeReply, PTL

\* The server dies only of a client that does not wait, and between two
\* connections holds nothing but the listening socket.
THEOREM OnlyTheImpatientKill == Spec => []OnlyImpatienceKills
<1>1. IInv => OnlyImpatienceKills
  BY DEF IInv, ControlInv, EndsInv, FdsInv, OnlyImpatienceKills
<1> QED
  BY <1>1, IInvAlways, PTL
=============================================================================
