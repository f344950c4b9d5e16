-------------------------------- MODULE Tiny --------------------------------
(***************************************************************************)
(* The Tiny web server (src/Lab6/tiny/tiny.c and tiny-static.c) and a      *)
(* client of it that fetches the way the proxy does (src/Lab6/proxy.c,     *)
(* forward): both use the robust I/O package over one connection.  Clients *)
(* connect whenever they like; the server takes them from the backlog one  *)
(* after the other.                                                        *)
(*                                                                         *)
(* The state is that of the connection served last.  A client may write and*)
(* close already in the backlog, which is what it does here right after it *)
(* was accepted; what a client has not read when the next is accepted can  *)
(* change no more, and is forgotten.                                       *)
(*                                                                         *)
(* A byte stands for a whole field: the first byte of a request line says  *)
(* what is requested, "h" begins a header that has a colon, "c" is more of *)
(* a header and has none, "nl" is the CRLF.  The limits on the length of a *)
(* line count such bytes.                                                  *)
(***************************************************************************)
EXTENDS Integers, Sequences, FiniteSets, SequencesExt

CONSTANTS
    RioBufSize, SockBuf,
    MaxLine,        \* MAXLINE
    MaxBuf,         \* MAXBUF, what the client reads at a time
    Request,        \* the requests clients send
    Connections,    \* how many connections there are, a bound
    Addresses       \* how many addresses getaddrinfo returns

\* What requests are made of, see above.
RequestByte == {"static", "dynamic", "baduri", "post", "h", "c", "nl"}

ASSUME TinyAssumption ==
    /\ RioBufSize \in Nat \ {0} /\ SockBuf \in Nat \ {0}
    /\ MaxLine \in Nat \ {0, 1} /\ MaxBuf \in Nat \ {0}
    /\ Connections \in Nat /\ Addresses \in Nat
    /\ \A r \in Request : r \in Seq(RequestByte) /\ Len(r) > 1

VARIABLES
    variant,    \* "tiny" or "tiny-static"
    pc,         \* where the server is; "dead" when SIGPIPE has killed it
    scall, sbuf,
    respond,    \* what serve_static or clienterror writes after the call in progress
    child,      \* what the CGI program has to write
    fds,        \* the server's open descriptors
    cut,        \* a file or program that stat found could not be opened or run
    cpc,        \* where the client is
    ccall, cbuf,
    got,        \* what the client has received
    request,    \* what the client sends
    gaveUp,     \* the client closed before the end of the response
    n,          \* connections accepted so far
    backlog,    \* the requests of the clients waiting to be accepted
    toServer, toClient,             \* the bytes on their way
    clientClosed, serverClosed,
    rstToServer, rstToClient

serverVars == <<variant, pc, respond, child, fds, cut>>
arrivals == <<n, backlog>>
clientVars == <<cpc, got, request, gaveUp, arrivals>>
clientEnd == <<ccall, cbuf, rstToClient>>
serverEnd == <<scall, sbuf, rstToServer>>
net == <<toServer, toClient>>
closed == <<clientClosed, serverClosed>>
vars == <<serverVars, clientVars, clientEnd, serverEnd, net, closed>>

S == INSTANCE Rio WITH call <- scall, buf <- sbuf, in <- toServer, out <- toClient,
                       eof <- clientClosed, rst <- rstToServer, NewLine <- "nl"
C == INSTANCE Rio WITH call <- ccall, buf <- cbuf, in <- toClient, out <- toServer,
                       eof <- serverClosed, rst <- rstToClient, NewLine <- "nl"

StaticHead == <<"H", "H">>
StaticBody == <<"B", "B">>
DynamicHead == <<"D">>
CgiOutput == <<"G", "G">>
ErrorBody == <<"E">>

Init ==
    /\ variant \in {"tiny", "tiny-static"}
    /\ pc = "start" /\ scall = S!NoCall /\ sbuf = <<>> /\ respond = <<>> /\ child = <<>>
    /\ fds = {} /\ cut = FALSE
    /\ cpc = "idle" /\ ccall = C!NoCall /\ cbuf = <<>> /\ got = <<>> /\ request = <<>>
    /\ gaveUp = FALSE /\ n = 0 /\ backlog = <<>>
    /\ toServer = <<>> /\ toClient = <<>>
    /\ clientClosed = TRUE /\ serverClosed = TRUE
    /\ rstToServer = "no" /\ rstToClient = "no"

-----------------------------------------------------------------------------
\* open_clientfd and open_listenfd try the addresses in order; what happens at
\* each: no socket, a socket that does not connect or bind, or success.
Outcomes == [1 .. Addresses -> {"nosocket", "fails", "works"}]
Works(o) == {i \in DOMAIN o : o[i] = "works"}
Tried(o) == {i \in DOMAIN o : \A j \in Works(o) : i <= j}
Sockets(o) == {i \in Tried(o) : o[i] # "nosocket"}

\* A socket that could not be connected or bound is closed.
FaultyOpened(o) == {"listen"} \X Sockets(o)
Opened(o) == {"listen"} \X (Sockets(o) \cap Works(o))

\* main: open_listenfd; without a working address, or if listen() fails, exit.
Listen(o) ==
    /\ pc = "start"
    /\ \/ Works(o) # {} /\ pc' = "accept" /\ fds' = Opened(o)
       \/ pc' = "exited" /\ fds' = {}
    /\ UNCHANGED <<variant, respond, child, cut, clientVars, clientEnd, serverEnd, net, closed>>

-----------------------------------------------------------------------------
\* The client.

\* open_clientfd succeeds as soon as the server listens: the kernel completes
\* the connection whatever the server is doing.
Connect(r) ==
    /\ pc \notin {"start", "exited", "dead"} /\ n + Len(backlog) < Connections
    /\ backlog' = Append(backlog, r)
    /\ UNCHANGED <<serverVars, cpc, got, request, gaveUp, n, clientEnd, serverEnd, net, closed>>

\* The kernel resets the clients in the backlog of a server that died.
Refused ==
    /\ pc = "dead" /\ backlog # <<>>
    /\ cpc' = "refused" /\ request' = Head(backlog) /\ got' = <<>> /\ backlog' = Tail(backlog)
    /\ UNCHANGED <<serverVars, gaveUp, n, clientEnd, serverEnd, net, closed>>

ClientIO ==
    /\ cpc \in {"send", "rest", "recv"}
    /\ C!Read \/ C!Write \/ C!WriteLost \/ C!WriteReset \/ C!PipeError
    /\ UNCHANGED <<serverVars, clientVars, serverEnd, closed>>

SendRest ==
    /\ cpc = "send" /\ ccall.done
    /\ cpc' = "rest" /\ ccall' = C!Call("writen", Len(request) - 2, C!Rest(request, 2))
    /\ UNCHANGED <<serverVars, got, request, gaveUp, arrivals, cbuf, rstToClient, serverEnd, net, closed>>

\* forward reads, whatever became of the request, until nothing comes; each
\* part is passed on.  A client may as well read without the buffer.
Fetch ==
    /\ cpc \in {"rest", "recv"} /\ ccall.done
    /\ IF cpc = "rest"
       THEN /\ cpc' = "recv" /\ UNCHANGED got
            /\ \E fn \in {"readnb", "readn"} : ccall' = C!Call(fn, MaxBuf, <<>>)
       ELSE IF ccall.ret > 0
       THEN got' = got \o ccall.data /\ ccall' = C!Call(ccall.fn, MaxBuf, <<>>) /\ UNCHANGED cpc
       ELSE cpc' = "end" /\ UNCHANGED <<got, ccall>>
    /\ UNCHANGED <<serverVars, request, gaveUp, arrivals, cbuf, rstToClient, serverEnd, net, closed>>

\* close(): with unread bytes the peer is reset, and what it was sent and did
\* not arrive is lost.
Close(unread, sent, rst) ==
    IF unread = <<>> THEN sent' = sent /\ rst' = rst
    ELSE sent' \in {SubSeq(sent, 1, k) : k \in 0 .. Len(sent)}
         /\ rst' = IF rst = "no" THEN "reset" ELSE rst

ClientClose ==
    /\ cpc \in {"send", "rest", "recv", "end"}
    /\ gaveUp' = (cpc # "end")
    /\ cpc' = "closed" /\ clientClosed' = TRUE /\ ccall' = C!NoCall
    /\ Close(toClient, toServer, rstToServer) /\ toClient' = <<>>
    /\ UNCHANGED <<serverVars, got, request, arrivals, cbuf, rstToClient, scall, sbuf, serverClosed>>

-----------------------------------------------------------------------------
\* The server.
KeepServer == UNCHANGED <<clientVars, clientEnd, net, closed, rstToServer, variant>>

\* accept() returns the first client of the backlog: it sends the request line
\* with rio_writen, and then the rest; serve empties the read buffer and reads
\* the request line.
FaultyReadinitb == sbuf
Readinitb == <<>>
Line1(r) == SubSeq(r, 1, 2)
Accept ==
    /\ pc = "accept" /\ backlog # <<>>
    /\ backlog' = Tail(backlog) /\ n' = n + 1
    /\ request' = Head(backlog) /\ got' = <<>> /\ gaveUp' = FALSE
    /\ cpc' = "send" /\ ccall' = C!Call("writen", 2, Line1(Head(backlog))) /\ cbuf' = <<>>
    /\ toServer' = <<>> /\ toClient' = <<>>
    /\ clientClosed' = FALSE /\ serverClosed' = FALSE
    /\ rstToServer' = "no" /\ rstToClient' = "no"
    /\ pc' = "reqline" /\ scall' = S!Call("readlineb", MaxLine, <<>>)
    /\ sbuf' = Readinitb
    /\ fds' = fds \cup {<<"conn", n + 1>>} /\ cut' = FALSE
    /\ UNCHANGED <<variant, respond, child>>

\* A read is never reset: the server has written nothing yet.
ServerIO ==
    /\ pc \in {"reqline", "headers", "write"}
    /\ S!Refill \/ S!AtEof \/ S!Deliver \/ S!Write \/ S!WriteLost \/ S!WriteReset
    /\ UNCHANGED <<serverVars, clientVars, clientEnd, closed>>

\* SIGPIPE is not handled: the kernel closes the descriptors.
Die ==
    /\ pc = "write" /\ S!BrokenPipe
    /\ pc' = "dead" /\ fds' = {} /\ serverClosed' = TRUE
    /\ UNCHANGED <<variant, respond, child, cut, clientVars, clientEnd, serverEnd, net, clientClosed>>

Writing(pieces) ==
    /\ pc' = "write" /\ scall' = S!Call("writen", Len(pieces[1]), pieces[1])
    /\ respond' = Tail(pieces)
Reading(place) ==
    /\ pc' = place /\ scall' = S!Call("readlineb", MaxLine, <<>>)
    /\ UNCHANGED respond
Closing == pc' = "close" /\ scall' = S!NoCall /\ respond' = <<>>

\* clienterror.
Error(code) == Writing(<<<<code>>, ErrorBody>>)

Targets == {"static", "dynamic", "baduri"}

\* serve, at the request line.
RequestLine ==
    /\ pc = "reqline" /\ scall.done
    /\ IF scall.ret <= 0 THEN Closing
       ELSE IF scall.data[1] \in Targets THEN Reading("headers")
       ELSE Error(IF scall.data[1] = "post" THEN "501" ELSE "400")
    /\ KeepServer /\ UNCHANGED <<sbuf, child, fds, cut>>

\* read_requesthdrs; that of tiny-static looks for nothing but the empty line.
IsHeader(line) == variant = "tiny-static" \/ line[1] = "h"
FaultyHeadersEnd(line) == TRUE
HeadersEnd(line) == line = <<"nl">>

Headers ==
    /\ pc = "headers" /\ scall.done
    /\ IF scall.ret <= 0 THEN Closing
       ELSE IF HeadersEnd(scall.data) THEN pc' = "uri" /\ UNCHANGED <<scall, respond>>
       ELSE IF IsHeader(scall.data) THEN Reading("headers")
       ELSE Error("400")
    /\ KeepServer /\ UNCHANGED <<sbuf, child, fds, cut>>

\* parse_uri, stat and the checks of the file's mode, then serve_static or
\* serve_dynamic.  tiny-static serves its home page whatever was requested.
Asked == request[1]
ServesHomePage == variant = "tiny-static" /\ Asked = "dynamic"
Respond ==
    /\ pc = "uri"
    /\ \/ Asked = "baduri" /\ Error("400")
       \/ Asked # "baduri" /\ Error("404")
       \/ Asked # "baduri" /\ variant = "tiny" /\ Error("403")
       \/ /\ Asked = "static" \/ ServesHomePage
          /\ Writing(<<StaticHead, StaticBody>>)
       \/ Asked = "dynamic" /\ variant = "tiny" /\ Writing(<<DynamicHead, CgiOutput>>)
    /\ KeepServer /\ UNCHANGED <<sbuf, child, fds, cut>>

IsDynamic == respond = <<CgiOutput>>

\* What is next after a piece was written, or could not be: tiny-static goes on
\* to the file all the same.
GoesOn == /\ respond # <<>> /\ ~IsDynamic
          /\ scall.ret >= 0 \/ (variant = "tiny-static" /\ respond = <<StaticBody>>)
NextPiece ==
    /\ pc = "write" /\ scall.done /\ GoesOn
    /\ Writing(respond)
    /\ KeepServer /\ UNCHANGED <<sbuf, child, fds, cut>>

\* The file cannot be opened, or not mapped.
FileFails ==
    /\ pc = "write" /\ scall.done /\ GoesOn /\ respond = <<StaticBody>>
    /\ Closing /\ cut' = TRUE
    /\ KeepServer /\ UNCHANGED <<sbuf, child, fds>>

Written ==
    /\ pc = "write" /\ scall.done
    /\ IF IsDynamic THEN scall.ret < 0 ELSE ~GoesOn
    /\ Closing
    /\ KeepServer /\ UNCHANGED <<sbuf, child, fds, cut>>

\* serve_dynamic forks.  A child that cannot run the program exits, which also
\* writes what the parent had printed and not flushed: to the client.
Fork ==
    /\ pc = "write" /\ scall.done /\ IsDynamic /\ scall.ret >= 0
    /\ \/ pc' = "wait" /\ child' = CgiOutput /\ UNCHANGED cut
       \/ pc' = "wait" /\ child' \in {<<>>, <<"L">>} /\ cut' = TRUE
       \/ pc' = "close" /\ cut' = TRUE /\ UNCHANGED child
    /\ scall' = S!NoCall /\ respond' = <<>>
    /\ KeepServer /\ UNCHANGED <<sbuf, fds>>

\* The CGI program writes to the connection, if it is still there.
ChildWrites ==
    /\ pc = "wait" /\ child # <<>>
    /\ IF clientClosed
       THEN child' = <<>> /\ UNCHANGED toClient
       ELSE \E k \in 1 .. Len(child) :
              /\ Len(toClient) + k <= SockBuf
              /\ toClient' = toClient \o SubSeq(child, 1, k)
              /\ child' = SubSeq(child, k + 1, Len(child))
    /\ UNCHANGED <<variant, pc, respond, fds, cut, clientVars, clientEnd, serverEnd, toServer, closed>>

\* wait() returns when the child has ended, with its last descriptor closed.
Reap ==
    /\ pc = "wait" /\ child = <<>>
    /\ pc' = "close"
    /\ KeepServer /\ UNCHANGED <<scall, sbuf, respond, child, fds, cut>>

\* No child holds the connection any more: see Reap.
ServerClose ==
    /\ pc = "close"
    /\ pc' = "accept" /\ fds' = fds \ {<<"conn", n>>} /\ serverClosed' = TRUE
    /\ Close(toServer, toClient, rstToClient) /\ toServer' = <<>>
    /\ UNCHANGED <<variant, respond, child, cut, clientVars, ccall, cbuf, scall, sbuf>>
    /\ UNCHANGED <<rstToServer, clientClosed>>

-----------------------------------------------------------------------------
Client == (\E r \in Request : Connect(r)) \/ ClientIO \/ SendRest \/ Fetch \/ ClientClose \/ Refused
Server == \/ \E o \in Outcomes : Listen(o)
          \/ Accept \/ ServerIO \/ RequestLine \/ Headers \/ Respond
          \/ NextPiece \/ FileFails \/ Written \/ Fork \/ Reap \/ ServerClose \/ Die
Next == Client \/ Server \/ ChildWrites

\* The server, its child and the client run whenever they can; a client gives
\* up or not, and comes or not.
Fairness ==
    /\ WF_vars(Server) /\ WF_vars(ChildWrites)
    /\ WF_vars(ClientIO \/ SendRest \/ Fetch \/ (cpc = "end" /\ ClientClose))
Spec == Init /\ [][Next]_vars /\ Fairness

-----------------------------------------------------------------------------
\* The lines of a request that fit the server's line buffer with their ends.
LinesFit == \A i \in DOMAIN request :
              \E j \in i .. Len(request) : request[j] = "nl" /\ j - i < MaxLine - 1
HeaderAt(i) == i > 1 /\ request[i - 1] = "nl" /\ request[i] \notin {"h", "nl"}
EmptyLineAt(i) == i > 1 /\ request[i - 1] = "nl" /\ request[i] = "nl"
\* Nothing comes after the empty line.
WellFormed == /\ request # <<>> /\ Asked \in {"static", "dynamic"} /\ LinesFit
              /\ ~\E i \in DOMAIN request : HeaderAt(i)
              /\ \A i \in DOMAIN request : EmptyLineAt(i) => i = Len(request)

\* What a request may be answered with, complete.
Errors(codes) == {<<c>> \o ErrorBody : c \in codes}
Content == IF Asked = "static" \/ variant = "tiny-static" THEN StaticHead \o StaticBody
           ELSE DynamicHead \o CgiOutput
Responses == IF WellFormed THEN {Content} \cup Errors({"403", "404"})
             ELSE {Content} \cup Errors({"400", "403", "404", "501"})

\* What the client was sent so far: received, buffered or on its way.
Reply == got \o (IF ccall.fn # "writen" /\ ~(ccall.done /\ ccall.ret <= 0) THEN ccall.data ELSE <<>>)
         \o cbuf \o toClient

\* What a client receives is the beginning of one response to its own request,
\* whatever the sizes of the reads and writes, and whatever the client before it
\* sent, did not read or left behind.  Only when the program cannot be run, the
\* server's own output may follow the head.
RepliesAreResponses ==
    ~clientClosed =>
        \E r \in Responses \cup (IF cut THEN {DynamicHead \o <<"L">>} ELSE {}) : IsPrefix(Reply, r)

\* A client that sends a well-formed request and reads to the end has a whole
\* response: nothing is lost to a close with unread bytes.  One that is still
\* waiting in the backlog gets nothing if the server dies, and then an earlier
\* client, the one being served, had given up.
ResponsesAreWhole == /\ cpc = "end" /\ WellFormed /\ ~cut => got \in Responses
                     /\ cpc = "refused" => pc = "dead" /\ gaveUp

\* The server dies only of a client that does not wait for its response, and
\* holds nothing between two connections but the listening socket.
OnlyImpatienceKills == /\ pc = "dead" => gaveUp /\ clientClosed
                       /\ pc = "accept" => \E i \in 1 .. Addresses : fds \subseteq {<<"listen", i>>}

\* Every connection with a well-formed request ends: no read, write or wait of
\* the server is for something that never comes.
ConnectionsEnd == (pc = "reqline" /\ WellFormed) ~> (pc \in {"accept", "dead"})
=============================================================================
