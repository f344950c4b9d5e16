--------------------------------- MODULE Proxy ---------------------------------
(***************************************************************************)
(* The web proxy (src/Lab6/proxy.c): one detached thread per connection,   *)
(* sharing the cache under a read-write lock.                              *)
(*                                                                         *)
(* Every thread initialises the lock anew, since its pthread_once_t is a   *)
(* local variable (Accept), also while others hold it.  From then on two   *)
(* threads may be in sections that exclude each other: a data race, whose  *)
(* outcome C leaves open, and the model ends there with the fault "race"   *)
(* (or "unlock", for a thread that unlocks what it no longer holds).  Up   *)
(* to that moment the lock works, so what a critical section does to the   *)
(* queue is one action between those that take and release the lock.       *)
(*                                                                         *)
(* Of a response only its length matters here: Size[u] for uri u, if it is *)
(* received completely.                                                    *)
(***************************************************************************)
EXTENDS ProxyCache

CONSTANTS
    Conn,           \* connections that may be open at a time
    Size            \* the length of the server's response to each uri

ASSUME ProxyAssumption ==
    /\ NULL \notin Conn
    /\ Size \in [Uri -> Nat]

VARIABLES
    pc,         \* per connection: where its thread is, "idle" if there is none
    uri,        \* req_uri
    hit,        \* tmp2 in proxy(): the object cacheFind returned
    got,        \* obj_size in forward(): what is to be stored
    readers,    \* who holds rwlock for reading, so far as the lock knows
    writer      \* who holds it for writing, or NULL

lockVars == <<readers, writer>>
connVars == <<pc, uri, hit, got>>
vars == <<pc, uri, hit, got, readers, writer, cacheVars>>

Pc == {"idle", "request", "lookup", "find", "found", "hit", "touch", "move",
       "miss", "store", "add", "done"}

\* The thread reads the queue, or changes it.
InSection(c) == pc[c] \in {"find", "move", "add"}
Writing(c) == pc[c] \in {"move", "add"}
Holds(c) == c \in readers \/ writer = c

Init ==
    /\ CacheInit
    /\ pc = [c \in Conn |-> "idle"]
    /\ uri = [c \in Conn |-> NULL]
    /\ hit = [c \in Conn |-> NULL]
    /\ got = [c \in Conn |-> 0]
    /\ readers = {}
    /\ writer = NULL

-----------------------------------------------------------------------------
At(c, place) == fault = "none" /\ pc[c] = place
Goto(c, place) == pc' = [pc EXCEPT ![c] = place]

\* The thread ends and its locals are gone.
Finish(c) ==
    /\ Goto(c, "idle")
    /\ uri' = [uri EXCEPT ![c] = NULL]
    /\ hit' = [hit EXCEPT ![c] = NULL]
    /\ got' = [got EXCEPT ![c] = 0]

\* The thread has been given the lock: no other one should be in a section
\* that excludes its own.
EnterBeside(c, excluded) ==
    IF \E d \in Conn \ {c} : excluded[d] THEN Fails("race") ELSE UNCHANGED cacheVars

\* To unlock a lock that one does not hold is undefined.
Unlock(c) ==
    IF Holds(c)
    THEN /\ readers' = readers \ {c}
         /\ writer' = IF writer = c THEN NULL ELSE writer
         /\ UNCHANGED cacheVars
    ELSE Fails("unlock") /\ UNCHANGED lockVars

\* main accepts a connection and creates a thread for it, whose first step is
\* to initialise the lock, whoever holds it or waits for it.
Accept(c) ==
    /\ At(c, "idle")
    /\ readers' = {}
    /\ writer' = NULL
    /\ Goto(c, "request")
    /\ UNCHANGED <<uri, hit, got, cacheVars>>

\* The request line is not one: the thread ends (and leaves clientfd open).
BadRequest(c) ==
    /\ At(c, "request")
    /\ Finish(c)
    /\ UNCHANGED <<lockVars, cacheVars>>

Request(c, u) ==
    /\ At(c, "request")
    /\ uri' = [uri EXCEPT ![c] = u]
    /\ Goto(c, "lookup")
    /\ UNCHANGED <<hit, got, lockVars, cacheVars>>

RdLock(c) ==
    /\ At(c, "lookup")
    /\ writer = NULL
    /\ readers' = readers \cup {c}
    /\ Goto(c, "find")
    /\ EnterBeside(c, [d \in Conn |-> Writing(d)])
    /\ UNCHANGED <<uri, hit, got, writer>>

Find(c) ==
    /\ At(c, "find")
    /\ hit' = [hit EXCEPT ![c] = CacheFind(uri[c])]
    /\ Goto(c, "found")
    /\ UNCHANGED <<uri, got, lockVars, cacheVars>>

RdUnlock(c) ==
    /\ At(c, "found")
    /\ Unlock(c)
    /\ Goto(c, IF hit[c] = NULL THEN "miss" ELSE "hit")
    /\ UNCHANGED <<uri, hit, got>>

\* A hit: the object is written to the client without any lock, whether that
\* succeeds or not, and then becomes the tail of the queue.
ServeHit(c) ==
    /\ At(c, "hit")
    /\ IF hit[c] \in Allocated
       THEN Goto(c, "touch") /\ UNCHANGED cacheVars
       ELSE Fails("stale") /\ UNCHANGED pc
    /\ UNCHANGED <<uri, hit, got, lockVars>>

\* Both writers of the queue take the lock for writing.
WrLock(c) ==
    /\ At(c, "touch") \/ At(c, "store")
    /\ writer = NULL /\ readers = {}
    /\ writer' = c
    /\ Goto(c, IF pc[c] = "touch" THEN "move" ELSE "add")
    /\ EnterBeside(c, [d \in Conn |-> InSection(d)])
    /\ UNCHANGED <<uri, hit, got, readers>>

Move(c) ==
    /\ At(c, "move")
    /\ ReplaceTail(hit[c])
    /\ IF fault' = "none" THEN Goto(c, "done") ELSE UNCHANGED pc
    /\ UNCHANGED <<uri, hit, got, lockVars>>

FaultyWrUnlock(c) ==
    /\ At(c, "done")
    /\ Finish(c)
    /\ UNCHANGED <<lockVars, cacheVars>>

WrUnlock(c) ==
    /\ At(c, "done")
    /\ Unlock(c)
    /\ Finish(c)

\* A miss whose request cannot be sent to the server, or a second request line
\* among the headers, which exits the proxy.
ConnectFails(c) ==
    /\ At(c, "miss")
    /\ Finish(c)
    /\ UNCHANGED <<lockVars, cacheVars>>

SecondRequestLine(c) ==
    /\ At(c, "miss")
    /\ Fails("exit")
    /\ UNCHANGED <<connVars, lockVars>>

FitsInCache(n) == n <= MaxObject

\* forward copies n bytes from the server to the client: all there are, or
\* fewer because the server failed or because the client went away (EPIPE,
\* noticed after they were buffered).  Nothing shared is touched before
\* the result is stored, if it fits.
Forward(c) ==
    /\ At(c, "miss")
    /\ \E n \in 0 .. Size[uri[c]] :
         IF FitsInCache(n)
         THEN got' = [got EXCEPT ![c] = n] /\ Goto(c, "store") /\ UNCHANGED <<uri, hit>>
         ELSE Finish(c)
    /\ UNCHANGED <<lockVars, cacheVars>>

Add(c) ==
    /\ At(c, "add")
    /\ CacheAdd(uri[c], got[c])
    /\ IF fault' = "none" THEN Goto(c, "done") ELSE UNCHANGED pc
    /\ UNCHANGED <<uri, hit, got, lockVars>>

\* What a thread does while it holds the lock.
Inside(c) == Find(c) \/ RdUnlock(c) \/ Move(c) \/ Add(c) \/ WrUnlock(c)

Serve(c) ==
    \/ RdLock(c) \/ WrLock(c) \/ Inside(c) \/ ServeHit(c)
    \/ ConnectFails(c) \/ SecondRequestLine(c) \/ Forward(c)

Next ==
    \E c \in Conn :
        \/ Accept(c)
        \/ BadRequest(c)
        \/ \E u \in Uri : Request(c, u)
        \/ Serve(c)

Spec == Init /\ [][Next]_vars

\* Threads are scheduled while they hold the lock (no section waits for the
\* network, and its loops end: QueueIsSound), and one that waits to read gets
\* the lock if it could have it again and again.  Nothing is assumed of
\* clients and servers, which may stall for ever, nor of waiting writers,
\* which overlapping readers may keep out.
Fairness == \A c \in Conn : WF_vars(Inside(c)) /\ SF_vars(RdLock(c))

FairSpec == Spec /\ Fairness

-----------------------------------------------------------------------------
\* Who changes the queue is alone with it: what the lock is for.  The comment
\* on init_proxy_thread says that the lock is initialised once.  It is not, and
\* this does not hold.
LockExcludes ==
    \A c, d \in Conn : c # d /\ Writing(c) => ~InSection(d)

\* Two threads are in sections that exclude each other only if one of them has
\* had the lock initialised under its hands; evict runs out of objects only if
\* some were lost to the queue; and the tail that cacheAdd links a new object
\* to is never one that evict has freed.
FaultsAreExplained ==
    /\ fault = "race" => \E c \in Conn : InSection(c) /\ ~Holds(c)
    /\ fault = "evict" => Lost # {}
    /\ fault # "tail"

\* A client that does not read its response, or a server that sends none, keeps
\* nobody out of the cache: a thread that wants to look something up gets the
\* lock, whatever becomes of the other connections.
LookupsGetIn ==
    \A c \in Conn : pc[c] = "lookup" ~> (pc[c] # "lookup" \/ fault # "none")

=============================================================================
