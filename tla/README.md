# Formal models of the 18-213 lab programs

The repository holds six course labs. Three programs are concurrent: the tiny
shell (`Lab4`), the caching web proxy (`Lab6`) with its Tiny server, and the
drivers that grade the shell. Two are sequential but keep intricate state: the
allocator with its driver and memory simulator (`Lab5`) and the cache simulator
(`Lab3`). The cache lab's graders are processes that share a file. Each of them
is modelled here, checked with TLC on small instances, and proved about where
the argument does not depend on the instance.

Every definition is read off the source; `PROJECT.json` maps it to the lines.
A definition whose name begins with `Faulty` is a plausible bug in the
definition after it; the runs must find each of them.

## 1. Inventory

| component | source | state it keeps | operations | interacts by | what makes it correct |
|---|---|---|---|---|---|
| shell, read/eval loop | `Lab4/tsh.c` main, eval | saved masks, job waited for | quit, jobs, bg, fg, run in foreground / background, wait | forks children, signals their groups, shares the job list with the handlers | one foreground job, waited for exactly as long as it is in the foreground; the prompt takes signals |
| shell, handlers | `Lab4/tsh.c` sig*_handler | masks saved per activation | reap, record a stop, forward Ctrl-C / Ctrl-Z, quit | interrupt the loop and one another | no use of the list while a handler can interrupt; no child forgotten; keys forwarded |
| shell, job list | `Lab4/tsh_helper.c` | 64 slots, next job id | add, delete, find, set state | called by loop and handlers | entries are exactly the live children; states are true |
| shell drivers | `Lab4/sdriver.c`, `runtrace.c`, `wrapper.c` | outputs, sockets, place in the trace | run a trace, synchronise, time out, clean up, compare | datagram sockets, signals, processes, alarms | right shells get the score, wrong ones do not, grading ends, nothing is left running |
| test programs | `Lab4/testprogs/*.c` | none | synchronise, signal themselves or the shell, print, spin | children of the shell, sockets of runtrace | they do what the trace counts on |
| proxy, cache | `Lab6/proxy.c` cacheAdd, cacheFind, evict, replace_tail | head, tail, size, linked objects | find, add, evict, move to tail | shared by all connection threads under a read-write lock | finite list, distinct keys, sizes accounted for, faults only where explained |
| proxy, connections | `Lab6/proxy.c` main, thread, proxy, sendRequest, forward | one thread per client, the lock | accept, look up, serve a hit, fetch, forward, store | sockets, lock | two threads are in the queue at once only for a known reason; a stalled connection keeps no other out |
| robust I/O, sockets | `Lab6/csapp.c` | read buffer per descriptor | readn, readnb, readlineb, writen, open_clientfd, open_listenfd | used by proxy, Tiny, drivers | bytes in order, none lost across short reads and writes; no descriptor lost |
| Tiny | `Lab6/tiny/tiny.c`, `tiny-static.c` | none between requests | serve static / dynamic, errors | serves the proxy's tests, forks CGI programs | each reply is the beginning of one response to its own request; it survives patient clients |
| pxy harness | `Lab6/pxy/*.py` | events, waiting set, agents' threads | request, respond, wait, check | threads, sockets | each event matched and counted once |
| allocator | `Lab5/mm.c` | headers, footers, flags, 8 + 6 free lists, `heap_end` | malloc, free, realloc, calloc, coalesce, split, extend | memlib's break; called by the driver | blocks tile the heap, flags tell the truth, lists hold exactly the free blocks |
| memory simulator | `Lab5/memlib.c` | break, page table, pages, initialised bytes | sbrk, read, write, copy, set, reset, check | used by allocator and driver | a flat memory that knows which bytes were written |
| malloc driver | `Lab5/mdriver.c`, `stree.c` | blocks of the trace, ranges in lists and a splay tree | allocate, reallocate, free, add / remove range | calls the allocator | overlaps are found |
| measurement | `Lab5/fcyc.c`, `clock.c` | counters, best times | time a function | none | numeric |
| cache simulator | `Lab3/csim.c`, the earlier `csimCP.c` | sets of lines, LRU index or queue, statistics | load, store, summary | trace file, results file | counts of an LRU cache |
| transpose | `Lab3/trans.c` | matrices | transpose | called by tracegen-ct | the transpose, for every size |
| cache lab graders | `Lab3/driver.py`, `test-csim.c`, `test-trans.c`, `tracegen-ct.c` | `.csim_results`, points, alarms | run simulators, read results, time out | processes, a shared file, pipes | points are for counts of the program under test; grading ends |
| data lab, bomb lab | `Lab1`, `Lab2` | none | bit puzzles; `main` of a binary | none | puzzles equal their reference |

The hazards (what a test would hardly reach, at its line) are the `hazards` of
`PROJECT.json`; each property below is there because of one of them.

### Modules and what composes what

| module | models | uses |
|---|---|---|
| `JobList` | routines of `tsh_helper.c` on a value of the array | |
| `Tsh` | shell, handlers, children, user | `JobList` |
| `JobControl` | what the shell promises | |
| `TshRefinement` | refinement mapping | `Tsh`, `JobControl` |
| `TestProgs`, `ShellDriver` | test programs; sdriver, runtrace, the shell with its wrapped calls | |
| `ProxyCache`, `Proxy` | the cache; the threads and the lock around it | |
| `Rio`, `Tiny` | one end of a connection under the I/O package; both servers with a client, over two instances of `Rio` | |
| `Malloc` | the allocator as operators on a record | |
| `Intervals`, `IntervalSet` | what the driver's set of ranges amounts to | |
| `MallocDriver` | the allocator under `eval_mm_valid` | `Malloc`, `Intervals` |
| `SplayTree`, `RangeSet` | the set of ranges as it is built, refines `IntervalSet` | |
| `FlatMemory`, `SparseMem` | a flat memory; the page table, refines `FlatMemory` | |
| `BlockCache`, `Csim`, `DraftCsim`, `CacheSim` | a cache; the two simulators, refining it; both and an LRU cache on one trace | |
| `Transpose`, `Grader` | the transposes and their validation; the graders as processes | |
| `*Proof` | theorems (section 9) | |
| `MC*` | instances for TLC | |

## 2. The tiny shell

### Modules

* `JobList` - the routines of `tsh_helper.c` as operators on a value of the
  array: search by state and by pid, add, delete, change of state, next job id.
* `Tsh` - the shell: loop, handlers, children, user.
* `JobControl` - what the shell promises: each child is new, FG, BG, ST or off
  the list, and the shell waits for the foreground job. No signals, no masks.
* `TshRefinement` - the mapping; `ImplementsJobControl` is `JobControl`'s
  specification under it.
* `TshProof` - theorems. `MCTsh` - two children for TLC, with symmetry.

### Correspondence

The shell is one thread. `pc` is where its loop is (`prompt`, in `eval`, in
`eval` after fork, in the test of the wait loop, inside `sigsuspend`). `mask` is
the signal mask and `frames` the stack of handler activations with their local
`pid`, `status` and `prev`. `Deliver` starts a handler for a pending unblocked
signal at any step of the shell and blocks just that signal, since `Signal()`
leaves `sa_mask` empty; the handlers' own `sigprocmask` is a step of its own
(`FwdBlock`, `ChldBlock`). So handlers nest in all the ways they really can.

`sigchld_handler` is `ChldReap`, `ChldBlock`, then `ChldDelete` or `ChldStop`,
and round again until `ChldNoMore`. Its `prev` is unassigned if `waitpid`
reports nothing: `HandlerRestore` then installs any mask. `sigint_handler` and
`sigtstp_handler` are one set of actions with the signal as parameter:
`FwdBlock`, `FwdCheck` or `FwdSkip`, `FwdKill`.

A run of statements in which all three signals are blocked is one action. It
is cut at `fork`, and in the handlers between `getpgid` and `killpg`, where a
child may do something in between.

Children go through fork, `setpgid`, `execve`, then may stop, end or catch what
they are sent, whenever they like. A stopped child runs again because of bg or fg
(`Continued`) or because another process sent it SIGCONT (`ChildContinues`, state
`woken`), of which `waitpid` without `WCONTINUED` reports nothing. A child whose
input file cannot be opened goes on as a second shell (`InfileFails`, state
`rogue`). Every way for the shell to end is a value of `exited`, also those of a
file for `jobs > file` that cannot be opened (`EvalOutfileFails`) and of a list
without memory (`AddJob`); nothing runs after it. A child that is stopped before
its `execve`, or as a second shell, is not modelled.

### Runs

| run | instance | shows |
|---|---|---|
| `tsh_safety` | 2 children, 2 slots, handlers stacked 2 deep, symmetric children | all safety properties, and that the shell implements `JobControl` |
| `tsh_live` | 2 children, 1 slot, one handler at a time, with fairness | the wait ends, zombies are reaped, Ctrl-C arrives, the prompt takes signals |

Two children are the least with which ends coalesce into one SIGCHLD, with
which jobs are deleted out of order and with which a foreground and a background
job interfere. One slot makes the array fill up; `EveryChildIsListed` is about
arrays that do not, so it is checked with two. Two stacked activations are
enough for a handler to be interrupted between entry and its `sigprocmask`,
which is the only place where it can be; the theorems are for any depth.
A pid is used for one child only (`Pid` is the set of pids ever used), so a
behaviour has at most two forks.

The properties, in short:
`ForegroundIsWaitedFor` (no prompt over a foreground job, no second one),
`ListAccessIsBlocked` (the list is used with all signals blocked, despite
nesting and the unassigned mask), `NoLostChild` (an unreported end or stop has
a SIGCHLD or a handler coming for it), `ListedIsUnreaped` (no pid on the list
could belong to a stranger), `StatesAreAccurate` (at rest every stopped child is
ST on the list, and what is ST is stopped or was continued from elsewhere),
`EveryChildIsListed`, `ExitsAreExplained` (no assertion of the job list fires;
forwarding a key never fails), `PromptTakesSignals`, `WaitEnds`,
`ZombiesAreReaped`, `CtrlCReaches`.

### Where code and comments part

* The comment on `sigint_handler` (lines 509-513) has the signal sent to the
  foreground job. A key that arrives before the child has called `setpgid` is
  dropped instead (line 532): the child's group is not yet its own pid.
  `CtrlCReaches` is about keys that arrive later.
* A job that another process continues stays ST on the list until bg, fg, its
  next stop or its end: `sigchld_handler` calls `waitpid` without `WCONTINUED`
  (line 482). `StatesAreAccurate` allows just this.
* `bg` or `fg` with a PID that is on no job passes job id 0 to `job_set_state`
  (line 323), which aborts the shell (`EvalJobAbort`); `ExitsAreExplained`
  names it.
* A child whose input file cannot be opened returns from `eval` (line 413) and
  goes on as a second shell on the same input (state `rogue`).
* Between unblocking the signals and `execve` (line 433) a child still has the
  shell's handlers. What they would do there is not modelled.

### Fairness

Weak fairness for the shell's own code and for a new child up to its program,
since the kernel schedules them. Strong fairness of `Deliver`: a pending
signal is delivered once the shell runs with it unblocked, and the shell goes
through blocked phases in between. No fairness for the user, nor for programs,
which need not end. `WaitEnds` is therefore about a job that has stopped or
ended and not about one that may, and only until somebody continues it.

One thing is assumed of the world (`ContinuingEnds`): nobody continues children
from elsewhere for ever. A child that was stopped and continued anew before each
call of `waitpid` would keep the loop of `sigchld_handler` in reports, so that it
never returned; TLC finds that behaviour when the assumption is left out.

## 3. The shell's drivers

### Correspondence

`ShellDriver` has sdriver, one runtrace, one shell and its jobs. `sd` is
sdriver's place: it runs the trace `ITERS` times on the student's shell and on
the reference shell. `rt` is runtrace: the line of the trace it is at, the lines
it has printed (a bag, since sdriver sorts the outputs before it compares them)
and its exit status. The socket pairs are queues: `dn` and `up` carry commands
and output, `sync` and `go` are the jobs' synchronisation, `ssync` and `sgo` the
shell's.

Of the shell the model keeps what runtrace notices of it. `wrapper.c` replaces
`waitpid`, `kill`, `job_get_pid` and `job_set_state`: a wrapped call is a step
after which the shell is `held` until runtrace answers, at the point the trace
names (`Hold`). The shell's own correctness is not assumed twice: `Students` is
a set of kinds of shell - one that behaves, and ones that die, hang, never
prompt, prompt wrongly, ignore foreground jobs, ignore `quit`, or do not reap.

SIGCHLD is one pending flag (`chld`), set by every end, stop and continue of a
job; the handler may run and find nothing.

`TestProgs` writes each test program as the sequence of what it does to the
shell or to runtrace; `mysplit` and its child are one job. A trace is a sequence
of commands, those of the file in `traces/` line by line: the `/bin/echo` that
prints a command is a foreground job like any other, waited for with `NEXT`.
Time is long: a wait of `DRIVER_TIMEOUT` seconds ends only when nothing else
can happen (`Quiet`). In `wrapper.c` the shell's own wait for runtrace has no
time-out. The clean-up of runtrace (`ps`, then `kill` of what was listed) and the
temporary directory that tells of another runtrace are steps of their own, and a
`send` to a shell that nobody is left of ends runtrace (`Sends`). Runtrace may be
killed at any point (`Interrupt`), by SIGINT or SIGQUIT, upon which sdriver raises
the same signal, or by SIGTERM or SIGHUP, which it takes for a failure of the run
(sdriver.c 322-329): it goes on to the reference run and grades what was printed.

### Run

`shell_driver`: traces 03, 07, 08, 15, 18 to 21, 23, 24 and 26, each line of them,
eight kinds of shell, two iterations. They have each way to synchronise that the
traces know: with one or two jobs, with the shell at each wrapped call, with the
shell signalled by runtrace, by a job or before it has a job. Traces 06, 10, 11,
13, 14, 22, 25 and 27 to 32 combine the same with more jobs, longer job lists or
redirection; the others only run commands and print. Two iterations are the least
with which the second can find what the first has left. The job list grows as the
trace needs it.

* `GradeTellsShells` - a shell that behaves gets the full score in every order
  of events, and each of the seven that do not gets none, on every one of these
  traces. The exception is a run of the student's shell that was killed by a
  signal sdriver does not raise again: that costs a right shell its score.
* `HandshakesMeet` - with a shell that behaves no wait of runtrace ends by a
  time-out: each `WAIT`, `SHELLWAIT` and `NEXT` meets its counterpart, whatever
  else synchronises in `next_prompt`, a SIGCHLD handler that finds no child
  included. The reverse is not claimed: the jobs of trace 07 wait for a signal
  that never comes, until they are killed.
* `StraysOnlyWhenInterrupted` - a process outlives its run only if runtrace was
  killed by a signal.
* `GradingEnds` - if the shell, the jobs, runtrace and sdriver together go on as
  long as any of them can (weak), which is what the kernel does. That a time-out
  goes off is runtrace's own step. None of the eight kinds of shell prints for
  ever, which would keep `flush_output` in its loop (runtrace.c 820).

## 4. The web proxy

### Modules

* `ProxyCache` - the cache as linked objects: `heap` maps an address to its
  key, length and successor, next to `cache_head`, `cache_tail`, `cache_size`.
  `Queue` is what a walk from the head meets, which need not be everything that
  was allocated. A run-time error of the C code sets `fault`.
* `Proxy` - the connection threads and the read-write lock.
* `ProxyProof` - theorems. `MCProxy` - instances for TLC.

### Correspondence

A thread goes `idle`, `request`, `lookup` (wants the read lock), `find`, then
either `hit`, `touch` (wants the write lock), `move`, or `miss`, `store`
(wants the write lock), `add`; `found` and `done` are between the section and
the release of the lock. `pthread_once_t` is a local variable in `thread`, so each
thread initialises the lock again when it starts (`Accept`), whoever holds it or
waits for it. Taking the lock, a section's reads and writes of the queue, and the
release are an action each. That a section is one action is right as long as the
lock works; two threads in sections that exclude each other are a data race, and
to unlock what one does not hold is undefined: `fault` records both (`race`,
`unlock`), and the model ends there. So what is said of the queue is said of all
schedules of the code, up to the first race.

The object found is used after the read lock was released (`ServeHit`) and again
under the write lock (`Move`). In between another thread may evict it, and
its address may be given out again: `heap` is indexed by address for this.

A response is the number of bytes received: all of `Size[u]`, or fewer. The
request text is abstracted to its uri. A method other than GET is answered with
501 and then served like a GET, so it is not told apart. Headers only decide
between sending, failing (`ConnectFails`) and leaving the program
(`SecondRequestLine`).

### Runs

| run | instance | shows |
|---|---|---|
| `proxy_safety` | 2 connections, 3 uris (size 3), 3 addresses, cache 4, object 2 | the queue is sound; faults come only from lost objects and lost locks |
| `proxy_live` | 3 connections, one uri of one byte, 1 address, cache 1, with fairness | a stalled connection keeps nobody out of the cache |
| `proxy_lock` | as `proxy_safety`, 2 addresses | refutes "initializes the read-write lock once" |

A response of size 3 does not fit. Cut short it gives an object of length 0, 1 or
2; only the length counts, so that it stands for a smaller page as well. Two
objects fill the cache, the third evicts, and `evict` frees no, one or several
objects. Three
addresses let an address be reused while a fourth object is not needed to see
the queue with head, middle and tail. When addresses run out, `malloc` fails,
which the code does not check: `fault` is then "malloc". Connections are reused,
so behaviours are unbounded.

`QueueIsSound`: a walk from the head ends, meets allocated objects with
different keys only, and `cache_size` is the length of what is allocated.
A search of the queue is one action, so that it ends is this property and not a
liveness property: a walk that comes back to where it was would show here.
`FaultsAreExplained`: two threads race only if one of them has lost the lock it
holds to an initialisation; `evict` follows a NULL head only after objects were
lost to the queue; and the tail is never a freed object. The other faults are not
constrained: a hit may find its object freed (`stale`), and, as the code does, may
send another page that has taken its place.
`LookupsGetIn`: a thread that wants to look a page up gets the read lock, though
other threads may stall on their client or server for ever. Three threads are the
least with one that waits while a second holds the lock and a third stalls.

Fairness: a thread that holds the lock goes on (weak), as no section waits for
the network. A thread that could take the read lock infinitely often gets it
(strong): the C library's default lock prefers readers, and lets all that wait in
when a writer leaves. Nothing is assumed of clients, servers, of threads outside
a section, or of writers, which overlapping readers may keep out for ever. (A
thread that sleeps when the lock is initialised may never be woken; but then the
one it waits for releases a lock it does not hold, where the model ends.) A
client or server that stalls holds its thread for ever, as reads and writes of
sockets have no time-out; no property says that a request ends.

### Where code and comments part

* `pthread_once_t` is local to `thread` (line 134): `proxy_lock`, a finding.
* A hit on the object that is already the tail takes it out of the queue
  (line 450), against "maintaining the integrity of the cache queue" (442-443).
* The object found under the read lock may be replaced before it is sent (192),
  against "if so the cached data to the client" (146-147).
* A response that was cut short is cached for later clients (361), against the
  file's description of what the cache holds (5-7).
* `evict` leaves its loop one byte early (428): an object may enter a cache that
  is one byte too full, so `cache_size` may exceed `MAX_CACHE_SIZE`.
* `clientfd` is closed only for well-formed requests (162); a second request
  line among the headers ends the whole proxy (275).

## 5. Robust I/O and Tiny

### Correspondence

`Rio` is one end of a connection. A call (`rio_readn`, `rio_readnb`,
`rio_readlineb`, `rio_writen`) is a record of what it has read or has left to
write; each `read()` and `write()` is a step that transfers any part of what was
asked for. `buf` is the internal buffer with its unread bytes. A reset that
arrives, and the broken pipe after it, are states of the end (`rst`). EINTR makes
the package call again and is a stuttering step.

`Tiny` instantiates it twice, for the server and for a client that fetches as
the proxy does, over the two byte streams between them. The server's `pc` goes
through request line, headers, response, CGI child and close; `fds` is the set of
descriptors it has open. A byte stands for a field: the first byte of a request
line says what is asked for, "h" begins a header with a colon, "c" continues it
(`RequestByte`). A request of the constants is any string of two or more of these,
well-formed or not; `WellFormed` tells the requests that get a file or a program:
all lines fit, all headers have a colon, and the empty line comes last.
`variant` chooses between `tiny.c` and `tiny-static.c`. Clients connect whenever the
server listens, also while it serves another: `Connect` puts them in the backlog
that the kernel keeps for `listen` (csapp.c 680), `Accept` takes the first. If the
server dies, the kernel resets those that wait (`Refused`). The state of a
connection is that of the one accepted last. Two reductions make this enough: what
a client does while it waits in the backlog (write, close) it does right after it
was accepted, which the server cannot tell apart; and what an earlier client has
still to read is not followed once the next was accepted, as the server can change
it no more. `LISTENQ` is 1024 and not reached. The client may close at any time. Whether the kernel sends a reset (bytes unread at a close) is as on
Linux.

### Run

`tiny`: three connections, five requests (static, dynamic, a method that is not
implemented, a bad uri, and one with a header of more than `MAXLINE` bytes), two
addresses for the sockets, a buffer of 2 bytes, sockets that hold 2, lines of 4.
All buffers are smaller than the shortest request, so each call is split at
every place. Two connections are the least with which something may be left
behind for the next, three the least with which two wait in the backlog.

* `RepliesAreResponses` - what a client receives is the beginning of one
  response to its own request. Only if the CGI program cannot be run may what the
  server had printed and not flushed follow the head: the child's exit writes it
  (`cut`, which also records a file that cannot be opened after the head).
* `ResponsesAreWhole` - a client that was accepted, with a well-formed request, and
  reads to the end has a whole response; no close discards one. A client that
  waits in the backlog gets nothing if the server dies before its turn, and then
  the client being served had given up.
* `OnlyImpatienceKills` - the server ends only by SIGPIPE from a client that did
  not wait, and keeps nothing open but the listening socket.
* `ConnectionsEnd` - under weak fairness of both ends and of the CGI child.

The first three are proved for all values of the constants (section 9).

## 6. The allocator, its driver and the memory simulator

### Correspondence

The allocator is sequential, so each call is one step, and the interest is in
long sequences of calls. `Malloc` is one record: the words of memory, the break,
the 8 + 6 free lists and `heap_end`. A word is a tag (header or footer with its
three flags), a list link or user data; sizes and addresses are in words of 8
bytes. What the code leaves in memory stays there (old tags in merged blocks,
data in freed ones), also when a trace is run a second time; each routine reads
the words it reads in C. Where it would take a link or data for a tag, or
unlink a block that is in no list, the C code's behaviour is undefined: `fault`
records it, and the driver stops. A list is the sequence its links spell out.
`minList` is indexed by the address modulo 6, for the address the driver maps
the heap at. The branch of `coalesce_block` for the first block is left out,
since its condition (a header equal to 1 right before the block, at
`heap_start`) is never true.

`MallocDriver` is `eval_mm_valid`: traces of malloc, realloc and free over a set
of ids. Its set of ranges is that of `Intervals`: intervals by their lower ends,
some of which are "heads" that `add_range` cannot see from below. `blocks` keeps
the pointer of a freed block, as in C.

`RangeSet` is the same set as it is built: records in doubly linked lists, found
through the splay tree of `SplayTree` (search, splay with all three rotations,
insertion, removal), for payloads that are arbitrary intervals, as a faulty
allocator would return them. `Splay` makes as many turns as there are keys; a
node that has reached the root stays there, so that this is the loop of the code.

`SparseMem` is `memlib.c` in sparse mode: the hash table of pages, the array they
are handed out from, the bits that say which bytes were initialised, and accesses
that cross a page. `op` is the last call with what it returned; it lets
`FlatMemory` say what the call should have returned.

### Runs

| run | instance | shows |
|---|---|---|
| `malloc_safety` | 3 ids (symmetric), requests of 8 and 32 bytes, chunk of 4 words, 12 words of memory | tiling, flags, lists, payloads; only a stale `heap_end` makes the allocator fail |
| `range_set` | addresses 1 to 5 | lists and tree implement `IntervalSet` |
| `sparse_memory` | pages of 2 bytes, 2 pages of 3, 2 chains, words of 2, copies of 3 | the page table implements `FlatMemory` |

The requests give blocks of 2 words (the minimum, without footer) and 6, which
is more than a chunk; splitting and merging give all even sizes up to 10, so
that two size classes are used. Three ids are the least with which a block is
freed between two free ones. The heap can be extended twice, or once by a large
block. `BlocksTile`, `FlagsTell` and `ListsExact` are what `mm_checkheap` looks
for, and more (it does not compare the lists' members, or a flag that is
missing). They are claimed as long as no fault occurred.

Five addresses give up to five ranges in a tree and every overlap of two. The
sparse instance has one page more than it has room for, two pages in one chain,
and copies longer than a page; `VIEW mem` leaves out `op`, which no step reads.
`IntervalSet` and `FlatMemory` are deterministic where the code should be: the
first says exactly which overlaps are found, the second exactly when a program
is ended.

### Where code and comments part

* Freeing the last block behind a free one merges them and leaves `heap_end` at
  the old header (line 668), against "Pointer to last block in the heap" (131,
  897). The next `extend_heap` then reads list links or user data as a header.
  `OnlyHeapEndFails` says that this is the only way for the allocator to lose
  its structure. The theorems of section 9 say where a stale `heap_end` points:
  strictly inside the last block, which is free, and never at an allocated
  header. `split_block` of that block sets it right; an extension before that
  goes wrong every time (`ExtendEffect`).
* `add_range` finds the successor of a range through its predecessor (mdriver.c
  825), so a range below all others gets none, against "adding it the range
  list" (843). An overlap with the next range is missed exactly if that one is a
  head: `ImplementsIntervals`, and the theorems `TreeImplementsIntervals` and
  `RangesLieApart`.
* `ranges` in `run_tests` (301-331) is changed between `setjmp` and `longjmp`
  without `volatile`. The timeout of the driver is not modelled.

## 7. The cache lab

### Correspondence

`Csim` is `csim.c`: a set is its lines, how many are used and the number of the
line to evict next; `junk` is what the stack held in the `csim_stats_t` that
`main` does not initialise (line 167). `DraftCsim` is `csimCP.c`: the queue of all
tags used, with entries of evicted tags left in it; `deq` of an empty queue follows
a null pointer. `CacheSim` runs both on one trace beside an LRU cache, which
stands for the reference simulator. `BlockCache` is a cache that never evicts the
block it used last.

`Transpose` has the transposes of `trans.c` as functions of the matrix and the
validation of `tracegen-ct`. `Grader` is the processes: `driver.py` runs
test-csim, then test-trans for each size, then once more for the performance
score. A tool starts a child with `system()`, that is under a shell, which may
replace itself by the command (`shExecs`) or stay; a tool gives up when its alarm
goes off and leaves the child behind (`orphans`). `file` is `.csim_results`, named
by the process that wrote it. A report's `own` is whether every count it used
was written by the child that was run for it.

### Runs

| run | instance | shows |
|---|---|---|
| `cache_sim` | 1 to 3 lines a set, one or two sets, blocks of 1 or 2 bytes, 4 addresses, 6 accesses | LRU for one and two lines; a cache for three; the queue's victim is found |
| `grader` | 2 traces, sizes 2x3 and 32x32, performance on 32x32 | which points can be trusted; when the grading ends; the transposes are right |

Four addresses in one set of three lines are the least with which a victim must
be chosen among three; six accesses fill the set, use it in another order and
evict. The matrix sizes take both paths of `transpose_submit` (the theorem is for
all sizes). Two traces are the least with which a result may be left over.

* `IsLRU`, `ImplementsCache`, `DraftFindsVictim`. With more than two lines csim is
  not LRU: the victim is tracked between lines 0 and 1 only (line 85).
* `PointsAreFresh` - test-csim removes the results first, so its points are for
  counts of the simulator it has just run.
* `ForkingShellIsSafe` - the same for test-trans, which does not, if the shell
  stays: then the driver waits for what a time-out has left behind. If the shell
  becomes the command, a child that was killed passes for a success
  (`WEXITSTATUS` of a signal is 0), and an orphan may overwrite the results.
* `TimeoutsEndGrading` - the reverse: with a shell that becomes the command the
  alarms end the grading even though no simulator ends; one that stays keeps the
  driver waiting for ever. Fairness: the tools, the driver and the alarm of an
  orphaned tracegen-ct go on (weak); no simulator has to end.

The performance run is scored by its cycles alone (driver.py 114-131): a tool that
timed out reports 0 of them and gets full points. `ForkingShellIsSafe` is
therefore about reports of a correct transpose.

## 8. Findings and mutants

`proxy_lock` is the one run that expects a violation. The other disagreements of
code and comment are listed above; for each the passing properties are stated
so that they hold with it, and name it.

For each property of a passing run `PROJECT.json` names a mutant, a plausible bug
in a mapped definition, that makes TLC find it violated: a dropped guard or
mask, an order swapped, a field not reset, a subtree lost in a rotation, a time-out
that is not noticed.

## 9. Proofs

The tables of `PROJECT.json` list the theorems; here is what carries each.

### The shell

`TshProof`, for any set of pids, any number of slots and any stacking depth:

* `TypeCorrect`. Needs that the two searches of the list return 0 or the least
  matching slot (`FirstOfProperties`, from the well-foundedness of < on the
  naturals, as `FirstOf` is a CHOOSE) and that a stack stays a sequence under
  push, pop and replacement.
* `ListAccessAlwaysBlocked`, `PromptAlwaysTakesSignals`. Neither property is
  inductive. `MaskInv` ties the mask that the bottom handler will return to to
  the loop's place. `FramesInv` says, for each activation, that it still blocks
  its own signal in the mask its successor on the stack will restore, and that
  one that uses the list is innermost with everything blocked. The own-signal
  part is what makes the union of the handler's partial mask and the implicit
  one complete, and the saved masks make an arbitrary `prev` harmless.
* `ForegroundAlwaysWaitedFor`, `ListedAlwaysUnreaped`. On top of the above,
  `ForegroundInv`, `ListInv` and `ForkedInv` (a child between fork and add_job
  is on no list and unreaped). That a reaped child's report is in the hands of
  one handler, which is innermost and blocked until it deletes the job, is
  where the mask discipline is used.

and, over the same invariant:

* `ExitsAlwaysExplained`. Between `getpgid` and `killpg` the group a handler is
  about to signal stays (`KillInv`): the job is on the list, so its process is
  not reaped, and its group was found to be its own.
* `ChildrenNeverLost`. `LossInv` is the property with the handler made precise:
  one that has yet to call `waitpid`, or is bound to call it again.
* `StatesAlwaysAccurate`. `NestInv`: while one `sigchld_handler` may call
  `waitpid` again, no other is stacked on it, as the masks saved on top of it
  keep SIGCHLD blocked. `ReportInv` relates the report in its hands to the child
  it is about. `StateInv` says of each entry why its state may differ from the
  child's: the news is still to be reported, the report is in hand, or the child
  was continued from elsewhere and nobody will report it (`Wakes`).
* `EveryChildAlwaysListed`. Deletions leave holes in the array, yet `nextjid`
  never passes more slots than children were added (`CountInv`), so that an
  array with a slot for each child is never full. Assumes that `Pid` is finite,
  which the property's own `Cardinality` needs.

Last, `ShellImplementsJobControl`. Initial states map to initial
states and each action of the shell, the handlers and the children maps to an
action of `JobControl` or a stutter. `WaitInv` (who waits, waits for a pid) and
the invariants above give the guards: that a job to be started is new, that no
other is in the foreground, that a stop or an end concerns a listed child.

And `ShellHasOneForeground`, of the mapped state: `JobControl`'s own invariant,
carried by its type invariant, holds of the shell because the shell implements it.

### The proxy

`ProxyProof`, for any number of connections, uris and objects, each thread
initialising the lock when it starts:

* `QueueAlwaysSound`. The inductive invariant `SharedInv` exhibits the queue: a
  chain of allocated addresses with distinct keys, each linked to the next, and
  a tail that is the last of the chain or no longer in it, never one in the
  middle (`QueueOK`). This is what `replace_tail` keeps even where it cuts the
  chain off. `CacheInv` adds that `cache_size` is the sum of the lengths of all
  that was allocated, `ThreadInv` what a thread's locals hold where it uses
  them. Assumes that `Obj` is finite, as the sum does.
* `FaultsAlwaysExplained`. That a race means a lost lock is by `HoldersInv`: there
  is never a reader with a writer, so of two threads in sections that exclude
  each other one is not among those the lock knows of. The rest needs one relation
  of the constants more, `2 * MaxObject <= MaxCache`, which the code satisfies
  tenfold (`MAX_OBJECT_SIZE` 102400, `MAX_CACHE_SIZE` 1049000). Without it the theorem
  is false: `evict` leaves its loop one byte early, so that a cache of one
  object's size could be too full with every object in the queue.

### The cache lab

`GraderProof`: `TransBasicIsCorrect` and `SubmitIsCorrect`, that is what
trans.c:124-125 asks for, "correct for all values of M and N". `InABlock` shows
that the blocks of 8 cover each index; that a cell is written with the right
value is by the body of the loops.

For any number of traces and any lists of sizes, `PointsAlwaysFresh`,
`ForkingShellAlwaysSafe`, `SubmissionAlwaysCorrect`. The
argument is about who can still write the file. test-csim is the first tool and
leaves no orphan before it reports; under a shell that stays, no tool starts
before the orphans of the one before are gone (`OrphanInv`). So while a tool is
at work the file holds what its child wrote or nothing (`FileInv`), and csim-ref
ends well only after it has written. `PlaceInv` says which child belongs to which
step. The last theorem rests on `SubmitIsCorrect`.

`CacheSimProof`, for traces of any length over any addresses, any numbers of
sets, lines and bytes: `CsimIsLRU`, `VictimAlwaysFound`,
`SimulatorsImplementCache`. The inductive invariant `Inv` has

* `ShapeInv`, the types; `CountInv`, that the counts of the simulators are those
  of the LRU cache for one and two lines; `PrintedInv`, that the summary is of
  these counts;
* `SetInv`, for each set: no tag is in two lines and the used lines are the
  first ones; csim's number of the line to evict is not that of the line used
  last; in csimCP's queue every resident tag has an entry, and the last entry is
  that of the tag used last, so that a first entry whose tag is resident and was
  not used last exists whenever the set has two lines; for one and two lines the
  lines are the blocks of the LRU cache, in the order that the line to evict
  tells (`InOrder`).

`IsLRU` alone says nothing of the lines and is not inductive. `Step`,
`OrderFollows` and `BlocksFollow` state what one access does to a set, once for
each of hit, fill and evict; the theorems combine them.

### Tiny

`TinyProof`, for any sizes of buffers, sockets and lines, any set of requests and any
number of connections and addresses: `EveryReplyIsAResponse`,
`EveryResponseIsWhole`, `OnlyTheImpatientKill`. A few facts about `Rio` (what a
step of a call may do to its record, the buffer and the stream) are stated first,
then what each place of the server and the client may do with its call. The
inductive invariant `IInv` has

* `ControlInv` and `FdsInv`: which call belongs to which place, who has a reset
  coming, and which descriptors are open there; that a broken pipe needs a client
  that gave up follows, and with it `OnlyTheImpatientKill`;
* `RequestInv`: what the server's call has read, its buffer, the bytes on their way
  and those the client has not written yet are together the rest of the request,
  from the start of a line on. So a line that is read is a line of the request,
  and of a well-formed request nothing is left when the empty line was read: the
  server closes with nothing unread, and no reset discards its response;
* `ReplyInv`: what the client has, what is on its way and what the server or its
  child has still to write are together one response to the client's request.

`RepliesAreResponses` says nothing of bytes on their way, and is not inductive.

### The allocator under its driver

`MallocProof`, for any even chunk size, any limit of the heap that a chunk fits
in, any ids and any positive sizes: `BlocksAlwaysTile`, `FlagsAlwaysTell`,
`ListsAlwaysExact`, `PayloadsAlwaysKept`, `DriverAlwaysAccepts` and the action
property `OnlyHeapEndEverFails`. None of the properties is inductive: tiling needs
flags and footers to merge by, those need exact lists, and all of them need to know
what a stale `heap_end` may point to. `DriverInv` is their strengthening:

* `Good`, the heap between two calls. A set of blocks `B` tiles it (`Tiled`: odd
  headers, even sizes, each block followed by one of `B` or the epilogue, each but
  the first following one, footers and both flags right, except that the epilogue
  may or may not carry `prev_min` after a free minimum block, as the code is not
  consistent there); no free neighbours (`Apart`); the lists hold the free blocks
  (`Listed`); no word at an even address is 1 (`EvenOK`), so that no footer is
  taken for an epilogue, which is also what a new trace over old memory needs;
  `heap_end` is the last block or strictly inside it (`EndOK`).
* `Owns`: the allocated blocks are the live ids', one each, large enough, and hold
  the user's data. `Ranged`: the ranges of the driver are the payloads of the live ids.

Each routine of `mm.c` has a lemma: from a good heap to a good one, with the blocks
it spares (`Kept`, `KeptBut`, `Spared`). A stretch of memory is retiled by one
lemma (`Retiled`), used for merging, splitting and extending. `ExtendEffect` has a
good heap or a fault, and the fault only from a stale `heap_end`, which
`StaleIsNotLast` turns into the action property. After a fault nothing is claimed
until `NextTrace`, whose `mm_init` makes a good heap of any memory (`InitEffect`).
`HeadersAre` shows that the tiling of the invariant is the one that the walk over
the heap meets.

### The malloc driver's ranges

`RangeSetProof`, for payloads at any addresses of a finite set of naturals
(`KeyAssumption`; the code's are 64-bit), so for a tree of any size and shape:

* `TreeHoldsRecords`. `RangeInv` says that for some set of keys the tree is a
  search tree of just these (`Tree`) and the records are theirs, each linked, if
  at all, to the very next one and back (`Records`). A tree is described by the
  set `D` of the nodes below each node: `Shaped` relates it to the links down and
  to the order of the keys, `Linked` the links down to those up. A rotation then
  changes the sets of two nodes only (`RotateTree`). Each turn of `splay` makes
  the set below its node bigger, so that as many turns as there are keys bring it
  to the root (`TurnIs`, `SplayIs`); this is also why the loop of the code ends.
  `TreeInsertIs` hangs the key on the leaf that the walk ends at; `TreeRemoveIs`
  follows the three cases of the removal at the root, the one with a successor
  through `CrownedTree`.
* `TreeImplementsIntervals`, the refinement of `IntervalSet`. `SearchIs` and
  `NearestIs` say what the walks return in such a tree, whatever its shape; with
  `SeenIs`, the record found and its `next` are what `IntervalSet` lets
  `add_range` see, which the tests for overlaps depend on.
* `RangesLieApart`: each range that is not a head lies above the end of the one
  before it. `SetOK` adds that ends do not precede beginnings and heads are
  ranges.

The walks are recursive functions over nodes. A walk of a search tree exists and
is unfolded step by step because the nodes below shrink (`Descent`), and claims
about it are shown from the leaves up (`Bottom`).

### The sparse memory

`SparseMemProof`, for any sizes of pages and words with a word no larger than a
page, any numbers of pages and chains, any bytes, any limit of the heap:

* `PageTableSound`. `MemOK(m)` is the page table between two calls: the pages
  handed out are the first of the array, each with an id of its own, in the chain
  of that id, and the chains hold no other. So a look-up finds the page of an
  address or there is none (`LookupIs`).
* `SparseImplementsFlat`, the refinement of `FlatMemory`. Three predicates over
  the flat view say what an access leaves (`Accessed`), what it reads (`Found`)
  and why it ends the program (`Blamed`). They compose (`Compose`, `BlameLater`,
  `BlameMore`): one access after another is an access of both areas, and what is
  blamed on a part is blamed on the whole. So `GetPage` is shown once, the two
  parts of an access over a page boundary follow, and each turn of the loops of
  `mem_memcpy` and `mem_memset` adds a part; the loops are recursive functions,
  unfolded as below. That a call runs out of pages only if the bytes it touches
  need too many is counted with `TouchedCount`: the touched pages are as many as
  were handed out.

### Assumptions and limits

Assumptions: the named ASSUMEs on the constants, and those stated in the
theorems (`IsFiniteSet(Pid)` and `2 * MaxObject <= MaxCache` above).

Induction over data is done by a least counterexample: a set of naturals that
refute the claim has a least element, and there the claim holds. Recursive
functions (`Pow2`, the walk of the queue, sums of lengths, the copying loops, the
walks and turns of the tree) are unfolded from their existence and uniqueness,
shown the same way.

Only model-checked:

* all liveness (`WaitEnds`, `ZombiesAreReaped`, `CtrlCReaches`,
  `LookupsGetIn`, `ConnectionsEnd`, `GradingEnds`, `TimeoutsEndGrading`):
  there is no rule for ENABLED;
* the properties of `ShellDriver`: they are about eleven traces of the
  repository and what each tests, not about any trace.

## 10. Not modelled

* Reuse of a pid by a child of the same shell, and by strangers: replaced by
  `ListedIsUnreaped`, which says that no pid on the list is free to be reused.
* What handlers do inside a forked child before `execve`.
* Output, `verbose`, error texts, the command line strings in the list; `parseline`.
* `wrapper.c`'s checks of arguments, the parsing of traces and options; the
  traces that section 3 does not list; the limits of the sockets' queues; a signal
  that reaches runtrace while it cleans up after something else.
* In the proxy: descriptors, header contents, memory that is leaked but never
  read again, and what happens after a data race (section 4).
* In the I/O package: the `sio_*` and `gai_error` routines, which print.
* `pxy`: the event manager and its agents; no run covers the hazard listed there.
* In the allocator: `calloc`, requests near `SIZE_MAX` (rounding wraps around).
  In its driver: reading traces, timing, scoring, the timeout; in the memory
  simulator: `hprobe`, statistics, sanitizer markings, `memlib-passthrough.c`.
* `fcyc.c`, `clock.c`: cycle counters, no interaction. `mm-naive.c`: a pointer
  that grows.
* In the cache lab: the parsing of arguments and trace lines, `queue.c` and
  `queueCP.c` (drafts called by nothing), `test-trans-simple.c`.
* Data lab (bit puzzles without state) and bomb lab (only `main` is in source).

## 11. Plan

1. Proofs: `ShellDriver`, of what does not depend on the traces; `calloc`.
2. `EventManager`: waiting for events in `pxy/events.py`.
3. The proxy in front of Tiny: `Proxy` with `Rio` and two descriptors per thread.
4. Data lab puzzles against their references at a small width.
