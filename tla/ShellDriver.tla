----------------------------- MODULE ShellDriver -----------------------------
(***************************************************************************)
(* How a shell is graded (src/Lab4): sdriver runs a trace on the student's *)
(* shell and on the reference shell and compares what was printed;         *)
(* runtrace interprets the trace, talking to the shell and its jobs over   *)
(* datagram sockets; wrapper.c, linked into the shell, stops the shell at  *)
(* the point that the trace asks for until runtrace lets it go on.         *)
(*                                                                         *)
(* Of the shell only what runtrace notices of Tsh.tla is here.  sdriver    *)
(* sorts the outputs before it compares them, so they are bags of lines.   *)
(* Time is long: a wait of DRIVER_TIMEOUT seconds ends only when nothing   *)
(* else can happen.  Left out: the limit of a socket's queue, and a signal *)
(* that reaches runtrace while it cleans up after something else.          *)
(***************************************************************************)
EXTENDS TestProgs, Integers, Bags, FiniteSetsExt

CONSTANTS
    Traces,     \* each a record of the SHELLSYNC option and the lines that follow
    Students,   \* how the student's shell behaves
    ITERS

ASSUME DriverAssumption == ITERS \in Nat \ {0}

VARIABLES
    sd,         \* sdriver
    rt,         \* runtrace
    sh,         \* the shell it runs
    job,        \* the shell's jobs, by job id
    dn, up,     \* datafd: commands to the shell, output of the shell and the jobs
    sync, go,   \* syncfd: from and to the jobs
    ssync, sgo, \* shellsyncfd: from and to the shell
    tmp,        \* is the temporary directory there?
    strays      \* processes that were left running: why ps did not list them

sockets == <<dn, up, sync, go, ssync, sgo>>
vars == <<sd, rt, sh, job, sockets, tmp, strays>>

None == 0
Mode == sd.trace.sync
Lines == sd.trace.lines
Line == Lines[rt.at]
Op(op) == rt.pc = "run" /\ rt.at <= Len(Lines) /\ Line.op = op

NewShell == [pc |-> "none", fg |-> None, todo |-> <<>>, held |-> FALSE, sig |-> {},
             chld |-> FALSE]
Printed(b, s) == LET count[i \in 0 .. Len(s)] ==
                       IF i = 0 THEN b ELSE count[i - 1] (+) SetToBag({s[i]})
               IN  count[Len(s)]
\* The comments of the trace are printed first.
NewRun == [pc |-> "start", at |-> 1, out |-> SetToBag({<<"comment">>}), status |-> "none",
           listed |-> {}, late |-> FALSE]

Init ==
    /\ sd \in [pc : {"test"}, trace : Traces, student : Students, left : {ITERS},
               out : {EmptyBag}, score : {0}, killed : {FALSE}]
    /\ rt = NewRun /\ sh = NewShell
    /\ job = <<>>
    /\ dn = <<>> /\ up = <<>> /\ sync = <<>> /\ go = <<>> /\ ssync = <<>> /\ sgo = <<>>
    /\ tmp \in BOOLEAN /\ strays = {}

-----------------------------------------------------------------------------
\* The shell.  What it does at a point that may be synchronized on is put in
\* todo; if the trace asks for the point, runtrace is told and the shell held.
Hold(point, what) ==
    /\ sh' = [sh EXCEPT !.todo = what, !.held = (Mode = point)]
    /\ ssync' = IF Mode = point THEN Append(ssync, "sync") ELSE ssync

\* What a job does next.
Does(j) == LET b == job[j] IN
    IF b.st # "run" THEN "nothing" ELSE IF b.at > Len(Program[b.prog]) THEN "exit"
    ELSE Program[b.prog][b.at]
JobWaits(j) == Does(j) \in {"nothing", "spin"} \/ (Does(j) = "recv" /\ go = <<>>)

\* runtrace lets the shell go on, after a delay in which the jobs settle.
Resumed == IF sh.held THEN sgo # <<>> /\ (\A j \in DOMAIN job : JobWaits(j)) /\ sgo' = Tail(sgo)
           ELSE UNCHANGED sgo
Doing(what) == sh.todo # <<>> /\ sh.todo[1] = what

Alive(j) == job[j].st \in {"run", "stopped"}
Changed == {j \in DOMAIN job : ~job[j].seen}
Behaves == sd.pc = "ref" \/ sd.student = "good"

\* What a student's shell may do wrong: not prompt, not obey any command, or
\* foreground jobs, or quit, and never wait for its children.
Obeys(c) == \/ Behaves
            \/ sd.student = "lazy" /\ ~(c.op = "job" /\ ~c.bg)
            \/ sd.student = "stays" /\ c.op # "quit"
            \/ sd.student = "zombies"

Reaps == Behaves \/ sd.student # "zombies"

\* A signal that is pending and not blocked is handled before anything else:
\* of two SIGCHLDs that wait one is left.
Pending == sh.sig # {} \/ (sh.chld /\ Reaps)

\* The child becomes a session of its own and runs the shell.
ShellStart ==
    /\ sh.pc = "forked"
    /\ sh' = [sh EXCEPT !.pc = IF ~Behaves /\ sd.student = "mute" THEN "hung" ELSE "prompt"]
    /\ UNCHANGED <<sd, rt, job, sockets, tmp, strays>>

Prompt ==
    /\ sh.pc = "prompt" /\ sh.todo = <<>>
    /\ up' = Append(up, IF ~Behaves /\ sd.student = "odd" THEN <<"odd", "$">> ELSE <<"tsh>", "">>)
    /\ sh' = [sh EXCEPT !.pc = "read"]
    /\ UNCHANGED <<sd, rt, job, dn, sync, go, ssync, sgo, tmp, strays>>

NewJob(prog) == [prog |-> prog, at |-> 1, st |-> "run", why |-> "exit", seen |-> TRUE]

Takes == sh.pc = "read" /\ sh.todo = <<>> /\ ~Pending /\ dn # <<>> /\ dn' = Tail(dn)
Reads(op) == Takes /\ Head(dn).op = op /\ Obeys(Head(dn))

RunJob ==
    /\ Reads("job")
    /\ job' = Append(job, NewJob(Head(dn).prog))
    /\ IF Head(dn).bg
       THEN up' = Append(up, <<"started", Head(dn).prog>>) /\ sh' = [sh EXCEPT !.pc = "prompt"]
       ELSE UNCHANGED up /\ sh' = [sh EXCEPT !.pc = "wait", !.fg = Len(job) + 1]
    /\ UNCHANGED <<sd, rt, sync, go, ssync, sgo, tmp, strays>>

IsListed(j) == j \in DOMAIN job /\ job[j].st # "gone"
ListJobs ==
    /\ Reads("jobs")
    /\ LET list[j \in 0 .. Len(job)] ==
             IF j = 0 THEN up
             ELSE IF IsListed(j) THEN Append(list[j - 1], <<j, job[j].st, job[j].prog>>)
             ELSE list[j - 1]
       IN  up' = list[Len(job)]
    /\ sh' = [sh EXCEPT !.pc = "prompt"]
    /\ UNCHANGED <<sd, rt, job, sync, go, ssync, sgo, tmp, strays>>

\* bg and fg: job_get_pid, killpg and job_set_state are wrapped.
Builtin ==
    /\ Reads("resume") /\ IsListed(Head(dn).job)
    /\ Hold(IF Mode \in {"kill", "job_get_pid", "job_set_state"} THEN Mode ELSE "none",
            <<"resume", Head(dn).job, Head(dn).fg>>)
    /\ UNCHANGED <<sd, rt, job, up, sync, go, sgo, tmp, strays>>

NoSuchJob ==
    /\ Reads("resume") /\ ~IsListed(Head(dn).job)
    /\ up' = Append(up, <<"no", "job">>) /\ sh' = [sh EXCEPT !.pc = "prompt"]
    /\ UNCHANGED <<sd, rt, job, sync, go, ssync, sgo, tmp, strays>>

Resume ==
    /\ Doing("resume") /\ Resumed
    /\ LET j == sh.todo[2] IN
       /\ job' = IF job[j].st = "stopped" THEN [job EXCEPT ![j].st = "run", ![j].seen = TRUE] ELSE job
       /\ sh' = [sh EXCEPT !.todo = <<>>, !.held = FALSE, !.chld = @ \/ job[j].st = "stopped",
                           !.pc = IF sh.todo[3] THEN "wait" ELSE "prompt",
                           !.fg = IF sh.todo[3] THEN j ELSE None]
       /\ up' = IF sh.todo[3] THEN up ELSE Append(up, <<"started", job[j].prog>>)
    /\ UNCHANGED <<sd, rt, dn, sync, go, ssync, tmp, strays>>

\* quit, or the end of the input.
Quit ==
    /\ Reads("quit") /\ sh' = [sh EXCEPT !.pc = "dead"]
    /\ UNCHANGED <<sd, rt, job, up, sync, go, ssync, sgo, tmp, strays>>

Disobey ==
    /\ Takes /\ ~Obeys(Head(dn))
    /\ sh' = [sh EXCEPT !.pc = CASE sd.student = "dies"  -> "dead"
                                 [] sd.student = "hangs" -> "hung"
                                 [] OTHER                -> "prompt"]
    /\ UNCHANGED <<sd, rt, job, up, sync, go, ssync, sgo, tmp, strays>>

\* sigint_handler and sigtstp_handler: kill is wrapped.
Interruptible == sh.pc \in {"prompt", "read", "wait"} /\ sh.todo = <<>>
SignalHandler(s) ==
    /\ Interruptible /\ s \in sh.sig
    /\ IF sh.fg = None THEN sh' = [sh EXCEPT !.sig = @ \ {s}] /\ UNCHANGED ssync
       ELSE Hold("kill", <<"forward", s>>)
    /\ UNCHANGED <<sd, rt, job, dn, up, sync, go, sgo, tmp, strays>>

\* The state of a job after a signal, which the shell has to notice.
Hit(b, s) ==
    LET st == Disposition(b.prog, s)
    IN  IF b.st = "run" /\ st # "run"
        THEN IF st = "stopped" THEN [b EXCEPT !.st = st, !.seen = FALSE]
             ELSE [b EXCEPT !.st = "dead", !.why = st, !.seen = FALSE]
        ELSE b

Forward ==
    /\ Doing("forward") /\ Resumed
    /\ job' = [job EXCEPT ![sh.fg] = Hit(@, sh.todo[2])]
    /\ sh' = [sh EXCEPT !.todo = <<>>, !.held = FALSE, !.sig = @ \ {sh.todo[2]},
                        !.chld = @ \/ job'[sh.fg] # job[sh.fg]]
    /\ UNCHANGED <<sd, rt, dn, up, sync, go, ssync, tmp, strays>>

\* sigchld_handler calls waitpid until it reports no child, which may be at once:
\* the child of this SIGCHLD was reaped for the one before, or only went on.
ChildHandler ==
    /\ Interruptible /\ sh.chld /\ Reaps
    /\ sh' = [sh EXCEPT !.todo = <<"waitpid">>, !.held = (Mode = "waitpid_before"), !.chld = FALSE]
    /\ ssync' = IF Mode = "waitpid_before" THEN Append(ssync, "sync") ELSE ssync
    /\ UNCHANGED <<sd, rt, job, dn, up, sync, go, sgo, tmp, strays>>

WaitpidFinds(j) ==
    /\ Doing("waitpid") /\ Resumed /\ j \in Changed
    /\ job' = [job EXCEPT ![j].seen = TRUE]
    /\ Hold("waitpid_after", <<"book", j>>)
    /\ UNCHANGED <<sd, rt, dn, up, sync, go, tmp, strays>>

WaitpidEnds ==
    /\ Doing("waitpid") /\ Resumed /\ Changed = {}
    /\ sh' = [sh EXCEPT !.todo = <<>>, !.held = FALSE]
    /\ UNCHANGED <<sd, rt, job, dn, up, sync, go, ssync, tmp, strays>>

\* The job list and the message, then waitpid again.  The next job has the id
\* after the last one on the list.
Trim(list) == SubSeq(list, 1, Max({0} \cup {j \in DOMAIN list : list[j].st # "gone"}))
Book ==
    /\ Doing("book") /\ Resumed
    /\ LET b == job[sh.todo[2]] IN
       /\ job' = IF b.st = "dead" THEN Trim([job EXCEPT ![sh.todo[2]].st = "gone"]) ELSE job
       /\ up' = IF b.st = "stopped" \/ b.why # "exit" THEN Append(up, <<b.st, b.prog>>) ELSE up
    /\ sh' = [sh EXCEPT !.todo = <<"waitpid">>, !.held = (Mode = "waitpid_before"),
                        !.fg = IF @ = sh.todo[2] THEN None ELSE @]
    /\ ssync' = IF Mode = "waitpid_before" THEN Append(ssync, "sync") ELSE ssync
    /\ UNCHANGED <<sd, rt, dn, sync, go, tmp, strays>>

WaitDone ==
    /\ sh.pc = "wait" /\ sh.todo = <<>> /\ sh.fg = None
    /\ sh' = [sh EXCEPT !.pc = "prompt"]
    /\ UNCHANGED <<sd, rt, job, sockets, tmp, strays>>

Shell == \/ ShellStart \/ Prompt \/ RunJob \/ ListJobs \/ Builtin \/ NoSuchJob \/ Resume \/ Quit
         \/ Disobey
         \/ \E s \in {"INT", "TSTP"} : SignalHandler(s)
         \/ Forward \/ ChildHandler \/ WaitpidEnds \/ Book \/ WaitDone
         \/ \E j \in DOMAIN job : WaitpidFinds(j)

-----------------------------------------------------------------------------
\* The jobs.
AfterStep(b) == [b EXCEPT !.at = @ + 1]

JobStep(j) ==
    /\ \/ /\ Does(j) = "send"
          /\ sync' = Append(sync, "sync") /\ job' = [job EXCEPT ![j] = AfterStep(@)]
          /\ UNCHANGED <<sh, up, go>>
       \/ /\ Does(j) = "recv" /\ go # <<>>
          /\ go' = Tail(go) /\ job' = [job EXCEPT ![j] = AfterStep(@)]
          /\ UNCHANGED <<sh, up, sync>>
       \/ /\ Does(j) \in {"print", "ps"}
          /\ up' = Append(up, IF Does(j) = "ps" THEN <<"ps", job[1].st>> ELSE <<"output", job[j].prog>>)
          /\ job' = [job EXCEPT ![j] = AfterStep(@)]
          /\ UNCHANGED <<sh, sync, go>>
       \/ /\ Does(j) \in DOMAIN ToSelf
          /\ job' = [job EXCEPT ![j] = Hit(AfterStep(@), ToSelf[Does(j)])]
          /\ sh' = [sh EXCEPT !.chld = @ \/ job'[j].st # "run"]
          /\ UNCHANGED <<up, sync, go>>
       \/ /\ Does(j) \in DOMAIN ToShell
          /\ sh' = [sh EXCEPT !.sig = @ \cup {ToShell[Does(j)]}]
          /\ job' = [job EXCEPT ![j] = AfterStep(@)]
          /\ UNCHANGED <<up, sync, go>>
       \/ /\ Does(j) = "sleep" /\ (sh.sig = {} \/ sh.pc \in {"dead", "hung"})
          /\ job' = [job EXCEPT ![j] = AfterStep(@)]
          /\ UNCHANGED <<sh, up, sync, go>>
       \/ /\ Does(j) = "exit"
          /\ job' = [job EXCEPT ![j].st = "dead", ![j].seen = FALSE]
          /\ sh' = [sh EXCEPT !.chld = TRUE]
          /\ UNCHANGED <<up, sync, go>>
    /\ UNCHANGED <<sd, rt, dn, ssync, sgo, tmp, strays>>

-----------------------------------------------------------------------------
\* Nothing but a timeout can happen to the shell and its jobs.
ShellWaits ==
    \/ sh.pc \in {"none", "dead", "hung"}
    \/ sh.held /\ sgo = <<>>
    \/ /\ sh.todo = <<>> /\ ~Pending
       /\ (sh.pc = "read" /\ dn = <<>>) \/ (sh.pc = "wait" /\ sh.fg # None)
Quiet == ShellWaits /\ \A j \in DOMAIN job : JobWaits(j)

-----------------------------------------------------------------------------
\* runtrace.
KeepDriver == UNCHANGED <<sd, strays>>
NextLine == rt' = [rt EXCEPT !.at = @ + 1]
OnPrompt == Head(up) = <<"tsh>", "">>

\* main up to the fork.  A temporary directory that is there already means
\* that another runtrace is at work, or was killed.
Begin ==
    /\ rt.pc = "start"
    /\ IF tmp THEN rt' = [rt EXCEPT !.pc = "done", !.status = "1", !.out = EmptyBag] /\ UNCHANGED <<sh, tmp>>
       ELSE /\ tmp' = TRUE /\ rt' = [rt EXCEPT !.pc = "prompt"]
            /\ sh' = [NewShell EXCEPT !.pc = "forked"]
    /\ KeepDriver /\ UNCHANGED <<job, sockets>>

\* Every way to stop early: the message, unless it goes to stderr, what the
\* shell has said, and what it is doing.
StopEarly(late, lines, status) ==
    /\ rt' = [rt EXCEPT !.pc = "ps", !.status = status, !.late = late,
                        !.out = Printed(@, lines \o <<<<"shell", IF sh.pc = "dead" THEN "ended" ELSE "runs">>>>)]
    /\ up' = <<>>
    /\ KeepDriver /\ UNCHANGED <<sh, job, dn, sync, go, ssync, sgo, tmp>>
GiveUp(printed, status) == StopEarly(TRUE, printed \o up, status)

FirstPrompt ==
    /\ rt.pc = "prompt" /\ up # <<>>
    /\ IF OnPrompt
       THEN /\ rt' = [rt EXCEPT !.pc = "run"] /\ up' = Tail(up)
            /\ KeepDriver /\ UNCHANGED <<sh, job, dn, sync, go, ssync, sgo, tmp>>
       ELSE StopEarly(FALSE, Tail(up), "1")

\* What the commands that wait take, and from where.
FaultyTimedOut ==
    /\ Quiet
    /\ \/ rt.pc = "prompt" /\ up = <<>> /\ GiveUp(<<>>, "1")
       \/ Op("WAIT") /\ sync = <<>> /\ GiveUp(<<<<"timed out", "job">>>>, "1")
       \/ Op("SHELLWAIT") /\ ssync = <<>> /\ GiveUp(<<<<"timed out", "shell">>>>, "1")
TimedOut ==
    /\ Quiet
    /\ \/ rt.pc = "prompt" /\ up = <<>> /\ GiveUp(<<>>, "1")
       \/ Op("WAIT") /\ sync = <<>> /\ GiveUp(<<<<"timed out", "job">>>>, "1")
       \/ Op("SHELLWAIT") /\ ssync = <<>> /\ GiveUp(<<<<"timed out", "shell">>>>, "1")
       \/ Op("NEXT") /\ up = <<>> /\ ssync = <<>> /\ GiveUp(<<<<"timed out", "prompt">>>>, "0")

Wait == /\ Op("WAIT") /\ sync # <<>> /\ sync' = Tail(sync) /\ NextLine
        /\ KeepDriver /\ UNCHANGED <<sh, job, dn, up, go, ssync, sgo, tmp>>
ShellWait == /\ Op("SHELLWAIT") /\ ssync # <<>> /\ ssync' = Tail(ssync) /\ NextLine
             /\ KeepDriver /\ UNCHANGED <<sh, job, dn, up, sync, go, sgo, tmp>>
Signal == /\ Op("SIGNAL") /\ go' = Append(go, "signal") /\ NextLine
          /\ KeepDriver /\ UNCHANGED <<sh, job, dn, up, sync, ssync, sgo, tmp>>
ShellSignal == /\ Op("SHELLSIGNAL") /\ sgo' = Append(sgo, "signal") /\ NextLine
               /\ KeepDriver /\ UNCHANGED <<sh, job, dn, up, sync, go, ssync, tmp>>
Kill(s) == /\ Op("SIG" \o s) /\ NextLine
           /\ sh' = IF sh.pc \in {"dead", "hung"} THEN sh ELSE [sh EXCEPT !.sig = @ \cup {s}]
           /\ KeepDriver /\ UNCHANGED <<job, sockets, tmp>>

\* next_prompt: a shell that synchronizes is let go at once, and output is
\* passed on, until the prompt.
FaultyAnswer == UNCHANGED sgo
Answer == sgo' = Append(sgo, "shell signal")
NextSync ==
    /\ Op("NEXT") /\ ssync # <<>>
    /\ ssync' = Tail(ssync) /\ Answer
    /\ KeepDriver /\ UNCHANGED <<rt, sh, job, dn, up, sync, go, tmp>>
NextOutput ==
    /\ Op("NEXT") /\ up # <<>>
    /\ up' = Tail(up)
    /\ IF OnPrompt THEN NextLine ELSE rt' = [rt EXCEPT !.out = Printed(@, <<Head(up)>>)]
    /\ KeepDriver /\ UNCHANGED <<sh, job, dn, sync, go, ssync, sgo, tmp>>

\* A line for the shell.  send fails when nobody holds the other end any more,
\* and then runtrace exits; a job that is left holds it, and nobody reads.
Sends(line) ==
    IF sh.pc # "dead" \/ \E j \in DOMAIN job : Alive(j)
    THEN dn' = Append(dn, line) /\ NextLine
    ELSE rt' = [rt EXCEPT !.pc = "ps", !.status = "1"] /\ UNCHANGED dn

\* PID asks pgrep for the first job of that name, and needs one.
Named == {j \in DOMAIN job : (Alive(j) \/ ~job[j].seen) /\ job[j].prog = Line.prog}
PidFails ==
    /\ Op("PID") /\ Named = {}
    /\ rt' = [rt EXCEPT !.pc = "ps", !.status = "1"]
    /\ KeepDriver /\ UNCHANGED <<sh, job, sockets, tmp>>
Pid ==
    /\ Op("PID") /\ Named # {}
    /\ Sends([op |-> "resume", fg |-> Line.fg, job |-> Min(Named)])
    /\ KeepDriver /\ UNCHANGED <<sh, job, up, sync, go, ssync, sgo, tmp>>

Directives == {"WAIT", "SHELLWAIT", "NEXT", "SIGNAL", "SHELLSIGNAL", "SIGINT", "SIGTSTP", "PID"}
Send ==
    /\ rt.pc = "run" /\ rt.at <= Len(Lines) /\ Line.op \notin Directives
    /\ Sends(Line)
    /\ KeepDriver /\ UNCHANGED <<sh, job, up, sync, go, ssync, sgo, tmp>>

\* The end of the trace: an empty message is the end of the shell's input, whether
\* it can be sent or not, and runtrace waits for the shell to end.
SendEof ==
    /\ rt.pc = "run" /\ rt.at > Len(Lines)
    /\ dn' = Append(dn, [op |-> "quit"]) /\ rt' = [rt EXCEPT !.pc = "join"]
    /\ KeepDriver /\ UNCHANGED <<sh, job, up, sync, go, ssync, sgo, tmp>>
Join ==
    /\ rt.pc = "join" /\ sh.pc = "dead"
    /\ rt' = [rt EXCEPT !.pc = "ps", !.status = "0", !.out = Printed(@, up)] /\ up' = <<>>
    /\ KeepDriver /\ UNCHANGED <<sh, job, dn, sync, go, ssync, sgo, tmp>>

\* sigalrm_handler leaves with _exit: what stdio had not written is lost.
FaultyAlarm ==
    /\ rt.pc = "join" /\ sh.pc # "dead" /\ Quiet
    /\ rt' = [rt EXCEPT !.pc = "ps", !.status = "1", !.late = TRUE]
    /\ KeepDriver /\ UNCHANGED <<sh, job, sockets, tmp>>
Alarm ==
    /\ rt.pc = "join" /\ sh.pc # "dead" /\ Quiet
    /\ rt' = [rt EXCEPT !.pc = "ps", !.status = "1", !.late = TRUE, !.out = SetToBag({<<"timed out", "end">>})]
    /\ KeepDriver /\ UNCHANGED <<sh, job, sockets, tmp>>

\* SIGINT or SIGQUIT ("INT"), SIGTERM or SIGHUP ("TERM"): clean up, and die of
\* the signal.  At the end the signal waits until all is cleaned up and printed.
Interrupt(signal) ==
    /\ \/ rt.pc \in {"start", "prompt", "run", "join"}
       \/ rt.pc = "done" /\ rt.status = "0" /\ ~rt.late
    /\ rt' = [rt EXCEPT !.status = signal,
                        !.pc = IF @ \in {"start", "done"} THEN "done" ELSE "ps",
                        !.out = Printed(IF rt.pc = "done" THEN @ ELSE EmptyBag, <<<<"cleaning up">>>>)]
    /\ KeepDriver /\ UNCHANGED <<sh, job, sockets, tmp>>

\* clean: kill -9 $(ps -s session); rm -Rf tmp.  The shell is process 0.
InSession == (IF sh.pc \in {"none", "forked", "dead"} THEN {} ELSE {0})
             \cup {j \in DOMAIN job : Alive(j)}
FaultyListed == InSession \cap {0}
Listed == InSession
Ps == /\ rt.pc = "ps" /\ rt' = [rt EXCEPT !.pc = "kill", !.listed = Listed]
      /\ KeepDriver /\ UNCHANGED <<sh, job, sockets, tmp>>
KillListed ==
    /\ rt.pc = "kill"
    /\ rt' = [rt EXCEPT !.pc = "exit"]
    /\ job' = [j \in DOMAIN job |-> IF j \in rt.listed THEN [job[j] EXCEPT !.st = "dead"] ELSE job[j]]
    /\ sh' = IF 0 \in rt.listed THEN [sh EXCEPT !.pc = "dead"] ELSE sh
    /\ tmp' = FALSE
    /\ KeepDriver /\ UNCHANGED sockets
Exit ==
    /\ rt.pc = "exit" /\ rt' = [rt EXCEPT !.pc = "done"]
    /\ strays' = strays \cup (IF InSession # {} \/ sh.pc = "forked" THEN {rt.status} ELSE {})
    /\ UNCHANGED <<sd, sh, job, sockets, tmp>>

Runtrace ==
    \/ Begin \/ FirstPrompt \/ TimedOut \/ Wait \/ ShellWait \/ Signal \/ ShellSignal
    \/ \E s \in {"INT", "TSTP"} : Kill(s)
    \/ NextSync \/ NextOutput \/ PidFails \/ Pid \/ Send \/ SendEof \/ Join \/ Alarm
    \/ Ps \/ KillListed \/ Exit

-----------------------------------------------------------------------------
\* sdriver.  The shell and its jobs are gone, or strays.
Fresh == /\ rt' = NewRun /\ sh' = NewShell /\ job' = <<>>
         /\ dn' = <<>> /\ up' = <<>> /\ sync' = <<>> /\ go' = <<>> /\ ssync' = <<>> /\ sgo' = <<>>

\* A student's run that was interrupted ends sdriver the same way.  Any other
\* failure is reported, and the outputs decide all the same.
Raised(status) == status = "INT"
TestDone ==
    /\ sd.pc = "test" /\ rt.pc = "done"
    /\ sd' = [sd EXCEPT !.pc = IF Raised(rt.status) THEN "interrupted" ELSE "ref",
                        !.out = rt.out, !.killed = @ \/ rt.status = "TERM"]
    /\ Fresh /\ UNCHANGED <<tmp, strays>>

\* The reference shell must run without an error; then the outputs decide.
RefDone ==
    /\ sd.pc = "ref" /\ rt.pc = "done"
    /\ sd' = [sd EXCEPT
             !.pc = CASE Raised(rt.status)    -> "interrupted"
                      [] ~Raised(rt.status) /\ rt.status # "0" -> "exited"
                      [] rt.status = "0" /\ (rt.out # sd.out \/ sd.left = 1) -> "graded"
                      [] rt.status = "0" /\ rt.out = sd.out /\ sd.left > 1 -> "test",
             !.score = IF rt.status = "0" /\ rt.out = sd.out /\ sd.left = 1 THEN ITERS ELSE 0,
             !.left = @ - 1, !.out = EmptyBag]
    /\ Fresh /\ UNCHANGED <<tmp, strays>>

Sdriver == TestDone \/ RefDone
Interrupts == \E signal \in {"INT", "TERM"} : Interrupt(signal)
\* A step of any of them is enough: none can go on for ever on its own.
Works == Shell \/ (\E j \in DOMAIN job : JobStep(j)) \/ Runtrace \/ Sdriver
Next == Works \/ Interrupts
Spec == Init /\ [][Next]_vars /\ WF_vars(Works)

-----------------------------------------------------------------------------
\* On every trace a shell that behaves gets the full score, whatever the order in
\* which it, its jobs and runtrace run, and one that does not gets none: what
\* runtrace prints when a wait ends by a time-out or a send fails is never what
\* the reference shell prints.  Only a student's run that was killed by a signal
\* sdriver does not take for an interrupt is graded as if the shell were wrong.
GradeTellsShells == sd.pc = "graded" => sd.score = IF Behaves /\ ~sd.killed THEN ITERS ELSE 0

\* With a shell that behaves no wait of runtrace ends by a time-out: every WAIT,
\* SHELLWAIT and NEXT of the traces meets its counterpart, whichever points of the
\* shell synchronize meanwhile, the handler that finds no child included.
HandshakesMeet == Behaves => ~rt.late

\* Nothing of a run survives it, unless runtrace was killed by a signal: then the
\* shell may not have been in its session yet, or have started a job after ps.
StraysOnlyWhenInterrupted == strays \subseteq {"INT", "TERM"}

\* The grading of each of these shells ends, through every wait, time-out and kill.
GradingEnds == <>(sd.pc \in {"graded", "exited", "interrupted"})
=============================================================================
