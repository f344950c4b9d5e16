--------------------------------- MODULE Tsh ---------------------------------
(***************************************************************************)
(* The tiny shell (src/Lab4/tsh.c): the read/eval loop, the three signal   *)
(* handlers that interrupt it, and the child processes it forks.           *)
(*                                                                         *)
(* The shell is one thread.  What makes it concurrent is that a handler    *)
(* may run between any two of its steps at which the signal is not         *)
(* blocked, and that handlers nest: Signal() in csapp.c installs them with *)
(* an empty sa_mask, so only a handler's own signal is blocked on entry.   *)
(* `frames' is the stack of handler activations, `mask' the blocked set.   *)
(*                                                                         *)
(* Grain: while every signal is blocked nothing else can read or write the *)
(* job list, so a run of statements in such a section is one action when   *)
(* it makes at most one call whose result depends on a child (killpg).     *)
(* eval is nevertheless split at Fork, so that a child may exit before the *)
(* parent has added its job.                                               *)
(***************************************************************************)
EXTENDS JobList, Sequences, FiniteSets

CONSTANT MaxDepth       \* bound: handler activations that may be stacked

ASSUME TshAssumption == MaxDepth \in Nat \ {0}

Sig == {"INT", "TSTP", "CHLD"}

VARIABLES
    pc,         \* the main loop: "prompt", "eval", "forked", "wait", "suspend"
    cmd,        \* the parsed command line that eval is working on
    prev_one,   \* eval's saved signal mask
    cur,        \* eval's `pid' / `tmp_pid': the child forked or addressed
    tmp,        \* eval's `tmp' / `tmp_jid': the job the shell waits for
    mask,       \* the signals the shell blocks now
    frames,     \* stack of handler activations, innermost last
    pending,    \* the signals pending for the shell
    jobs,       \* job_list
    nextjid,
    proc,       \* the children, as the kernel sees them
    exited      \* "no", or what ended the shell

shellVars == <<pc, cmd, prev_one, cur, tmp>>
listVars  == <<jobs, nextjid>>
vars == <<pc, cmd, prev_one, cur, tmp, mask, frames, pending, jobs, nextjid,
          proc, exited>>

-----------------------------------------------------------------------------
(* Children.  A child is forked with the shell's mask and handlers, calls  *)
(* setpgid, restores the mask and calls execve.  `news' is a stop that     *)
(* waitpid has not reported yet.  A program may end or stop at any time,   *)
(* because of a forwarded signal or for reasons of its own, and may catch  *)
(* or ignore what it is sent, so a signal sent to it leaves no state here. *)
(* A stopped one may be sent SIGCONT by any process of the user: it is     *)
(* then "woken", which differs from "running" only in that the shell has   *)
(* not been told.  Pids are not reused.                                    *)

Phase == {"unused", "forked", "grouped", "running", "stopped", "woken",
          "rogue", "zombie", "reaped"}

NewProc == [ph |-> "unused", news |-> FALSE]

\* The child is alive and has called setpgid(0,0), or is a zombie that did.
HasGroup(p) ==
    proc[p].ph \in {"grouped", "running", "stopped", "woken", "rogue", "zombie"}

\* Its program runs.
Runs(p) == proc[p].ph \in {"running", "woken"}

\* SIGCONT from the shell: a stopped child runs, and a stop nobody has waited
\* for is forgotten.
Continued(p) ==
    IF proc[p].ph \in {"stopped", "woken"}
    THEN [proc EXCEPT ![p] = [ph |-> "running", news |-> FALSE]] ELSE proc

FaultyReportable(p) == proc[p].ph = "zombie"

\* What waitpid(-1, ..., WNOHANG | WUNTRACED) can return.
Reportable(p) == proc[p].ph = "zombie" \/ proc[p].news

-----------------------------------------------------------------------------
(* Command lines.  "nop" stands for the lines eval answers without reading *)
(* or changing the job list: empty, malformed, `jobs', and bg/fg with no   *)
(* argument or one that is neither %jobid nor a PID.  bg and fg address a  *)
(* job by job id (pid = NoPid) or by a PID the user typed.                 *)

Cmd == [op : {"nop", "quit", "run_fg", "run_bg"}, jid : {0}, pid : {NoPid}]
         \cup [op : {"bg", "fg"}, jid : 0 .. MAXJOBS, pid : {NoPid}]
         \cup [op : {"bg", "fg"}, jid : {0}, pid : Pid]

NoCmd == [op |-> "nop", jid |-> 0, pid |-> NoPid]

\* eval's mask_all, the mask of its sigsuspend calls, and the mask its bg/fg
\* error paths restore (`prev', emptied at the top and never filled in).
\* The variants with "Faulty" in their name, here and below, are plausible
\* bugs in the definition that follows them: PROJECT.json names the property
\* that each one breaks.
FaultyEvalMask == Sig \ {"CHLD"}
EvalMask == Sig
FaultySuspendMask == {"CHLD"}
FaultySuspendMaskKeys == {"INT", "TSTP"}
SuspendMask == {}
FaultyErrorMask == Sig
ErrorMask == {}

ByPid == cmd.pid # NoPid
TargetJid == IF ByPid THEN JobFromPid(jobs, cmd.pid) ELSE cmd.jid
TargetPid == IF ByPid THEN cmd.pid ELSE jobs[cmd.jid].pid
FaultyTargetState == "BG"
TargetState == IF cmd.op = "fg" THEN "FG" ELSE "BG"

-----------------------------------------------------------------------------
(* Handler activations.  `prev' is the set of values the handler's local   *)
(* sigset_t may hold: all of them until sigprocmask has filled it in.      *)

Frame == [sig : Sig, at : {"enter", "block", "update", "check", "kill", "restore", "return"},
          pid : Pid \cup {NoPid}, status : {"none", "ended", "stopped"},
          prev : SUBSET SUBSET Sig, saved : SUBSET Sig]

Top == frames[Len(frames)]
InHandler == exited = "no" /\ frames # <<>>
Replace(f) == frames' = [frames EXCEPT ![Len(frames)] = f]

\* The main loop runs only when no handler is active.
Main(at) == exited = "no" /\ frames = <<>> /\ pc = at

TypeOK ==
    /\ pc \in {"prompt", "eval", "forked", "wait", "suspend"}
    /\ cmd \in Cmd
    /\ prev_one \in SUBSET Sig
    /\ cur \in Pid \cup {NoPid}
    /\ tmp \in 0 .. MAXJOBS
    /\ mask \in SUBSET Sig
    /\ frames \in Seq(Frame)
    /\ pending \in SUBSET Sig
    /\ jobs \in JobListType
    /\ nextjid \in 1 .. MAXJOBS + 1
    /\ proc \in [Pid -> [ph : Phase, news : BOOLEAN]]
    /\ exited \in {"no", "quit", "sigquit", "eof", "fork", "outfile", "memory", "killpg",
                   "killpg_handler", "abort_jid", "abort_untracked", "abort_fg", "abort_slot"}

Init ==
    /\ pc = "prompt"
    /\ cmd = NoCmd
    /\ prev_one = {}
    /\ cur = NoPid
    /\ tmp = 0
    /\ mask = {}
    /\ frames = <<>>
    /\ pending = {}
    /\ jobs = EmptyJobList
    /\ nextjid = 1
    /\ proc = [p \in Pid |-> NewProc]
    /\ exited = "no"

-----------------------------------------------------------------------------
(* The main loop and eval.                                                 *)

\* fgets returns a line and eval blocks the three signals before parsing it.
ReadCommand(c) ==
    /\ Main("prompt")
    /\ cmd' = c
    /\ prev_one' = mask
    /\ mask' = mask \cup EvalMask
    /\ pc' = "eval"
    /\ UNCHANGED <<cur, tmp, frames, pending, listVars, proc, exited>>

\* End of file, or an error, on standard input: main returns.
ReadEOF ==
    /\ Main("prompt")
    /\ exited' = "eof"
    /\ UNCHANGED <<shellVars, mask, frames, pending, listVars, proc>>

\* eval returns to the prompt and its locals go out of scope.  The error paths
\* of bg and fg restore `prev', an emptied set, instead of prev_one.
ReturnWith(m) ==
    /\ pc' = "prompt"
    /\ mask' = m
    /\ cmd' = NoCmd
    /\ prev_one' = {}
    /\ cur' = NoPid
    /\ tmp' = 0

\* eval enters its wait loop, with all three signals still blocked.
WaitFor(pid, jid) ==
    /\ pc' = "wait"
    /\ cur' = pid
    /\ tmp' = jid
    /\ cmd' = NoCmd
    /\ UNCHANGED <<prev_one, mask>>

EvalNop ==
    /\ Main("eval")
    /\ cmd.op = "nop"
    /\ ReturnWith(prev_one)
    /\ UNCHANGED <<frames, pending, listVars, proc, exited>>

\* `jobs > file', and the file cannot be opened: getout_fd exits the shell.
EvalOutfileFails ==
    /\ Main("eval")
    /\ cmd.op = "nop"
    /\ exited' = "outfile"
    /\ UNCHANGED <<shellVars, mask, frames, pending, listVars, proc>>

EvalQuit ==
    /\ Main("eval")
    /\ cmd.op = "quit"
    /\ exited' = "quit"
    /\ UNCHANGED <<shellVars, mask, frames, pending, listVars, proc>>

\* bg/fg %jobid when no such job exists.
EvalNoSuchJob ==
    /\ Main("eval")
    /\ cmd.op \in {"bg", "fg"}
    /\ ~ByPid /\ ~JobExists(jobs, cmd.jid)
    /\ ReturnWith(ErrorMask)
    /\ UNCHANGED <<frames, pending, listVars, proc, exited>>

\* job_set_state aborts: the typed PID belongs to no job, or the job would
\* become a second foreground job.
EvalJobAbort ==
    /\ Main("eval")
    /\ cmd.op \in {"bg", "fg"}
    /\ IF JobExists(jobs, TargetJid)
       THEN ~MayBecome(jobs, TargetState) /\ exited' = "abort_fg"
       ELSE ByPid /\ exited' = "abort_jid"
    /\ UNCHANGED <<shellVars, mask, frames, pending, listVars, proc>>

\* killpg fails because the child has not called setpgid yet, and the shell
\* exits.  (The job has just been marked; that mark dies with the shell.)
EvalKillpgFails ==
    /\ Main("eval")
    /\ cmd.op \in {"bg", "fg"}
    /\ JobExists(jobs, TargetJid) /\ MayBecome(jobs, TargetState)
    /\ ~HasGroup(TargetPid)
    /\ exited' = "killpg"
    /\ UNCHANGED <<shellVars, mask, frames, pending, listVars, proc>>

\* bg and fg: mark the job, send SIGCONT to its group (a child that was
\* stopped raises SIGCHLD when it continues); fg goes on to wait for it.
EvalResume ==
    /\ Main("eval")
    /\ cmd.op \in {"bg", "fg"}
    /\ JobExists(jobs, TargetJid) /\ MayBecome(jobs, TargetState)
    /\ HasGroup(TargetPid)
    /\ jobs' = SetState(jobs, TargetJid, TargetState)
    /\ proc' = Continued(TargetPid)
    /\ pending' = IF proc[TargetPid].ph = "stopped" THEN pending \cup {"CHLD"} ELSE pending
    /\ \/ cmd.op = "bg" /\ ReturnWith(prev_one)
       \/ cmd.op = "fg" /\ WaitFor(TargetPid, TargetJid)
    /\ UNCHANGED <<frames, nextjid, exited>>

Fork(p) ==
    /\ Main("eval")
    /\ cmd.op \in {"run_fg", "run_bg"}
    /\ proc[p].ph = "unused"
    /\ proc' = [proc EXCEPT ![p].ph = "forked"]
    /\ cur' = p
    /\ pc' = "forked"
    /\ UNCHANGED <<cmd, prev_one, tmp, mask, frames, pending, listVars, exited>>

\* fork() fails: the wrapper exits the shell.
ForkFails ==
    /\ Main("eval")
    /\ cmd.op \in {"run_fg", "run_bg"}
    /\ exited' = "fork"
    /\ UNCHANGED <<shellVars, mask, frames, pending, listVars, proc>>

\* add_job gives the child slot nextjid; when nextjid has run past the array
\* it does nothing and the child stays untracked.  A background job returns to
\* the prompt, a foreground job is waited for.  add_job aborts on a second
\* foreground job and when slot nextjid is taken, and exits when realloc fails.
StartState == IF cmd.op = "run_fg" THEN "FG" ELSE "BG"

AddJobAbort ==
    IF cmd.op = "run_fg" /\ FgJob(jobs) # 0 THEN "abort_fg"
    ELSE IF nextjid <= MAXJOBS /\ jobs[nextjid].state # "UNDEF" THEN "abort_slot"
    ELSE "no"

AddJob ==
    /\ Main("forked")
    /\ \/ exited' = AddJobAbort
       \/ AddJobAbort = "no" /\ nextjid <= MAXJOBS /\ exited' = "memory"
    /\ IF exited' = "no"
       THEN /\ IF nextjid > MAXJOBS
               THEN UNCHANGED listVars
               ELSE /\ jobs' = [jobs EXCEPT ![nextjid] = [pid |-> cur, state |-> StartState]]
                    /\ nextjid' = nextjid + 1
            /\ IF StartState = "BG" THEN ReturnWith(prev_one)
               ELSE WaitFor(cur, JobFromPid(jobs', cur))
       ELSE UNCHANGED <<shellVars, mask, listVars>>
    /\ UNCHANGED <<frames, pending, proc>>

\* The loop `while (job_exists(tmp) && job_get_state(tmp) == FG) sigsuspend'.
StillForeground == JobExists(jobs, tmp) /\ jobs[tmp].state = "FG"

Suspend ==
    /\ Main("wait")
    /\ StillForeground
    /\ mask' = SuspendMask
    /\ pc' = "suspend"
    /\ UNCHANGED <<cmd, prev_one, cur, tmp, frames, pending, listVars, proc, exited>>

FaultyWaitDone ==
    /\ Main("wait")
    /\ ReturnWith(prev_one)
    /\ UNCHANGED <<frames, pending, listVars, proc, exited>>

WaitDone ==
    /\ Main("wait")
    /\ ~StillForeground
    /\ ReturnWith(prev_one)
    /\ UNCHANGED <<frames, pending, listVars, proc, exited>>

-----------------------------------------------------------------------------
(* Signal delivery and the handlers.                                       *)

\* A pending, unblocked signal interrupts whatever runs.  sigsuspend returns
\* to the mask it was called with, which is eval's (all three blocked).
Deliver(s) ==
    /\ exited = "no"
    /\ s \in pending \ mask
    /\ Len(frames) < MaxDepth
    /\ pending' = pending \ {s}
    /\ frames' = Append(frames,
                   [sig |-> s, at |-> "enter", pid |-> NoPid, status |-> "none",
                    prev |-> SUBSET Sig,
                    saved |-> IF pc = "suspend" THEN Sig ELSE mask])
    /\ mask' = mask \cup {s}
    /\ pc' = IF pc = "suspend" THEN "wait" ELSE pc
    /\ UNCHANGED <<cmd, prev_one, cur, tmp, listVars, proc, exited>>

\* sigchld_handler: waitpid reports one child (any: the order is the
\* kernel's), before the handler has blocked the other two signals.
ChldReap(p) ==
    /\ InHandler /\ Top.sig = "CHLD" /\ Top.at = "enter"
    /\ Reportable(p)
    /\ IF proc[p].ph = "zombie"
       THEN /\ proc' = [proc EXCEPT ![p].ph = "reaped"]
            /\ Replace([Top EXCEPT !.at = "block", !.pid = p, !.status = "ended"])
       ELSE /\ proc' = [proc EXCEPT ![p].news = FALSE]
            /\ Replace([Top EXCEPT !.at = "block", !.pid = p, !.status = "stopped"])
    /\ UNCHANGED <<shellVars, mask, pending, listVars, exited>>

\* waitpid returns 0 or -1: the loop ends.
ChldNoMore ==
    /\ InHandler /\ Top.sig = "CHLD" /\ Top.at = "enter"
    /\ \A p \in Pid : ~Reportable(p)
    /\ Replace([Top EXCEPT !.at = "restore"])
    /\ UNCHANGED <<shellVars, mask, pending, listVars, proc, exited>>

\* sigaddset on a sigset_t that was never emptied: whatever else it holds, of
\* the three signals only the handler's own could be there, which is blocked
\* already.  (The same goes for mask_all in the other two handlers.)
FaultyChldMask == {"INT"}
ChldMask == {"INT", "TSTP"}

\* After one child the handler's loop calls waitpid again.
FaultyAfterChild == "restore"
AfterChild == "enter"

\* sigprocmask(SIG_BLOCK, &mask_all, &prev), at the top of the loop's body.
ChldBlock ==
    /\ InHandler /\ Top.sig = "CHLD" /\ Top.at = "block"
    /\ mask' = mask \cup ChldMask
    /\ Replace([Top EXCEPT !.at = "update", !.prev = {mask}])
    /\ UNCHANGED <<shellVars, pending, listVars, proc, exited>>

\* The child exited or was killed.  delete_job does nothing for a pid that is on no job.
ChldDelete ==
    /\ InHandler /\ Top.sig = "CHLD" /\ Top.at = "update"
    /\ Top.status = "ended"
    /\ LET jid == JobFromPid(jobs, Top.pid) IN
         IF JobExists(jobs, jid)
         THEN /\ jobs' = [jobs EXCEPT ![jid] = Cleared]
              /\ \E m \in 0 .. MAXJOBS : IsMaxJid(jobs', m) /\ nextjid' = NextAfter(m)
         ELSE UNCHANGED listVars
    /\ Replace([Top EXCEPT !.at = AfterChild, !.pid = NoPid, !.status = "none"])
    /\ UNCHANGED <<shellVars, mask, pending, proc, exited>>

\* job_set_state(jid, ST): aborts for a pid that is on no job.
ChldStop ==
    /\ InHandler /\ Top.sig = "CHLD" /\ Top.at = "update"
    /\ Top.status = "stopped"
    /\ LET jid == JobFromPid(jobs, Top.pid) IN
         IF JobExists(jobs, jid)
         THEN /\ jobs' = SetState(jobs, jid, "ST")
              /\ Replace([Top EXCEPT !.at = AfterChild, !.pid = NoPid, !.status = "none"])
              /\ UNCHANGED exited
         ELSE exited' = "abort_untracked" /\ UNCHANGED <<jobs, frames>>
    /\ UNCHANGED <<shellVars, mask, pending, nextjid, proc>>

\* sigint_handler and sigtstp_handler: block the other two signals.
FwdBlock ==
    /\ InHandler /\ Top.sig \in {"INT", "TSTP"} /\ Top.at = "enter"
    /\ mask' = mask \cup (Sig \ {Top.sig})
    /\ Replace([Top EXCEPT !.at = "check", !.prev = {mask}])
    /\ UNCHANGED <<shellVars, pending, listVars, proc, exited>>

\* Look for a foreground job whose process leads its own group.  getpgid fails
\* for a reaped child and differs from the pid before the child's setpgid.
FgPid == jobs[FgJob(jobs)].pid

FaultyFgLeadsGroup == TRUE
FgLeadsGroup == HasGroup(FgPid)

FwdCheck ==
    /\ InHandler /\ Top.at = "check"
    /\ FgJob(jobs) > 0 /\ FgLeadsGroup
    /\ Replace([Top EXCEPT !.at = "kill", !.pid = FgPid])
    /\ UNCHANGED <<shellVars, mask, pending, listVars, proc, exited>>

FwdSkip ==
    /\ InHandler /\ Top.at = "check"
    /\ ~(FgJob(jobs) > 0 /\ FgLeadsGroup)
    /\ Replace([Top EXCEPT !.at = "restore"])
    /\ UNCHANGED <<shellVars, mask, pending, listVars, proc, exited>>

\* killpg(tmp, sig); the handler exits the shell when it fails.
FwdKill ==
    /\ InHandler /\ Top.at = "kill"
    /\ IF HasGroup(Top.pid)
       THEN Replace([Top EXCEPT !.at = "restore", !.pid = NoPid]) /\ UNCHANGED exited
       ELSE exited' = "killpg_handler" /\ UNCHANGED frames
    /\ UNCHANGED <<shellVars, mask, pending, listVars, proc>>

\* sigprocmask(SIG_SETMASK, &prev, NULL) at the end of each handler.  In
\* sigchld_handler prev may never have been assigned.
HandlerRestore ==
    /\ InHandler /\ Top.at = "restore"
    /\ \E m \in Top.prev : mask' = m
    /\ Replace([Top EXCEPT !.at = "return", !.prev = {}])
    /\ UNCHANGED <<shellVars, pending, listVars, proc, exited>>

\* The handler returns: sigreturn restores the interrupted context's mask.
HandlerReturn ==
    /\ InHandler /\ Top.at = "return"
    /\ mask' = Top.saved
    /\ frames' = SubSeq(frames, 1, Len(frames) - 1)
    /\ UNCHANGED <<shellVars, pending, listVars, proc, exited>>

-----------------------------------------------------------------------------
(* The children and the user.                                              *)

childFrame == <<shellVars, mask, frames, listVars, exited>>

SetPgid(p) ==
    /\ exited = "no"
    /\ proc[p].ph = "forked"
    /\ proc' = [proc EXCEPT ![p].ph = "grouped"]
    /\ UNCHANGED <<childFrame, pending>>

\* The child restores the mask and calls execve.  (A signal that arrived in
\* between runs the inherited handler, which knows no foreground job.)
Exec(p) ==
    /\ exited = "no"
    /\ proc[p].ph = "grouped"
    /\ proc' = [proc EXCEPT ![p].ph = "running"]
    /\ UNCHANGED <<childFrame, pending>>

\* open of the input file fails with an error other than ENOENT: the child
\* returns from eval and becomes a second shell on the same standard input.
InfileFails(p) ==
    /\ exited = "no"
    /\ proc[p].ph = "grouped"
    /\ proc' = [proc EXCEPT ![p].ph = "rogue"]
    /\ UNCHANGED <<childFrame, pending>>

\* A redirection or execve fails and the child exits, a program exits or is
\* killed, or a rogue shell ends.
ChildEnds(p) ==
    /\ exited = "no"
    /\ proc[p].ph \in {"grouped", "running", "stopped", "woken", "rogue"}
    /\ proc' = [proc EXCEPT ![p] = [ph |-> "zombie", news |-> FALSE]]
    /\ pending' = pending \cup {"CHLD"}
    /\ UNCHANGED childFrame

ChildStops(p) ==
    /\ exited = "no"
    /\ Runs(p)
    /\ proc' = [proc EXCEPT ![p] = [ph |-> "stopped", news |-> TRUE]]
    /\ pending' = pending \cup {"CHLD"}
    /\ UNCHANGED childFrame

\* Somebody else (kill -CONT in another terminal, another child) continues a
\* stopped child.  The kernel raises SIGCHLD, but the handler's waitpid, called
\* without WCONTINUED, reports nothing; a stop it has not reported is forgotten.
ChildContinues(p) ==
    /\ exited = "no"
    /\ proc[p].ph = "stopped"
    /\ proc' = [proc EXCEPT ![p] = [ph |-> "woken", news |-> FALSE]]
    /\ pending' = pending \cup {"CHLD"}
    /\ UNCHANGED childFrame

\* Ctrl-C and Ctrl-Z.
UserSignal(s) ==
    /\ exited = "no"
    /\ s \in {"INT", "TSTP"}
    /\ pending' = pending \cup {s}
    /\ UNCHANGED <<childFrame, proc>>

\* sigquit_handler ends the shell from wherever it is: nobody blocks SIGQUIT.
SigQuit ==
    /\ exited = "no"
    /\ exited' = "sigquit"
    /\ UNCHANGED <<shellVars, mask, frames, pending, listVars, proc>>

-----------------------------------------------------------------------------
Eval ==
    \/ EvalNop \/ EvalOutfileFails \/ EvalQuit \/ EvalNoSuchJob \/ EvalJobAbort
    \/ EvalKillpgFails \/ EvalResume \/ ForkFails \/ AddJob \/ Suspend \/ WaitDone
    \/ \E p \in Pid : Fork(p)

Handler ==
    \/ ChldNoMore \/ ChldBlock \/ ChldDelete \/ ChldStop
    \/ FwdBlock \/ FwdCheck \/ FwdSkip \/ FwdKill
    \/ HandlerRestore \/ HandlerReturn
    \/ \E p \in Pid : ChldReap(p)

Child(p) ==
    \/ SetPgid(p) \/ Exec(p) \/ InfileFails(p)
    \/ ChildEnds(p) \/ ChildStops(p) \/ ChildContinues(p)

Next ==
    \/ \E c \in Cmd : ReadCommand(c)
    \/ ReadEOF
    \/ Eval
    \/ \E s \in Sig : Deliver(s)
    \/ Handler
    \/ \E p \in Pid : Child(p)
    \/ \E s \in {"INT", "TSTP"} : UserSignal(s)
    \/ SigQuit

Spec == Init /\ [][Next]_vars

\* The shell's own code keeps running, a new child is scheduled until it has
\* become its program (or failed to), and the kernel delivers a signal that
\* is unblocked again and again.  Nobody is obliged to type, to signal, or to
\* end a program; but nobody stops and continues a child for ever either: if it
\* stopped anew before each call of waitpid, the loop of sigchld_handler would
\* always find another report and never return.
LeaveEval(p) == proc[p].ph = "grouped" /\ (Exec(p) \/ InfileFails(p) \/ ChildEnds(p))

Fairness ==
    /\ WF_vars(Eval)
    /\ WF_vars(Handler)
    /\ \A s \in Sig : SF_vars(Deliver(s))
    /\ \A p \in Pid : WF_vars(SetPgid(p))
    /\ \A p \in Pid : WF_vars(LeaveEval(p))

ContinuingEnds == <>[][\A p \in Pid : ~ChildContinues(p)]_vars

FairSpec == Spec /\ Fairness /\ ContinuingEnds


-----------------------------------------------------------------------------
(* What the shell promises.                                                *)

Listed(j) == jobs[j].state # "UNDEF"
Alive(p) == proc[p].ph \notin {"unused", "reaped"}

\* A foreground job exists only while the shell waits for exactly that job:
\* there is never a second one, and the prompt never appears over one
\* (tsh_helper.h: at most 1 job can be in the FG state).
ForegroundIsWaitedFor ==
    \A j \in Jid : jobs[j].state = "FG" /\ exited = "no" => pc \in {"wait", "suspend"} /\ j = tmp

\* Whoever is about to read or write the job list (eval, or a handler past its
\* sigprocmask call) has all three signals blocked, whatever handlers have
\* nested and whatever mask an unassigned `prev' has restored: the condition
\* check_blocked in tsh_helper.c warns about.
ListAccessIsBlocked ==
    /\ frames = <<>> /\ pc \in {"eval", "forked", "wait"} => mask = Sig
    /\ frames # <<>> /\ Top.at \in {"update", "check", "kill"} => mask = Sig

\* Once blocked for a command, the prompt's signals come back unblocked.
PromptTakesSignals == exited = "no" /\ pc = "prompt" /\ frames = <<>> => mask = {}

\* A stop or an end nobody has collected is never forgotten: SIGCHLD, which
\* does not count its occurrences, is still pending, or a handler that will
\* call waitpid again is active.
NoLostChild ==
    (exited = "no" /\ \E p \in Pid : Reportable(p)) =>
        \/ "CHLD" \in pending
        \/ \E i \in DOMAIN frames :
              frames[i].sig = "CHLD" /\ frames[i].at \in {"enter", "block", "update"}

\* The report of p's end is in the hands of a handler that has not acted on it.
InHand(p) ==
    \E i \in DOMAIN frames :
        frames[i].sig = "CHLD" /\ frames[i].status = "ended" /\ frames[i].pid = p

\* A job on the list is a child that was not reaped, except between waitpid and
\* delete_job; no child is on the list twice.  A PID the kernel could give to
\* somebody else is therefore never signalled.
ListedIsUnreaped ==
    \A j \in Jid : exited = "no" /\ Listed(j) =>
        /\ proc[jobs[j].pid].ph = "reaped" => InHand(jobs[j].pid)
        /\ \A i \in Jid : Listed(i) /\ jobs[i].pid = jobs[j].pid => i = j

\* At rest the list is as true as a shell that is not told of a SIGCONT can
\* make it: a stopped child is marked ST; a child marked ST is stopped, or has
\* been continued by somebody else since (then ST is out of date until a bg, a
\* fg or its end); and no entry is left for a child that has ended.
StatesAreAccurate ==
    exited = "no" /\ frames = <<>> /\ "CHLD" \notin pending =>
        \A j \in Jid : Listed(j) =>
            LET ph == proc[jobs[j].pid].ph IN
            /\ ph = "stopped" => jobs[j].state = "ST"
            /\ jobs[j].state = "ST" => ph \in {"stopped", "woken"}
            /\ ph # "zombie"

\* Every live child is on the list, so that the SIGCHLD handler never aborts on
\* a stopped one: stated for instances in which the array cannot fill up.
EveryChildIsListed ==
    Cardinality(Pid) <= MAXJOBS =>
        /\ exited # "abort_untracked"
        /\ exited = "no" =>
              \A p \in Pid : Alive(p) /\ ~(pc = "forked" /\ p = cur) =>
                  \E j \in Jid : Listed(j) /\ jobs[j].pid = p

\* The shell ends on its own account only as explained: killpg can fail in bg
\* and fg only on a child that has not called setpgid; the assertions of
\* add_job and job_set_state never fire for a second foreground job or a busy
\* slot, and forwarding a key press never fails.  The other ends (quit, the end
\* of the input, no memory, no such file or job) are decided within one command.
ExitsAreExplained ==
    /\ exited \notin {"abort_fg", "abort_slot", "killpg_handler"}
    /\ exited = "killpg" => proc[TargetPid].ph = "forked"

\* The shell stops waiting once its foreground job has stopped or ended (unless
\* somebody continues the job first), and not before: ForegroundIsWaitedFor is
\* the other half.
WaitEnds ==
    \A p \in Pid :
        (pc \in {"wait", "suspend"} /\ cur = p /\ tmp # 0 /\ proc[p].ph \in {"stopped", "zombie"})
            ~> (pc = "prompt" \/ exited # "no" \/ Runs(p))

\* Every zombie is reaped, even when several children end while SIGCHLD is
\* blocked, or during the handler.
ZombiesAreReaped ==
    \A p \in Pid : proc[p].ph = "zombie" ~> (proc[p].ph = "reaped" \/ exited # "no")

\* Ctrl-C reaches a foreground job whose program is running: some handler
\* comes to call killpg on it, unless it stops being the running foreground job.
ForegroundRuns(p) ==
    /\ exited = "no"
    /\ Runs(p)
    /\ \E j \in Jid : jobs[j] = [pid |-> p, state |-> "FG"]

CtrlCReaches ==
    \A p \in Pid :
        ("INT" \in pending /\ ForegroundRuns(p))
        ~> (\/ ~ForegroundRuns(p)
            \/ frames # <<>> /\ Top.sig = "INT" /\ Top.at = "kill" /\ Top.pid = p)

=============================================================================
