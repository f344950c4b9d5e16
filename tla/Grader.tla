------------------------------- MODULE Grader -------------------------------
(***************************************************************************)
(* The cache lab's graders at the level of processes: driver.py runs       *)
(* test-csim, then test-trans for each matrix size, then test-trans twice  *)
(* more for the performance score; test-csim runs csim-ref and csim on     *)
(* each trace, test-trans runs tracegen-ct and csim-ref.  All simulators   *)
(* leave their counts in one file, .csim_results, and every tool gives up  *)
(* when its alarm goes off, leaving its child behind.                      *)
(*                                                                         *)
(* A child is started by system(), that is by a shell.  Shells differ:     *)
(* `shExecs' says whether this one replaces itself by a single command.    *)
(* Then the tool sees a signal that kills the command as a signal (and     *)
(* WEXITSTATUS of it as 0), and nothing but the command is left behind;    *)
(* otherwise the shell turns the signal into an exit status, and stays     *)
(* behind with the standard output that the driver reads to its end.       *)
(***************************************************************************)
EXTENDS Integers, Sequences, FiniteSets, Transpose

CONSTANTS
    Trace,      \* the number of traces of test-csim
    Sizes,      \* the matrix sizes of driver.py, as <<M, N>>
    Perf        \* the sizes of the performance runs

ASSUME GraderAssumption == Sizes \in Seq(Nat \X Nat) /\ Perf \in Seq(Nat \X Nat)

VARIABLES
    shExecs,
    submission, \* what was handed in: "this" repository's csim.c and trans.c, or others
    tool,       \* the running tool and what it has so far; prog "none" between tools
    child,      \* the process the tool waits for in system()
    orphans,    \* processes whose tool has given up
    file,       \* .csim_results: <<>>, or whose counts it holds
    launched,   \* the number of processes started
    driver      \* driver.py: the tools still to run, what they reported

vars == <<shExecs, submission, tool, child, orphans, file, launched, driver>>

NoChild == [id |-> 0, prog |-> "none", st |-> "none", code |-> 0]
NoTool == [prog |-> "none", pc |-> "none", i |-> 0, who |-> "none", M |-> 0, N |-> 0,
           points |-> 0, correct |-> 0, cycles |-> 0, own |-> TRUE]

\* What driver.py has the tools do, in order.
Plan == <<[prog |-> "test-csim", M |-> 0, N |-> 0, perf |-> FALSE]>>
        \o [k \in 1 .. Len(Sizes) |-> [prog |-> "test-trans", M |-> Sizes[k][1], N |-> Sizes[k][2], perf |-> FALSE]]
        \o [k \in 1 .. Len(Perf) |-> [prog |-> "test-trans", M |-> Perf[k][1], N |-> Perf[k][2], perf |-> TRUE]]

Init ==
    /\ shExecs \in BOOLEAN
    /\ submission \in {"this", "wrong"}
    /\ tool = NoTool /\ child = NoChild /\ orphans = {}
    /\ file \in {<<>>, <<0>>}
    /\ launched = 0
    /\ driver = [next |-> 1, transOK |-> TRUE, credit |-> {}, done |-> FALSE]

Step == Plan[driver.next]

\* driver.py reads a tool's output until every process that holds the pipe
\* has closed it: the tool, a tracegen-ct (which inherits it), and the shell
\* of any other child unless the shell has become that child.
FaultyHoldsPipe(p) == p.st # "exited"
HoldsPipe(p) == p.prog = "tracegen-ct" \/ ~shExecs

-----------------------------------------------------------------------------
\* The children.

\* system(): the command is started under the shell.
System(prog) ==
    /\ child' = [id |-> launched + 1, prog |-> prog, st |-> "running", code |-> 0]
    /\ launched' = launched + 1

\* printSummary: a simulator replaces .csim_results.  Both a child and an
\* orphan may do it, at any time.
Writes(p) == p.prog \in {"csim", "csim-ref"} /\ p.st = "running"
Counts(p) == <<p.id>>

ChildWrites ==
    /\ Writes(child)
    /\ file' = Counts(child)
    /\ child' = [child EXCEPT !.st = "wrote"]
    /\ UNCHANGED <<shExecs, submission, tool, orphans, launched, driver>>

OrphanWrites ==
    /\ \E p \in orphans : /\ Writes(p)
                          /\ file' = Counts(p)
                          /\ orphans' = (orphans \ {p}) \cup {[p EXCEPT !.st = "wrote"]}
    /\ UNCHANGED <<shExecs, submission, tool, child, launched, driver>>

\* tracegen-ct exits with 1 when the matrix it validates is not the transpose.
\* (Its alarm is set after that of its test-trans, for as long, so it goes off
\* in an orphan only.)  csim exits with 0 once it wrote, or when it could not
\* open .csim_results, and with another status when it gives up.
TraceIsValid == submission = "this" /\ Validate(tool.M, tool.N, TransposeSubmit(tool.M, tool.N))
ExitCodes(p) ==
    CASE p.prog = "tracegen-ct" -> IF TraceIsValid THEN {0} ELSE {1}
      [] p.prog = "csim" /\ p.st = "running" -> {0, 1}
      [] OTHER -> {0}

ChildExits ==
    /\ child.st \in {"running", "wrote"}
    /\ child.prog = "csim-ref" => child.st = "wrote"
    /\ \E c \in ExitCodes(child) : child' = [child EXCEPT !.st = "exited", !.code = c]
    /\ UNCHANGED <<shExecs, submission, tool, orphans, file, launched, driver>>

\* A signal kills the child: a segmentation fault, or the kernel short of memory.
ChildKilled ==
    /\ child.st \in {"running", "wrote"}
    /\ child' = IF shExecs THEN [child EXCEPT !.st = "signalled"]
                ELSE [child EXCEPT !.st = "exited", !.code = 139]
    /\ UNCHANGED <<shExecs, submission, tool, orphans, file, launched, driver>>

\* An orphan ends, a tracegen-ct by its own alarm at the latest.
Ends(p) ==
    /\ orphans' = orphans \ {p}
    /\ UNCHANGED <<shExecs, submission, tool, child, file, launched, driver>>

Ended == child.st \in {"exited", "signalled"}
\* WEXITSTATUS of what system() returns.
FaultyExitStatus == 0
ExitStatus == IF child.st = "exited" THEN child.code ELSE 0

-----------------------------------------------------------------------------
\* test-csim.

\* run_csim removes the old results first.
FaultyCsimUnlink ==
    /\ tool.prog = "test-csim" /\ tool.pc = "unlink"
    /\ System(IF tool.who = "ref" THEN "csim-ref" ELSE "csim")
    /\ tool' = [tool EXCEPT !.pc = "wait"]
    /\ UNCHANGED <<shExecs, submission, orphans, file, driver>>

CsimUnlink ==
    /\ tool.prog = "test-csim" /\ tool.pc = "unlink"
    /\ file' = <<>>
    /\ System(IF tool.who = "ref" THEN "csim-ref" ELSE "csim")
    /\ tool' = [tool EXCEPT !.pc = "wait"]
    /\ UNCHANGED <<shExecs, submission, orphans, driver>>

\* The next trace, or the end of the loop of test_csim.
AfterTrace(t) == IF t.i = Trace THEN [t EXCEPT !.pc = "report"]
                 ELSE [t EXCEPT !.i = @ + 1, !.who = "ref", !.pc = "unlink"]

\* run_csim fails when the simulator exited with a status other than 0 (a
\* signal does not count) or left no results; runtrace then gives no points.
CsimFails ==
    /\ tool.prog = "test-csim" /\ tool.pc = "wait" /\ Ended
    /\ (child.st = "exited" /\ child.code # 0) \/ file = <<>>
    /\ tool' = AfterTrace(tool)
    /\ child' = NoChild
    /\ UNCHANGED <<shExecs, submission, orphans, file, launched, driver>>

\* run_csim succeeds: loadSummary, and the file is removed.  After the
\* simulator under test the matching counts become points; csim may match in
\* some of them or none.
CsimLoads ==
    /\ tool.prog = "test-csim" /\ tool.pc = "wait" /\ Ended
    /\ ~(child.st = "exited" /\ child.code # 0) /\ file # <<>>
    /\ file' = <<>> /\ child' = NoChild
    /\ LET mine == file = Counts(child) IN
       IF tool.who = "ref"
       THEN tool' = [tool EXCEPT !.who = "test", !.pc = "unlink", !.own = @ /\ mine]
       ELSE \E matches \in {0, 5} :
            tool' = AfterTrace([tool EXCEPT !.points = @ + matches, !.own = @ /\ mine])
    /\ UNCHANGED <<shExecs, submission, orphans, launched, driver>>

-----------------------------------------------------------------------------
\* test-trans -s: the submission is the only function it evaluates.

\* get_clock_cycles of an incorrect run: both counts are LONG_MAX, and driver.py
\* reads the digits of HIT_CYCLES * LONG_MAX + MISS_CYCLES * LONG_MAX = -104.
Overflowed == 104

\* The limits of computeMissScore for the 32 x 32 matrix, and its points.
Lower == 36000
Upper == 45000
ComputeMissScore(cycles) ==
    IF cycles <= Lower THEN 200 ELSE IF cycles >= Upper THEN 0
    ELSE 200 - (200 * (cycles - Lower)) \div (Upper - Lower)

\* generate_trace
GenerateTrace ==
    /\ tool.prog = "test-trans" /\ tool.pc = "generate"
    /\ System("tracegen-ct")
    /\ tool' = [tool EXCEPT !.pc = "generated"]
    /\ UNCHANGED <<shExecs, submission, orphans, file, driver>>

\* tracegen-ct is judged by its exit status.
TraceFails ==
    /\ tool.prog = "test-trans" /\ tool.pc = "generated" /\ Ended /\ ExitStatus # 0
    /\ tool' = [tool EXCEPT !.pc = "report", !.cycles = Overflowed]
    /\ child' = NoChild
    /\ UNCHANGED <<shExecs, submission, orphans, file, launched, driver>>

\* compute_stats runs the reference simulator on the trace; .csim_results is
\* not removed first.
ComputeStats ==
    /\ tool.prog = "test-trans" /\ tool.pc = "generated" /\ Ended /\ ExitStatus = 0
    /\ System("csim-ref")
    /\ tool' = [tool EXCEPT !.pc = "simulated",
                            !.own = child.st = "exited" /\ child.code = 0]
    /\ UNCHANGED <<shExecs, submission, orphans, file, driver>>

StatsFail ==
    /\ tool.prog = "test-trans" /\ tool.pc = "simulated" /\ Ended
    /\ ExitStatus # 0 \/ file = <<>>
    /\ tool' = [tool EXCEPT !.pc = "report", !.cycles = Overflowed]
    /\ child' = NoChild
    /\ UNCHANGED <<shExecs, submission, orphans, file, launched, driver>>

\* The counts are loaded, the file is removed and the function is correct.
\* Its clock cycles may be few or many.
StatsLoad ==
    /\ tool.prog = "test-trans" /\ tool.pc = "simulated" /\ Ended
    /\ ExitStatus = 0 /\ file # <<>>
    /\ \E c \in {Lower, Upper} :
          tool' = [tool EXCEPT !.pc = "report", !.correct = 1, !.cycles = c,
                               !.own = @ /\ file = Counts(child)]
    /\ file' = <<>> /\ child' = NoChild
    /\ UNCHANGED <<shExecs, submission, orphans, launched, driver>>

-----------------------------------------------------------------------------
\* The alarm of the running tool: it reports zeros and exits.
Alarm ==
    /\ tool.prog # "none" /\ tool.pc # "report"
    /\ tool' = [tool EXCEPT !.pc = "report", !.points = 0, !.correct = 0, !.cycles = 0]
    /\ orphans' = IF child.st \in {"running", "wrote"} THEN orphans \cup {child} ELSE orphans
    /\ child' = NoChild
    /\ UNCHANGED <<shExecs, submission, file, launched, driver>>

\* driver.py starts the next tool.
StartTool ==
    /\ tool.prog = "none" /\ ~driver.done /\ driver.next <= Len(Plan)
    /\ Step.perf => driver.transOK
    /\ tool' = [NoTool EXCEPT !.prog = Step.prog, !.M = Step.M, !.N = Step.N,
                              !.pc = IF Step.prog = "test-csim" THEN "unlink" ELSE "generate",
                              !.i = 1, !.who = "ref"]
    /\ UNCHANGED <<shExecs, submission, child, orphans, file, launched, driver>>

\* driver.py has read the tool's output to the end.  A performance run is
\* scored by its cycles alone, whatever it reports of its correctness.
ReadReport ==
    /\ tool.pc = "report"
    /\ \A p \in orphans : ~HoldsPipe(p)
    /\ driver' = [driver EXCEPT !.next = @ + 1,
                                !.transOK = @ /\ (Step.prog = "test-trans" /\ ~Step.perf => tool.correct = 1),
                                !.credit = @ \cup IF Step.perf THEN {
                                        [points |-> ComputeMissScore(tool.cycles), correct |-> tool.correct, own |-> tool.own]} ELSE {}]
    /\ tool' = NoTool
    /\ UNCHANGED <<shExecs, submission, child, orphans, file, launched>>

\* All tools have run, or a correctness run failed: no credit for the second part.
Finish ==
    /\ tool.prog = "none" /\ ~driver.done
    /\ driver.next <= Len(Plan) => Step.perf /\ ~driver.transOK
    /\ driver' = [driver EXCEPT !.done = TRUE]
    /\ UNCHANGED <<shExecs, submission, tool, child, orphans, file, launched>>

Next ==
    \/ ChildWrites \/ ChildExits \/ ChildKilled \/ OrphanWrites \/ (\E p \in orphans : Ends(p))
    \/ CsimUnlink \/ CsimFails \/ CsimLoads
    \/ GenerateTrace \/ TraceFails \/ ComputeStats \/ StatsFail \/ StatsLoad
    \/ Alarm \/ StartTool \/ ReadReport \/ Finish

\* The tools and the driver go on, and an alarm goes off, that of an orphaned
\* tracegen-ct too.  The simulators need not end.
ToolStep == \/ CsimUnlink \/ CsimFails \/ CsimLoads \/ GenerateTrace \/ TraceFails
            \/ ComputeStats \/ StatsFail \/ StatsLoad \/ Alarm \/ StartTool \/ ReadReport \/ Finish
TracerAlarm == \E p \in orphans : p.prog = "tracegen-ct" /\ Ends(p)

Spec == Init /\ [][Next]_vars /\ WF_vars(ToolStep) /\ WF_vars(TracerAlarm)

-----------------------------------------------------------------------------
\* test-csim gives points only for counts that the simulator it has just run
\* wrote for this trace, although a simulator may fail to write any.
PointsAreFresh == tool.prog = "test-csim" => tool.own

\* With a shell that stays, a performance score that is reported with a correct
\* transpose is the score of counts that csim-ref wrote for the trace of that
\* transpose.  With one that does not, a killed child counts as a success and a simulator left behind by an
\* earlier time-out may overwrite the counts.
ForkingShellIsSafe == \A c \in driver.credit : ~shExecs /\ c.correct = 1 => c.own

\* The transposes of trans.c are correct for every size that is run.
SubmissionIsCorrect ==
    submission = "this" /\ child.prog = "tracegen-ct" /\ child.st = "exited" => child.code # 1

\* When the shell becomes the command, the alarms end the grading even though
\* no simulator ends; a shell that stays keeps the driver waiting for ever.
TimeoutsEndGrading == shExecs ~> driver.done
=============================================================================
