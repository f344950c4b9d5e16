---------------------------- MODULE MCShellDriver ----------------------------
EXTENDS ShellDriver

Fg(prog) == [op |-> "job", prog |-> prog, bg |-> FALSE]
Bg(prog) == [op |-> "job", prog |-> prog, bg |-> TRUE]
ResumeJob(j, fg) == [op |-> "resume", job |-> j, fg |-> fg]
Do(op) == [op |-> op]
PidOf(prog, fg) == [op |-> "PID", prog |-> prog, fg |-> fg]
T(mode, lines) == [sync |-> mode, lines |-> lines]

\* /bin/echo prints the command that follows; both are waited for.
Next1(line) == <<line, Do("NEXT")>>
Echo == Next1(Fg("echo"))
Cmd(line) == Echo \o Next1(line)
Dos(ops) == [i \in DOMAIN ops |-> Do(ops[i])]

\* Traces of src/Lab4/traces, line by line.
trace03 == T("none", <<Fg("myspin1")>> \o Dos(<<"WAIT", "SIGNAL", "quit">>))
trace07 == T("none", Cmd(Bg("myspin1")) \o Cmd(Bg("myspin2")) \o Dos(<<"WAIT", "WAIT">>)
                     \o Cmd(Do("jobs")) \o Dos(<<"quit">>))
trace08 == T("waitpid_before",
             Cmd(Bg("myspin1")) \o Cmd(Bg("myspin1")) \o Dos(<<"WAIT", "WAIT">>)
             \o Echo \o Dos(<<"SIGNAL", "SIGNAL", "SHELLWAIT", "SHELLSIGNAL", "jobs", "NEXT">>)
             \o Echo \o Dos(<<"quit">>))
trace15 == T("none", Dos(<<"SIGINT">>) \o Cmd(Bg("myspin1")) \o Dos(<<"WAIT">>)
                     \o Cmd(Fg("myintp")) \o Cmd(Do("jobs")) \o Dos(<<"SIGNAL", "quit">>))
trace18 == T("none", Echo \o <<Fg("mysplit")>> \o Dos(<<"WAIT", "SIGTSTP", "NEXT">>)
                     \o Cmd(Fg("ps")) \o Dos(<<"quit">>))
Kills(s) == Echo \o <<Fg("myspin2")>>
            \o Dos(<<"WAIT", s, "SHELLWAIT", "SIGNAL", "SHELLSIGNAL", "NEXT">>)
trace19 == T("kill", Kills("SIGTSTP") \o Kills("SIGINT") \o Dos(<<"quit">>))
KillsLate(s) == Echo \o <<Fg("myspin1")>>
                \o Dos(<<"WAIT", "SIGNAL", "SHELLWAIT", s, "SHELLSIGNAL", "NEXT">>)
trace20 == T("waitpid_after", KillsLate("SIGTSTP") \o KillsLate("SIGINT") \o Dos(<<"quit">>))
Surprises(s) == Echo \o <<Fg("mysigfun")>> \o Dos(<<"WAIT", s, "NEXT">>) \o Cmd(Do("jobs"))
trace21 == T("none", Surprises("SIGTSTP") \o Surprises("SIGINT") \o Dos(<<"quit">>))
trace23 == T("none", Cmd(Bg("myspin1")) \o Dos(<<"WAIT">>) \o Cmd(Fg("mytstpp")) \o Cmd(Do("jobs"))
                     \o Cmd(PidOf("mytstpp", FALSE)) \o Cmd(Do("jobs")) \o Dos(<<"SIGNAL", "quit">>))
trace24 == T("none", Cmd(Fg("mysleepnprint")) \o Cmd(Do("jobs")) \o Cmd(ResumeJob(1, TRUE))
                     \o Dos(<<"quit">>))
trace26 == T("job_set_state",
             Cmd(Bg("myspin1")) \o Dos(<<"WAIT">>) \o Cmd(Do("jobs")) \o Echo \o <<ResumeJob(1, TRUE)>>
             \o Dos(<<"SHELLWAIT", "SIGNAL", "SHELLSIGNAL", "NEXT", "quit">>))
MCTraces == {trace03, trace07, trace08, trace15, trace18, trace19, trace20, trace21, trace23, trace24,
             trace26}
=============================================================================
