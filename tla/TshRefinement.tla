---------------------------- MODULE TshRefinement ----------------------------
(***************************************************************************)
(* The shell implements JobControl: the refinement mapping.                *)
(***************************************************************************)
EXTENDS Tsh

OnList(p) == \E j \in Jid : jobs[j].state # "UNDEF" /\ jobs[j].pid = p

EntryOf(p) == CHOOSE j \in Jid : jobs[j].state # "UNDEF" /\ jobs[j].pid = p

\* A child counts as new until add_job has been called for it.
JobOf(p) ==
    IF OnList(p) THEN jobs[EntryOf(p)].state
    ELSE IF proc[p].ph = "unused" \/ (pc = "forked" /\ cur = p) THEN "new" ELSE "off"

\* tmp = 0 when the job list was full: the shell does not wait for such a child.
WaitingFor == IF pc \in {"wait", "suspend"} /\ tmp # 0 THEN cur ELSE NoPid

JC == INSTANCE JobControl WITH job <- [p \in Pid |-> JobOf(p)], waiting <- WaitingFor

\* Every behaviour of the shell is one of JobControl: signals, nested handlers
\* and coalesced SIGCHLDs never take a job through a transition that is not in
\* JobControl, and never end the wait of a foreground job early.
ImplementsJobControl == JC!JCSpec

=============================================================================
