------------------------------- MODULE JobList -------------------------------
(***************************************************************************)
(* The job list of the tiny shell (src/Lab4/tsh_helper.c): a fixed array   *)
(* of MAXJOBS slots and the counter `nextjid'.  The module is pure: every  *)
(* routine of the list is an operator on a value of that array, so that    *)
(* the shell (Tsh) and the proofs about it (TshProof) share one reading.   *)
(*                                                                         *)
(* The command line string a slot also keeps is not modelled: no control   *)
(* decision reads it.                                                      *)
(***************************************************************************)
EXTENDS Integers

CONSTANTS
    Pid,        \* the process ids the kernel may hand out to children
    NoPid,      \* the pid field of a cleared slot (0 in the code)
    MAXJOBS     \* number of slots (64 in tsh_helper.h)

ASSUME JobListAssumption == /\ MAXJOBS \in Nat \ {0}
                            /\ NoPid \notin Pid

Jid == 1 .. MAXJOBS
JobState == {"UNDEF", "FG", "BG", "ST"}

\* clearjob: what a slot holds when no job owns it.
Cleared == [pid |-> NoPid, state |-> "UNDEF"]

JobListType == [Jid -> [pid : Pid \cup {NoPid}, state : JobState]]

\* init_job_list
EmptyJobList == [j \in Jid |-> Cleared]

\* job_exists: false, not an error, for a job id outside 1..MAXJOBS.
JobExists(jobs, jid) == jid \in Jid /\ jobs[jid].state # "UNDEF"

\* Both list searches scan upwards from job id 1 and return 0 when they find
\* nothing.
FirstOf(S) == IF S = {} THEN 0 ELSE CHOOSE j \in S : \A i \in S : j <= i

\* fg_job
FgJob(jobs) == FirstOf({j \in Jid : jobs[j].state = "FG"})

\* job_from_pid.  (FaultyJobFromPid, like every Faulty definition of this
\* project, is a plausible bug in the definition that follows it.)
FaultyJobFromPid(jobs, pid) == FirstOf({j \in Jid : jobs[j].state # "UNDEF"})
JobFromPid(jobs, pid) ==
    FirstOf({j \in Jid : jobs[j].state # "UNDEF" /\ jobs[j].pid = pid})

\* maxjid, as the relation its downward scan establishes.
IsMaxJid(jobs, m) ==
    /\ m = 0 \/ JobExists(jobs, m)
    /\ \A j \in Jid : JobExists(jobs, j) => j <= m

\* delete_job: nextjid after a deletion, m being the largest job id left.
FaultyNextAfter(m) == m
NextAfter(m) == m + 1

\* job_set_state, once its preconditions (require_job_exists and
\* require_valid_state) have been met.
SetState(jobs, jid, state) == [jobs EXCEPT ![jid].state = state]

\* require_valid_state: there must be no foreground job when one is made.
MayBecome(jobs, state) == state = "FG" => FgJob(jobs) = 0

=============================================================================
