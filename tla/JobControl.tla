----------------------------- MODULE JobControl -----------------------------
(***************************************************************************)
(* What the tiny shell promises its user, without signals, handlers, masks *)
(* or job ids: each child goes through the job states of tsh_helper.h, and *)
(* the shell waits for the foreground job and for nothing else.  Tsh is    *)
(* shown to implement it (the mapping is in TshRefinement).                 *)
(*                                                                         *)
(* The transition list in tsh_helper.h omits BG -> ST, which happens when  *)
(* a background program stops; Stop allows it.                             *)
(***************************************************************************)
EXTENDS Naturals

CONSTANTS Pid, NoPid

VARIABLES
    job,        \* per child: "new", "FG", "BG", "ST" or "off" the list
    waiting     \* the foreground job the shell waits for, or NoPid

jcVars == <<job, waiting>>

JCTypeOK == /\ job \in [Pid -> {"new", "FG", "BG", "ST", "off"}]
            /\ waiting \in Pid \cup {NoPid}

JCInit == /\ job = [p \in Pid |-> "new"]
          /\ waiting = NoPid

\* A command line without `&': the shell starts the job and waits for it.
StartForeground(p) ==
    /\ waiting = NoPid /\ job[p] = "new"
    /\ job' = [job EXCEPT ![p] = "FG"]
    /\ waiting' = p

\* A command line with `&'.
StartBackground(p) ==
    /\ waiting = NoPid /\ job[p] = "new"
    /\ job' = [job EXCEPT ![p] = "BG"]
    /\ UNCHANGED waiting

\* The job list is full: the child runs without ever becoming a job.
Refuse(p) ==
    /\ waiting = NoPid /\ job[p] = "new"
    /\ job' = [job EXCEPT ![p] = "off"]
    /\ UNCHANGED waiting

\* The job's process has stopped.
Stop(p) ==
    /\ job[p] \in {"FG", "BG"}
    /\ job' = [job EXCEPT ![p] = "ST"]
    /\ UNCHANGED waiting

\* The job's process has ended.
Finish(p) ==
    /\ job[p] \in {"FG", "BG", "ST"}
    /\ job' = [job EXCEPT ![p] = "off"]
    /\ UNCHANGED waiting

\* The bg command.
Background(p) ==
    /\ waiting = NoPid /\ job[p] = "ST"
    /\ job' = [job EXCEPT ![p] = "BG"]
    /\ UNCHANGED waiting

\* The fg command.
Foreground(p) ==
    /\ waiting = NoPid /\ job[p] \in {"BG", "ST"}
    /\ job' = [job EXCEPT ![p] = "FG"]
    /\ waiting' = p

\* The shell stops waiting only when the job it waits for has left FG.
Prompt ==
    /\ waiting # NoPid /\ job[waiting] # "FG"
    /\ waiting' = NoPid
    /\ UNCHANGED job

JCNext ==
    \/ Prompt
    \/ \E p \in Pid : \/ StartForeground(p) \/ StartBackground(p) \/ Refuse(p)
                      \/ Stop(p) \/ Finish(p) \/ Background(p) \/ Foreground(p)

JCSpec == JCInit /\ [][JCNext]_jcVars

\* At most one job is in the foreground, and it is the one the shell waits for.
OneForeground == \A p \in Pid : job[p] = "FG" => waiting = p

=============================================================================
