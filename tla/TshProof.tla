------------------------------ MODULE TshProof ------------------------------
(***************************************************************************)
(* Proofs about the tiny shell, for any set of pids, any MAXJOBS and any   *)
(* stacking bound: first the discipline of its masks, handlers and job     *)
(* list, then why it exits, that it forgets no child, and that its job     *)
(* list is the truth about the processes, and at last that all this        *)
(* implements JobControl: initial states map to initial states, and every  *)
(* step of the shell to a step of JobControl or to none.                   *)
(***************************************************************************)
EXTENDS Tsh, TshRefinement, WellFoundedInduction, SequenceTheorems, FiniteSetTheorems, TLAPS

USE JobListAssumption, TshAssumption

-----------------------------------------------------------------------------
(* Lemmas about the job list.                                              *)

\* Every nonempty set of naturals has a least element.
LEMMA LeastNatural ==
    ASSUME NEW S, S \subseteq Nat, S # {}
    PROVE  \E n \in S : \A m \in S : n <= m
<1>1. PICK R : IsWellFoundedOn(R, Nat) /\ \A x, y \in Nat : x < y => <<x, y>> \in R
  BY NatLessThanWellFounded DEF OpToRel
<1>2. IsWellFoundedOn(R, Nat)
  BY <1>1
<1>3. PICK x \in S : \A y \in S : ~(<<y, x>> \in R)
  BY <1>2, WFMin
<1>4. ASSUME NEW y \in S PROVE x <= y
  <2>1. x \in Nat /\ y \in Nat
    OBVIOUS
  <2>2. ~(y < x)
    BY <1>1, <1>3, <2>1
  <2> QED
    BY <2>1, <2>2
<1> QED
  BY <1>4

\* An upward scan of the list returns 0 or the first index it looks for.
LEMMA FirstOfProperties ==
    ASSUME NEW S \in SUBSET Jid
    PROVE  /\ FirstOf(S) \in 0 .. MAXJOBS
           /\ S = {} => FirstOf(S) = 0
           /\ S # {} => FirstOf(S) \in S /\ \A i \in S : FirstOf(S) <= i
<1>1. CASE S = {}
  BY <1>1 DEF FirstOf
<1>2. CASE S # {}
  <2>1. S \subseteq Nat
    BY DEF Jid
  <2>2. PICK n \in S : \A m \in S : n <= m
    BY <1>2, <2>1, LeastNatural
  <2>3. FirstOf(S) = CHOOSE j \in S : \A i \in S : j <= i
    BY <1>2 DEF FirstOf
  <2>4. FirstOf(S) \in S /\ \A i \in S : FirstOf(S) <= i
    BY <2>2, <2>3
  <2>5. FirstOf(S) \in Jid
    BY <2>4
  <2>6. FirstOf(S) \in 0 .. MAXJOBS
    BY <2>5 DEF Jid
  <2> QED
    BY <1>2, <2>4, <2>6
<1> QED
  BY <1>1, <1>2

\* fg_job returns 0 exactly when no job is in the foreground, and otherwise a
\* job that is.
LEMMA FgJobProperties ==
    ASSUME NEW list
    PROVE  /\ FgJob(list) \in 0 .. MAXJOBS
           /\ FgJob(list) = 0 <=> \A j \in Jid : list[j].state # "FG"
           /\ FgJob(list) # 0 => FgJob(list) \in Jid /\ list[FgJob(list)].state = "FG"
<1> DEFINE S == {j \in Jid : list[j].state = "FG"}
<1>1. FgJob(list) = FirstOf(S)
  BY DEF FgJob
<1>2. S \in SUBSET Jid
  OBVIOUS
<1>3. /\ FirstOf(S) \in 0 .. MAXJOBS
      /\ S = {} => FirstOf(S) = 0
      /\ S # {} => FirstOf(S) \in S
  BY <1>2, FirstOfProperties
<1>4. 0 \notin Jid
  BY DEF Jid
<1> QED
  BY <1>1, <1>3, <1>4

\* job_from_pid returns 0 exactly when the pid is on no job, and otherwise a
\* job whose process it is.
LEMMA JobFromPidProperties ==
    ASSUME NEW list, NEW pid
    PROVE  /\ JobFromPid(list, pid) \in 0 .. MAXJOBS
           /\ JobFromPid(list, pid) = 0 <=>
                \A j \in Jid : ~(list[j].state # "UNDEF" /\ list[j].pid = pid)
           /\ JobFromPid(list, pid) # 0 =>
                /\ JobFromPid(list, pid) \in Jid
                /\ list[JobFromPid(list, pid)].state # "UNDEF"
                /\ list[JobFromPid(list, pid)].pid = pid
<1> DEFINE S == {j \in Jid : list[j].state # "UNDEF" /\ list[j].pid = pid}
<1>1. JobFromPid(list, pid) = FirstOf(S)
  BY DEF JobFromPid
<1>2. S \in SUBSET Jid
  OBVIOUS
<1>3. /\ FirstOf(S) \in 0 .. MAXJOBS
      /\ S = {} => FirstOf(S) = 0
      /\ S # {} => FirstOf(S) \in S
  BY <1>2, FirstOfProperties
<1>4. 0 \notin Jid
  BY DEF Jid
<1> QED
  BY <1>1, <1>3, <1>4

-----------------------------------------------------------------------------
(* The inductive invariant.                                                *)

\* The main loop's mask where no handler is active.
MainMask == IF pc \in {"prompt", "suspend"} THEN {} ELSE Sig

\* A handler at one of these places is using the job list or is about to.
UsesList == {"update", "check", "kill"}

MaskInv ==
    /\ prev_one = {}
    /\ frames = <<>> => mask = MainMask
    /\ frames # <<>> => pc \in {"prompt", "wait"} /\ frames[1].saved = MainMask

\* Which places a handler can be at, and when it holds a child's report.
FrameOK(f) ==
    /\ f.sig = "CHLD" =>
          /\ f.at \in {"enter", "block", "update", "restore", "return"}
          /\ f.at \in {"block", "update"} <=> f.pid # NoPid
          /\ f.at \in {"block", "update"} => f.status \in {"ended", "stopped"}
    /\ f.sig # "CHLD" => f.at \in {"enter", "check", "kill", "restore", "return"}

\* A handler that has not yet blocked the other signals still blocks its own,
\* also while another handler interrupts it; one that uses the job list is the
\* innermost and has everything blocked.
FramesInv ==
    \A i \in 1 .. Len(frames) :
        /\ FrameOK(frames[i])
        /\ frames[i].at \in {"enter", "block"} =>
              frames[i].sig \in (IF i = Len(frames) THEN mask ELSE frames[i + 1].saved)
        /\ frames[i].at \in UsesList => i = Len(frames) /\ mask = Sig

\* Between getpgid and killpg the job's process group does not disappear.
KillInv ==
    frames # <<>> /\ Top.at = "kill" => Top.pid \in Pid /\ HasGroup(Top.pid)

ForegroundInv ==
    \A j \in Jid : jobs[j].state = "FG" => pc \in {"wait", "suspend"} /\ j = tmp

ListInv ==
    \A j \in Jid : Listed(j) =>
        /\ jobs[j].pid \in Pid
        /\ proc[jobs[j].pid].ph # "unused"
        /\ proc[jobs[j].pid].ph = "reaped" => InHand(jobs[j].pid)
        /\ j < nextjid
        /\ \A i \in Jid : Listed(i) /\ jobs[i].pid = jobs[j].pid => i = j

\* The child add_job is about to be called for exists and is not yet listed.
ForkedInv ==
    pc = "forked" =>
        /\ cur \in Pid
        /\ proc[cur].ph \notin {"unused", "reaped"}
        /\ \A j \in Jid : Listed(j) => jobs[j].pid # cur

ShellInv == TypeOK /\ MaskInv /\ FramesInv /\ KillInv /\ ForegroundInv /\ ListInv
              /\ ForkedInv /\ NoLostChild /\ ExitsAreExplained

-----------------------------------------------------------------------------
(* How the three operations on the handler stack change it.                *)

LEMMA TopProperties ==
    ASSUME frames \in Seq(Frame), frames # <<>>
    PROVE  /\ Len(frames) \in Nat \ {0}
           /\ Len(frames) \in 1 .. Len(frames)
           /\ Top \in Frame
<1>1. Len(frames) \in Nat
  BY LenProperties
<1>2. Len(frames) # 0
  BY EmptySeq
<1>3. Len(frames) \in 1 .. Len(frames)
  BY <1>1, <1>2
<1>4. frames[Len(frames)] \in Frame
  BY <1>3, ElementOfSeq
<1> QED
  BY <1>1, <1>2, <1>3, <1>4 DEF Top

LEMMA ReplaceProperties ==
    ASSUME frames \in Seq(Frame), frames # <<>>, NEW f \in Frame, Replace(f)
    PROVE  /\ frames' \in Seq(Frame)
           /\ frames' # <<>>
           /\ Len(frames') = Len(frames)
           /\ \A i \in 1 .. Len(frames) :
                 frames'[i] = IF i = Len(frames) THEN f ELSE frames[i]
<1>1. Len(frames) \in 1 .. Len(frames) /\ Len(frames) \in Nat \ {0}
  BY TopProperties
<1>2. frames' = [frames EXCEPT ![Len(frames)] = f]
  BY DEF Replace
<1>3. /\ frames' \in Seq(Frame)
      /\ Len(frames') = Len(frames)
      /\ \A i \in 1 .. Len(frames) :
            frames'[i] = IF i = Len(frames) THEN f ELSE frames[i]
  BY <1>1, <1>2, ExceptSeq
<1> QED
  BY <1>1, <1>3, EmptySeq

LEMMA PushProperties ==
    ASSUME frames \in Seq(Frame), NEW f \in Frame, frames' = Append(frames, f)
    PROVE  /\ frames' \in Seq(Frame)
           /\ frames' # <<>>
           /\ Len(frames) \in Nat
           /\ Len(frames') = Len(frames) + 1
           /\ \A i \in 1 .. Len(frames') :
                 frames'[i] = IF i = Len(frames) + 1 THEN f ELSE frames[i]
<1>1. /\ frames' \in Seq(Frame)
      /\ frames' # <<>>
      /\ Len(frames') = Len(frames) + 1
      /\ \A i \in 1 .. Len(frames) : frames'[i] = frames[i]
      /\ frames'[Len(frames) + 1] = f
  BY AppendProperties
<1>2. Len(frames) \in Nat
  BY LenProperties
<1>3. \A i \in 1 .. Len(frames') : i = Len(frames) + 1 \/ i \in 1 .. Len(frames)
  BY <1>1, <1>2
<1> QED
  BY <1>1, <1>2, <1>3

LEMMA PopProperties ==
    ASSUME frames \in Seq(Frame), frames # <<>>,
           frames' = SubSeq(frames, 1, Len(frames) - 1)
    PROVE  /\ frames' \in Seq(Frame)
           /\ Len(frames) \in Nat \ {0}
           /\ Len(frames') = Len(frames) - 1
           /\ \A i \in 1 .. Len(frames') : frames'[i] = frames[i]
           /\ frames' = <<>> <=> Len(frames) = 1
<1> DEFINE n == Len(frames) - 1
<1>1. Len(frames) \in Nat \ {0}
  BY TopProperties
<1>2. n \in Int /\ n \in Nat /\ n - 1 + 1 = n /\ 1 \in Int
  BY <1>1
<1>3. \A i \in 1 .. n : frames[i] \in Frame
  <2> SUFFICES ASSUME NEW i \in 1 .. n PROVE frames[i] \in Frame
    OBVIOUS
  <2>1. i \in 1 .. Len(frames)
    BY <1>1
  <2> QED
    BY <2>1, ElementOfSeq
<1> HIDE DEF n
<1>4. /\ SubSeq(frames, 1, n) \in Seq(Frame)
      /\ Len(SubSeq(frames, 1, n)) = IF 1 <= n THEN n - 1 + 1 ELSE 0
      /\ \A i \in 1 .. n - 1 + 1 : SubSeq(frames, 1, n)[i] = frames[1 + i - 1]
  BY <1>2, <1>3, SubSeqProperties
<1>5. frames' = SubSeq(frames, 1, n)
  BY DEF n
<1>6. frames' \in Seq(Frame) /\ Len(frames') = n
  BY <1>2, <1>4, <1>5
<1>7. \A i \in 1 .. n : frames'[i] = frames[i]
  <2> SUFFICES ASSUME NEW i \in 1 .. n PROVE frames'[i] = frames[i]
    OBVIOUS
  <2>1. 1 + i - 1 = i
    BY <1>2
  <2> QED
    BY <1>2, <1>4, <1>5, <2>1
<1>8. frames' = <<>> <=> n = 0
  BY <1>2, <1>6, EmptySeq
<1> QED
  BY <1>1, <1>6, <1>7, <1>8 DEF n

-----------------------------------------------------------------------------
(* Type correctness.                                                       *)

\* Changing one field of a handler's activation gives an activation.
LEMMA FrameUpdate ==
    ASSUME NEW f \in Frame
    PROVE  /\ \A a \in {"enter", "block", "update", "check", "kill", "restore", "return"} :
                 [f EXCEPT !.at = a] \in Frame
           /\ \A a \in {"enter", "block", "update", "check", "kill", "restore", "return"},
                 p \in Pid \cup {NoPid} : [f EXCEPT !.at = a, !.pid = p] \in Frame
           /\ \A p \in Pid \cup {NoPid}, st \in {"none", "ended", "stopped"},
                 a \in {"enter", "block", "restore"} :
                 [f EXCEPT !.at = a, !.pid = p, !.status = st] \in Frame
           /\ \A m \in SUBSET SUBSET Sig,
                 a \in {"enter", "block", "update", "check", "kill", "restore", "return"} :
                 [f EXCEPT !.at = a, !.prev = m] \in Frame
BY DEF Frame

LEMMA InitTypeOK == Init => TypeOK
<1> SUFFICES ASSUME Init PROVE TypeOK
  OBVIOUS
<1>1. frames \in Seq(Frame)
  BY EmptySeq DEF Init
<1>2. cmd \in Cmd
  BY DEF Init, NoCmd, Cmd
<1>3. jobs \in JobListType
  BY DEF Init, EmptyJobList, JobListType, Cleared, JobState
<1>4. proc \in [Pid -> [ph : Phase, news : BOOLEAN]]
  BY DEF Init, NewProc, Phase
<1> QED
  BY <1>1, <1>2, <1>3, <1>4 DEF Init, TypeOK, Sig

\* The steps of the main loop keep the types.
LEMMA MainTypeOK ==
    ASSUME TypeOK,
           (\E c \in Cmd : ReadCommand(c)) \/ ReadEOF \/ Eval
    PROVE  TypeOK'
<1> USE DEF TypeOK, Main, shellVars, listVars
<1>0. NoCmd \in Cmd
  BY DEF NoCmd, Cmd
<1>1. ASSUME NEW c \in Cmd, ReadCommand(c) PROVE TypeOK'
  BY <1>1 DEF ReadCommand, EvalMask
<1>2. CASE ReadEOF
  BY <1>2 DEF ReadEOF
<1>3. CASE EvalNop
  BY <1>0, <1>3 DEF EvalNop, ReturnWith
<1>4. CASE EvalQuit \/ EvalOutfileFails
  BY <1>4 DEF EvalQuit, EvalOutfileFails
<1>5. CASE EvalNoSuchJob
  BY <1>0, <1>5 DEF EvalNoSuchJob, ReturnWith, ErrorMask
<1>6. CASE EvalJobAbort
  BY <1>6 DEF EvalJobAbort
<1>7. CASE EvalKillpgFails
  BY <1>7 DEF EvalKillpgFails
<1>8. CASE EvalResume
  <2>1. TargetJid \in Jid
    BY <1>8 DEF EvalResume, JobExists
  <2>2. jobs' \in JobListType
    BY <1>8, <2>1 DEF EvalResume, SetState, JobListType, JobState, TargetState
  <2>3. proc' \in [Pid -> [ph : Phase, news : BOOLEAN]]
    BY <1>8 DEF EvalResume, Continued, Phase
  <2>4. pending' \in SUBSET Sig
    BY <1>8 DEF EvalResume, Sig
  <2>5. TargetPid \in Pid \cup {NoPid}
    BY <2>1 DEF TargetPid, TargetJid, ByPid, Cmd, JobListType
  <2>6. TargetJid \in 0 .. MAXJOBS
    BY <2>1 DEF Jid
  <2> QED
    BY <1>0, <1>8, <2>2, <2>3, <2>4, <2>5, <2>6 DEF EvalResume, ReturnWith, WaitFor
<1>9. CASE ForkFails
  BY <1>9 DEF ForkFails
<1>10. CASE AddJob
  <2>1. exited' \in {"no", "memory", "abort_fg", "abort_slot"}
    BY <1>10 DEF AddJob, AddJobAbort
  <2>2. jobs' \in JobListType /\ nextjid' \in 1 .. MAXJOBS + 1
    BY SMTT(30), <1>10 DEF AddJob, JobListType, JobState, StartState, Jid
  <2>3. JobFromPid(jobs', cur) \in 0 .. MAXJOBS
    BY JobFromPidProperties
  <2> QED
    BY <1>0, <1>10, <2>1, <2>2, <2>3 DEF AddJob, ReturnWith, WaitFor
<1>11. CASE Suspend
  BY <1>11 DEF Suspend, SuspendMask
<1>12. CASE WaitDone
  BY <1>0, <1>12 DEF WaitDone, ReturnWith
<1>13. ASSUME NEW p \in Pid, Fork(p) PROVE TypeOK'
  <2>1. proc' \in [Pid -> [ph : Phase, news : BOOLEAN]]
    BY <1>13 DEF Fork, Phase
  <2> QED
    BY <1>13, <2>1 DEF Fork
<1> QED
  BY <1>1, <1>2, <1>3, <1>4, <1>5, <1>6, <1>7, <1>8, <1>9, <1>10, <1>11, <1>12, <1>13 DEF Eval

LEMMA DeliverTypeOK ==
    ASSUME TypeOK, NEW s \in Sig, Deliver(s)
    PROVE  TypeOK'
<1> USE DEF TypeOK, listVars
<1> DEFINE f == [sig |-> s, at |-> "enter", pid |-> NoPid, status |-> "none",
                 prev |-> SUBSET Sig, saved |-> IF pc = "suspend" THEN Sig ELSE mask]
<1>1. f \in Frame
  BY DEF Frame
<1>2. frames' = Append(frames, f)
  BY DEF Deliver
<1>3. frames' \in Seq(Frame)
  BY <1>1, <1>2, PushProperties
<1> QED
  BY <1>3 DEF Deliver

\* The steps of the handlers keep the types.
LEMMA HandlerTypeOK ==
    ASSUME TypeOK, Handler
    PROVE  TypeOK'
<1> USE DEF TypeOK, InHandler, shellVars, listVars
<1>0. frames # <<>> => Top \in Frame
  BY TopProperties
<1>1. CASE ChldNoMore
  BY <1>0, <1>1, FrameUpdate, ReplaceProperties DEF ChldNoMore
<1>2. CASE ChldBlock
  <2>1. [Top EXCEPT !.at = "update", !.prev = {mask}] \in Frame
    BY <1>0, <1>2, FrameUpdate DEF ChldBlock
  <2> QED
    BY <1>2, <2>1, ReplaceProperties DEF ChldBlock, ChldMask, Sig
<1>3. CASE ChldDelete
  <2>1. [Top EXCEPT !.at = AfterChild, !.pid = NoPid, !.status = "none"] \in Frame
    BY <1>0, <1>3, FrameUpdate DEF ChldDelete, AfterChild
  <2>2. frames' \in Seq(Frame)
    BY <1>3, <2>1, ReplaceProperties DEF ChldDelete
  <2>3. jobs' \in JobListType
    <3> DEFINE jid == JobFromPid(jobs, Top.pid)
    <3>1. jobs' = [jobs EXCEPT ![jid] = Cleared] \/ jobs' = jobs
      BY <1>3 DEF ChldDelete
    <3> HIDE DEF jid
    <3> QED
      BY <3>1 DEF JobListType, Cleared, JobState
  <2>4. nextjid' \in 1 .. MAXJOBS + 1
    BY <1>3 DEF ChldDelete, NextAfter
  <2> QED
    BY <1>3, <2>2, <2>3, <2>4 DEF ChldDelete
<1>4. CASE ChldStop
  <2>1. [Top EXCEPT !.at = AfterChild, !.pid = NoPid, !.status = "none"] \in Frame
    BY <1>0, <1>4, FrameUpdate DEF ChldStop, AfterChild
  <2>2. frames' \in Seq(Frame)
    BY <1>4, <2>1, ReplaceProperties DEF ChldStop
  <2>3. jobs' \in JobListType
    BY <1>4 DEF ChldStop, SetState, JobListType, JobState
  <2> QED
    BY <1>4, <2>2, <2>3 DEF ChldStop
<1>5. CASE FwdBlock
  <2>1. [Top EXCEPT !.at = "check", !.prev = {mask}] \in Frame
    BY <1>0, <1>5, FrameUpdate DEF FwdBlock
  <2> QED
    BY <1>5, <2>1, ReplaceProperties DEF FwdBlock
<1>6. CASE FwdCheck
  <2>1. FgPid \in Pid \cup {NoPid}
    BY <1>6, FgJobProperties DEF FwdCheck, FgPid, JobListType
  <2>2. [Top EXCEPT !.at = "kill", !.pid = FgPid] \in Frame
    BY <1>0, <1>6, <2>1, FrameUpdate DEF FwdCheck
  <2> QED
    BY <1>6, <2>2, ReplaceProperties DEF FwdCheck
<1>7. CASE FwdSkip
  BY <1>0, <1>7, FrameUpdate, ReplaceProperties DEF FwdSkip
<1>8. CASE FwdKill
  <2>1. [Top EXCEPT !.at = "restore", !.pid = NoPid] \in Frame
    BY <1>0, <1>8, FrameUpdate DEF FwdKill
  <2>2. frames' \in Seq(Frame)
    BY <1>8, <2>1, ReplaceProperties DEF FwdKill
  <2> QED
    BY <1>8, <2>2 DEF FwdKill
<1>9. CASE HandlerRestore
  <2>1. [Top EXCEPT !.at = "return", !.prev = {}] \in Frame
    BY <1>0, <1>9, FrameUpdate DEF HandlerRestore
  <2>2. mask' \in SUBSET Sig
    BY <1>0, <1>9 DEF HandlerRestore, Frame
  <2> QED
    BY <1>9, <2>1, <2>2, ReplaceProperties DEF HandlerRestore
<1>10. CASE HandlerReturn
  <2>1. mask' \in SUBSET Sig
    BY <1>0, <1>10 DEF HandlerReturn, Frame
  <2>2. frames' \in Seq(Frame)
    BY <1>10, PopProperties DEF HandlerReturn
  <2> QED
    BY <1>10, <2>1, <2>2 DEF HandlerReturn
<1>11. ASSUME NEW p \in Pid, ChldReap(p) PROVE TypeOK'
  <2>1. /\ [Top EXCEPT !.at = "block", !.pid = p, !.status = "ended"] \in Frame
        /\ [Top EXCEPT !.at = "block", !.pid = p, !.status = "stopped"] \in Frame
    BY <1>0, <1>11, FrameUpdate DEF ChldReap
  <2>2. frames' \in Seq(Frame)
    BY <1>11, <2>1, ReplaceProperties DEF ChldReap
  <2>3. proc' \in [Pid -> [ph : Phase, news : BOOLEAN]]
    <3>1. CASE proc[p].ph = "zombie"
      <4>1. proc' = [proc EXCEPT ![p].ph = "reaped"]
        BY <1>11, <3>1 DEF ChldReap
      <4> QED
        BY <4>1 DEF Phase
    <3>2. CASE proc[p].ph # "zombie"
      <4>1. proc' = [proc EXCEPT ![p].news = FALSE]
        BY <1>11, <3>2 DEF ChldReap
      <4> QED
        BY <4>1
    <3> QED
      BY <3>1, <3>2
  <2> QED
    BY <1>11, <2>2, <2>3 DEF ChldReap
<1> QED
  BY <1>1, <1>2, <1>3, <1>4, <1>5, <1>6, <1>7, <1>8, <1>9, <1>10, <1>11 DEF Handler

\* The children's and the user's steps keep the types.
LEMMA ChildTypeOK ==
    ASSUME TypeOK,
           (\E p \in Pid : Child(p)) \/ (\E s \in {"INT", "TSTP"} : UserSignal(s)) \/ SigQuit
    PROVE  TypeOK'
<1> USE DEF TypeOK, childFrame, shellVars, listVars, Phase
<1>1. ASSUME NEW p \in Pid, SetPgid(p) PROVE TypeOK'
  BY <1>1 DEF SetPgid
<1>2. ASSUME NEW p \in Pid, Exec(p) PROVE TypeOK'
  BY <1>2 DEF Exec
<1>3. ASSUME NEW p \in Pid, InfileFails(p) PROVE TypeOK'
  BY <1>3 DEF InfileFails
<1>4. ASSUME NEW p \in Pid, ChildEnds(p) PROVE TypeOK'
  BY <1>4 DEF ChildEnds, Sig
<1>5. ASSUME NEW p \in Pid, ChildStops(p) PROVE TypeOK'
  BY <1>5 DEF ChildStops, Sig
<1>8. ASSUME NEW p \in Pid, ChildContinues(p) PROVE TypeOK'
  BY <1>8 DEF ChildContinues, Sig
<1>6. ASSUME NEW s \in {"INT", "TSTP"}, UserSignal(s) PROVE TypeOK'
  BY <1>6 DEF UserSignal, Sig
<1>7. CASE SigQuit
  BY <1>7 DEF SigQuit
<1> QED
  BY <1>1, <1>2, <1>3, <1>4, <1>5, <1>6, <1>7, <1>8 DEF Child

\* Every variable of the shell keeps its type.
THEOREM TypeCorrect == Spec => []TypeOK
<1>1. TypeOK /\ [Next]_vars => TypeOK'
  <2> SUFFICES ASSUME TypeOK, [Next]_vars PROVE TypeOK'
    OBVIOUS
  <2>1. CASE UNCHANGED vars
    BY <2>1 DEF vars, TypeOK
  <2>2. CASE Next
    BY <2>2, MainTypeOK, DeliverTypeOK, HandlerTypeOK, ChildTypeOK DEF Next
  <2> QED
    BY <2>1, <2>2
<1> QED
  BY <1>1, InitTypeOK, PTL DEF Spec

-----------------------------------------------------------------------------
(* Which signals are blocked when.                                         *)

\* A handler step that rewrites its own activation keeps the discipline if its
\* new place agrees with the new mask.
LEMMA ReplaceDiscipline ==
    ASSUME TypeOK, MaskInv, FramesInv, frames # <<>>,
           NEW f \in Frame, Replace(f), UNCHANGED <<pc, prev_one>>,
           f.sig = Top.sig, f.saved = Top.saved, FrameOK(f),
           f.at \in {"enter", "block"} => f.sig \in mask',
           f.at \in UsesList => mask' = Sig
    PROVE  MaskInv' /\ FramesInv'
<1> USE DEF TypeOK
<1>1. /\ frames' # <<>>
      /\ Len(frames') = Len(frames)
      /\ \A i \in 1 .. Len(frames) : frames'[i] = IF i = Len(frames) THEN f ELSE frames[i]
  BY ReplaceProperties
<1>2. Len(frames) \in Nat \ {0}
  BY TopProperties
<1>3. MaskInv'
  <2>1. frames'[1].saved = frames[1].saved
    BY <1>1, <1>2 DEF Top
  <2> QED
    BY <1>1, <2>1 DEF MaskInv, MainMask
<1>4. FramesInv'
  <2> SUFFICES ASSUME NEW i \in 1 .. Len(frames)
               PROVE  /\ FrameOK(frames'[i])
                      /\ frames'[i].at \in {"enter", "block"} =>
                            frames'[i].sig \in (IF i = Len(frames) THEN mask' ELSE frames'[i + 1].saved)
                      /\ frames'[i].at \in UsesList => i = Len(frames) /\ mask' = Sig
    BY <1>1 DEF FramesInv
  <2>1. CASE i = Len(frames)
    BY <1>1, <2>1
  <2>2. CASE i # Len(frames)
    <3>1. frames'[i] = frames[i] /\ i + 1 \in 1 .. Len(frames)
      BY <1>1, <1>2, <2>2
    <3>2. frames'[i + 1].saved = frames[i + 1].saved
      BY <1>1, <1>2, <3>1 DEF Top
    <3> QED
      BY <2>2, <3>1, <3>2 DEF FramesInv
  <2> QED
    BY <2>1, <2>2
<1> QED
  BY <1>3, <1>4

\* The main loop runs with the mask the code intends, and no handler is active
\* before or after its step.
LEMMA MainDiscipline ==
    ASSUME TypeOK, MaskInv, FramesInv,
           (\E c \in Cmd : ReadCommand(c)) \/ ReadEOF \/ Eval
    PROVE  MaskInv' /\ FramesInv'
<1> USE DEF Main, MaskInv, MainMask, shellVars, ReturnWith, WaitFor
<1>1. frames = <<>> /\ frames' = <<>>
  BY DEF ReadCommand, ReadEOF, Eval, EvalNop, EvalOutfileFails, EvalQuit, EvalNoSuchJob, EvalJobAbort,
         EvalKillpgFails, EvalResume, Fork, ForkFails, AddJob, Suspend, WaitDone
<1>2. FramesInv'
  BY <1>1, EmptySeq DEF FramesInv
<1>3. MaskInv'
  <2>1. ASSUME NEW c \in Cmd, ReadCommand(c) PROVE MaskInv'
    BY <1>1, <2>1 DEF ReadCommand, EvalMask
  <2>2. CASE ReadEOF
    BY <1>1, <2>2 DEF ReadEOF
  <2>3. CASE EvalNop
    BY <1>1, <2>3 DEF EvalNop
  <2>4. CASE EvalQuit \/ EvalOutfileFails \/ EvalJobAbort \/ EvalKillpgFails \/ ForkFails
    BY <1>1, <2>4 DEF EvalQuit, EvalOutfileFails, EvalJobAbort, EvalKillpgFails, ForkFails
  <2>5. CASE EvalNoSuchJob
    BY <1>1, <2>5 DEF EvalNoSuchJob, ErrorMask
  <2>6. CASE EvalResume
    BY <1>1, <2>6 DEF EvalResume
  <2>7. CASE AddJob
    BY <1>1, <2>7 DEF AddJob
  <2>8. CASE Suspend
    BY <1>1, <2>8 DEF Suspend, SuspendMask
  <2>9. CASE WaitDone
    BY <1>1, <2>9 DEF WaitDone
  <2>10. ASSUME NEW p \in Pid, Fork(p) PROVE MaskInv'
    BY <1>1, <2>10 DEF Fork
  <2> QED
    BY <2>1, <2>2, <2>3, <2>4, <2>5, <2>6, <2>7, <2>8, <2>9, <2>10 DEF Eval
<1> QED
  BY <1>2, <1>3

\* Delivery: only a handler that does not use the job list can be interrupted.
LEMMA DeliverDiscipline ==
    ASSUME TypeOK, MaskInv, FramesInv, NEW s \in Sig, Deliver(s)
    PROVE  MaskInv' /\ FramesInv'
<1> USE DEF TypeOK
<1> DEFINE f == [sig |-> s, at |-> "enter", pid |-> NoPid, status |-> "none",
                 prev |-> SUBSET Sig, saved |-> IF pc = "suspend" THEN Sig ELSE mask]
<1>1. f \in Frame
  BY DEF Frame
<1>2. frames' = Append(frames, f)
  BY DEF Deliver
<1>3. /\ frames' # <<>>
      /\ Len(frames) \in Nat
      /\ Len(frames') = Len(frames) + 1
      /\ \A i \in 1 .. Len(frames') : frames'[i] = IF i = Len(frames) + 1 THEN f ELSE frames[i]
  BY <1>1, <1>2, PushProperties
<1>4. /\ f.sig = s /\ f.at = "enter" /\ f.pid = NoPid
      /\ f.saved = IF pc = "suspend" THEN Sig ELSE mask
  OBVIOUS
<1> HIDE DEF f
<1>5. s \in mask' /\ mask # Sig /\ UNCHANGED prev_one
  BY DEF Deliver
<1>6. frames = <<>> => Len(frames) = 0
  BY EmptySeq
<1>7. Len(frames) = 0 => frames = <<>>
  BY EmptySeq
<1>8. pc = "suspend" => frames = <<>>
  BY DEF MaskInv
<1>9. MaskInv'
  <2>1. CASE frames = <<>>
    <3>1. frames'[1] = f
      BY <1>3, <1>6, <2>1
    <3>2. pc \in {"prompt", "suspend"} /\ mask = {}
      BY <1>5, <2>1 DEF MaskInv, MainMask
    <3> QED
      BY <1>3, <1>4, <1>5, <3>1, <3>2 DEF Deliver, MaskInv, MainMask
  <2>2. CASE frames # <<>>
    <3>1. frames'[1] = frames[1]
      BY <1>3, <1>7, <2>2
    <3> QED
      BY <1>3, <1>5, <1>8, <2>2, <3>1 DEF Deliver, MaskInv, MainMask
  <2> QED
    BY <2>1, <2>2
<1>10. FramesInv'
  <2> SUFFICES ASSUME NEW i \in 1 .. Len(frames')
               PROVE  /\ FrameOK(frames'[i])
                      /\ frames'[i].at \in {"enter", "block"} =>
                            frames'[i].sig \in (IF i = Len(frames') THEN mask' ELSE frames'[i + 1].saved)
                      /\ frames'[i].at \in UsesList => i = Len(frames') /\ mask' = Sig
    BY DEF FramesInv
  <2>1. CASE i = Len(frames')
    <3>1. frames'[i] = f
      BY <1>3, <2>1
    <3> QED
      BY <1>4, <1>5, <2>1, <3>1 DEF FrameOK, UsesList
  <2>2. CASE i # Len(frames')
    <3>1. i \in 1 .. Len(frames) /\ frames'[i] = frames[i] /\ i + 1 \in 1 .. Len(frames')
      BY <1>3, <2>2
    <3>2. frames[i].at \notin UsesList
      BY <1>5, <3>1 DEF FramesInv
    <3>3. CASE i = Len(frames)
      <4>1. frames'[i + 1] = f
        BY <1>3, <3>1, <3>3
      <4>2. f.saved = mask
        BY <1>4, <1>6, <1>8, <3>1, <3>3
      <4> QED
        BY <2>2, <3>1, <3>2, <3>3, <4>1, <4>2 DEF FramesInv
    <3>4. CASE i # Len(frames)
      <4>1. frames'[i + 1] = frames[i + 1]
        BY <1>3, <3>1, <3>4
      <4> QED
        BY <2>2, <3>1, <3>2, <3>4, <4>1 DEF FramesInv
    <3> QED
      BY <3>3, <3>4
  <2> QED
    BY <2>1, <2>2
<1> QED
  BY <1>9, <1>10

\* The handlers keep the discipline.
LEMMA HandlerDiscipline ==
    ASSUME TypeOK, MaskInv, FramesInv, Handler
    PROVE  MaskInv' /\ FramesInv'
<1> USE DEF InHandler, shellVars, UsesList
<1>0. /\ frames # <<>>
      /\ Len(frames) \in 1 .. Len(frames) /\ Len(frames) \in Nat \ {0}
      /\ Top \in Frame
  BY TopProperties
     DEF TypeOK, Handler, ChldNoMore, ChldBlock, ChldDelete, ChldStop, FwdBlock, FwdCheck,
         FwdSkip, FwdKill, HandlerRestore, HandlerReturn, ChldReap
<1>a. /\ FrameOK(Top)
      /\ Top.at \in {"enter", "block"} => Top.sig \in mask
      /\ Top.at \in UsesList => mask = Sig
  BY <1>0 DEF FramesInv, Top
<1>b. Top.sig \in Sig
  BY <1>0 DEF Frame
<1>1. CASE ChldNoMore
  <2> DEFINE f == [Top EXCEPT !.at = "restore"]
  <2>1. f \in Frame /\ f.sig = Top.sig /\ f.saved = Top.saved /\ f.at = "restore" /\ f.pid = Top.pid
    BY <1>0 DEF Frame
  <2>2. FrameOK(f)
    BY <1>1, <1>a, <2>1 DEF ChldNoMore, FrameOK
  <2>3. Replace(f) /\ UNCHANGED <<pc, prev_one>>
    BY <1>1 DEF ChldNoMore
  <2> HIDE DEF f
  <2> QED
    BY <1>0, <2>1, <2>2, <2>3, ReplaceDiscipline
<1>2. CASE ChldBlock
  <2> DEFINE f == [Top EXCEPT !.at = "update", !.prev = {mask}]
  <2>1. /\ f \in Frame /\ f.sig = Top.sig /\ f.saved = Top.saved
        /\ f.at = "update" /\ f.pid = Top.pid /\ f.status = Top.status
    BY <1>0 DEF Frame, TypeOK
  <2>2. FrameOK(f)
    BY <1>2, <1>a, <2>1 DEF ChldBlock, FrameOK
  <2>3. Replace(f) /\ UNCHANGED <<pc, prev_one>>
    BY <1>2 DEF ChldBlock
  <2>4. mask' = Sig
    BY <1>2, <1>a DEF ChldBlock, ChldMask, Sig, TypeOK
  <2> HIDE DEF f
  <2> QED
    BY <1>0, <2>1, <2>2, <2>3, <2>4, ReplaceDiscipline
<1>3. CASE ChldDelete
  <2> DEFINE f == [Top EXCEPT !.at = AfterChild, !.pid = NoPid, !.status = "none"]
  <2>1. /\ f \in Frame /\ f.sig = Top.sig /\ f.saved = Top.saved
        /\ f.at = "enter" /\ f.pid = NoPid
    BY <1>0 DEF Frame, AfterChild
  <2>2. FrameOK(f)
    BY <1>3, <2>1 DEF ChldDelete, FrameOK
  <2>3. Replace(f) /\ UNCHANGED <<pc, prev_one, mask>>
    BY <1>3 DEF ChldDelete
  <2>4. f.sig \in mask'
    BY <1>3, <1>a, <1>b, <2>1, <2>3 DEF ChldDelete
  <2> HIDE DEF f
  <2> QED
    BY <1>0, <2>1, <2>2, <2>3, <2>4, ReplaceDiscipline
<1>4. CASE ChldStop
  <2> DEFINE f == [Top EXCEPT !.at = AfterChild, !.pid = NoPid, !.status = "none"]
  <2>1. /\ f \in Frame /\ f.sig = Top.sig /\ f.saved = Top.saved
        /\ f.at = "enter" /\ f.pid = NoPid
    BY <1>0 DEF Frame, AfterChild
  <2>2. FrameOK(f)
    BY <1>4, <2>1 DEF ChldStop, FrameOK
  <2>3. (Replace(f) \/ UNCHANGED frames) /\ UNCHANGED <<pc, prev_one, mask>>
    BY <1>4 DEF ChldStop
  <2>4. f.sig \in mask'
    BY <1>4, <1>a, <1>b, <2>1, <2>3 DEF ChldStop
  <2> HIDE DEF f
  <2>5. CASE Replace(f)
    BY <1>0, <2>1, <2>2, <2>3, <2>4, <2>5, ReplaceDiscipline
  <2>6. CASE UNCHANGED frames
    BY <2>3, <2>6 DEF MaskInv, MainMask, FramesInv, FrameOK
  <2> QED
    BY <2>3, <2>5, <2>6
<1>5. CASE FwdBlock
  <2> DEFINE f == [Top EXCEPT !.at = "check", !.prev = {mask}]
  <2>1. /\ f \in Frame /\ f.sig = Top.sig /\ f.saved = Top.saved /\ f.at = "check"
    BY <1>0 DEF Frame, TypeOK
  <2>2. FrameOK(f)
    BY <1>5, <2>1 DEF FwdBlock, FrameOK
  <2>3. Replace(f) /\ UNCHANGED <<pc, prev_one>>
    BY <1>5 DEF FwdBlock
  <2>4. mask' = Sig
    BY <1>5, <1>a DEF FwdBlock, TypeOK
  <2> HIDE DEF f
  <2> QED
    BY <1>0, <2>1, <2>2, <2>3, <2>4, ReplaceDiscipline
<1>6. CASE FwdCheck
  <2>0. FgPid \in Pid \cup {NoPid}
    BY <1>6, FgJobProperties DEF FwdCheck, FgPid, JobListType, TypeOK
  <2> DEFINE f == [Top EXCEPT !.at = "kill", !.pid = FgPid]
  <2>1. /\ f \in Frame /\ f.sig = Top.sig /\ f.saved = Top.saved /\ f.at = "kill"
    BY <1>0, <2>0 DEF Frame
  <2>2. FrameOK(f)
    BY <1>6, <1>a, <2>1 DEF FwdCheck, FrameOK
  <2>3. Replace(f) /\ UNCHANGED <<pc, prev_one, mask>>
    BY <1>6 DEF FwdCheck
  <2>4. mask' = Sig
    BY <1>6, <1>a, <2>3 DEF FwdCheck
  <2> HIDE DEF f
  <2> QED
    BY <1>0, <2>1, <2>2, <2>3, <2>4, ReplaceDiscipline
<1>7. CASE FwdSkip
  <2> DEFINE f == [Top EXCEPT !.at = "restore"]
  <2>1. f \in Frame /\ f.sig = Top.sig /\ f.saved = Top.saved /\ f.at = "restore" /\ f.pid = Top.pid
    BY <1>0 DEF Frame
  <2>2. FrameOK(f)
    BY <1>7, <1>a, <2>1 DEF FwdSkip, FrameOK
  <2>3. Replace(f) /\ UNCHANGED <<pc, prev_one>>
    BY <1>7 DEF FwdSkip
  <2> HIDE DEF f
  <2> QED
    BY <1>0, <2>1, <2>2, <2>3, ReplaceDiscipline
<1>8. CASE FwdKill
  <2> DEFINE f == [Top EXCEPT !.at = "restore", !.pid = NoPid]
  <2>1. f \in Frame /\ f.sig = Top.sig /\ f.saved = Top.saved /\ f.at = "restore" /\ f.pid = NoPid
    BY <1>0 DEF Frame
  <2>2. FrameOK(f)
    BY <2>1 DEF FrameOK
  <2>3. (Replace(f) \/ UNCHANGED frames) /\ UNCHANGED <<pc, prev_one, mask>>
    BY <1>8 DEF FwdKill
  <2> HIDE DEF f
  <2>4. CASE Replace(f)
    BY <1>0, <2>1, <2>2, <2>3, <2>4, ReplaceDiscipline
  <2>5. CASE UNCHANGED frames
    BY <2>3, <2>5 DEF MaskInv, MainMask, FramesInv, FrameOK
  <2> QED
    BY <2>3, <2>4, <2>5
<1>9. CASE HandlerRestore
  <2> DEFINE f == [Top EXCEPT !.at = "return", !.prev = {}]
  <2>1. f \in Frame /\ f.sig = Top.sig /\ f.saved = Top.saved /\ f.at = "return" /\ f.pid = Top.pid
    BY <1>0 DEF Frame
  <2>2. FrameOK(f)
    BY <1>9, <1>a, <2>1 DEF HandlerRestore, FrameOK
  <2>3. Replace(f) /\ UNCHANGED <<pc, prev_one>>
    BY <1>9 DEF HandlerRestore
  <2> HIDE DEF f
  <2> QED
    BY <1>0, <2>1, <2>2, <2>3, ReplaceDiscipline
<1>10. CASE HandlerReturn
  <2>1. /\ Len(frames') = Len(frames) - 1
        /\ \A i \in 1 .. Len(frames') : frames'[i] = frames[i]
        /\ frames' = <<>> <=> Len(frames) = 1
    BY <1>0, <1>10, PopProperties DEF HandlerReturn, TypeOK
  <2>2. mask' = frames[Len(frames)].saved /\ UNCHANGED <<pc, prev_one>>
    BY <1>10 DEF HandlerReturn, Top
  <2>3. MaskInv'
    <3>1. CASE Len(frames) = 1
      BY <1>0, <2>1, <2>2, <3>1 DEF MaskInv, MainMask
    <3>2. CASE Len(frames) # 1
      <4>1. frames'[1] = frames[1]
        BY <1>0, <2>1, <3>2
      <4> QED
        BY <1>0, <2>1, <2>2, <3>2, <4>1 DEF MaskInv, MainMask
    <3> QED
      BY <3>1, <3>2
  <2>4. FramesInv'
    <3> SUFFICES ASSUME NEW i \in 1 .. Len(frames')
                 PROVE  /\ FrameOK(frames'[i])
                        /\ frames'[i].at \in {"enter", "block"} =>
                              frames'[i].sig \in (IF i = Len(frames') THEN mask' ELSE frames'[i + 1].saved)
                        /\ frames'[i].at \in UsesList => i = Len(frames') /\ mask' = Sig
      BY DEF FramesInv
    <3>1. i \in 1 .. Len(frames) /\ i # Len(frames) /\ frames'[i] = frames[i]
      BY <1>0, <2>1
    <3>2. /\ FrameOK(frames[i])
          /\ frames[i].at \in {"enter", "block"} => frames[i].sig \in frames[i + 1].saved
          /\ frames[i].at \notin UsesList
      BY <3>1 DEF FramesInv
    <3>3. CASE i = Len(frames')
      <4>1. i + 1 = Len(frames)
        BY <1>0, <2>1, <3>3
      <4> QED
        BY <2>2, <3>1, <3>2, <3>3, <4>1
    <3>4. CASE i # Len(frames')
      <4>1. frames'[i + 1] = frames[i + 1]
        BY <1>0, <2>1, <3>4
      <4> QED
        BY <3>1, <3>2, <3>4, <4>1
    <3> QED
      BY <3>3, <3>4
  <2> QED
    BY <2>3, <2>4
<1>11. ASSUME NEW p \in Pid, ChldReap(p) PROVE MaskInv' /\ FramesInv'
  <2>0. PICK st \in {"ended", "stopped"} :
           Replace([Top EXCEPT !.at = "block", !.pid = p, !.status = st])
    BY <1>11 DEF ChldReap
  <2> DEFINE f == [Top EXCEPT !.at = "block", !.pid = p, !.status = st]
  <2>1. /\ f \in Frame /\ f.sig = Top.sig /\ f.saved = Top.saved
        /\ f.at = "block" /\ f.pid = p /\ f.status = st
    BY <1>0 DEF Frame
  <2>2. FrameOK(f)
    BY <1>11, <2>1 DEF ChldReap, FrameOK
  <2>3. Replace(f) /\ UNCHANGED <<pc, prev_one, mask>>
    BY <1>11, <2>0 DEF ChldReap
  <2>4. f.sig \in mask'
    BY <1>11, <1>a, <2>1, <2>3 DEF ChldReap
  <2> HIDE DEF f
  <2> QED
    BY <1>0, <2>1, <2>2, <2>3, <2>4, ReplaceDiscipline
<1> QED
  BY <1>1, <1>2, <1>3, <1>4, <1>5, <1>6, <1>7, <1>8, <1>9, <1>10, <1>11 DEF Handler

\* The kernel's and the user's steps leave the shell's masks alone.
LEMMA ChildDiscipline ==
    ASSUME TypeOK, MaskInv, FramesInv,
           (\E p \in Pid : Child(p)) \/ (\E s \in {"INT", "TSTP"} : UserSignal(s)) \/ SigQuit
    PROVE  MaskInv' /\ FramesInv'
<1>1. UNCHANGED <<pc, prev_one, mask, frames>>
  BY DEF Child, SetPgid, Exec, InfileFails, ChildEnds, ChildStops, ChildContinues, UserSignal, SigQuit,
         childFrame, shellVars
<1> QED
  BY <1>1 DEF MaskInv, MainMask, FramesInv, FrameOK

LEMMA InitDiscipline == Init => MaskInv /\ FramesInv
BY EmptySeq DEF Init, MaskInv, MainMask, FramesInv

\* The discipline is inductive together with the types.
LEMMA Discipline == Spec => [](TypeOK /\ MaskInv /\ FramesInv)
<1>1. TypeOK /\ MaskInv /\ FramesInv /\ [Next]_vars => MaskInv' /\ FramesInv'
  <2> SUFFICES ASSUME TypeOK, MaskInv, FramesInv, [Next]_vars PROVE MaskInv' /\ FramesInv'
    OBVIOUS
  <2>1. CASE UNCHANGED vars
    BY <2>1 DEF vars, MaskInv, MainMask, FramesInv, FrameOK
  <2>2. CASE Next
    BY <2>2, MainDiscipline, DeliverDiscipline, HandlerDiscipline, ChildDiscipline DEF Next
  <2> QED
    BY <2>1, <2>2
<1> QED
  BY <1>1, InitDiscipline, TypeCorrect, PTL DEF Spec

\* Nobody reads or writes the job list with one of the three signals unblocked:
\* check_blocked never has anything to warn about.
THEOREM ListAccessAlwaysBlocked == Spec => []ListAccessIsBlocked
<1>1. TypeOK /\ MaskInv /\ FramesInv => ListAccessIsBlocked
  <2> SUFFICES ASSUME TypeOK, MaskInv, FramesInv PROVE ListAccessIsBlocked
    OBVIOUS
  <2>1. frames = <<>> /\ pc \in {"eval", "forked", "wait"} => mask = Sig
    BY DEF MaskInv, MainMask
  <2>2. frames # <<>> /\ Top.at \in {"update", "check", "kill"} => mask = Sig
    BY TopProperties DEF TypeOK, FramesInv, Top, UsesList
  <2> QED
    BY <2>1, <2>2 DEF ListAccessIsBlocked
<1> QED
  BY <1>1, Discipline, PTL

\* Whatever path eval returned by, the prompt has all signals unblocked.
THEOREM PromptAlwaysTakesSignals == Spec => []PromptTakesSignals
<1>1. MaskInv => PromptTakesSignals
  BY DEF MaskInv, MainMask, PromptTakesSignals
<1> QED
  BY <1>1, Discipline, PTL

-----------------------------------------------------------------------------
(* The job list against the children.                                      *)

\* Writing one's own activation without giving up the report of a child's end
\* keeps every such report in hand.
LEMMA ReplaceKeepsReports ==
    ASSUME TypeOK, frames # <<>>, NEW f \in Frame, Replace(f), f.sig = Top.sig,
           NEW p, InHand(p),
           \/ f.pid = Top.pid /\ f.status = Top.status
           \/ Top.pid # p
           \/ Top.sig # "CHLD"
           \/ Top.status # "ended"
    PROVE  InHand(p)'
<1> USE DEF TypeOK
<1>1. /\ frames' \in Seq(Frame)
      /\ Len(frames') = Len(frames)
      /\ \A i \in 1 .. Len(frames) : frames'[i] = IF i = Len(frames) THEN f ELSE frames[i]
  BY ReplaceProperties
<1>2. DOMAIN frames = 1 .. Len(frames) /\ DOMAIN frames' = 1 .. Len(frames)
  BY <1>1, LenProperties
<1>3. PICK i \in 1 .. Len(frames) :
        frames[i].sig = "CHLD" /\ frames[i].status = "ended" /\ frames[i].pid = p
  BY <1>2 DEF InHand
<1>4. frames'[i].sig = "CHLD" /\ frames'[i].status = "ended" /\ frames'[i].pid = p
  BY <1>1, <1>3 DEF Top
<1> QED
  BY <1>2, <1>4 DEF InHand

\* A step that does not touch the list keeps ListInv if it revives no child and
\* holds the report of every child it has reaped.
LEMMA ListUntouched ==
    ASSUME ListInv, UNCHANGED <<jobs, nextjid>>,
           \A p \in Pid : proc[p].ph # "unused" => proc'[p].ph # "unused",
           \A p \in Pid : proc'[p].ph = "reaped" =>
              IF proc[p].ph = "reaped" THEN InHand(p) => InHand(p)' ELSE InHand(p)'
    PROVE  ListInv'
BY DEF ListInv, Listed

\* The main loop keeps the list in order.
LEMMA MainList ==
    ASSUME TypeOK, MaskInv, ForegroundInv, ListInv, ForkedInv,
           (\E c \in Cmd : ReadCommand(c)) \/ ReadEOF \/ Eval
    PROVE  ForegroundInv' /\ ListInv' /\ ForkedInv'
<1> USE DEF Main, shellVars, listVars, ReturnWith, WaitFor
<1>0. UNCHANGED frames
  BY DEF ReadCommand, ReadEOF, Eval, EvalNop, EvalOutfileFails, EvalQuit, EvalNoSuchJob, EvalJobAbort,
         EvalKillpgFails, EvalResume, Fork, ForkFails, AddJob, Suspend, WaitDone
<1>a. \A p : InHand(p) => InHand(p)'
  BY <1>0 DEF InHand
<1>1. CASE (\E c \in Cmd : ReadCommand(c)) \/ ReadEOF \/ EvalNop \/ EvalOutfileFails \/ EvalQuit \/ EvalNoSuchJob
           \/ EvalJobAbort \/ EvalKillpgFails \/ ForkFails \/ Suspend
  <2>1. UNCHANGED <<jobs, nextjid, proc>>
    BY <1>1 DEF ReadCommand, ReadEOF, EvalNop, EvalOutfileFails, EvalQuit, EvalNoSuchJob, EvalJobAbort,
                EvalKillpgFails, ForkFails, Suspend
  <2>2. pc' # "forked"
    BY <1>1 DEF ReadCommand, ReadEOF, EvalNop, EvalOutfileFails, EvalQuit, EvalNoSuchJob, EvalJobAbort,
                EvalKillpgFails, ForkFails, Suspend
  <2>3. pc \in {"wait", "suspend"} => pc' \in {"wait", "suspend"} /\ tmp' = tmp
    BY <1>1 DEF ReadCommand, ReadEOF, EvalNop, EvalOutfileFails, EvalQuit, EvalNoSuchJob, EvalJobAbort,
                EvalKillpgFails, ForkFails, Suspend
  <2>4. ListInv'
    BY <1>a, <2>1, ListUntouched
  <2> QED
    BY <2>1, <2>2, <2>3, <2>4 DEF ForegroundInv, ForkedInv
<1>2. CASE WaitDone
  <2>1. UNCHANGED <<jobs, nextjid, proc>> /\ pc' = "prompt"
    BY <1>2 DEF WaitDone
  <2>2. ListInv'
    BY <1>a, <2>1, ListUntouched
  <2>3. \A j \in Jid : jobs[j].state # "FG"
    BY <1>2 DEF WaitDone, StillForeground, JobExists, ForegroundInv
  <2> QED
    BY <2>1, <2>2, <2>3 DEF ForegroundInv, ForkedInv
<1>3. ASSUME NEW p \in Pid, Fork(p)
      PROVE  ForegroundInv' /\ ListInv' /\ ForkedInv'
  <2>1. /\ UNCHANGED <<jobs, nextjid>> /\ pc' = "forked" /\ cur' = p /\ pc = "eval"
        /\ proc[p].ph = "unused"
        /\ proc' = [proc EXCEPT ![p].ph = "forked"]
    BY <1>3 DEF Fork
  <2>2. /\ proc'[p].ph = "forked"
        /\ \A q \in Pid \ {p} : proc'[q] = proc[q]
    BY <2>1 DEF TypeOK
  <2>3. ListInv'
    BY <1>a, <2>1, <2>2, ListUntouched
  <2>4. \A j \in Jid : Listed(j) => jobs[j].pid # p
    BY <2>1 DEF ListInv
  <2> QED
    BY <2>1, <2>2, <2>3, <2>4 DEF ForegroundInv, ForkedInv, Listed
<1>4. CASE EvalResume
  <2> DEFINE t == TargetJid
  <2>1. /\ t \in Jid /\ jobs[t].state # "UNDEF" /\ pc = "eval"
        /\ jobs' = [jobs EXCEPT ![t].state = TargetState]
        /\ UNCHANGED nextjid
    BY <1>4 DEF EvalResume, JobExists, SetState
  <2>2. TargetState \in {"FG", "BG"}
    BY DEF TargetState
  <2>3. /\ \/ pc' = "prompt" /\ TargetState = "BG"
           \/ pc' = "wait" /\ tmp' = t
    BY <1>4 DEF EvalResume, TargetState
  <2>4. \A q \in Pid : proc[q].ph # "unused" => proc'[q].ph # "unused"
    BY <1>4 DEF EvalResume, Continued, TypeOK
  <2>5. \A q \in Pid : proc'[q].ph = "reaped" => proc[q].ph = "reaped"
    BY <1>4 DEF EvalResume, Continued, TypeOK
  <2> HIDE DEF t
  <2>6. /\ jobs'[t].state = TargetState /\ jobs'[t].pid = jobs[t].pid
        /\ \A j \in Jid \ {t} : jobs'[j] = jobs[j]
    BY <2>1 DEF TypeOK, JobListType
  <2>7. \A j \in Jid : (Listed(j)' <=> Listed(j)) /\ jobs'[j].pid = jobs[j].pid
    BY <2>1, <2>2, <2>6 DEF Listed
  <2>8. ListInv'
    BY <1>a, <2>1, <2>4, <2>5, <2>7 DEF ListInv
  <2>9. ForegroundInv'
    BY <2>1, <2>3, <2>6 DEF ForegroundInv
  <2> QED
    BY <2>3, <2>8, <2>9 DEF ForkedInv
<1>5. CASE AddJob
  <2>1. pc = "forked" /\ UNCHANGED proc
    BY <1>5 DEF AddJob
  <2>2. \A j \in Jid : jobs[j].state # "FG"
    BY <2>1 DEF ForegroundInv
  <2>3. CASE exited' # "no"
    <3>1. UNCHANGED <<jobs, nextjid, pc, cur, tmp>>
      BY <1>5, <2>3 DEF AddJob
    <3>2. ListInv'
      BY <1>a, <2>1, <3>1, ListUntouched
    <3> QED
      BY <2>1, <3>1, <3>2 DEF ForegroundInv, ForkedInv, Listed
  <2>4. CASE exited' = "no" /\ nextjid > MAXJOBS
    <3>1. UNCHANGED <<jobs, nextjid>> /\ pc' # "forked"
      BY <1>5, <2>4 DEF AddJob
    <3>2. ListInv'
      BY <1>a, <2>1, <3>1, ListUntouched
    <3> QED
      BY <2>2, <3>1, <3>2 DEF ForegroundInv, ForkedInv
  <2>5. CASE exited' = "no" /\ ~(nextjid > MAXJOBS)
    <3>1. /\ jobs' = [jobs EXCEPT ![nextjid] = [pid |-> cur, state |-> StartState]]
          /\ nextjid' = nextjid + 1
          /\ \/ pc' = "prompt" /\ StartState = "BG"
             \/ pc' = "wait" /\ tmp' = JobFromPid(jobs', cur)
      BY <1>5, <2>5 DEF AddJob
    <3>2. nextjid \in Jid
      BY <2>5 DEF Jid, TypeOK
    <3>3. StartState \in {"FG", "BG"}
      BY DEF StartState
    <3>4. /\ jobs'[nextjid] = [pid |-> cur, state |-> StartState]
          /\ \A j \in Jid \ {nextjid} : jobs'[j] = jobs[j]
      BY <3>1, <3>2 DEF TypeOK, JobListType
    <3>5. \A j \in Jid : Listed(j)' => j = nextjid \/ (Listed(j) /\ jobs'[j] = jobs[j])
      BY <3>4 DEF Listed
    <3>6. \A j \in Jid : Listed(j) => j < nextjid /\ jobs[j].pid # cur
      BY <2>1 DEF ListInv, ForkedInv
    <3>7. \A j \in Jid : Listed(j)' /\ jobs'[j].pid = cur => j = nextjid
      BY <3>5, <3>6
    <3>8. ListInv'
      <4> SUFFICES ASSUME NEW j \in Jid, Listed(j)'
                   PROVE  /\ jobs'[j].pid \in Pid
                          /\ proc'[jobs'[j].pid].ph # "unused"
                          /\ proc'[jobs'[j].pid].ph = "reaped" => InHand(jobs[j].pid)'
                          /\ j < nextjid'
                          /\ \A i \in Jid : Listed(i)' /\ jobs'[i].pid = jobs'[j].pid => i = j
        BY DEF ListInv
      <4>1. CASE j = nextjid
        BY <1>a, <2>1, <3>1, <3>2, <3>4, <3>7, <4>1 DEF ForkedInv, Jid
      <4>2. CASE j # nextjid
        <5>1. Listed(j) /\ jobs'[j] = jobs[j]
          BY <3>5, <4>2
        <5>2. j < nextjid'
          BY <3>1, <3>2, <3>6, <5>1 DEF Jid
        <5>3. \A i \in Jid : Listed(i)' /\ jobs'[i].pid = jobs'[j].pid => i = j
          BY <3>4, <3>5, <3>6, <5>1 DEF ListInv
        <5> QED
          BY <1>a, <2>1, <5>1, <5>2, <5>3 DEF ListInv
      <4> QED
        BY <4>1, <4>2
    <3>9. ForegroundInv'
      <4>1. \A j \in Jid : jobs'[j].state = "FG" => j = nextjid /\ StartState = "FG"
        BY <2>2, <3>4
      <4>2. jobs'[nextjid].state # "UNDEF" /\ jobs'[nextjid].pid = cur
        BY <3>3, <3>4
      <4>3. JobFromPid(jobs', cur) = nextjid
        <5>1. JobFromPid(jobs', cur) # 0
          BY <3>2, <4>2, JobFromPidProperties
        <5>2. /\ JobFromPid(jobs', cur) \in Jid
              /\ jobs'[JobFromPid(jobs', cur)].state # "UNDEF"
              /\ jobs'[JobFromPid(jobs', cur)].pid = cur
          BY <5>1, JobFromPidProperties
        <5> QED
          BY <3>7, <5>2 DEF Listed
      <4> QED
        BY <3>1, <4>1, <4>3 DEF ForegroundInv
    <3> QED
      BY <3>1, <3>8, <3>9 DEF ForkedInv
  <2> QED
    BY <2>3, <2>4, <2>5
<1> QED
  BY <1>1, <1>2, <1>3, <1>4, <1>5 DEF Eval


\* An interrupted handler keeps its report, and so does one that a new handler
\* interrupts.
LEMMA DeliverList ==
    ASSUME TypeOK, MaskInv, ForegroundInv, ListInv, ForkedInv, NEW s \in Sig, Deliver(s)
    PROVE  ForegroundInv' /\ ListInv' /\ ForkedInv'
<1> DEFINE f == [sig |-> s, at |-> "enter", pid |-> NoPid, status |-> "none",
                 prev |-> SUBSET Sig, saved |-> IF pc = "suspend" THEN Sig ELSE mask]
<1>1. f \in Frame
  BY DEF Frame, TypeOK
<1>2. frames' = Append(frames, f)
  BY DEF Deliver
<1> HIDE DEF f
<1>3. /\ frames' \in Seq(Frame) /\ Len(frames') = Len(frames) + 1 /\ Len(frames) \in Nat
      /\ \A i \in 1 .. Len(frames') : frames'[i] = IF i = Len(frames) + 1 THEN f ELSE frames[i]
  BY <1>1, <1>2, PushProperties DEF TypeOK
<1>4. DOMAIN frames = 1 .. Len(frames) /\ DOMAIN frames' = 1 .. Len(frames')
  BY <1>3, LenProperties DEF TypeOK
<1>5. ASSUME NEW p, InHand(p) PROVE InHand(p)'
  <2>1. PICK i \in 1 .. Len(frames) :
          frames[i].sig = "CHLD" /\ frames[i].status = "ended" /\ frames[i].pid = p
    BY <1>4, <1>5 DEF InHand
  <2>2. i \in 1 .. Len(frames') /\ frames'[i] = frames[i]
    BY <1>3
  <2> QED
    BY <1>4, <2>1, <2>2 DEF InHand
<1>6. UNCHANGED <<jobs, nextjid, proc, cur, tmp>>
  BY DEF Deliver, listVars
<1>7. /\ pc \in {"wait", "suspend"} => pc' \in {"wait", "suspend"}
      /\ pc' = "forked" => pc = "forked"
  BY DEF Deliver
<1>8. ListInv'
  BY <1>5, <1>6, ListUntouched
<1> QED
  BY <1>6, <1>7, <1>8 DEF ForegroundInv, ForkedInv, Listed

\* While a handler is active eval is neither parsing, nor between fork and
\* add_job, nor inside sigsuspend.
LEMMA HandlerLeavesMain ==
    ASSUME MaskInv, frames # <<>>, UNCHANGED <<pc, cur, tmp>>
    PROVE  /\ ForkedInv'
           /\ (\A j \in Jid : jobs'[j].state = "FG" => jobs[j].state = "FG")
                 /\ ForegroundInv => ForegroundInv'
BY DEF MaskInv, ForkedInv, ForegroundInv

\* The handlers keep the list in order.
LEMMA HandlerList ==
    ASSUME TypeOK, MaskInv, FramesInv, ForegroundInv, ListInv, Handler
    PROVE  ForegroundInv' /\ ListInv' /\ ForkedInv'
<1>0. frames # <<>> /\ UNCHANGED <<pc, cur, tmp>>
  BY DEF Handler, InHandler, ChldNoMore, ChldBlock, ChldDelete, ChldStop, FwdBlock,
         FwdCheck, FwdSkip, FwdKill, HandlerRestore, HandlerReturn, ChldReap, shellVars
<1>a. /\ Top \in Frame /\ Top = frames[Len(frames)] /\ FrameOK(Top) /\ Len(frames) \in Nat \ {0}
  BY <1>0, TopProperties DEF TypeOK, FramesInv, Top
<1> SUFFICES (\A j \in Jid : jobs'[j].state = "FG" => jobs[j].state = "FG") /\ ListInv'
  BY <1>0, HandlerLeavesMain
<1>1. CASE ChldNoMore \/ ChldBlock \/ FwdBlock \/ FwdSkip \/ FwdCheck \/ FwdKill \/ HandlerRestore
  <2>1. UNCHANGED <<jobs, nextjid, proc>>
    BY <1>1 DEF ChldNoMore, ChldBlock, FwdBlock, FwdSkip, FwdCheck, FwdKill, HandlerRestore, listVars
  <2>2. ASSUME NEW p, InHand(p) PROVE InHand(p)'
    <3>1. CASE ChldNoMore
      <4> DEFINE f == [Top EXCEPT !.at = "restore"]
      <4>1. Replace(f)
        BY <3>1 DEF ChldNoMore
      <4>2. f \in Frame /\ f.sig = Top.sig /\ f.pid = Top.pid /\ f.status = Top.status
        BY <1>a DEF Frame
      <4> HIDE DEF f
      <4> QED
        BY <1>0, <2>2, <4>1, <4>2, ReplaceKeepsReports
    <3>2. CASE ChldBlock
      <4> DEFINE f == [Top EXCEPT !.at = "update", !.prev = {mask}]
      <4>1. Replace(f)
        BY <3>2 DEF ChldBlock
      <4>2. f \in Frame /\ f.sig = Top.sig /\ f.pid = Top.pid /\ f.status = Top.status
        BY ZenonT(60), <1>a DEF Frame, TypeOK
      <4> HIDE DEF f
      <4> QED
        BY <1>0, <2>2, <4>1, <4>2, ReplaceKeepsReports
    <3>3. CASE FwdBlock
      <4> DEFINE f == [Top EXCEPT !.at = "check", !.prev = {mask}]
      <4>1. Replace(f)
        BY <3>3 DEF FwdBlock
      <4>2. f \in Frame /\ f.sig = Top.sig /\ f.pid = Top.pid /\ f.status = Top.status
        BY ZenonT(60), <1>a DEF Frame, TypeOK
      <4> HIDE DEF f
      <4> QED
        BY <1>0, <2>2, <4>1, <4>2, ReplaceKeepsReports
    <3>4. CASE FwdSkip
      <4> DEFINE f == [Top EXCEPT !.at = "restore"]
      <4>1. Replace(f)
        BY <3>4 DEF FwdSkip
      <4>2. f \in Frame /\ f.sig = Top.sig /\ f.pid = Top.pid /\ f.status = Top.status
        BY <1>a DEF Frame
      <4> HIDE DEF f
      <4> QED
        BY <1>0, <2>2, <4>1, <4>2, ReplaceKeepsReports
    <3>5. CASE FwdCheck
      <4> DEFINE f == [Top EXCEPT !.at = "kill", !.pid = FgPid]
      <4>0. FgPid \in Pid \cup {NoPid}
        BY <3>5, FgJobProperties DEF FwdCheck, FgPid, TypeOK, JobListType
      <4>1. Replace(f) /\ Top.sig # "CHLD"
        BY <3>5, <1>a DEF FwdCheck, FrameOK
      <4>2. f \in Frame /\ f.sig = Top.sig
        BY <1>a, <4>0 DEF Frame
      <4> HIDE DEF f
      <4> QED
        BY <1>0, <2>2, <4>1, <4>2, ReplaceKeepsReports
    <3>6. CASE FwdKill
      <4> DEFINE f == [Top EXCEPT !.at = "restore", !.pid = NoPid]
      <4>1. (Replace(f) \/ UNCHANGED frames) /\ Top.sig # "CHLD"
        BY <3>6, <1>a DEF FwdKill, FrameOK
      <4>2. f \in Frame /\ f.sig = Top.sig
        BY <1>a DEF Frame
      <4> HIDE DEF f
      <4>3. CASE Replace(f)
        BY <1>0, <2>2, <4>1, <4>2, <4>3, ReplaceKeepsReports
      <4>4. CASE UNCHANGED frames
        BY <2>2, <4>4 DEF InHand
      <4> QED
        BY <4>1, <4>3, <4>4
    <3>7. CASE HandlerRestore
      <4> DEFINE f == [Top EXCEPT !.at = "return", !.prev = {}]
      <4>1. Replace(f)
        BY <3>7 DEF HandlerRestore
      <4>2. f \in Frame /\ f.sig = Top.sig /\ f.pid = Top.pid /\ f.status = Top.status
        BY <1>a DEF Frame
      <4> HIDE DEF f
      <4> QED
        BY <1>0, <2>2, <4>1, <4>2, ReplaceKeepsReports
    <3> QED
      BY <1>1, <3>1, <3>2, <3>3, <3>4, <3>5, <3>6, <3>7
  <2>3. ListInv'
    BY <2>1, <2>2, ListUntouched
  <2> QED
    BY <2>1, <2>3
<1>2. CASE HandlerReturn
  <2>1. UNCHANGED <<jobs, nextjid, proc>>
    BY <1>2 DEF HandlerReturn, listVars
  <2>2. /\ frames' \in Seq(Frame) /\ Len(frames') = Len(frames) - 1
        /\ \A i \in 1 .. Len(frames') : frames'[i] = frames[i]
    BY <1>0, <1>2, PopProperties DEF HandlerReturn, TypeOK
  <2>3. DOMAIN frames = 1 .. Len(frames) /\ DOMAIN frames' = 1 .. Len(frames')
    BY <2>2, LenProperties DEF TypeOK
  <2>4. Top.sig = "CHLD" => Top.pid = NoPid
    BY <1>2, <1>a DEF HandlerReturn, FrameOK
  <2>5. ASSUME NEW p \in Pid, InHand(p) PROVE InHand(p)'
    <3>1. PICK i \in 1 .. Len(frames) :
            frames[i].sig = "CHLD" /\ frames[i].status = "ended" /\ frames[i].pid = p
      BY <2>3, <2>5 DEF InHand
    <3>2. i # Len(frames)
      BY <1>a, <2>4, <3>1 DEF JobListAssumption
    <3>3. i \in 1 .. Len(frames') /\ frames'[i] = frames[i]
      BY <1>a, <2>2, <3>2
    <3> QED
      BY <2>3, <3>1, <3>3 DEF InHand
  <2>6. ListInv'
    BY <2>1, <2>5, ListUntouched
  <2> QED
    BY <2>1, <2>6
<1>3. ASSUME NEW p \in Pid, ChldReap(p)
      PROVE  (\A j \in Jid : jobs'[j].state = "FG" => jobs[j].state = "FG") /\ ListInv'
  <2>0. PICK st \in {"ended", "stopped"} :
           Replace([Top EXCEPT !.at = "block", !.pid = p, !.status = st])
           /\ (proc[p].ph = "zombie" => st = "ended")
    BY <1>3 DEF ChldReap
  <2> DEFINE f == [Top EXCEPT !.at = "block", !.pid = p, !.status = st]
  <2>1. /\ f \in Frame /\ f.sig = Top.sig /\ f.pid = p /\ f.status = st /\ Replace(f)
    BY <1>a, <2>0 DEF Frame
  <2> HIDE DEF f
  <2>2. UNCHANGED <<jobs, nextjid>> /\ Top.pid = NoPid /\ Top.sig = "CHLD"
    BY <1>3, <1>a DEF ChldReap, FrameOK, listVars
  <2>3. ASSUME NEW q \in Pid, InHand(q) PROVE InHand(q)'
    BY <1>0, <2>1, <2>2, <2>3, ReplaceKeepsReports DEF JobListAssumption
  <2>4. st = "ended" => InHand(p)'
    <3>1. /\ frames' \in Seq(Frame) /\ Len(frames') = Len(frames)
          /\ frames'[Len(frames)] = f
      BY <1>0, <1>a, <2>1, ReplaceProperties DEF TypeOK
    <3>2. Len(frames) \in DOMAIN frames'
      BY <1>a, <3>1, LenProperties
    <3> QED
      BY <2>1, <2>2, <3>1, <3>2 DEF InHand
  <2>5. /\ \A q \in Pid \ {p} : proc'[q] = proc[q]
        /\ proc'[p].ph = IF proc[p].ph = "zombie" THEN "reaped" ELSE proc[p].ph
    BY <1>3 DEF ChldReap, TypeOK
  <2>6. ListInv'
    BY <2>0, <2>2, <2>3, <2>4, <2>5, ListUntouched
  <2> QED
    BY <2>2, <2>6
<1>4. CASE ChldDelete
  <2> DEFINE f == [Top EXCEPT !.at = AfterChild, !.pid = NoPid, !.status = "none"]
             jid == JobFromPid(jobs, Top.pid)
  <2>1. /\ Replace(f) /\ UNCHANGED proc
        /\ IF JobExists(jobs, jid)
           THEN /\ jobs' = [jobs EXCEPT ![jid] = Cleared]
                /\ \E m \in 0 .. MAXJOBS : IsMaxJid(jobs', m) /\ nextjid' = NextAfter(m)
           ELSE UNCHANGED listVars
    BY <1>4 DEF ChldDelete
  <2>2. f \in Frame /\ f.sig = Top.sig
    BY <1>a DEF Frame, AfterChild
  <2> HIDE DEF f
  <2>3. ASSUME NEW p, p # Top.pid, InHand(p) PROVE InHand(p)'
    BY <1>0, <2>1, <2>2, <2>3, ReplaceKeepsReports
  <2>4. CASE JobExists(jobs, jid)
    <3>1. PICK m \in 0 .. MAXJOBS : IsMaxJid(jobs', m) /\ nextjid' = m + 1
      BY <2>1, <2>4 DEF NextAfter
    <3>2. jid \in Jid /\ Listed(jid) /\ jobs[jid].pid = Top.pid
      BY <2>4, JobFromPidProperties DEF JobExists, Listed, Jid
    <3> HIDE DEF jid
    <3>3. /\ jobs'[jid].state = "UNDEF"
          /\ \A j \in Jid \ {jid} : jobs'[j] = jobs[j]
      BY <2>1, <2>4, <3>2 DEF TypeOK, JobListType, Cleared
    <3>4. \A j \in Jid : jobs'[j].state # "UNDEF" => j # jid /\ jobs'[j] = jobs[j] /\ Listed(j)
      BY <3>3 DEF Listed
    <3>5. \A j \in Jid : jobs'[j].state # "UNDEF" => jobs[j].pid # Top.pid
      BY <3>2, <3>4 DEF ListInv
    <3>6. \A j \in Jid : jobs'[j].state # "UNDEF" => j < nextjid'
      BY <3>1 DEF IsMaxJid, JobExists, Jid
    <3>7. \A j \in Jid : Listed(j)' <=> jobs'[j].state # "UNDEF"
      BY DEF Listed
    <3>8. ListInv'
      <4> SUFFICES ASSUME NEW j \in Jid, jobs'[j].state # "UNDEF"
                   PROVE  /\ jobs'[j].pid \in Pid
                          /\ proc'[jobs'[j].pid].ph # "unused"
                          /\ proc'[jobs'[j].pid].ph = "reaped" => InHand(jobs[j].pid)'
                          /\ j < nextjid'
                          /\ \A i \in Jid :
                                jobs'[i].state # "UNDEF" /\ jobs'[i].pid = jobs'[j].pid => i = j
        BY <3>7 DEF ListInv
      <4>1. jobs'[j] = jobs[j] /\ Listed(j) /\ jobs[j].pid # Top.pid /\ j < nextjid'
        BY <3>4, <3>5, <3>6
      <4>2. InHand(jobs[j].pid) => \A q : q = jobs[j].pid => InHand(q)'
        BY <2>3, <4>1
      <4>3. ASSUME NEW i \in Jid, jobs'[i].state # "UNDEF", jobs'[i].pid = jobs'[j].pid
            PROVE  i = j
        BY <3>4, <4>1, <4>3 DEF ListInv
      <4>4. /\ proc'[jobs'[j].pid].ph # "unused"
            /\ proc'[jobs'[j].pid].ph = "reaped" => InHand(jobs[j].pid)
            /\ jobs[j].pid \in Pid
        BY <2>1, <4>1 DEF ListInv
      <4>5. jobs'[j].pid = jobs[j].pid
        BY <4>1
      <4> QED
        BY <4>1, <4>2, <4>3, <4>4, <4>5
    <3>9. \A j \in Jid : jobs'[j].state = "FG" => jobs[j].state = "FG"
      BY <3>4
    <3> QED
      BY <3>8, <3>9
  <2>5. CASE ~JobExists(jobs, jid)
    <3>1. UNCHANGED <<jobs, nextjid, proc>>
      BY <2>1, <2>5 DEF listVars
    <3>2. jid = 0
      BY <2>5, JobFromPidProperties DEF JobExists
    <3>3. \A j \in Jid : Listed(j) => jobs[j].pid # Top.pid
      BY <3>2, JobFromPidProperties DEF Listed
    <3>4. ListInv'
      BY <2>3, <3>1, <3>3 DEF ListInv, Listed
    <3> QED
      BY <3>1, <3>4
  <2> QED
    BY <2>4, <2>5
<1>5. CASE ChldStop
  <2> DEFINE f == [Top EXCEPT !.at = AfterChild, !.pid = NoPid, !.status = "none"]
             jid == JobFromPid(jobs, Top.pid)
  <2>1. /\ UNCHANGED <<nextjid, proc>> /\ Top.status = "stopped"
        /\ \/ /\ JobExists(jobs, jid)
              /\ jobs' = [jobs EXCEPT ![jid].state = "ST"]
              /\ Replace(f)
           \/ UNCHANGED <<jobs, frames>>
    BY <1>5 DEF ChldStop, SetState
  <2>2. f \in Frame /\ f.sig = Top.sig
    BY <1>a DEF Frame, AfterChild
  <2> HIDE DEF f, jid
  <2>3. ASSUME NEW p, InHand(p) PROVE InHand(p)'
    <3>1. CASE Replace(f)
      BY <1>0, <2>1, <2>2, <2>3, <3>1, ReplaceKeepsReports
    <3>2. CASE UNCHANGED frames
      BY <2>3, <3>2 DEF InHand
    <3> QED
      BY <2>1, <3>1, <3>2
  <2>4. CASE UNCHANGED jobs
    <3>1. ListInv'
      BY <2>1, <2>3, <2>4, ListUntouched
    <3> QED
      BY <2>4, <3>1
  <2>5. CASE JobExists(jobs, jid) /\ jobs' = [jobs EXCEPT ![jid].state = "ST"]
    <3>1. jid \in Jid /\ jobs[jid].state # "UNDEF"
      BY <2>5 DEF JobExists
    <3>2. /\ jobs'[jid].state = "ST" /\ jobs'[jid].pid = jobs[jid].pid
          /\ \A j \in Jid \ {jid} : jobs'[j] = jobs[j]
      BY <2>5, <3>1 DEF TypeOK, JobListType
    <3>3. \A j \in Jid : (Listed(j)' <=> Listed(j)) /\ jobs'[j].pid = jobs[j].pid
      BY <3>1, <3>2 DEF Listed
    <3>4. ListInv'
      BY <2>1, <2>3, <3>3 DEF ListInv
    <3>5. \A j \in Jid : jobs'[j].state = "FG" => jobs[j].state = "FG"
      BY <3>2
    <3> QED
      BY <3>4, <3>5
  <2> QED
    BY <2>1, <2>4, <2>5
<1> QED
  BY <1>1, <1>2, <1>3, <1>4, <1>5 DEF Handler

\* A child's own steps touch neither the list nor a handler, and never reap.
LEMMA ChildList ==
    ASSUME TypeOK, ForegroundInv, ListInv, ForkedInv,
           (\E p \in Pid : Child(p)) \/ (\E s \in {"INT", "TSTP"} : UserSignal(s)) \/ SigQuit
    PROVE  ForegroundInv' /\ ListInv' /\ ForkedInv'
<1>1. UNCHANGED <<pc, cur, tmp, jobs, nextjid, frames>>
  BY DEF Child, SetPgid, Exec, InfileFails, ChildEnds, ChildStops, ChildContinues, UserSignal, SigQuit,
         childFrame, shellVars, listVars
<1>2. \A p \in Pid :
        proc'[p] = proc[p] \/ /\ proc[p].ph \notin {"unused", "reaped"}
                              /\ proc'[p].ph \notin {"unused", "reaped"}
  BY DEF Child, SetPgid, Exec, InfileFails, ChildEnds, ChildStops, Runs, ChildContinues,
         UserSignal, SigQuit, listVars, TypeOK
<1>3. \A p : InHand(p) => InHand(p)'
  BY <1>1 DEF InHand
<1>4. ListInv'
  BY <1>1, <1>2, <1>3, ListUntouched
<1> QED
  BY <1>1, <1>2, <1>4 DEF ForegroundInv, ForkedInv, Listed

LEMMA InitList == Init => ForegroundInv /\ ListInv /\ ForkedInv
BY DEF Init, ForegroundInv, ListInv, ForkedInv, Listed, EmptyJobList, Cleared

\* What the shell knows of its children is inductive together with the masks.
LEMMA ListDiscipline ==
    Spec => [](TypeOK /\ MaskInv /\ FramesInv /\ ForegroundInv /\ ListInv /\ ForkedInv)
<1>1. /\ TypeOK /\ MaskInv /\ FramesInv /\ ForegroundInv /\ ListInv /\ ForkedInv
      /\ [Next]_vars
      => ForegroundInv' /\ ListInv' /\ ForkedInv'
  <2> SUFFICES ASSUME TypeOK, MaskInv, FramesInv, ForegroundInv, ListInv, ForkedInv,
                      [Next]_vars
               PROVE  ForegroundInv' /\ ListInv' /\ ForkedInv'
    OBVIOUS
  <2>1. CASE UNCHANGED vars
    BY <2>1 DEF vars, ForegroundInv, ListInv, ForkedInv, Listed, InHand
  <2>2. CASE Next
    BY <2>2, MainList, DeliverList, HandlerList, ChildList DEF Next
  <2> QED
    BY <2>1, <2>2
<1> QED
  BY <1>1, InitList, Discipline, PTL DEF Spec

\* A job is in the foreground only while the shell waits for exactly that job:
\* no second foreground job, and no prompt over a foreground job.
THEOREM ForegroundAlwaysWaitedFor == Spec => []ForegroundIsWaitedFor
<1>1. ForegroundInv => ForegroundIsWaitedFor
  BY DEF ForegroundInv, ForegroundIsWaitedFor
<1> QED
  BY <1>1, ListDiscipline, PTL

\* No job on the list names a reaped child, unless its report is in a handler's
\* hands, and no child is on the list twice.
THEOREM ListedAlwaysUnreaped == Spec => []ListedIsUnreaped
<1>1. ListInv => ListedIsUnreaped
  BY DEF ListInv, ListedIsUnreaped
<1> QED
  BY <1>1, ListDiscipline, PTL


-----------------------------------------------------------------------------
\* What was shown of every reachable state.
BaseInv == TypeOK /\ MaskInv /\ FramesInv /\ ForegroundInv /\ ListInv /\ ForkedInv

LEMMA AlwaysBase == Spec => []BaseInv
BY ListDiscipline, PTL DEF BaseInv

-----------------------------------------------------------------------------
(* The steps, summed up.                                                   *)

\* The steps of the main loop that leave the list, the handlers and the
\* children alone.
MainQuiet ==
    \/ \E c \in Cmd : ReadCommand(c)
    \/ ReadEOF \/ EvalNop \/ EvalOutfileFails \/ EvalQuit \/ EvalNoSuchJob \/ EvalJobAbort
    \/ EvalKillpgFails \/ ForkFails \/ Suspend \/ WaitDone

\* The steps that are not the shell's.
Outside ==
    \/ \E p \in Pid : Child(p)
    \/ \E s \in {"INT", "TSTP"} : UserSignal(s)
    \/ SigQuit

LEMMA NextSteps ==
    Next <=> \/ MainQuiet
             \/ EvalResume
             \/ AddJob
             \/ \E p \in Pid : Fork(p)
             \/ \E s \in Sig : Deliver(s)
             \/ Handler
             \/ Outside
BY DEF Next, Eval, MainQuiet, Outside

\* The main loop runs alone: no handler is active before or after its step.
LEMMA MainRunsAlone ==
    ASSUME MainQuiet \/ EvalResume \/ AddJob \/ (\E p \in Pid : Fork(p))
    PROVE  frames = <<>> /\ UNCHANGED frames /\ exited = "no"
BY DEF MainQuiet, ReadCommand, ReadEOF, EvalNop, EvalOutfileFails, EvalQuit, EvalNoSuchJob, EvalJobAbort,
       EvalKillpgFails, EvalResume, Fork, ForkFails, AddJob, Suspend, WaitDone, Main, shellVars

LEMMA MainQuietEffect ==
    ASSUME MainQuiet
    PROVE  UNCHANGED <<jobs, nextjid, proc, pending>> /\ pc # "forked" /\ pc' # "forked"
BY DEF MainQuiet, ReadCommand, ReadEOF, EvalNop, EvalOutfileFails, EvalQuit, EvalNoSuchJob, EvalJobAbort,
       EvalKillpgFails, ForkFails, Suspend, WaitDone, Main, shellVars, listVars, ReturnWith

\* What a step of its own may do to a child: go on towards its program, end,
\* stop or be continued.  The last three come with a SIGCHLD.
Advances(p) ==
    /\ proc[p].ph \in {"forked", "grouped"}
    /\ proc'[p].ph \in {"grouped", "running", "rogue"}
    /\ proc'[p].news = proc[p].news

Ends(p) ==
    /\ proc[p].ph \in {"grouped", "running", "stopped", "woken", "rogue"}
    /\ proc'[p].ph = "zombie" /\ ~proc'[p].news
    /\ "CHLD" \in pending'

Stops(p) ==
    /\ proc[p].ph \in {"running", "woken"}
    /\ proc'[p].ph = "stopped" /\ proc'[p].news
    /\ "CHLD" \in pending'

Wakes(p) ==
    /\ proc[p].ph = "stopped"
    /\ proc'[p].ph = "woken" /\ ~proc'[p].news
    /\ "CHLD" \in pending'

LEMMA OutsideEffect ==
    ASSUME TypeOK, Outside
    PROVE  /\ UNCHANGED <<cmd, pc, prev_one, cur, tmp, mask, frames, jobs, nextjid>>
           /\ exited = "no" /\ exited' \in {"no", "sigquit"}
           /\ pending \subseteq pending'
           /\ \A p \in Pid :
                 proc'[p] = proc[p] \/ Advances(p) \/ Ends(p) \/ Stops(p) \/ Wakes(p)
<1> USE DEF TypeOK, childFrame, shellVars, listVars, Advances, Ends, Stops, Wakes
<1> DEFINE Goal == /\ UNCHANGED <<cmd, pc, prev_one, cur, tmp, mask, frames, jobs, nextjid>>
                   /\ exited = "no" /\ exited' \in {"no", "sigquit"}
                   /\ pending \subseteq pending'
                   /\ \A p \in Pid : proc'[p] = proc[p] \/ Advances(p) \/ Ends(p) \/ Stops(p) \/ Wakes(p)
<1>1. ASSUME NEW q \in Pid, SetPgid(q) PROVE Goal
  BY <1>1 DEF SetPgid
<1>2. ASSUME NEW q \in Pid, Exec(q) PROVE Goal
  BY <1>2 DEF Exec
<1>3. ASSUME NEW q \in Pid, InfileFails(q) PROVE Goal
  BY <1>3 DEF InfileFails
<1>4. ASSUME NEW q \in Pid, ChildEnds(q) PROVE Goal
  BY <1>4 DEF ChildEnds
<1>5. ASSUME NEW q \in Pid, ChildStops(q) PROVE Goal
  BY <1>5 DEF ChildStops, Runs
<1>8. ASSUME NEW q \in Pid, ChildContinues(q) PROVE Goal
  BY <1>8 DEF ChildContinues
<1>6. ASSUME NEW s \in {"INT", "TSTP"}, UserSignal(s) PROVE Goal
  BY <1>6 DEF UserSignal
<1>7. CASE SigQuit
  BY <1>7 DEF SigQuit
<1> QED
  BY <1>1, <1>2, <1>3, <1>4, <1>5, <1>6, <1>7, <1>8 DEF Outside, Child

\* Delivery pushes an activation that has not yet done anything.
LEMMA DeliverEffect ==
    ASSUME TypeOK, MaskInv, NEW s \in Sig, Deliver(s)
    PROVE  /\ UNCHANGED <<cmd, prev_one, cur, tmp, jobs, nextjid, proc, exited>>
           /\ exited = "no"
           /\ pc' = pc \/ (pc = "suspend" /\ pc' = "wait")
           /\ s \notin mask /\ mask' = mask \cup {s} /\ pending' = pending \ {s}
           /\ Len(frames) \in Nat /\ Len(frames') = Len(frames) + 1
           /\ \A i \in 1 .. Len(frames) : frames'[i] = frames[i]
           /\ frames'[Len(frames')].sig = s /\ frames'[Len(frames')].at = "enter"
           /\ frames # <<>> => frames'[Len(frames')].saved = mask
<1> DEFINE f == [sig |-> s, at |-> "enter", pid |-> NoPid, status |-> "none",
                 prev |-> SUBSET Sig, saved |-> IF pc = "suspend" THEN Sig ELSE mask]
<1>1. f \in Frame
  BY DEF Frame, TypeOK
<1>2. frames' = Append(frames, f)
  BY DEF Deliver
<1>3. /\ f.sig = s /\ f.at = "enter"
      /\ pc # "suspend" => f.saved = mask
  OBVIOUS
<1> HIDE DEF f
<1>4. /\ Len(frames) \in Nat /\ Len(frames') = Len(frames) + 1
      /\ \A i \in 1 .. Len(frames') : frames'[i] = IF i = Len(frames) + 1 THEN f ELSE frames[i]
  BY <1>1, <1>2, PushProperties DEF TypeOK
<1>5. /\ frames'[Len(frames')] = f
      /\ \A i \in 1 .. Len(frames) : frames'[i] = frames[i]
  BY <1>4
<1>6. frames # <<>> => pc # "suspend"
  BY DEF MaskInv
<1>7. /\ UNCHANGED <<cmd, prev_one, cur, tmp, jobs, nextjid, proc, exited>>
      /\ exited = "no" /\ s \notin mask
      /\ mask' = mask \cup {s} /\ pending' = pending \ {s}
  BY DEF Deliver, listVars
<1>8. pc' = IF pc = "suspend" THEN "wait" ELSE pc
  BY DEF Deliver
<1>9. pc' = pc \/ (pc = "suspend" /\ pc' = "wait")
  BY <1>8
<1>10. /\ frames'[Len(frames')].sig = s /\ frames'[Len(frames')].at = "enter"
       /\ frames # <<>> => frames'[Len(frames')].saved = mask
  BY <1>3, <1>5, <1>6
<1> QED
  BY <1>4, <1>5, <1>7, <1>9, <1>10

\* A handler's step rewrites the innermost activation, but for the signal it
\* handles and the mask it returns to, or pops it.
Rewrites ==
    /\ Len(frames') = Len(frames)
    /\ \A i \in 1 .. Len(frames) : i # Len(frames) => frames'[i] = frames[i]
    /\ Top'.sig = Top.sig /\ Top'.saved = Top.saved

Pops ==
    /\ Len(frames') = Len(frames) - 1
    /\ \A i \in 1 .. Len(frames') : frames'[i] = frames[i]
    /\ mask' = Top.saved

LEMMA RewriteEffect ==
    ASSUME TypeOK, frames # <<>>, NEW f \in Frame, Replace(f),
           f.sig = Top.sig, f.saved = Top.saved
    PROVE  Rewrites /\ Top' = f
<1>1. /\ Len(frames') = Len(frames) /\ Len(frames) \in 1 .. Len(frames)
      /\ \A i \in 1 .. Len(frames) : frames'[i] = IF i = Len(frames) THEN f ELSE frames[i]
  BY ReplaceProperties, TopProperties DEF TypeOK
<1>2. Top' = f
  BY <1>1 DEF Top
<1> QED
  BY <1>1, <1>2 DEF Rewrites

Moves(from, to) == Rewrites /\ Top.at = from /\ Top'.at = to
Keeps == Top'.pid = Top.pid /\ Top'.status = Top.status

\* What each step of a handler does to the innermost activation.
HandlerTable ==
    /\ ChldNoMore => Moves("enter", "restore") /\ Keeps /\ Top'.prev = Top.prev
    /\ \A p \in Pid : ChldReap(p) =>
          /\ Moves("enter", "block") /\ Top'.pid = p /\ Top'.prev = Top.prev
          /\ Top'.status = IF proc[p].ph = "zombie" THEN "ended" ELSE "stopped"
    /\ ChldBlock => Moves("block", "update") /\ Keeps /\ Top'.prev = {mask}
    /\ ChldDelete => Moves("update", "enter") /\ Top'.pid = NoPid /\ Top'.prev = Top.prev
    /\ ChldStop =>
          \/ UNCHANGED exited /\ Moves("update", "enter") /\ Top'.pid = NoPid
                /\ Top'.prev = Top.prev
          \/ exited' = "abort_untracked" /\ UNCHANGED frames
    /\ FwdBlock => Moves("enter", "check") /\ Keeps /\ Top'.prev = {mask}
    /\ FwdCheck => Moves("check", "kill") /\ Top'.pid = FgPid /\ Top'.prev = Top.prev
    /\ FwdSkip => Moves("check", "restore") /\ Keeps /\ Top'.prev = Top.prev
    /\ FwdKill =>
          \/ UNCHANGED exited /\ Moves("kill", "restore") /\ Top'.prev = Top.prev
          \/ exited' = "killpg_handler" /\ UNCHANGED frames
    /\ HandlerRestore => Moves("restore", "return") /\ Keeps /\ Top'.prev = {}
    /\ HandlerReturn => Top.at = "return" /\ Pops

LEMMA HandlerBasics ==
    ASSUME TypeOK, FramesInv, Handler
    PROVE  /\ frames # <<>> /\ exited = "no"
           /\ Len(frames) \in Nat \ {0} /\ Len(frames) \in 1 .. Len(frames)
           /\ Top \in Frame /\ FrameOK(Top)
           /\ UNCHANGED <<cmd, pc, prev_one, cur, tmp, pending>>
<1>1. frames # <<>> /\ exited = "no" /\ UNCHANGED <<cmd, pc, prev_one, cur, tmp, pending>>
  BY DEF Handler, InHandler, ChldNoMore, ChldBlock, ChldDelete, ChldStop, FwdBlock,
         FwdCheck, FwdSkip, FwdKill, HandlerRestore, HandlerReturn, ChldReap, shellVars
<1> QED
  BY <1>1, TopProperties DEF TypeOK, FramesInv, Top

LEMMA HandlerEffect ==
    ASSUME TypeOK, FramesInv, Handler
    PROVE  HandlerTable
<1>0. frames # <<>> /\ Top \in Frame
  BY HandlerBasics
<1>1. ASSUME ChldNoMore PROVE Moves("enter", "restore") /\ Keeps /\ Top'.prev = Top.prev
  <2> DEFINE f == [Top EXCEPT !.at = "restore"]
  <2>1. f \in Frame /\ f.sig = Top.sig /\ f.saved = Top.saved
        /\ f.at = "restore" /\ f.pid = Top.pid /\ f.status = Top.status /\ f.prev = Top.prev
    BY <1>0, <1>1 DEF Frame
  <2>2. Replace(f) /\ Top.at = "enter"
    BY <1>1 DEF ChldNoMore
  <2> HIDE DEF f
  <2>3. Rewrites /\ Top' = f
    BY <1>0, <2>1, <2>2, RewriteEffect
  <2> QED
    BY <2>1, <2>2, <2>3 DEF Moves, Keeps
<1>2. ASSUME ChldBlock PROVE Moves("block", "update") /\ Keeps /\ Top'.prev = {mask}
  <2> DEFINE f == [Top EXCEPT !.at = "update", !.prev = {mask}]
  <2>1. f \in Frame /\ f.sig = Top.sig /\ f.saved = Top.saved
        /\ f.at = "update" /\ f.pid = Top.pid /\ f.status = Top.status /\ f.prev = {mask}
    BY <1>0, <1>2 DEF Frame, TypeOK
  <2>2. Replace(f) /\ Top.at = "block"
    BY <1>2 DEF ChldBlock
  <2> HIDE DEF f
  <2>3. Rewrites /\ Top' = f
    BY <1>0, <2>1, <2>2, RewriteEffect
  <2> QED
    BY <2>1, <2>2, <2>3 DEF Moves, Keeps
<1>3. ASSUME ChldDelete PROVE Moves("update", "enter") /\ Top'.pid = NoPid /\ Top'.prev = Top.prev
  <2> DEFINE f == [Top EXCEPT !.at = AfterChild, !.pid = NoPid, !.status = "none"]
  <2>1. f \in Frame /\ f.sig = Top.sig /\ f.saved = Top.saved
        /\ f.at = "enter" /\ f.pid = NoPid /\ f.prev = Top.prev
    BY <1>0, <1>3 DEF Frame, AfterChild
  <2>2. Replace(f) /\ Top.at = "update"
    BY <1>3 DEF ChldDelete
  <2> HIDE DEF f
  <2>3. Rewrites /\ Top' = f
    BY <1>0, <2>1, <2>2, RewriteEffect
  <2> QED
    BY <2>1, <2>2, <2>3 DEF Moves, Keeps
<1>4. ASSUME ChldStop
      PROVE  \/ UNCHANGED exited /\ Moves("update", "enter") /\ Top'.pid = NoPid
                   /\ Top'.prev = Top.prev
             \/ exited' = "abort_untracked" /\ UNCHANGED frames
  <2> DEFINE f == [Top EXCEPT !.at = AfterChild, !.pid = NoPid, !.status = "none"]
  <2>1. f \in Frame /\ f.sig = Top.sig /\ f.saved = Top.saved
        /\ f.at = "enter" /\ f.pid = NoPid /\ f.prev = Top.prev
    BY <1>0, <1>4 DEF Frame, AfterChild
  <2>2. /\ Top.at = "update"
        /\ \/ UNCHANGED exited /\ Replace(f)
           \/ exited' = "abort_untracked" /\ UNCHANGED frames
    BY <1>4 DEF ChldStop
  <2> HIDE DEF f
  <2>3. ASSUME Replace(f) PROVE Rewrites /\ Top' = f
    BY <1>0, <2>1, <2>3, RewriteEffect
  <2> QED
    BY <2>1, <2>2, <2>3 DEF Moves
<1>5. ASSUME FwdBlock PROVE Moves("enter", "check") /\ Keeps /\ Top'.prev = {mask}
  <2> DEFINE f == [Top EXCEPT !.at = "check", !.prev = {mask}]
  <2>1. f \in Frame /\ f.sig = Top.sig /\ f.saved = Top.saved
        /\ f.at = "check" /\ f.pid = Top.pid /\ f.status = Top.status /\ f.prev = {mask}
    BY <1>0, <1>5 DEF Frame, TypeOK
  <2>2. Replace(f) /\ Top.at = "enter"
    BY <1>5 DEF FwdBlock
  <2> HIDE DEF f
  <2>3. Rewrites /\ Top' = f
    BY <1>0, <2>1, <2>2, RewriteEffect
  <2> QED
    BY <2>1, <2>2, <2>3 DEF Moves, Keeps
<1>6. ASSUME FwdCheck PROVE Moves("check", "kill") /\ Top'.pid = FgPid /\ Top'.prev = Top.prev
  <2> DEFINE f == [Top EXCEPT !.at = "kill", !.pid = FgPid]
  <2>0. FgPid \in Pid \cup {NoPid}
    BY <1>6, FgJobProperties DEF FwdCheck, FgPid, JobListType, TypeOK
  <2>1. f \in Frame /\ f.sig = Top.sig /\ f.saved = Top.saved
        /\ f.at = "kill" /\ f.pid = FgPid /\ f.prev = Top.prev
    BY <1>0, <1>6, <2>0 DEF Frame
  <2>2. Replace(f) /\ Top.at = "check"
    BY <1>6 DEF FwdCheck
  <2> HIDE DEF f
  <2>3. Rewrites /\ Top' = f
    BY <1>0, <2>1, <2>2, RewriteEffect
  <2> QED
    BY <2>1, <2>2, <2>3 DEF Moves, Keeps
<1>7. ASSUME FwdSkip PROVE Moves("check", "restore") /\ Keeps /\ Top'.prev = Top.prev
  <2> DEFINE f == [Top EXCEPT !.at = "restore"]
  <2>1. f \in Frame /\ f.sig = Top.sig /\ f.saved = Top.saved
        /\ f.at = "restore" /\ f.pid = Top.pid /\ f.status = Top.status /\ f.prev = Top.prev
    BY <1>0, <1>7 DEF Frame
  <2>2. Replace(f) /\ Top.at = "check"
    BY <1>7 DEF FwdSkip
  <2> HIDE DEF f
  <2>3. Rewrites /\ Top' = f
    BY <1>0, <2>1, <2>2, RewriteEffect
  <2> QED
    BY <2>1, <2>2, <2>3 DEF Moves, Keeps
<1>8. ASSUME FwdKill
      PROVE  \/ UNCHANGED exited /\ Moves("kill", "restore") /\ Top'.prev = Top.prev
             \/ exited' = "killpg_handler" /\ UNCHANGED frames
  <2> DEFINE f == [Top EXCEPT !.at = "restore", !.pid = NoPid]
  <2>1. f \in Frame /\ f.sig = Top.sig /\ f.saved = Top.saved
        /\ f.at = "restore" /\ f.pid = NoPid /\ f.prev = Top.prev
    BY <1>0, <1>8 DEF Frame
  <2>2. /\ Top.at = "kill"
        /\ \/ UNCHANGED exited /\ Replace(f)
           \/ exited' = "killpg_handler" /\ UNCHANGED frames
    BY <1>8 DEF FwdKill
  <2> HIDE DEF f
  <2>3. ASSUME Replace(f) PROVE Rewrites /\ Top' = f
    BY <1>0, <2>1, <2>3, RewriteEffect
  <2> QED
    BY <2>1, <2>2, <2>3 DEF Moves
<1>9. ASSUME HandlerRestore PROVE Moves("restore", "return") /\ Keeps /\ Top'.prev = {}
  <2> DEFINE f == [Top EXCEPT !.at = "return", !.prev = {}]
  <2>1. f \in Frame /\ f.sig = Top.sig /\ f.saved = Top.saved
        /\ f.at = "return" /\ f.pid = Top.pid /\ f.status = Top.status /\ f.prev = {}
    BY <1>0, <1>9 DEF Frame
  <2>2. Replace(f) /\ Top.at = "restore"
    BY <1>9 DEF HandlerRestore
  <2> HIDE DEF f
  <2>3. Rewrites /\ Top' = f
    BY <1>0, <2>1, <2>2, RewriteEffect
  <2> QED
    BY <2>1, <2>2, <2>3 DEF Moves, Keeps
<1>10. ASSUME HandlerReturn PROVE Top.at = "return" /\ Pops
  BY <1>0, <1>10, PopProperties DEF HandlerReturn, Pops, TypeOK
<1>11. ASSUME NEW p \in Pid, ChldReap(p)
       PROVE  /\ Moves("enter", "block") /\ Top'.pid = p /\ Top'.prev = Top.prev
              /\ Top'.status = IF proc[p].ph = "zombie" THEN "ended" ELSE "stopped"
  <2> DEFINE st == IF proc[p].ph = "zombie" THEN "ended" ELSE "stopped"
             f == [Top EXCEPT !.at = "block", !.pid = p, !.status = st]
  <2>0. st \in {"ended", "stopped"}
    OBVIOUS
  <2>2. Replace(f) /\ Top.at = "enter"
    BY <1>11 DEF ChldReap
  <2> HIDE DEF st
  <2>1. f \in Frame /\ f.sig = Top.sig /\ f.saved = Top.saved
        /\ f.at = "block" /\ f.pid = p /\ f.status = st /\ f.prev = Top.prev
    BY <1>0, <2>0 DEF Frame
  <2> HIDE DEF f
  <2>3. Rewrites /\ Top' = f
    BY <1>0, <2>1, <2>2, RewriteEffect
  <2> QED
    BY <2>1, <2>2, <2>3 DEF Moves, st
<1> QED
  BY <1>1, <1>2, <1>3, <1>4, <1>5, <1>6, <1>7, <1>8, <1>9, <1>10, <1>11 DEF HandlerTable

-----------------------------------------------------------------------------
(* Why the shell exits.                                                    *)

\* A child that leads its process group keeps it until waitpid collects it.
LEMMA OutsideKeepsGroups ==
    ASSUME TypeOK, Outside, NEW p \in Pid, HasGroup(p)
    PROVE  HasGroup(p)'
BY OutsideEffect DEF HasGroup, Advances, Ends, Stops, Wakes

\* A handler between getpgid and killpg has everything blocked, so its target
\* cannot be reaped: killpg finds the group.
LEMMA KillStep ==
    ASSUME BaseInv, KillInv, [Next]_vars
    PROVE  KillInv'
<1> USE DEF BaseInv
<1>1. CASE UNCHANGED vars
  BY <1>1 DEF vars, KillInv, Top, HasGroup
<1>2. CASE MainQuiet \/ EvalResume \/ AddJob \/ (\E p \in Pid : Fork(p))
  BY <1>2, MainRunsAlone DEF KillInv
<1>3. ASSUME NEW s \in Sig, Deliver(s) PROVE KillInv'
  BY <1>3, DeliverEffect DEF KillInv, Top
<1>4. CASE Handler
  <2>1. frames # <<>> /\ Len(frames) \in Nat \ {0} /\ FrameOK(Top)
    BY <1>4, HandlerBasics
  <2>2. HandlerTable
    BY <1>4, HandlerEffect
  <2>3. CASE ChldNoMore \/ ChldBlock \/ ChldDelete \/ FwdBlock \/ FwdSkip \/ HandlerRestore
             \/ (\E p \in Pid : ChldReap(p))
    BY <2>2, <2>3 DEF HandlerTable, Moves, KillInv
  <2>4. CASE ChldStop \/ FwdKill
    <3>1. UNCHANGED proc
      BY <2>4 DEF ChldStop, FwdKill
    <3>2. Top'.at # "kill" \/ UNCHANGED frames
      BY <2>2, <2>4 DEF HandlerTable, Moves
    <3> QED
      BY <3>1, <3>2 DEF KillInv, Top, HasGroup
  <2>5. CASE FwdCheck
    <3>1. HasGroup(FgPid) /\ UNCHANGED proc /\ FgPid \in Pid
      <4>1. FgJob(jobs) \in Jid /\ jobs[FgJob(jobs)].state = "FG"
        BY <2>5, FgJobProperties DEF FwdCheck
      <4>2. jobs[FgJob(jobs)].pid \in Pid
        BY <4>1 DEF ListInv, Listed
      <4> QED
        BY <2>5, <4>2 DEF FwdCheck, FgLeadsGroup, FgPid
    <3>2. Top'.pid = FgPid
      BY <2>2, <2>5 DEF HandlerTable
    <3> QED
      BY <3>1, <3>2 DEF KillInv, HasGroup
  <2>6. CASE HandlerReturn
    <3>1. Pops
      BY <2>2, <2>6 DEF HandlerTable
    <3>2. ASSUME frames' # <<>> PROVE Top'.at # "kill"
      <4>1. frames' \in Seq(Frame)
        BY <1>4, HandlerTypeOK DEF TypeOK
      <4>2. Len(frames') \in 1 .. Len(frames) /\ Len(frames') # Len(frames)
            /\ Len(frames') \in 1 .. Len(frames')
        BY <2>1, <3>1, <3>2, <4>1, EmptySeq DEF Pops
      <4>3. Top' = frames[Len(frames')]
        BY <3>1, <4>2 DEF Pops, Top
      <4> QED
        BY <4>2, <4>3 DEF FramesInv, UsesList
    <3> QED
      BY <3>2 DEF KillInv
  <2> QED
    BY <1>4, <2>3, <2>4, <2>5, <2>6 DEF Handler
<1>5. CASE Outside
  <2>1. UNCHANGED frames
    BY <1>5, OutsideEffect
  <2>2. ASSUME frames # <<>>, Top.at = "kill" PROVE HasGroup(Top.pid)'
    <3>1. Top.pid \in Pid /\ HasGroup(Top.pid) /\ Top' = Top
      BY <2>1, <2>2 DEF KillInv, Top
    <3> QED
      BY <1>5, <3>1, OutsideKeepsGroups DEF HasGroup
  <2> QED
    BY <2>1, <2>2 DEF KillInv, Top, HasGroup
<1> QED
  BY <1>1, <1>2, <1>3, <1>4, <1>5, NextSteps

\* bg and fg address a job on the list, and its process has not been reaped.
LEMMA TargetIsListed ==
    ASSUME BaseInv, frames = <<>>, JobExists(jobs, TargetJid)
    PROVE  /\ TargetJid \in Jid /\ jobs[TargetJid].state # "UNDEF"
           /\ jobs[TargetJid].pid = TargetPid
           /\ TargetPid \in Pid
           /\ proc[TargetPid].ph \notin {"unused", "reaped"}
<1> USE DEF BaseInv
<1>1. TargetJid \in Jid /\ jobs[TargetJid].state # "UNDEF"
  BY DEF JobExists
<1>2. jobs[TargetJid].pid = TargetPid
  <2>1. CASE ByPid
    <3>1. TargetJid = JobFromPid(jobs, cmd.pid) /\ TargetPid = cmd.pid
      BY <2>1 DEF TargetJid, TargetPid
    <3>2. TargetJid # 0
      BY <1>1 DEF Jid
    <3> QED
      BY <3>1, <3>2, JobFromPidProperties
  <2>2. CASE ~ByPid
    BY <2>2 DEF TargetJid, TargetPid
  <2> QED
    BY <2>1, <2>2
<1>3. ~InHand(TargetPid)
  BY EmptySeq DEF InHand, TypeOK
<1> QED
  BY <1>1, <1>2, <1>3 DEF ListInv, Listed

LEMMA ExitStep ==
    ASSUME BaseInv, KillInv, ExitsAreExplained, [Next]_vars
    PROVE  ExitsAreExplained'
<1> USE DEF BaseInv
<1>1. CASE UNCHANGED vars
  BY <1>1 DEF vars, ExitsAreExplained, TargetPid, ByPid
<1>2. CASE EvalKillpgFails
  <2>1. proc[TargetPid].ph = "forked" /\ exited' = "killpg"
        /\ UNCHANGED <<cmd, jobs, proc>>
    <3>1. frames = <<>> /\ JobExists(jobs, TargetJid) /\ ~HasGroup(TargetPid)
      BY <1>2 DEF EvalKillpgFails, Main
    <3>2. TargetPid \in Pid /\ proc[TargetPid].ph \notin {"unused", "reaped"}
      BY <3>1, TargetIsListed
    <3> QED
      BY <1>2, <3>1, <3>2 DEF EvalKillpgFails, HasGroup, TypeOK, Phase, shellVars, listVars
  <2>2. TargetPid' = TargetPid
    BY <2>1 DEF TargetPid, ByPid
  <2> QED
    BY <2>1, <2>2 DEF ExitsAreExplained
<1>3. CASE EvalJobAbort
  <2>1. \A j \in Jid : jobs[j].state # "FG"
    BY <1>3 DEF EvalJobAbort, Main, ForegroundInv
  <2>2. FgJob(jobs) = 0
    BY <2>1, FgJobProperties
  <2>3. exited' = "abort_jid"
    BY <1>3, <2>2 DEF EvalJobAbort, MayBecome
  <2> QED
    BY <2>3 DEF ExitsAreExplained
<1>4. CASE AddJob
  <2>1. pc = "forked"
    BY <1>4 DEF AddJob, Main
  <2>2. FgJob(jobs) = 0
    BY <2>1, FgJobProperties DEF ForegroundInv
  <2>3. nextjid <= MAXJOBS => jobs[nextjid].state = "UNDEF"
    <3>1. ASSUME nextjid <= MAXJOBS, jobs[nextjid].state # "UNDEF" PROVE FALSE
      <4>1. nextjid \in Jid
        BY <3>1 DEF TypeOK, Jid
      <4> QED
        BY <3>1, <4>1 DEF ListInv, Listed, Jid
    <3> QED
      BY <3>1
  <2>4. exited' \in {"no", "memory"}
    BY <1>4, <2>2, <2>3 DEF AddJob, AddJobAbort
  <2> QED
    BY <2>4 DEF ExitsAreExplained
<1>5. CASE ReadEOF \/ EvalNop \/ EvalOutfileFails \/ EvalQuit \/ EvalNoSuchJob \/ ForkFails \/ Suspend \/ WaitDone
           \/ EvalResume \/ (\E c \in Cmd : ReadCommand(c)) \/ (\E p \in Pid : Fork(p))
  <2>1. exited' \in {"no", "eof", "quit", "fork", "outfile"}
    BY <1>5 DEF ReadEOF, EvalNop, EvalOutfileFails, EvalQuit, EvalNoSuchJob, ForkFails, Suspend, WaitDone,
                EvalResume, ReadCommand, Fork, Main
  <2> QED
    BY <2>1 DEF ExitsAreExplained
<1>6. ASSUME NEW s \in Sig, Deliver(s) PROVE ExitsAreExplained'
  BY <1>6, DeliverEffect DEF ExitsAreExplained
<1>7. CASE Handler
  <2>1. exited = "no" /\ frames # <<>>
    BY <1>7, HandlerBasics
  <2>2. CASE FwdKill
    <3>1. HasGroup(Top.pid)
      BY <2>1, <2>2 DEF FwdKill, KillInv
    <3> QED
      BY <2>1, <2>2, <3>1 DEF FwdKill, ExitsAreExplained
  <2>3. CASE ~FwdKill
    <3>1. exited' \in {"no", "abort_untracked"}
      BY <1>7, <2>1, <2>3 DEF Handler, ChldNoMore, ChldBlock, ChldDelete, ChldStop, FwdBlock,
           FwdCheck, FwdSkip, HandlerRestore, HandlerReturn, ChldReap
    <3> QED
      BY <3>1 DEF ExitsAreExplained
  <2> QED
    BY <2>2, <2>3
<1>8. CASE Outside
  BY <1>8, OutsideEffect DEF ExitsAreExplained
<1> QED
  BY <1>1, <1>2, <1>3, <1>4, <1>5, <1>6, <1>7, <1>8, NextSteps DEF MainQuiet

\* The shell exits on its own account only as explained: no second foreground
\* job and no busy slot ever trips an assertion of the job list, forwarding a
\* key press never fails, and bg/fg fail only on a child that has not yet
\* called setpgid.
THEOREM ExitsAlwaysExplained == Spec => []ExitsAreExplained
<1>1. Init => KillInv /\ ExitsAreExplained
  BY DEF Init, KillInv, ExitsAreExplained
<1>2. BaseInv /\ KillInv /\ ExitsAreExplained /\ [Next]_vars => KillInv' /\ ExitsAreExplained'
  BY KillStep, ExitStep
<1> QED
  BY <1>1, <1>2, AlwaysBase, PTL DEF Spec

-----------------------------------------------------------------------------
(* No child is forgotten.                                                  *)

\* A handler activation that will call waitpid again.
Collecting(f) == f.sig = "CHLD" /\ f.at \in {"enter", "block", "update"}

\* What NoLostChild says, with the positions of the stack as numbers.
LossInv ==
    (exited = "no" /\ \E p \in Pid : Reportable(p)) =>
        "CHLD" \in pending \/ \E i \in 1 .. Len(frames) : Collecting(frames[i])

LEMMA LossMeaning == TypeOK => (LossInv <=> NoLostChild)
BY LenProperties DEF TypeOK, LossInv, NoLostChild, Collecting

\* The innermost activation may be rewritten, as long as it does not stop
\* collecting.
LEMMA CollectorStays ==
    ASSUME TypeOK, frames # <<>>, Rewrites, Collecting(Top) => Collecting(Top)',
           \E i \in 1 .. Len(frames) : Collecting(frames[i])
    PROVE  \E i \in 1 .. Len(frames') : Collecting(frames'[i])
<1>1. PICK i \in 1 .. Len(frames) : Collecting(frames[i])
  OBVIOUS
<1>2. Len(frames') = Len(frames) /\ Top = frames[Len(frames)] /\ Top' = frames'[Len(frames)]
  BY DEF Rewrites, Top
<1>3. Collecting(frames'[i])
  <2>1. CASE i = Len(frames)
    BY <1>1, <1>2, <2>1 DEF Collecting
  <2>2. CASE i # Len(frames)
    BY <1>1, <2>2 DEF Rewrites
  <2> QED
    BY <2>1, <2>2
<1> QED
  BY <1>2, <1>3

\* SIGCHLD is not counted, and a handler may overlook a child that ends while
\* it runs; yet whatever remains to be reported is announced.
LEMMA LossStep ==
    ASSUME BaseInv, LossInv, [Next]_vars
    PROVE  LossInv'
<1> USE DEF BaseInv
<1>a. ASSUME UNCHANGED <<frames, pending, proc>>, exited' = "no" => exited = "no"
      PROVE  LossInv'
  BY <1>a DEF LossInv, Reportable
<1>1. CASE UNCHANGED vars
  BY <1>1, <1>a DEF vars
<1>2. CASE MainQuiet
  BY <1>2, <1>a, MainRunsAlone, MainQuietEffect
<1>3. CASE AddJob
  BY <1>3, <1>a, MainRunsAlone DEF AddJob
<1>4. CASE EvalResume
  <2>1. UNCHANGED frames
    BY <1>4, MainRunsAlone
  <2>2. pending \subseteq pending'
    BY <1>4 DEF EvalResume
  <2>3. ASSUME NEW p \in Pid, Reportable(p)' PROVE Reportable(p)
    BY <1>4, <2>3 DEF EvalResume, Continued, Reportable, TypeOK
  <2>4. exited = "no"
    BY <1>4, MainRunsAlone
  <2> QED
    BY <2>1, <2>2, <2>3, <2>4 DEF LossInv
<1>5. ASSUME NEW q \in Pid, Fork(q) PROVE LossInv'
  <2>1. UNCHANGED <<frames, pending>> /\ exited = "no"
    BY <1>5, MainRunsAlone DEF Fork
  <2>2. ASSUME NEW p \in Pid, Reportable(p)' PROVE Reportable(p)
    BY <1>5, <2>2 DEF Fork, Reportable, TypeOK
  <2> QED
    BY <2>1, <2>2 DEF LossInv
<1>6. ASSUME NEW s \in Sig, Deliver(s) PROVE LossInv'
  <2>1. /\ UNCHANGED proc /\ exited = "no" /\ pending' = pending \ {s}
        /\ Len(frames) \in Nat /\ Len(frames') = Len(frames) + 1
        /\ \A i \in 1 .. Len(frames) : frames'[i] = frames[i]
        /\ frames'[Len(frames')].sig = s /\ frames'[Len(frames')].at = "enter"
    BY <1>6, DeliverEffect
  <2>2. ASSUME NEW p \in Pid, Reportable(p)' PROVE Reportable(p)
    BY <2>1, <2>2 DEF Reportable
  <2>3. ASSUME NEW i \in 1 .. Len(frames), Collecting(frames[i])
        PROVE  \E k \in 1 .. Len(frames') : Collecting(frames'[k])
    BY <2>1, <2>3
  <2>4. s = "CHLD" => \E k \in 1 .. Len(frames') : Collecting(frames'[k])
    <3>1. Len(frames') \in 1 .. Len(frames')
      BY <2>1
    <3> QED
      BY <2>1, <3>1 DEF Collecting
  <2>5. s # "CHLD" /\ "CHLD" \in pending => "CHLD" \in pending'
    BY <2>1
  <2> QED
    BY <2>1, <2>2, <2>3, <2>4, <2>5 DEF LossInv
<1>7. CASE Handler
  <2>1. /\ frames # <<>> /\ exited = "no" /\ UNCHANGED pending
        /\ Len(frames) \in Nat \ {0} /\ FrameOK(Top)
    BY <1>7, HandlerBasics
  <2>2. HandlerTable
    BY <1>7, HandlerEffect
  <2>3. CASE ChldNoMore
    <3>1. \A p \in Pid : ~Reportable(p)'
      BY <2>3 DEF ChldNoMore, Reportable
    <3> QED
      BY <3>1 DEF LossInv
  <2>4. CASE ChldStop \/ FwdKill
    <3>1. UNCHANGED <<pending, proc>>
      BY <2>1, <2>4 DEF ChldStop, FwdKill
    <3>2. CASE UNCHANGED frames
      BY <2>1, <3>1, <3>2, <1>a
    <3>3. CASE Rewrites /\ (Collecting(Top) => Collecting(Top)')
      BY <2>1, <3>1, <3>3, CollectorStays DEF LossInv, Reportable
    <3>4. ChldStop => UNCHANGED frames \/ (Rewrites /\ Collecting(Top)')
      BY <2>1, <2>2 DEF HandlerTable, Moves, Collecting, ChldStop, Rewrites
    <3>5. FwdKill => UNCHANGED frames \/ (Rewrites /\ ~Collecting(Top))
      BY <2>1, <2>2 DEF HandlerTable, Moves, Collecting, FwdKill
    <3> QED
      BY <2>4, <3>2, <3>3, <3>4, <3>5
  <2>5. CASE ChldBlock \/ ChldDelete \/ FwdBlock \/ FwdCheck \/ FwdSkip \/ HandlerRestore
    <3>1. UNCHANGED proc
      BY <2>5 DEF ChldBlock, ChldDelete, FwdBlock, FwdCheck, FwdSkip, HandlerRestore
    <3>2. Rewrites /\ (Collecting(Top) => Collecting(Top)')
      BY <2>2, <2>5 DEF HandlerTable, Moves, Collecting, Rewrites,
         FwdBlock, FwdCheck, FwdSkip, HandlerRestore
    <3> QED
      BY <2>1, <3>1, <3>2, CollectorStays DEF LossInv, Reportable
  <2>6. ASSUME NEW q \in Pid, ChldReap(q) PROVE LossInv'
    <3>1. Top.sig = "CHLD" /\ Rewrites /\ Top'.at = "block"
      BY <2>2, <2>6 DEF ChldReap, HandlerTable, Moves
    <3>2. Collecting(Top)' /\ Len(frames') = Len(frames) /\ Len(frames) \in 1 .. Len(frames)
      BY <2>1, <3>1 DEF Rewrites, Collecting
    <3> QED
      BY <3>2 DEF LossInv, Top
  <2>7. CASE HandlerReturn
    <3>1. Pops /\ Top.at = "return" /\ UNCHANGED proc
      BY <2>2, <2>7 DEF HandlerTable, HandlerReturn
    <3>2. ASSUME NEW i \in 1 .. Len(frames), Collecting(frames[i])
          PROVE  i \in 1 .. Len(frames') /\ Collecting(frames'[i])
      <4>1. i # Len(frames)
        BY <3>1, <3>2 DEF Collecting, Top
      <4> QED
        BY <2>1, <3>1, <3>2, <4>1 DEF Pops
    <3> QED
      BY <2>1, <3>1, <3>2 DEF LossInv, Reportable
  <2> QED
    BY <1>7, <2>3, <2>4, <2>5, <2>6, <2>7 DEF Handler
<1>8. CASE Outside
  <2>1. UNCHANGED frames /\ exited = "no" /\ pending \subseteq pending'
    BY <1>8, OutsideEffect
  <2>2. ASSUME NEW p \in Pid, Reportable(p)' PROVE Reportable(p) \/ "CHLD" \in pending'
    BY <1>8, <2>2, OutsideEffect DEF Reportable, Advances, Ends, Stops, Wakes
  <2> QED
    BY <2>1, <2>2 DEF LossInv
<1> QED
  BY <1>1, <1>2, <1>3, <1>4, <1>5, <1>6, <1>7, <1>8, NextSteps

\* A child that has stopped or ended and has not been collected is never
\* forgotten, however many SIGCHLDs were merged into one: SIGCHLD is pending, or
\* a handler that will call waitpid again is active.
THEOREM ChildrenNeverLost == Spec => []NoLostChild
<1>1. Init => LossInv
  BY DEF Init, LossInv, Reportable, NewProc
<1>2. BaseInv /\ LossInv /\ [Next]_vars => LossInv'
  BY LossStep
<1>3. BaseInv => (LossInv <=> NoLostChild)
  BY LossMeaning DEF BaseInv
<1> QED
  BY <1>1, <1>2, <1>3, AlwaysBase, PTL DEF Spec

-----------------------------------------------------------------------------
(* At most one handler collects at a time.                                 *)

\* While one activation may call waitpid, SIGCHLD is blocked by it and by
\* everything stacked on it: the other two handlers always assign `prev' before
\* they restore it, so that they cannot unblock SIGCHLD.
NestInv ==
    \A i \in 1 .. Len(frames) : Collecting(frames[i]) =>
        /\ "CHLD" \in mask
        /\ \A k \in 1 .. Len(frames) : k > i =>
              /\ frames[k].sig # "CHLD"
              /\ "CHLD" \in frames[k].saved
              /\ frames[k].at \in {"check", "kill", "restore"} =>
                    \A m \in frames[k].prev : "CHLD" \in m

\* Only a stop is news.
NewsInv == \A p \in Pid : proc[p].news => proc[p].ph = "stopped"

\* What a collecting handler holds in its hands: an end of a child that is
\* reaped, or a stop of one the shell has not continued since.
ReportInv ==
    \A i \in 1 .. Len(frames) :
        frames[i].sig = "CHLD" /\ frames[i].at \in {"block", "update"} =>
            /\ frames[i].pid \in Pid
            /\ IF frames[i].status = "ended" THEN proc[frames[i].pid].ph = "reaped"
               ELSE proc[frames[i].pid].ph \in {"stopped", "woken", "zombie"}

\* Rewriting the innermost activation keeps NestInv if what it becomes is still
\* safe for those it interrupts, and for itself.
LEMMA NestRewrite ==
    ASSUME TypeOK, NestInv, frames # <<>>, Rewrites,
           Collecting(Top)' => "CHLD" \in mask',
           ASSUME NEW i \in 1 .. Len(frames), i # Len(frames), Collecting(frames[i])
           PROVE  /\ "CHLD" \in mask'
                  /\ Top'.at \in {"check", "kill", "restore"} =>
                        \A m \in Top'.prev : "CHLD" \in m
    PROVE  NestInv'
<1>1. /\ Len(frames') = Len(frames) /\ Len(frames) \in Nat \ {0}
      /\ Top = frames[Len(frames)] /\ Top' = frames'[Len(frames)]
  BY TopProperties DEF Rewrites, Top, TypeOK
<1> SUFFICES ASSUME NEW i \in 1 .. Len(frames), Collecting(frames'[i])
             PROVE  /\ "CHLD" \in mask'
                    /\ \A k \in 1 .. Len(frames) : k > i =>
                          /\ frames'[k].sig # "CHLD"
                          /\ "CHLD" \in frames'[k].saved
                          /\ frames'[k].at \in {"check", "kill", "restore"} =>
                                \A m \in frames'[k].prev : "CHLD" \in m
  BY <1>1 DEF NestInv
<1>2. CASE i = Len(frames)
  BY <1>1, <1>2
<1>3. CASE i # Len(frames)
  <2>1. Collecting(frames[i])
    BY <1>3 DEF Rewrites
  <2>2. /\ "CHLD" \in mask'
        /\ Top'.at \in {"check", "kill", "restore"} => \A m \in Top'.prev : "CHLD" \in m
    BY <1>3, <2>1
  <2>3. ASSUME NEW k \in 1 .. Len(frames), k > i
        PROVE  /\ frames'[k].sig # "CHLD"
               /\ "CHLD" \in frames'[k].saved
               /\ frames'[k].at \in {"check", "kill", "restore"} =>
                     \A m \in frames'[k].prev : "CHLD" \in m
    <3>0. /\ frames[k].sig # "CHLD"
          /\ "CHLD" \in frames[k].saved
          /\ frames[k].at \in {"check", "kill", "restore"} =>
                \A m \in frames[k].prev : "CHLD" \in m
      BY <2>1, <2>3 DEF NestInv
    <3>1. CASE k = Len(frames)
      BY <1>1, <2>2, <3>0, <3>1 DEF Rewrites
    <3>2. CASE k # Len(frames)
      BY <3>0, <3>2 DEF Rewrites
    <3> QED
      BY <3>1, <3>2
  <2> QED
    BY <2>2, <2>3
<1> QED
  BY <1>2, <1>3

LEMMA NestStep ==
    ASSUME BaseInv, NestInv, [Next]_vars
    PROVE  NestInv'
<1> USE DEF BaseInv
<1>1. CASE UNCHANGED vars
  BY <1>1 DEF vars, NestInv, Collecting
<1>2. CASE MainQuiet \/ EvalResume \/ AddJob \/ (\E p \in Pid : Fork(p))
  <2>1. frames' = <<>>
    BY <1>2, MainRunsAlone
  <2> QED
    BY <2>1, EmptySeq DEF NestInv
<1>3. ASSUME NEW s \in Sig, Deliver(s) PROVE NestInv'
  <2>1. /\ s \notin mask /\ mask' = mask \cup {s}
        /\ Len(frames) \in Nat /\ Len(frames') = Len(frames) + 1
        /\ \A i \in 1 .. Len(frames) : frames'[i] = frames[i]
        /\ frames'[Len(frames')].sig = s /\ frames'[Len(frames')].at = "enter"
        /\ frames # <<>> => frames'[Len(frames')].saved = mask
    BY <1>3, DeliverEffect
  <2> SUFFICES ASSUME NEW i \in 1 .. Len(frames'), Collecting(frames'[i])
               PROVE  /\ "CHLD" \in mask'
                      /\ \A k \in 1 .. Len(frames') : k > i =>
                            /\ frames'[k].sig # "CHLD"
                            /\ "CHLD" \in frames'[k].saved
                            /\ frames'[k].at \in {"check", "kill", "restore"} =>
                                  \A m \in frames'[k].prev : "CHLD" \in m
    BY DEF NestInv
  <2>2. CASE i = Len(frames')
    BY <2>1, <2>2 DEF Collecting
  <2>3. CASE i # Len(frames')
    <3>1. i \in 1 .. Len(frames) /\ Collecting(frames[i])
      BY <2>1, <2>3
    <3>2. "CHLD" \in mask /\ s # "CHLD" /\ frames # <<>>
      BY <2>1, <3>1, EmptySeq DEF NestInv
    <3>3. ASSUME NEW k \in 1 .. Len(frames'), k > i
          PROVE  /\ frames'[k].sig # "CHLD"
                 /\ "CHLD" \in frames'[k].saved
                 /\ frames'[k].at \in {"check", "kill", "restore"} =>
                       \A m \in frames'[k].prev : "CHLD" \in m
      <4>1. CASE k = Len(frames')
        BY <2>1, <3>2, <4>1
      <4>2. CASE k # Len(frames')
        <5>1. k \in 1 .. Len(frames) /\ frames'[k] = frames[k]
          BY <2>1, <4>2
        <5> QED
          BY <3>1, <3>3, <5>1 DEF NestInv
      <4> QED
        BY <4>1, <4>2
    <3> QED
      BY <2>1, <3>2, <3>3
  <2> QED
    BY <2>2, <2>3
<1>4. CASE Handler
  <2>1. /\ frames # <<>> /\ Len(frames) \in Nat \ {0} /\ Len(frames) \in 1 .. Len(frames)
        /\ Top \in Frame /\ FrameOK(Top) /\ Top = frames[Len(frames)]
    BY <1>4, HandlerBasics DEF Top
  <2>2. HandlerTable
    BY <1>4, HandlerEffect
  <2>3. ASSUME NEW i \in 1 .. Len(frames), i # Len(frames), Collecting(frames[i])
        PROVE  /\ "CHLD" \in mask /\ Top.sig # "CHLD" /\ "CHLD" \in Top.saved
               /\ Top.at \in {"check", "kill", "restore"} => \A m \in Top.prev : "CHLD" \in m
    BY <2>1, <2>3 DEF NestInv
  <2>4. Collecting(Top) => "CHLD" \in mask
    BY <2>1 DEF NestInv
  <2>5. CASE ChldNoMore \/ ChldBlock \/ ChldDelete \/ (\E p \in Pid : ChldReap(p))
    <3>1. Top.sig = "CHLD" /\ Collecting(Top) /\ mask \subseteq mask'
      BY <2>5 DEF ChldNoMore, ChldBlock, ChldDelete, ChldReap, Collecting, TypeOK
    <3>2. Rewrites
      BY <2>2, <2>5 DEF HandlerTable, Moves
    <3> QED
      BY <2>1, <2>3, <2>4, <3>1, <3>2, NestRewrite
  <2>6. CASE ChldStop
    <3>1. Top.sig = "CHLD" /\ Collecting(Top) /\ UNCHANGED mask
      BY <2>6 DEF ChldStop, Collecting
    <3>2. CASE Rewrites
      BY <2>1, <2>3, <2>4, <3>1, <3>2, NestRewrite
    <3>3. CASE UNCHANGED frames
      BY <3>1, <3>3 DEF NestInv, Collecting
    <3> QED
      BY <2>2, <2>6, <3>2, <3>3 DEF HandlerTable, Moves
  <2>7. CASE FwdBlock
    <3>1. Top.sig # "CHLD" /\ mask \subseteq mask'
      BY <2>7 DEF FwdBlock
    <3>2. Rewrites /\ Top'.at = "check" /\ Top'.prev = {mask}
      BY <2>2, <2>7 DEF HandlerTable, Moves
    <3> QED
      BY <2>1, <2>3, <2>4, <3>1, <3>2, NestRewrite DEF Collecting
  <2>8. CASE FwdCheck \/ FwdSkip
    <3>1. UNCHANGED mask /\ Top.at = "check"
      BY <2>8 DEF FwdCheck, FwdSkip
    <3>2. Rewrites /\ Top'.at \in {"kill", "restore"} /\ Top'.prev = Top.prev
      BY <2>2, <2>8 DEF HandlerTable, Moves
    <3> QED
      BY <2>1, <2>3, <2>4, <3>1, <3>2, NestRewrite DEF Collecting
  <2>9. CASE FwdKill
    <3>1. UNCHANGED mask /\ Top.at = "kill"
      BY <2>9 DEF FwdKill
    <3>2. CASE Rewrites /\ Top'.at = "restore" /\ Top'.prev = Top.prev
      BY <2>1, <2>3, <2>4, <3>1, <3>2, NestRewrite DEF Collecting
    <3>3. CASE UNCHANGED frames
      BY <3>1, <3>3 DEF NestInv, Collecting
    <3> QED
      BY <2>2, <2>9, <3>2, <3>3 DEF HandlerTable, Moves
  <2>10. CASE HandlerRestore
    <3>1. mask' \in Top.prev /\ Top.at = "restore"
      BY <2>10 DEF HandlerRestore
    <3>2. Rewrites /\ Top'.at = "return"
      BY <2>2, <2>10 DEF HandlerTable, Moves
    <3> QED
      BY <2>1, <2>3, <2>4, <3>1, <3>2, NestRewrite DEF Collecting
  <2>11. CASE HandlerReturn
    <3>1. Pops
      BY <2>2, <2>11 DEF HandlerTable
    <3>2. ASSUME NEW i \in 1 .. Len(frames'), Collecting(frames'[i])
          PROVE  /\ "CHLD" \in mask'
                 /\ \A k \in 1 .. Len(frames') : k > i =>
                       /\ frames'[k].sig # "CHLD"
                       /\ "CHLD" \in frames'[k].saved
                       /\ frames'[k].at \in {"check", "kill", "restore"} =>
                             \A m \in frames'[k].prev : "CHLD" \in m
      <4>1. i \in 1 .. Len(frames) /\ i # Len(frames) /\ Collecting(frames[i])
        BY <2>1, <3>1, <3>2 DEF Pops
      <4>2. "CHLD" \in mask'
        BY <2>3, <3>1, <4>1 DEF Pops
      <4>3. \A k \in 1 .. Len(frames') : k \in 1 .. Len(frames) /\ frames'[k] = frames[k]
        BY <2>1, <3>1 DEF Pops
      <4> QED
        BY <4>1, <4>2, <4>3 DEF NestInv
    <3> QED
      BY <3>2 DEF NestInv
  <2> QED
    BY <1>4, <2>5, <2>6, <2>7, <2>8, <2>9, <2>10, <2>11 DEF Handler
<1>5. CASE Outside
  BY <1>5, OutsideEffect DEF NestInv, Collecting
<1> QED
  BY <1>1, <1>2, <1>3, <1>4, <1>5, NextSteps

\* A handler that collects is the only one, whatever interrupts it.
LEMMA OneCollector ==
    ASSUME TypeOK, NestInv, frames # <<>>, Collecting(Top),
           NEW i \in 1 .. Len(frames), i # Len(frames)
    PROVE  ~Collecting(frames[i])
<1>1. Len(frames) \in Nat \ {0} /\ Len(frames) \in 1 .. Len(frames)
  BY TopProperties DEF TypeOK
<1> QED
  BY <1>1 DEF NestInv, Collecting, Top

-----------------------------------------------------------------------------
(* What a handler holds is true when it acts on it.                        *)

\* Which steps of a handler change what: only waitpid changes a child.
LEMMA HandlerProc ==
    ASSUME Handler
    PROVE  UNCHANGED proc \/ \E q \in Pid : ChldReap(q)
BY DEF Handler, ChldNoMore, ChldBlock, ChldDelete, ChldStop, FwdBlock, FwdCheck, FwdSkip,
   FwdKill, HandlerRestore, HandlerReturn

LEMMA ReapEffect ==
    ASSUME TypeOK, NEW q \in Pid, ChldReap(q)
    PROVE  /\ \A p \in Pid : p # q => proc'[p] = proc[p]
           /\ proc[q].ph = "zombie" => proc'[q].ph = "reaped"
           /\ proc[q].ph # "zombie" =>
                 proc[q].news /\ ~proc'[q].news /\ proc'[q].ph = proc[q].ph
           /\ Top.sig = "CHLD" /\ Top.at = "enter"
           /\ UNCHANGED <<jobs, nextjid, mask, exited>>
BY DEF ChldReap, Reportable, TypeOK, listVars

LEMMA NewsStep ==
    ASSUME BaseInv, NewsInv, [Next]_vars
    PROVE  NewsInv'
<1> USE DEF BaseInv
<1>1. CASE UNCHANGED vars
  BY <1>1 DEF vars, NewsInv
<1>2. CASE MainQuiet
  BY <1>2, MainQuietEffect DEF NewsInv
<1>3. CASE AddJob
  BY <1>3 DEF AddJob, NewsInv
<1>4. CASE EvalResume
  BY <1>4 DEF EvalResume, Continued, NewsInv, TypeOK
<1>5. ASSUME NEW q \in Pid, Fork(q) PROVE NewsInv'
  BY <1>5 DEF Fork, NewsInv, TypeOK
<1>6. ASSUME NEW s \in Sig, Deliver(s) PROVE NewsInv'
  BY <1>6, DeliverEffect DEF NewsInv
<1>7. CASE Handler
  <2>1. CASE UNCHANGED proc
    BY <2>1 DEF NewsInv
  <2>2. ASSUME NEW q \in Pid, ChldReap(q) PROVE NewsInv'
    BY <2>2 DEF ChldReap, NewsInv, TypeOK
  <2> QED
    BY <1>7, <2>1, <2>2, HandlerProc
<1>8. CASE Outside
  BY <1>8, OutsideEffect DEF NewsInv, Advances, Ends, Stops, Wakes
<1> QED
  BY <1>1, <1>2, <1>3, <1>4, <1>5, <1>6, <1>7, <1>8, NextSteps

LEMMA ReportStep ==
    ASSUME BaseInv, NestInv, NewsInv, ReportInv, [Next]_vars
    PROVE  ReportInv'
<1> USE DEF BaseInv
<1>1. CASE UNCHANGED vars
  BY <1>1 DEF vars, ReportInv
<1>2. CASE MainQuiet \/ EvalResume \/ AddJob \/ (\E p \in Pid : Fork(p))
  <2>1. frames' = <<>>
    BY <1>2, MainRunsAlone
  <2> QED
    BY <2>1, EmptySeq DEF ReportInv
<1>3. ASSUME NEW s \in Sig, Deliver(s) PROVE ReportInv'
  <2>1. /\ UNCHANGED proc
        /\ Len(frames) \in Nat /\ Len(frames') = Len(frames) + 1
        /\ \A i \in 1 .. Len(frames) : frames'[i] = frames[i]
        /\ frames'[Len(frames')].at = "enter"
    BY <1>3, DeliverEffect
  <2>2. ASSUME NEW i \in 1 .. Len(frames'), frames'[i].at \in {"block", "update"}
        PROVE  i \in 1 .. Len(frames)
    BY <2>1, <2>2
  <2> QED
    BY <2>1, <2>2 DEF ReportInv
<1>4. CASE Handler
  <2>1. /\ frames # <<>> /\ Len(frames) \in Nat \ {0} /\ Len(frames) \in 1 .. Len(frames)
        /\ Top \in Frame /\ FrameOK(Top) /\ Top = frames[Len(frames)]
    BY <1>4, HandlerBasics DEF Top
  <2>2. HandlerTable
    BY <1>4, HandlerEffect
  <2>3. ASSUME Rewrites, UNCHANGED proc,
               Top'.at \in {"block", "update"} => Top.at \in {"block", "update"} /\ Keeps
        PROVE  ReportInv'
    <3> SUFFICES ASSUME NEW i \in 1 .. Len(frames),
                        frames'[i].sig = "CHLD", frames'[i].at \in {"block", "update"}
                 PROVE  /\ frames'[i].pid \in Pid
                        /\ IF frames'[i].status = "ended"
                           THEN proc'[frames'[i].pid].ph = "reaped"
                           ELSE proc'[frames'[i].pid].ph \in {"stopped", "woken", "zombie"}
      BY <2>3 DEF ReportInv, Rewrites
    <3>1. CASE i # Len(frames)
      BY <2>3, <3>1 DEF Rewrites, ReportInv
    <3>2. CASE i = Len(frames)
      <4>1. Top' = frames'[i] /\ Top = frames[i]
        BY <2>1, <2>3, <3>2 DEF Top, Rewrites
      <4> QED
        BY <2>1, <2>3, <3>2, <4>1 DEF Rewrites, ReportInv, Keeps
    <3> QED
      BY <3>1, <3>2
  <2>4. CASE ChldNoMore \/ ChldBlock \/ ChldDelete \/ FwdBlock \/ FwdCheck \/ FwdSkip
             \/ HandlerRestore
    <3>1. UNCHANGED proc
      BY <2>4 DEF ChldNoMore, ChldBlock, ChldDelete, FwdBlock, FwdCheck, FwdSkip, HandlerRestore
    <3> QED
      BY <2>2, <2>3, <2>4, <3>1 DEF HandlerTable, Moves
  <2>5. CASE ChldStop \/ FwdKill
    <3>1. UNCHANGED proc
      BY <2>5 DEF ChldStop, FwdKill
    <3>2. CASE UNCHANGED frames
      BY <3>1, <3>2 DEF ReportInv
    <3> QED
      BY <2>2, <2>3, <2>5, <3>1, <3>2 DEF HandlerTable, Moves
  <2>6. ASSUME NEW q \in Pid, ChldReap(q) PROVE ReportInv'
    <3>1. /\ Rewrites /\ Top'.pid = q
          /\ Top'.status = IF proc[q].ph = "zombie" THEN "ended" ELSE "stopped"
      BY <2>2, <2>6 DEF HandlerTable, Moves
    <3>2. Collecting(Top)
      BY <2>6, ReapEffect DEF Collecting
    <3>3. IF proc[q].ph = "zombie" THEN proc'[q].ph = "reaped" ELSE proc'[q].ph = "stopped"
      BY <2>6, ReapEffect DEF NewsInv
    <3> SUFFICES ASSUME NEW i \in 1 .. Len(frames),
                        frames'[i].sig = "CHLD", frames'[i].at \in {"block", "update"}
                 PROVE  /\ frames'[i].pid \in Pid
                        /\ IF frames'[i].status = "ended"
                           THEN proc'[frames'[i].pid].ph = "reaped"
                           ELSE proc'[frames'[i].pid].ph \in {"stopped", "woken", "zombie"}
      BY <3>1 DEF ReportInv, Rewrites
    <3>4. i = Len(frames)
      <4>1. ASSUME i # Len(frames) PROVE FALSE
        <5>1. frames'[i] = frames[i]
          BY <3>1, <4>1 DEF Rewrites
        <5>2. ~Collecting(frames[i])
          BY <2>1, <3>2, <4>1, OneCollector
        <5> QED
          BY <5>1, <5>2 DEF Collecting
      <4> QED
        BY <4>1
    <3>5. frames'[i] = Top'
      BY <2>1, <3>1, <3>4 DEF Top, Rewrites
    <3> QED
      BY <3>1, <3>3, <3>5
  <2>7. CASE HandlerReturn
    <3>1. Pops /\ UNCHANGED proc
      BY <2>2, <2>7 DEF HandlerTable, HandlerReturn
    <3>2. \A i \in 1 .. Len(frames') : i \in 1 .. Len(frames) /\ frames'[i] = frames[i]
      BY <2>1, <3>1 DEF Pops
    <3> QED
      BY <3>1, <3>2 DEF ReportInv
  <2> QED
    BY <1>4, <2>4, <2>5, <2>6, <2>7 DEF Handler
<1>5. CASE Outside
  <2>1. UNCHANGED frames
    BY <1>5, OutsideEffect
  <2>2. ASSUME NEW p \in Pid
        PROVE  /\ proc[p].ph = "reaped" => proc'[p].ph = "reaped"
               /\ proc[p].ph \in {"stopped", "woken", "zombie"} => proc'[p].ph \in {"stopped", "woken", "zombie"}
    BY <1>5, OutsideEffect DEF Advances, Ends, Stops, Wakes
  <2> QED
    BY <2>1, <2>2 DEF ReportInv
<1> QED
  BY <1>1, <1>2, <1>3, <1>4, <1>5, NextSteps

CollectInv == NestInv /\ NewsInv /\ ReportInv

LEMMA AlwaysCollecting == Spec => []CollectInv
<1>1. Init => CollectInv
  BY EmptySeq DEF Init, CollectInv, NestInv, NewsInv, ReportInv, NewProc
<1>2. BaseInv /\ CollectInv /\ [Next]_vars => CollectInv'
  BY NestStep, NewsStep, ReportStep DEF CollectInv
<1> QED
  BY <1>1, <1>2, AlwaysBase, PTL DEF Spec

-----------------------------------------------------------------------------
(* The list is the truth about the processes.                              *)

\* The activation f holds the report that p has stopped.
HoldsStop(f, p) ==
    /\ f.sig = "CHLD" /\ f.at \in {"block", "update"}
    /\ f.status = "stopped" /\ f.pid = p

StopInHand(p) == \E i \in 1 .. Len(frames) : HoldsStop(frames[i], p)

\* A stopped child is marked so, or the news of it is on its way; a child that
\* is marked as stopped has not been continued by the shell since.
EntryInv(j) ==
    /\ proc[jobs[j].pid].ph = "stopped" =>
          \/ jobs[j].state = "ST"
          \/ proc[jobs[j].pid].news
          \/ StopInHand(jobs[j].pid)
    /\ jobs[j].state = "ST" => proc[jobs[j].pid].ph \in {"stopped", "woken", "zombie", "reaped"}

StateInv ==
    exited = "no" =>
        /\ \A j \in Jid : Listed(j) => EntryInv(j)
        /\ pc = "forked" /\ proc[cur].ph = "stopped" => proc[cur].news

\* A report of a stop stays in hand unless the innermost activation gives it up.
LEMMA StopReportStays ==
    ASSUME TypeOK, frames # <<>>, Rewrites, NEW p, StopInHand(p),
           HoldsStop(Top, p) => HoldsStop(Top', p)
    PROVE  StopInHand(p)'
<1>1. PICK i \in 1 .. Len(frames) : HoldsStop(frames[i], p)
  BY DEF StopInHand
<1>2. Len(frames') = Len(frames) /\ Top = frames[Len(frames)] /\ Top' = frames'[Len(frames)]
  BY DEF Rewrites, Top
<1>3. HoldsStop(frames'[i], p)
  <2>1. CASE i = Len(frames)
    BY <1>1, <1>2, <2>1
  <2>2. CASE i # Len(frames)
    BY <1>1, <2>2 DEF Rewrites
  <2> QED
    BY <2>1, <2>2
<1> QED
  BY <1>2, <1>3 DEF StopInHand

\* A step that leaves the list alone keeps an entry true.
LEMMA EntryUntouched ==
    ASSUME NEW j, EntryInv(j), UNCHANGED <<jobs, proc>>,
           StopInHand(jobs[j].pid) => StopInHand(jobs[j].pid)'
    PROVE  EntryInv(j)'
BY DEF EntryInv

LEMMA StateStepMain ==
    ASSUME BaseInv, StateInv, MainQuiet \/ EvalResume \/ AddJob \/ (\E p \in Pid : Fork(p))
    PROVE  StateInv'
<1> USE DEF BaseInv
<1>0. frames = <<>> /\ UNCHANGED frames /\ exited = "no"
  BY MainRunsAlone
<1>a. \A p : StopInHand(p) => StopInHand(p)'
  BY <1>0 DEF StopInHand
<1>b. \A j \in Jid : Listed(j) => EntryInv(j)
  BY <1>0 DEF StateInv
<1>1. CASE MainQuiet
  <2>1. UNCHANGED <<jobs, proc>> /\ pc' # "forked"
    BY <1>1, MainQuietEffect
  <2>2. ASSUME NEW j \in Jid, Listed(j)' PROVE EntryInv(j)'
    BY <1>a, <1>b, <2>1, <2>2, EntryUntouched DEF Listed
  <2> QED
    BY <2>1, <2>2 DEF StateInv
<1>2. CASE EvalResume
  <2> DEFINE t == TargetJid
             q == TargetPid
  <2>1. /\ jobs' = [jobs EXCEPT ![t].state = TargetState]
        /\ proc' = Continued(q) /\ pc' # "forked" /\ JobExists(jobs, t)
    BY <1>2 DEF EvalResume, SetState, ReturnWith, WaitFor
  <2>2. t \in Jid /\ jobs[t].state # "UNDEF" /\ jobs[t].pid = q /\ q \in Pid
    BY <1>0, <2>1, TargetIsListed
  <2>3. TargetState \in {"FG", "BG"}
    BY DEF TargetState
  <2> HIDE DEF t, q
  <2>4. /\ jobs'[t].state = TargetState /\ jobs'[t].pid = q
        /\ \A j \in Jid : j # t => jobs'[j] = jobs[j]
    BY <2>1, <2>2 DEF TypeOK, JobListType
  <2>5. /\ proc'[q].ph # "stopped"
        /\ \A p \in Pid : p # q => proc'[p] = proc[p]
    BY <2>1, <2>2 DEF Continued, TypeOK
  <2>6. ASSUME NEW j \in Jid, Listed(j)' PROVE EntryInv(j)'
    <3>1. CASE j = t
      BY <2>3, <2>4, <2>5, <3>1 DEF EntryInv
    <3>2. CASE j # t
      <4>1. jobs'[j] = jobs[j] /\ Listed(j)
        BY <2>4, <2>6, <3>2 DEF Listed
      <4>2. jobs[j].pid # q /\ jobs[j].pid \in Pid
        BY <2>2, <3>2, <4>1 DEF ListInv, Listed
      <4>3. proc'[jobs[j].pid] = proc[jobs[j].pid]
        BY <2>5, <4>2
      <4> QED
        BY <1>a, <1>b, <4>1, <4>3 DEF EntryInv
    <3> QED
      BY <3>1, <3>2
  <2> QED
    BY <2>1, <2>6 DEF StateInv
<1>3. CASE AddJob
  <2>1. UNCHANGED proc /\ pc = "forked" /\ exited = "no"
    BY <1>3 DEF AddJob, Main
  <2> SUFFICES ASSUME exited' = "no" PROVE StateInv'
    BY <2>1 DEF StateInv
  <2>2. pc' # "forked"
    BY <1>3 DEF AddJob, ReturnWith, WaitFor
  <2>3. CASE nextjid > MAXJOBS
    <3>1. UNCHANGED jobs
      BY <1>3, <2>3 DEF AddJob, listVars
    <3>2. ASSUME NEW j \in Jid, Listed(j)' PROVE EntryInv(j)'
      BY <1>a, <1>b, <2>1, <3>1, <3>2, EntryUntouched DEF Listed
    <3> QED
      BY <2>2, <3>2 DEF StateInv
  <2>4. CASE ~(nextjid > MAXJOBS)
    <3>1. jobs' = [jobs EXCEPT ![nextjid] = [pid |-> cur, state |-> StartState]]
      BY <1>3, <2>4 DEF AddJob
    <3>2. nextjid \in Jid
      BY <2>4 DEF Jid, TypeOK
    <3>3. /\ jobs'[nextjid].pid = cur /\ jobs'[nextjid].state \in {"FG", "BG"}
          /\ \A j \in Jid : j # nextjid => jobs'[j] = jobs[j]
      BY <3>1, <3>2 DEF TypeOK, JobListType, StartState
    <3>4. proc'[cur].ph = "stopped" => proc'[cur].news
      BY <1>0, <2>1 DEF StateInv
    <3>5. ASSUME NEW j \in Jid, Listed(j)' PROVE EntryInv(j)'
      <4>1. CASE j = nextjid
        BY <3>3, <3>4, <4>1 DEF EntryInv
      <4>2. CASE j # nextjid
        BY <1>a, <1>b, <2>1, <3>3, <3>5, <4>2 DEF EntryInv, Listed
      <4> QED
        BY <4>1, <4>2
    <3> QED
      BY <2>2, <3>5 DEF StateInv
  <2> QED
    BY <2>3, <2>4
<1>4. ASSUME NEW q \in Pid, Fork(q) PROVE StateInv'
  <2>1. UNCHANGED jobs /\ proc[q].ph = "unused" /\ cur' = q
    BY <1>4 DEF Fork, listVars
  <2>2. /\ \A p \in Pid : p # q => proc'[p] = proc[p]
        /\ proc'[q].ph = "forked"
    BY <1>4 DEF Fork, TypeOK
  <2>3. ASSUME NEW j \in Jid, Listed(j)' PROVE EntryInv(j)'
    <3>1. Listed(j) /\ jobs[j].pid \in Pid /\ jobs[j].pid # q
      BY <2>1, <2>3 DEF ListInv, Listed
    <3> QED
      BY <1>a, <1>b, <2>1, <2>2, <3>1 DEF EntryInv
  <2> QED
    BY <2>1, <2>2, <2>3 DEF StateInv
<1> QED
  BY <1>1, <1>2, <1>3, <1>4

LEMMA StateStepDeliver ==
    ASSUME BaseInv, StateInv, NEW s \in Sig, Deliver(s)
    PROVE  StateInv'
<1> USE DEF BaseInv
<1>1. /\ UNCHANGED <<cur, jobs, proc, exited>> /\ exited = "no"
      /\ pc' = "forked" => pc = "forked"
      /\ Len(frames) \in Nat /\ Len(frames') = Len(frames) + 1
      /\ \A i \in 1 .. Len(frames) : frames'[i] = frames[i]
  BY DeliverEffect
<1>2. ASSUME NEW p, StopInHand(p) PROVE StopInHand(p)'
  <2>1. PICK i \in 1 .. Len(frames) : HoldsStop(frames[i], p)
    BY <1>2 DEF StopInHand
  <2>2. i \in 1 .. Len(frames') /\ HoldsStop(frames'[i], p)
    BY <1>1, <2>1
  <2> QED
    BY <2>2 DEF StopInHand
<1>3. ASSUME NEW j \in Jid, Listed(j)' PROVE EntryInv(j)'
  BY <1>1, <1>2, <1>3, EntryUntouched DEF StateInv, Listed
<1> QED
  BY <1>1, <1>3 DEF StateInv

LEMMA StateStepHandler ==
    ASSUME BaseInv, CollectInv, StateInv, Handler
    PROVE  StateInv'
<1> USE DEF BaseInv, CollectInv
<1>1. /\ frames # <<>> /\ exited = "no" /\ UNCHANGED pc
      /\ Len(frames) \in Nat \ {0} /\ Len(frames) \in 1 .. Len(frames)
      /\ Top \in Frame /\ FrameOK(Top) /\ Top = frames[Len(frames)]
  BY HandlerBasics DEF Top
<1>2. HandlerTable
  BY HandlerEffect
<1>3. pc' # "forked"
  BY <1>1 DEF MaskInv
<1>4. \A j \in Jid : Listed(j) => EntryInv(j)
  BY <1>1 DEF StateInv
<1> SUFFICES ASSUME exited' = "no", NEW j \in Jid, Listed(j)'
             PROVE  EntryInv(j)'
  BY <1>3 DEF StateInv
<1>5. CASE ChldNoMore \/ ChldBlock \/ FwdBlock \/ FwdCheck \/ FwdSkip \/ FwdKill \/ HandlerRestore
  <2>1. UNCHANGED <<jobs, proc>>
    BY <1>5 DEF ChldNoMore, ChldBlock, FwdBlock, FwdCheck, FwdSkip, FwdKill, HandlerRestore, listVars
  <2>2. ASSUME NEW p PROVE Rewrites /\ (HoldsStop(Top, p) => HoldsStop(Top', p))
    BY <1>2, <1>5 DEF HandlerTable, Moves, HoldsStop, Keeps, Rewrites
  <2>3. \A p : StopInHand(p) => StopInHand(p)'
    BY <1>1, <2>2, StopReportStays
  <2> QED
    BY <1>4, <2>1, <2>3, EntryUntouched DEF Listed
<1>6. CASE HandlerReturn
  <2>1. UNCHANGED <<jobs, proc>>
    BY <1>6 DEF HandlerReturn, listVars
  <2>2. Pops /\ Top.at = "return"
    BY <1>2, <1>6 DEF HandlerTable
  <2>3. ASSUME NEW p, StopInHand(p) PROVE StopInHand(p)'
    <3>1. PICK i \in 1 .. Len(frames) : HoldsStop(frames[i], p)
      BY <2>3 DEF StopInHand
    <3>2. i # Len(frames)
      BY <1>1, <2>2, <3>1 DEF HoldsStop
    <3>3. i \in 1 .. Len(frames') /\ frames'[i] = frames[i]
      BY <1>1, <2>2, <3>2 DEF Pops
    <3> QED
      BY <3>1, <3>3 DEF StopInHand
  <2> QED
    BY <1>4, <2>1, <2>3, EntryUntouched DEF Listed
<1>7. ASSUME NEW q \in Pid, ChldReap(q) PROVE EntryInv(j)'
  <2>1. /\ \A p \in Pid : p # q => proc'[p] = proc[p]
        /\ proc[q].ph = "zombie" => proc'[q].ph = "reaped"
        /\ proc[q].ph # "zombie" => proc[q].news /\ proc'[q].ph = proc[q].ph
        /\ Top.sig = "CHLD" /\ Top.at = "enter" /\ UNCHANGED jobs
    BY <1>7, ReapEffect
  <2>2. /\ Rewrites /\ Top'.at = "block" /\ Top'.pid = q
        /\ Top'.status = IF proc[q].ph = "zombie" THEN "ended" ELSE "stopped"
    BY <1>2, <1>7 DEF HandlerTable, Moves
  <2>3. Listed(j) /\ jobs[j].pid \in Pid /\ EntryInv(j)
    BY <1>4, <2>1 DEF ListInv, Listed
  <2>4. \A p : StopInHand(p) => StopInHand(p)'
    BY <1>1, <2>1, <2>2, StopReportStays DEF HoldsStop
  <2>5. CASE jobs[j].pid # q
    BY <2>1, <2>3, <2>4, <2>5 DEF EntryInv
  <2>6. CASE jobs[j].pid = q /\ proc[q].ph = "zombie"
    BY <2>1, <2>6 DEF EntryInv
  <2>7. CASE jobs[j].pid = q /\ proc[q].ph # "zombie"
    <3>1. HoldsStop(Top', q)
      BY <2>1, <2>2, <2>7 DEF HoldsStop, Rewrites
    <3>2. StopInHand(q)'
      BY <1>1, <2>2, <3>1 DEF StopInHand, Rewrites, Top
    <3>3. jobs[j].state = "ST" => proc'[q].ph \in {"stopped", "woken", "zombie", "reaped"}
      BY <2>1, <2>3, <2>7 DEF EntryInv
    <3>4. jobs'[j].pid = q /\ jobs'[j].state = jobs[j].state
      BY <2>1, <2>7
    <3> QED
      BY <3>2, <3>3, <3>4 DEF EntryInv
  <2> QED
    BY <2>5, <2>6, <2>7
<1>8. CASE ChldDelete
  <2>1. UNCHANGED proc /\ Top.status = "ended"
    BY <1>8 DEF ChldDelete
  <2>2. Rewrites
    BY <1>2, <1>8 DEF HandlerTable, Moves
  <2>3. \A p : StopInHand(p) => StopInHand(p)'
    BY <1>1, <2>1, <2>2, StopReportStays DEF HoldsStop
  <2>4. jobs'[j] = jobs[j] /\ Listed(j)
    <3> DEFINE jid == JobFromPid(jobs, Top.pid)
    <3>1. jobs' = [jobs EXCEPT ![jid] = Cleared] \/ jobs' = jobs
      BY <1>8 DEF ChldDelete, listVars
    <3> HIDE DEF jid
    <3>2. jobs'[j] = jobs[j] \/ jobs'[j] = Cleared
      BY <3>1 DEF TypeOK, JobListType
    <3> QED
      BY <3>2 DEF Listed, Cleared
  <2> QED
    BY <1>4, <2>1, <2>3, <2>4 DEF EntryInv
<1>9. CASE ChldStop
  <2> DEFINE jid == JobFromPid(jobs, Top.pid)
             q == Top.pid
  <2>1. /\ UNCHANGED proc /\ JobExists(jobs, jid)
        /\ jobs' = [jobs EXCEPT ![jid].state = "ST"]
        /\ Top.sig = "CHLD" /\ Top.at = "update" /\ Top.status = "stopped"
    BY <1>9 DEF ChldStop, SetState
  <2>2. jid \in Jid /\ jobs[jid].state # "UNDEF" /\ jobs[jid].pid = q
    BY <2>1, JobFromPidProperties DEF JobExists, Jid
  <2>3. Rewrites
    BY <1>1, <1>2, <1>9 DEF HandlerTable, Moves
  <2>4. proc[q].ph \in {"stopped", "woken", "zombie"}
    BY <1>1, <2>1 DEF ReportInv
  <2> HIDE DEF jid, q
  <2>5. /\ jobs'[jid].state = "ST" /\ jobs'[jid].pid = q
        /\ \A i \in Jid : i # jid => jobs'[i] = jobs[i]
    BY <2>1, <2>2 DEF TypeOK, JobListType
  <2>6. CASE j = jid
    BY <2>1, <2>4, <2>5, <2>6 DEF EntryInv
  <2>7. CASE j # jid
    <3>1. jobs'[j] = jobs[j] /\ Listed(j)
      BY <2>5, <2>7 DEF Listed
    <3>2. jobs[j].pid # q
      BY <2>2, <2>7, <3>1 DEF ListInv, Listed
    <3>3. StopInHand(jobs[j].pid) => StopInHand(jobs[j].pid)'
      <4>1. \A p : p # q /\ StopInHand(p) => StopInHand(p)'
        BY <1>1, <2>3, StopReportStays DEF HoldsStop, q
      <4>2. jobs'[j].pid = jobs[j].pid
        BY <3>1
      <4> QED
        BY <3>2, <4>1, <4>2
    <3> QED
      BY <1>4, <2>1, <3>1, <3>3 DEF EntryInv
  <2> QED
    BY <2>6, <2>7
<1> QED
  BY <1>5, <1>6, <1>7, <1>8, <1>9 DEF Handler

LEMMA StateStepOutside ==
    ASSUME BaseInv, StateInv, Outside
    PROVE  StateInv'
<1> USE DEF BaseInv
<1>1. /\ UNCHANGED <<pc, cur, frames, jobs>> /\ exited = "no"
      /\ \A p \in Pid : proc'[p] = proc[p] \/ Advances(p) \/ Ends(p) \/ Stops(p) \/ Wakes(p)
  BY OutsideEffect
<1>2. \A p : StopInHand(p) => StopInHand(p)'
  BY <1>1 DEF StopInHand
<1>3. ASSUME NEW p \in Pid
      PROVE  /\ proc'[p].ph = "stopped" => proc'[p] = proc[p] \/ proc'[p].news
             /\ proc[p].ph \in {"stopped", "woken", "zombie", "reaped"} =>
                   proc'[p].ph \in {"stopped", "woken", "zombie", "reaped"}
  BY <1>1 DEF Advances, Ends, Stops, Wakes
<1>4. ASSUME NEW j \in Jid, Listed(j)' PROVE EntryInv(j)'
  <2>1. Listed(j) /\ jobs[j].pid \in Pid /\ EntryInv(j) /\ jobs'[j] = jobs[j]
    BY <1>1, <1>4 DEF ListInv, Listed, StateInv
  <2> QED
    BY <1>2, <1>3, <2>1 DEF EntryInv
<1>5. pc' = "forked" /\ proc'[cur'].ph = "stopped" => proc'[cur'].news
  BY <1>1, <1>3 DEF ForkedInv, StateInv
<1> QED
  BY <1>4, <1>5 DEF StateInv

LEMMA StateStep ==
    ASSUME BaseInv, CollectInv, StateInv, [Next]_vars
    PROVE  StateInv'
<1>1. CASE UNCHANGED vars
  BY <1>1 DEF vars, StateInv, Listed, EntryInv, StopInHand
<1>2. CASE Next
  BY <1>2, NextSteps, StateStepMain, StateStepDeliver, StateStepHandler, StateStepOutside
<1> QED
  BY <1>1, <1>2

\* With no handler active and no SIGCHLD pending every stopped job is marked
\* so; one that is marked so is stopped or was continued by somebody else; and
\* none has ended.
THEOREM StatesAlwaysAccurate == Spec => []StatesAreAccurate
<1>1. Init => StateInv
  BY DEF Init, StateInv, Listed, EmptyJobList, Cleared
<1>2. BaseInv /\ CollectInv /\ StateInv /\ [Next]_vars => StateInv'
  BY StateStep
<1>3. BaseInv /\ CollectInv /\ StateInv /\ NoLostChild => StatesAreAccurate
  <2> SUFFICES ASSUME BaseInv, StateInv, NoLostChild, exited = "no", frames = <<>>,
                      "CHLD" \notin pending, NEW j \in Jid, Listed(j)
               PROVE  /\ proc[jobs[j].pid].ph = "stopped" => jobs[j].state = "ST"
                      /\ jobs[j].state = "ST" => proc[jobs[j].pid].ph \in {"stopped", "woken"}
                      /\ proc[jobs[j].pid].ph # "zombie"
    BY DEF StatesAreAccurate
  <2>1. Len(frames) = 0 /\ DOMAIN frames = {}
    BY EmptySeq
  <2>2. \A p \in Pid : ~Reportable(p)
    BY <2>1 DEF NoLostChild
  <2>3. jobs[j].pid \in Pid /\ EntryInv(j) /\ proc[jobs[j].pid].ph # "reaped"
    BY <2>1 DEF BaseInv, ListInv, StateInv, InHand
  <2>4. ~StopInHand(jobs[j].pid)
    BY <2>1 DEF StopInHand
  <2> QED
    BY <2>2, <2>3, <2>4 DEF EntryInv, Reportable
<1> QED
  BY <1>1, <1>2, <1>3, AlwaysBase, AlwaysCollecting, ChildrenNeverLost, PTL DEF Spec

-----------------------------------------------------------------------------
(* Every child is on the list, when there are no more children than slots. *)

\* The children add_job has been called for.
Added == {p \in Pid : proc[p].ph # "unused" /\ ~(pc = "forked" /\ p = cur)}

\* delete_job leaves holes in the array and nextjid never moves down past the
\* largest job id, yet it has passed no more slots than there were children.
CountInv == nextjid <= Cardinality(Added) + 1

LEMMA AddedUntouched ==
    ASSUME \A p \in Pid : proc'[p].ph = "unused" <=> proc[p].ph = "unused",
           \/ UNCHANGED cur /\ (pc' = "forked" <=> pc = "forked")
           \/ pc' # "forked" /\ pc # "forked"
    PROVE  Added' = Added
BY DEF Added

\* The child add_job is called for is not yet counted.
LEMMA AddedGrows ==
    ASSUME BaseInv, pc = "forked", pc' # "forked", UNCHANGED proc
    PROVE  cur \in Pid /\ cur \notin Added /\ Added' = Added \cup {cur}
BY DEF BaseInv, ForkedInv, Added

\* There is a slot left for it.
LEMMA SlotLeft ==
    ASSUME BaseInv, CountInv, pc = "forked", IsFiniteSet(Pid), Cardinality(Pid) <= MAXJOBS
    PROVE  nextjid <= MAXJOBS
<1>1. cur \in Pid /\ cur \notin Added /\ Added \cup {cur} \subseteq Pid
  BY DEF BaseInv, ForkedInv, Added
<1>2. IsFiniteSet(Added) /\ Added \subseteq Pid
  BY <1>1, FS_Subset
<1>3. Cardinality(Added \cup {cur}) = Cardinality(Added) + 1
  BY <1>1, <1>2, FS_AddElement
<1>4. Cardinality(Added \cup {cur}) <= Cardinality(Pid)
  BY <1>1, FS_Subset
<1>5. Cardinality(Added) \in Nat /\ Cardinality(Pid) \in Nat /\ nextjid \in Nat
  BY <1>2, FS_CardinalityType DEF BaseInv, TypeOK
<1> QED
  BY <1>3, <1>4, <1>5 DEF CountInv

LEMMA CountStep ==
    ASSUME IsFiniteSet(Pid), BaseInv, CountInv, [Next]_vars
    PROVE  CountInv'
<1> USE DEF BaseInv
<1>0. nextjid \in Nat \ {0} /\ Cardinality(Added) \in Nat /\ IsFiniteSet(Added)
  <2>1. IsFiniteSet(Added)
    BY FS_Subset DEF Added
  <2> QED
    BY <2>1, FS_CardinalityType DEF TypeOK
<1>a. ASSUME Added' = Added, UNCHANGED nextjid PROVE CountInv'
  BY <1>a DEF CountInv
<1>1. CASE UNCHANGED vars
  BY <1>1 DEF vars, CountInv, Added
<1>2. CASE MainQuiet
  BY <1>2, <1>a, MainQuietEffect, AddedUntouched
<1>3. CASE EvalResume
  <2>1. UNCHANGED nextjid /\ pc # "forked" /\ pc' # "forked"
    BY <1>3 DEF EvalResume, Main, ReturnWith, WaitFor
  <2>2. \A p \in Pid : proc'[p].ph = "unused" <=> proc[p].ph = "unused"
    BY <1>3 DEF EvalResume, Continued, TypeOK
  <2> QED
    BY <1>a, <2>1, <2>2, AddedUntouched
<1>4. CASE AddJob
  <2>1. UNCHANGED proc /\ pc = "forked"
    BY <1>4 DEF AddJob, Main
  <2>2. CASE exited' # "no"
    <3>1. UNCHANGED <<pc, cur, nextjid>>
      BY <1>4, <2>2 DEF AddJob, shellVars, listVars
    <3> QED
      BY <1>a, <2>1, <3>1, AddedUntouched
  <2>3. CASE exited' = "no"
    <3>1. pc' # "forked" /\ nextjid' \in {nextjid, nextjid + 1}
      BY <1>4, <2>3 DEF AddJob, ReturnWith, WaitFor, listVars
    <3>2. cur \notin Added /\ Added' = Added \cup {cur}
      BY <2>1, <3>1, AddedGrows
    <3>3. Cardinality(Added') = Cardinality(Added) + 1
      BY <1>0, <3>2, FS_AddElement
    <3> QED
      BY <1>0, <3>1, <3>3 DEF CountInv
  <2> QED
    BY <2>2, <2>3
<1>5. ASSUME NEW q \in Pid, Fork(q) PROVE CountInv'
  <2>1. /\ UNCHANGED nextjid /\ pc = "eval" /\ pc' = "forked" /\ cur' = q
        /\ proc[q].ph = "unused" /\ \A p \in Pid : p # q => proc'[p] = proc[p]
    BY <1>5 DEF Fork, Main, listVars, TypeOK
  <2>2. Added' = Added
    BY <2>1 DEF Added
  <2> QED
    BY <1>a, <2>1, <2>2
<1>6. ASSUME NEW s \in Sig, Deliver(s) PROVE CountInv'
  BY <1>6, <1>a, DeliverEffect, AddedUntouched
<1>7. CASE Handler
  <2>1. UNCHANGED <<pc, cur>>
    BY <1>7, HandlerBasics
  <2>2. \A p \in Pid : proc'[p].ph = "unused" <=> proc[p].ph = "unused"
    <3>1. ASSUME NEW q \in Pid, ChldReap(q), NEW p \in Pid
          PROVE  proc'[p].ph = "unused" <=> proc[p].ph = "unused"
      BY <3>1, ReapEffect
    <3> QED
      BY <1>7, <3>1, HandlerProc
  <2>3. Added' = Added
    BY <2>1, <2>2, AddedUntouched
  <2>4. CASE ChldDelete
    <3>1. CASE UNCHANGED nextjid
      BY <1>a, <2>3, <3>1
    <3>2. CASE nextjid' # nextjid
      <4> DEFINE jid == JobFromPid(jobs, Top.pid)
      <4>1. /\ jobs' = [jobs EXCEPT ![jid] = Cleared]
            /\ \E m \in 0 .. MAXJOBS : IsMaxJid(jobs', m) /\ nextjid' = NextAfter(m)
        BY <2>4, <3>2 DEF ChldDelete, listVars
      <4> HIDE DEF jid
      <4>2. PICK m \in 0 .. MAXJOBS : IsMaxJid(jobs', m) /\ nextjid' = m + 1
        BY <4>1 DEF NextAfter
      <4>3. m # 0 => m \in Jid /\ jobs'[m].state # "UNDEF"
        BY <4>2 DEF IsMaxJid, JobExists
      <4>4. m # 0 => Listed(m)
        BY <4>1, <4>3 DEF Listed, Cleared, TypeOK, JobListType
      <4>5. m < nextjid
        BY <1>0, <4>3, <4>4 DEF ListInv
      <4> QED
        BY <1>0, <2>3, <4>2, <4>5 DEF CountInv
    <3> QED
      BY <3>1, <3>2
  <2>5. CASE ~ChldDelete
    <3>1. UNCHANGED nextjid
      BY <1>7, <2>5 DEF Handler, ChldNoMore, ChldBlock, ChldStop, FwdBlock, FwdCheck, FwdSkip,
         FwdKill, HandlerRestore, HandlerReturn, ChldReap, listVars
    <3> QED
      BY <1>a, <2>3, <3>1
  <2> QED
    BY <2>4, <2>5
<1>8. CASE Outside
  <2>1. UNCHANGED <<pc, cur, nextjid>>
    BY <1>8, OutsideEffect
  <2>2. \A p \in Pid : proc'[p].ph = "unused" <=> proc[p].ph = "unused"
    BY <1>8, OutsideEffect DEF Advances, Ends, Stops, Wakes
  <2> QED
    BY <1>a, <2>1, <2>2, AddedUntouched
<1> QED
  BY <1>1, <1>2, <1>3, <1>4, <1>5, <1>6, <1>7, <1>8, NextSteps

\* p is a job on the list.
IsJob(p) == \E j \in Jid : Listed(j) /\ jobs[j].pid = p

\* A live child, other than the one add_job is about to be called for.
Tracked(p) == Alive(p) /\ ~(pc = "forked" /\ p = cur)

\* What EveryChildIsListed says of an instance with enough slots.
ListedInv ==
    /\ exited # "abort_untracked"
    /\ exited = "no" => \A p \in Pid : Tracked(p) => IsJob(p)

LEMMA ListedUntouched ==
    ASSUME ListedInv, exited = "no", exited' # "abort_untracked",
           \A p \in Pid : Tracked(p)' => Tracked(p),
           \A p \in Pid : Alive(p)' /\ IsJob(p) => IsJob(p)'
    PROVE  ListedInv'
BY DEF ListedInv, Tracked

LEMMA ListedStepMain ==
    ASSUME IsFiniteSet(Pid), Cardinality(Pid) <= MAXJOBS, BaseInv, CountInv, ListedInv,
           MainQuiet \/ EvalResume \/ AddJob \/ (\E p \in Pid : Fork(p))
    PROVE  ListedInv'
<1> USE DEF BaseInv
<1>0. frames = <<>> /\ exited = "no"
  BY MainRunsAlone
<1>1. CASE MainQuiet
  <2>1. UNCHANGED <<jobs, proc>> /\ pc # "forked" /\ pc' # "forked"
    BY <1>1, MainQuietEffect
  <2>2. exited' # "abort_untracked"
    BY <1>1, <1>0 DEF MainQuiet, ReadCommand, ReadEOF, EvalNop, EvalOutfileFails, EvalQuit, EvalNoSuchJob,
       EvalJobAbort, EvalKillpgFails, ForkFails, Suspend, WaitDone
  <2> QED
    BY <1>0, <2>1, <2>2, ListedUntouched DEF Tracked, Alive, IsJob, Listed
<1>2. CASE EvalResume
  <2> DEFINE t == TargetJid
  <2>1. /\ jobs' = [jobs EXCEPT ![t].state = TargetState] /\ proc' = Continued(TargetPid)
        /\ pc # "forked" /\ pc' # "forked" /\ t \in Jid /\ jobs[t].state # "UNDEF"
        /\ UNCHANGED exited
    BY <1>2 DEF EvalResume, SetState, Main, ReturnWith, WaitFor, JobExists
  <2>2. \A p \in Pid : Alive(p)' => Alive(p)
    BY <2>1 DEF Alive, Continued, TypeOK
  <2> HIDE DEF t
  <2>3. /\ jobs'[t].state \in {"FG", "BG"} /\ jobs'[t].pid = jobs[t].pid
        /\ \A j \in Jid : j # t => jobs'[j] = jobs[j]
    BY <2>1 DEF TypeOK, JobListType, TargetState
  <2>4. \A j \in Jid : (Listed(j) => Listed(j)') /\ jobs'[j].pid = jobs[j].pid
    BY <2>3 DEF Listed
  <2>5. \A p \in Pid : IsJob(p) => IsJob(p)'
    BY <2>4 DEF IsJob
  <2> QED
    BY <1>0, <2>1, <2>2, <2>5, ListedUntouched DEF Tracked
<1>3. CASE AddJob
  <2>1. /\ UNCHANGED proc /\ pc = "forked"
        /\ exited' \in {AddJobAbort, "memory"}
    BY <1>3 DEF AddJob, Main
  <2>2. CASE exited' # "no"
    BY <2>1, <2>2 DEF ListedInv, AddJobAbort
  <2>3. CASE exited' = "no"
    <3>1. nextjid <= MAXJOBS
      BY <2>1, SlotLeft
    <3>2. nextjid \in Jid /\ ~(nextjid > MAXJOBS)
      BY <3>1 DEF TypeOK, Jid
    <3>3. jobs' = [jobs EXCEPT ![nextjid] = [pid |-> cur, state |-> StartState]]
      BY <1>3, <2>3, <3>2 DEF AddJob
    <3>4. /\ jobs'[nextjid].pid = cur /\ jobs'[nextjid].state # "UNDEF"
          /\ \A j \in Jid : j # nextjid => jobs'[j] = jobs[j]
      BY <3>2, <3>3 DEF TypeOK, JobListType, StartState
    <3>5. jobs[nextjid].state = "UNDEF"
      BY <3>2 DEF ListInv, Listed, Jid
    <3>6. \A j \in Jid : Listed(j) => Listed(j)' /\ jobs'[j].pid = jobs[j].pid
      BY <3>4, <3>5 DEF Listed
    <3>7. ASSUME NEW p \in Pid, Alive(p)' PROVE IsJob(p)'
      <4>1. CASE p = cur
        BY <3>2, <3>4, <4>1 DEF IsJob, Listed
      <4>2. CASE p # cur
        <5>1. Tracked(p)
          BY <2>1, <3>7, <4>2 DEF Tracked, Alive
        <5>2. PICK j \in Jid : Listed(j) /\ jobs[j].pid = p
          BY <1>0, <5>1 DEF ListedInv, IsJob
        <5> QED
          BY <3>6, <5>2 DEF IsJob
      <4> QED
        BY <4>1, <4>2
    <3> QED
      BY <2>1, <2>3, <3>7 DEF ListedInv, Tracked
  <2> QED
    BY <2>2, <2>3
<1>4. ASSUME NEW q \in Pid, Fork(q) PROVE ListedInv'
  <2>1. /\ UNCHANGED <<jobs, exited>> /\ pc = "eval" /\ pc' = "forked" /\ cur' = q
        /\ \A p \in Pid : p # q => proc'[p] = proc[p]
    BY <1>4 DEF Fork, Main, listVars, TypeOK
  <2>2. \A p \in Pid : Tracked(p)' => Tracked(p)
    BY <2>1 DEF Tracked, Alive
  <2> QED
    BY <1>0, <2>1, <2>2, ListedUntouched DEF IsJob, Listed
<1> QED
  BY <1>1, <1>2, <1>3, <1>4

LEMMA ListedStepHandler ==
    ASSUME BaseInv, CollectInv, ListedInv, Handler
    PROVE  ListedInv'
<1> USE DEF BaseInv, CollectInv
<1>1. /\ frames # <<>> /\ exited = "no" /\ UNCHANGED <<pc, cur>> /\ pc # "forked"
      /\ Len(frames) \in Nat \ {0} /\ Len(frames) \in 1 .. Len(frames)
      /\ FrameOK(Top) /\ Top = frames[Len(frames)]
  BY HandlerBasics DEF Top, MaskInv
<1>2. \A p \in Pid : Alive(p) => IsJob(p)
  BY <1>1 DEF ListedInv, Tracked
<1>3. \A p \in Pid : Alive(p)' => Alive(p)
  <2>1. ASSUME NEW q \in Pid, ChldReap(q), NEW p \in Pid, Alive(p)' PROVE Alive(p)
    BY <2>1, ReapEffect DEF Alive
  <2> QED
    BY <2>1, HandlerProc DEF Alive
<1>4. \A p \in Pid : Tracked(p)' => Tracked(p)
  BY <1>1, <1>3 DEF Tracked
<1>5. CASE ChldDelete
  <2> DEFINE jid == JobFromPid(jobs, Top.pid)
  <2>1. UNCHANGED <<proc, exited>> /\ (JobExists(jobs, jid) \/ UNCHANGED jobs)
        /\ Top.sig = "CHLD" /\ Top.at = "update" /\ Top.status = "ended"
    BY <1>5 DEF ChldDelete, listVars
  <2>2. proc[Top.pid].ph = "reaped"
    BY <1>1, <2>1 DEF ReportInv
  <2>3. CASE UNCHANGED jobs
    BY <1>1, <1>4, <2>1, <2>3, ListedUntouched DEF IsJob, Listed
  <2>4. CASE JobExists(jobs, jid)
    <3>1. jid \in Jid /\ jobs[jid].pid = Top.pid /\ jobs' = [jobs EXCEPT ![jid] = Cleared]
      BY <1>5, <2>4, JobFromPidProperties DEF ChldDelete, JobExists, Jid
    <3> HIDE DEF jid
    <3>2. \A j \in Jid : j # jid => jobs'[j] = jobs[j]
      BY <3>1 DEF TypeOK, JobListType
    <3>3. ASSUME NEW p \in Pid, Alive(p)', IsJob(p) PROVE IsJob(p)'
      <4>1. PICK j \in Jid : Listed(j) /\ jobs[j].pid = p
        BY <3>3 DEF IsJob
      <4>2. j # jid
        BY <2>1, <2>2, <3>1, <3>3, <4>1 DEF Alive
      <4> QED
        BY <3>2, <4>1, <4>2 DEF IsJob, Listed
    <3> QED
      BY <1>1, <1>4, <2>1, <3>3, ListedUntouched
  <2> QED
    BY <2>1, <2>3, <2>4
<1>6. CASE ChldStop
  <2> DEFINE jid == JobFromPid(jobs, Top.pid)
  <2>1. Top.sig = "CHLD" /\ Top.at = "update" /\ Top.status = "stopped"
    BY <1>6 DEF ChldStop
  <2>2. Top.pid \in Pid /\ Alive(Top.pid)
    BY <1>1, <2>1 DEF ReportInv, Alive
  <2>3. jid # 0 /\ jid \in Jid /\ jobs[jid].state # "UNDEF"
    <3>1. PICK j \in Jid : Listed(j) /\ jobs[j].pid = Top.pid
      BY <1>2, <2>2 DEF IsJob
    <3> QED
      BY <3>1, JobFromPidProperties DEF Listed
  <2>4. jobs' = [jobs EXCEPT ![jid].state = "ST"] /\ UNCHANGED exited
    BY <1>6, <2>3 DEF ChldStop, JobExists, SetState
  <2> HIDE DEF jid
  <2>5. \A j \in Jid : (Listed(j) => Listed(j)') /\ jobs'[j].pid = jobs[j].pid
    <3>1. /\ jobs'[jid].state = "ST" /\ jobs'[jid].pid = jobs[jid].pid
          /\ \A j \in Jid : j # jid => jobs'[j] = jobs[j]
      BY <2>3, <2>4 DEF TypeOK, JobListType
    <3> QED
      BY <3>1 DEF Listed
  <2> QED
    BY <1>1, <1>4, <2>4, <2>5, ListedUntouched DEF IsJob
<1>7. CASE ~(ChldDelete \/ ChldStop)
  <2>1. UNCHANGED jobs /\ exited' # "abort_untracked"
    BY <1>1, <1>7 DEF Handler, ChldNoMore, ChldBlock, FwdBlock, FwdCheck, FwdSkip,
       FwdKill, HandlerRestore, HandlerReturn, ChldReap, listVars
  <2> QED
    BY <1>1, <1>4, <2>1, ListedUntouched DEF IsJob, Listed
<1> QED
  BY <1>5, <1>6, <1>7

LEMMA ListedStep ==
    ASSUME IsFiniteSet(Pid), Cardinality(Pid) <= MAXJOBS, BaseInv, CollectInv, CountInv,
           ListedInv, [Next]_vars
    PROVE  ListedInv'
<1>1. CASE UNCHANGED vars
  BY <1>1 DEF vars, ListedInv, Tracked, Alive, IsJob, Listed
<1>2. ASSUME NEW s \in Sig, Deliver(s) PROVE ListedInv'
  <2>1. /\ UNCHANGED <<cur, jobs, proc, exited>> /\ exited = "no"
        /\ pc' = "forked" <=> pc = "forked"
    BY <1>2, DeliverEffect DEF BaseInv
  <2> QED
    BY <2>1 DEF ListedInv, Tracked, Alive, IsJob, Listed
<1>3. CASE Outside
  <2>1. /\ UNCHANGED <<pc, cur, jobs>> /\ exited = "no" /\ exited' # "abort_untracked"
        /\ \A p \in Pid : proc'[p] = proc[p] \/ Advances(p) \/ Ends(p) \/ Stops(p) \/ Wakes(p)
    BY <1>3, OutsideEffect DEF BaseInv
  <2>2. \A p \in Pid : Tracked(p)' => Tracked(p)
    BY <2>1 DEF Advances, Ends, Stops, Wakes, Tracked, Alive
  <2> QED
    BY <2>1, <2>2, ListedUntouched DEF IsJob, Listed
<1> QED
  BY <1>1, <1>2, <1>3, NextSteps, ListedStepMain, ListedStepHandler

\* With at least as many slots as children every live child is on the list, from
\* add_job until delete_job, so that the SIGCHLD handler never aborts on a child
\* that has stopped.
THEOREM EveryChildAlwaysListed ==
    ASSUME IsFiniteSet(Pid)
    PROVE  Spec => []EveryChildIsListed
<1>1. CASE Cardinality(Pid) <= MAXJOBS
  <2>1. Init => CountInv /\ ListedInv
    <3> SUFFICES ASSUME Init PROVE CountInv /\ ListedInv
      OBVIOUS
    <3>1. /\ \A p \in Pid : proc[p].ph = "unused"
          /\ nextjid = 1 /\ exited = "no"
      BY DEF Init, NewProc
    <3>2. Added = {}
      BY <3>1 DEF Added
    <3>3. Cardinality(Added) = 0
      BY <3>2, FS_EmptySet
    <3> QED
      BY <3>1, <3>3 DEF CountInv, ListedInv, Tracked, Alive
  <2>2. BaseInv /\ CollectInv /\ CountInv /\ ListedInv /\ [Next]_vars => CountInv' /\ ListedInv'
    BY <1>1, CountStep, ListedStep
  <2>3. ListedInv => EveryChildIsListed
    BY DEF ListedInv, EveryChildIsListed, Tracked, IsJob
  <2> QED
    BY <2>1, <2>2, <2>3, AlwaysBase, AlwaysCollecting, PTL DEF Spec
<1>2. CASE ~(Cardinality(Pid) <= MAXJOBS)
  <2>1. EveryChildIsListed
    BY <1>2 DEF EveryChildIsListed
  <2> QED
    BY <2>1, PTL
<1> QED
  BY <1>1, <1>2

-----------------------------------------------------------------------------
(* The shell implements JobControl.                                        *)

\* The child eval waits for is one (tmp may still be 0, if it is on no job).
WaitInv == pc \in {"wait", "suspend"} => cur \in Pid

LEMMA WaitStep ==
    ASSUME BaseInv, WaitInv, [Next]_vars
    PROVE  WaitInv'
<1> USE DEF BaseInv
<1>1. CASE UNCHANGED vars
  BY <1>1 DEF vars, WaitInv
<1>2. CASE MainQuiet
  <2>1. pc' \in {"wait", "suspend"} => pc \in {"wait", "suspend"} /\ UNCHANGED cur
    BY <1>2 DEF MainQuiet, ReadCommand, ReadEOF, EvalNop, EvalOutfileFails, EvalQuit, EvalNoSuchJob,
       EvalJobAbort, EvalKillpgFails, ForkFails, Suspend, WaitDone, Main, shellVars, ReturnWith
  <2> QED
    BY <2>1 DEF WaitInv
<1>3. CASE EvalResume
  <2>1. TargetPid \in Pid
    BY <1>3, TargetIsListed DEF EvalResume, Main
  <2> QED
    BY <1>3, <2>1 DEF EvalResume, ReturnWith, WaitFor, WaitInv
<1>4. CASE AddJob
  BY <1>4 DEF AddJob, Main, ReturnWith, WaitFor, WaitInv, ForkedInv, shellVars
<1>5. ASSUME NEW p \in Pid, Fork(p) PROVE WaitInv'
  BY <1>5 DEF Fork, WaitInv
<1>6. ASSUME NEW s \in Sig, Deliver(s) PROVE WaitInv'
  BY <1>6, DeliverEffect DEF WaitInv
<1>7. CASE Handler
  BY <1>7, HandlerBasics DEF WaitInv
<1>8. CASE Outside
  BY <1>8, OutsideEffect DEF WaitInv
<1> QED
  BY <1>1, <1>2, <1>3, <1>4, <1>5, <1>6, <1>7, <1>8, NextSteps

LEMMA AlwaysWaitInv == Spec => []WaitInv
<1>1. Init => WaitInv
  BY DEF Init, WaitInv
<1> QED
  BY <1>1, WaitStep, AlwaysBase, PTL DEF Spec

-----------------------------------------------------------------------------
(* The mapping.                                                            *)

\* A listed child has the state of the one job it is listed as.
LEMMA JobOfListed ==
    ASSUME BaseInv, NEW j \in Jid, Listed(j)
    PROVE  /\ jobs[j].pid \in Pid
           /\ OnList(jobs[j].pid)
           /\ JobFromPid(jobs, jobs[j].pid) = j
           /\ JobOf(jobs[j].pid) = jobs[j].state
<1> DEFINE p == jobs[j].pid
           k == JobFromPid(jobs, p)
<1>1. p \in Pid /\ OnList(p)
  BY DEF BaseInv, ListInv, Listed, OnList
<1>2. k # 0
  BY JobFromPidProperties DEF Listed
<1>3. k \in Jid /\ Listed(k) /\ jobs[k].pid = p
  BY <1>2, JobFromPidProperties DEF Listed
<1>4. k = j
  BY <1>3 DEF BaseInv, ListInv
<1>5. EntryOf(p) \in Jid /\ Listed(EntryOf(p)) /\ jobs[EntryOf(p)].pid = p
  BY DEF EntryOf, Listed
<1>6. EntryOf(p) = j
  BY <1>5 DEF BaseInv, ListInv
<1> QED
  BY <1>1, <1>4, <1>6 DEF JobOf

\* The state of a child that no step has touched.
LEMMA JobOfUntouched ==
    ASSUME NEW p, UNCHANGED jobs,
           proc'[p].ph = "unused" <=> proc[p].ph = "unused",
           (pc' = "forked" /\ cur' = p) <=> (pc = "forked" /\ cur = p)
    PROVE  JobOf(p)' = JobOf(p)
BY DEF JobOf, OnList, EntryOf

\* The state after a step of the child a slot now belongs to.
LEMMA NewStateOfListed ==
    ASSUME NEW p \in Pid, NEW j \in Jid, jobs'[j].state # "UNDEF", jobs'[j].pid = p,
           \A i \in Jid : jobs'[i].state # "UNDEF" /\ jobs'[i].pid = p => i = j
    PROVE  JobOf(p)' = jobs'[j].state
<1>1. EntryOf(p)' = j
  BY DEF EntryOf
<1>2. OnList(p)'
  BY DEF OnList
<1> QED
  BY <1>1, <1>2 DEF JobOf

\* Changing one slot changes the state of no child but the one it belongs to.
LEMMA OtherJobsKept ==
    ASSUME NEW j \in Jid, NEW p \in Pid,
           \A i \in Jid : i # j => jobs'[i] = jobs[i],
           jobs[j].state # "UNDEF" => jobs[j].pid = p,
           jobs'[j].state # "UNDEF" => jobs'[j].pid = p,
           \A q \in Pid : proc'[q].ph = "unused" <=> proc[q].ph = "unused",
           NEW q \in Pid, q # p,
           (pc' = "forked" /\ cur' = q) <=> (pc = "forked" /\ cur = q)
    PROVE  JobOf(q)' = JobOf(q)
<1>1. \A i \in Jid : (jobs'[i].state # "UNDEF" /\ jobs'[i].pid = q)
                        <=> (jobs[i].state # "UNDEF" /\ jobs[i].pid = q)
  OBVIOUS
<1>2. OnList(q)' <=> OnList(q)
  BY DEF OnList
<1>3. EntryOf(q)' = EntryOf(q)
  BY <1>1 DEF EntryOf
<1>4. CASE OnList(q)
  <2>1. /\ EntryOf(q) \in Jid
        /\ jobs[EntryOf(q)].pid = q
        /\ jobs[EntryOf(q)].state # "UNDEF"
    BY <1>4 DEF OnList, EntryOf
  <2>2. jobs'[EntryOf(q)] = jobs[EntryOf(q)]
    BY <2>1
  <2> QED
    BY <1>2, <1>3, <1>4, <2>2 DEF JobOf
<1>5. CASE ~OnList(q)
  BY <1>2, <1>5 DEF JobOf
<1> QED
  BY <1>4, <1>5

\* Nothing a user could see happens.
LEMMA StutterStep ==
    ASSUME \A p \in Pid : JobOf(p)' = JobOf(p), WaitingFor' = WaitingFor
    PROVE  UNCHANGED JC!jcVars
BY DEF JC!jcVars

\* One child's job changes.
LEMMA OneJobStep ==
    ASSUME NEW p \in Pid, NEW v, JobOf(p)' = v,
           \A q \in Pid : q # p => JobOf(q)' = JobOf(q)
    PROVE  [q \in Pid |-> JobOf(q)]' = [[q \in Pid |-> JobOf(q)] EXCEPT ![p] = v]
OBVIOUS

LEMMA InitRefines == Init => JC!JCInit
BY DEF Init, JC!JCInit, JobOf, OnList, WaitingFor, EmptyJobList, Cleared, NewProc

-----------------------------------------------------------------------------
(* The main loop.                                                          *)

\* JobControl takes commands where the shell is not waiting.
LEMMA NotWaiting ==
    ASSUME pc \in {"prompt", "eval", "forked"}
    PROVE  WaitingFor = NoPid
BY DEF WaitingFor

\* The wait is over only when the job it is for has left the foreground.
LEMMA WaitDoneRefines ==
    ASSUME BaseInv, WaitInv, WaitDone
    PROVE  JC!JCNext \/ UNCHANGED JC!jcVars
<1> USE DEF BaseInv
<1>1. /\ pc = "wait" /\ pc' = "prompt" /\ ~StillForeground /\ UNCHANGED <<jobs, proc>>
      /\ cur \in Pid
  BY DEF WaitDone, Main, ReturnWith, WaitInv, listVars
<1>2. \A p \in Pid : JobOf(p)' = JobOf(p)
  BY <1>1, JobOfUntouched
<1>3. WaitingFor' = NoPid
  BY <1>1 DEF WaitingFor
<1>4. CASE tmp = 0
  BY <1>1, <1>2, <1>3, <1>4, StutterStep DEF WaitingFor
<1>5. CASE tmp # 0
  <2>1. WaitingFor = cur /\ cur # NoPid
    BY <1>1, <1>5 DEF WaitingFor
  <2>2. JobOf(cur) # "FG"
    <3>1. ASSUME JobOf(cur) = "FG" PROVE FALSE
      <4>1. OnList(cur) /\ jobs[EntryOf(cur)].state = "FG"
        BY <3>1 DEF JobOf
      <4>2. EntryOf(cur) \in Jid
        BY <4>1 DEF OnList, EntryOf
      <4>3. EntryOf(cur) = tmp
        BY <4>1, <4>2 DEF ForegroundInv
      <4> QED
        BY <1>1, <4>1, <4>2, <4>3 DEF StillForeground, JobExists
    <3> QED
      BY <3>1
  <2>3. [p \in Pid |-> JobOf(p)]' = [p \in Pid |-> JobOf(p)]
    BY <1>2
  <2>4. JC!Prompt
    BY <1>1, <1>3, <2>1, <2>2, <2>3 DEF JC!Prompt
  <2> QED
    BY <2>4 DEF JC!JCNext
<1> QED
  BY <1>4, <1>5

\* bg and fg: the job leaves ST or BG, and fg waits for it.
LEMMA ResumeRefines ==
    ASSUME BaseInv, EvalResume
    PROVE  JC!JCNext \/ UNCHANGED JC!jcVars
<1> USE DEF BaseInv
<1>1. TargetJid \in Jid /\ jobs[TargetJid].state # "UNDEF" /\ TargetPid \in Pid
      /\ jobs[TargetJid].pid = TargetPid
  BY TargetIsListed DEF EvalResume, Main
<1>2. PICK t \in Jid : t = TargetJid
  BY <1>1
<1>3. PICK p \in Pid : p = TargetPid
  BY <1>1
<1>4. TargetState \in {"FG", "BG"}
  BY DEF TargetState
<1>5. PICK st \in {"FG", "BG"} : st = TargetState
  BY <1>4
<1>6. /\ pc = "eval" /\ MayBecome(jobs, st)
      /\ jobs' = [jobs EXCEPT ![t].state = st]
      /\ proc' = Continued(p)
  BY <1>2, <1>3, <1>5 DEF EvalResume, Main, SetState
<1>7. \/ pc' = "prompt" /\ st = "BG"
      \/ pc' = "wait" /\ cur' = p /\ tmp' = t /\ st = "FG"
  BY <1>2, <1>3, <1>5 DEF EvalResume, ReturnWith, WaitFor, TargetState
<1>8. jobs[t].state # "UNDEF" /\ jobs[t].pid = p /\ t # 0
  BY <1>1, <1>2, <1>3 DEF Jid
<1>9. JobOf(p) = jobs[t].state
  BY <1>8, JobOfListed DEF Listed
<1>10. JobOf(p) \in {"BG", "ST"}
  BY <1>6, <1>8, <1>9 DEF ForegroundInv, TypeOK, JobListType, JobState
<1>11. /\ jobs'[t].state = st /\ jobs'[t].pid = p
       /\ \A j \in Jid : j # t => jobs'[j] = jobs[j]
  BY <1>6, <1>8 DEF TypeOK, JobListType
<1>12. \A q \in Pid : proc'[q].ph = "unused" <=> proc[q].ph = "unused"
  BY <1>6 DEF Continued, TypeOK
<1>13. JobOf(p)' = st
  <2>1. \A i \in Jid : jobs'[i].state # "UNDEF" /\ jobs'[i].pid = p => i = t
    BY <1>8, <1>11 DEF ListInv, Listed
  <2> QED
    BY <1>11, <2>1, NewStateOfListed
<1>14. ASSUME NEW q \in Pid, q # p PROVE JobOf(q)' = JobOf(q)
  BY <1>6, <1>7, <1>8, <1>11, <1>12, <1>14, OtherJobsKept
<1>15. /\ WaitingFor = NoPid
       /\ WaitingFor' = IF st = "FG" THEN p ELSE NoPid
  BY <1>6, <1>7, <1>8 DEF WaitingFor
<1>16. [q \in Pid |-> JobOf(q)]' = [[q \in Pid |-> JobOf(q)] EXCEPT ![p] = st]
  BY <1>13, <1>14, OneJobStep
<1>17. CASE st = "FG"
  <2>1. JC!Foreground(p)
    BY <1>10, <1>15, <1>16, <1>17 DEF JC!Foreground
  <2> QED
    BY <2>1 DEF JC!JCNext
<1>18. CASE st = "BG" /\ JobOf(p) = "ST"
  <2>1. JC!Background(p)
    BY <1>15, <1>16, <1>18 DEF JC!Background
  <2> QED
    BY <2>1 DEF JC!JCNext
<1>19. CASE st = "BG" /\ JobOf(p) = "BG"
  <2>1. \A q \in Pid : JobOf(q)' = JobOf(q)
    BY <1>13, <1>14, <1>19
  <2> QED
    BY <1>15, <1>19, <2>1, StutterStep
<1> QED
  BY <1>10, <1>17, <1>18, <1>19

\* add_job: the new job starts, in the foreground or not, or is refused.
LEMMA AddJobRefines ==
    ASSUME BaseInv, AddJob
    PROVE  JC!JCNext \/ UNCHANGED JC!jcVars
<1> USE DEF BaseInv
<1>0. pc = "forked" /\ UNCHANGED proc /\ cur \in Pid
  BY DEF AddJob, Main, ForkedInv
<1>1. PICK p \in Pid : p = cur
  BY <1>0
<1>2. proc[p].ph # "unused" /\ (\A j \in Jid : Listed(j) => jobs[j].pid # p)
  BY <1>0, <1>1 DEF ForkedInv
<1>3. WaitingFor = NoPid /\ JobOf(p) = "new" /\ ~OnList(p)
  BY <1>0, <1>1, <1>2 DEF WaitingFor, JobOf, OnList, Listed
<1>4. CASE exited' # "no"
  <2>1. UNCHANGED <<pc, cur, tmp, jobs>>
    BY <1>4 DEF AddJob, shellVars, listVars
  <2>2. \A q \in Pid : JobOf(q)' = JobOf(q)
    BY <1>0, <2>1, JobOfUntouched
  <2> QED
    BY <2>1, <2>2, StutterStep DEF WaitingFor
<1>5. CASE exited' = "no"
  <2>1. /\ pc' # "forked"
        /\ \/ pc' = "prompt" /\ StartState = "BG"
           \/ pc' = "wait" /\ cur' = p /\ tmp' = JobFromPid(jobs', p) /\ StartState = "FG"
    BY <1>1, <1>5 DEF AddJob, ReturnWith, WaitFor, StartState
  <2>2. CASE nextjid > MAXJOBS
    <3>1. UNCHANGED jobs
      BY <1>5, <2>2 DEF AddJob, listVars
    <3>2. JobFromPid(jobs', p) = 0
      BY <1>2, <3>1, JobFromPidProperties DEF Listed
    <3>3. WaitingFor' = NoPid
      BY <2>1, <3>2 DEF WaitingFor
    <3>4. JobOf(p)' = "off"
      BY <1>0, <1>2, <1>3, <2>1, <3>1 DEF JobOf, OnList
    <3>5. ASSUME NEW q \in Pid, q # p PROVE JobOf(q)' = JobOf(q)
      BY <1>0, <1>1, <2>1, <3>1, <3>5, JobOfUntouched
    <3>6. [q \in Pid |-> JobOf(q)]' = [[q \in Pid |-> JobOf(q)] EXCEPT ![p] = "off"]
      BY <3>4, <3>5, OneJobStep
    <3>7. JC!Refuse(p)
      BY <1>3, <3>3, <3>6 DEF JC!Refuse
    <3> QED
      BY <3>7 DEF JC!JCNext
  <2>3. CASE ~(nextjid > MAXJOBS)
    <3>1. nextjid \in Jid /\ jobs[nextjid].state = "UNDEF"
      BY <1>5, <2>3 DEF AddJob, AddJobAbort, TypeOK, Jid
    <3>2. PICK j \in Jid : j = nextjid
      BY <3>1
    <3>3. PICK st \in {"FG", "BG"} : st = StartState
      BY DEF StartState
    <3>4. jobs' = [jobs EXCEPT ![j] = [pid |-> p, state |-> st]]
      BY <1>1, <1>5, <2>3, <3>2, <3>3 DEF AddJob
    <3>5. /\ jobs'[j].pid = p /\ jobs'[j].state = st
          /\ \A i \in Jid : i # j => jobs'[i] = jobs[i]
      BY <3>4 DEF TypeOK, JobListType
    <3>6. \A i \in Jid : jobs'[i].state # "UNDEF" /\ jobs'[i].pid = p => i = j
      BY <1>2, <3>5 DEF Listed
    <3>7. JobOf(p)' = st
      BY <3>5, <3>6, NewStateOfListed
    <3>8. ASSUME NEW q \in Pid, q # p PROVE JobOf(q)' = JobOf(q)
      BY <1>0, <1>1, <2>1, <3>1, <3>2, <3>5, <3>8, OtherJobsKept
    <3>9. [q \in Pid |-> JobOf(q)]' = [[q \in Pid |-> JobOf(q)] EXCEPT ![p] = st]
      BY <3>7, <3>8, OneJobStep
    <3>10. CASE st = "FG"
      <4>1. JobFromPid(jobs', p) # 0
        BY <3>5, <3>10, JobFromPidProperties
      <4>2. WaitingFor' = p
        BY <2>1, <3>3, <3>10, <4>1 DEF WaitingFor
      <4>3. JC!StartForeground(p)
        BY <1>3, <3>9, <3>10, <4>2 DEF JC!StartForeground
      <4> QED
        BY <4>3 DEF JC!JCNext
    <3>11. CASE st = "BG"
      <4>1. WaitingFor' = NoPid
        BY <2>1, <3>3, <3>11 DEF WaitingFor
      <4>2. JC!StartBackground(p)
        BY <1>3, <3>9, <3>11, <4>1 DEF JC!StartBackground
      <4> QED
        BY <4>2 DEF JC!JCNext
    <3> QED
      BY <3>10, <3>11
  <2> QED
    BY <2>2, <2>3
<1> QED
  BY <1>4, <1>5

\* The rest of the main loop changes nothing JobControl speaks of.
LEMMA MainQuietRefines ==
    ASSUME BaseInv, WaitInv, MainQuiet
    PROVE  JC!JCNext \/ UNCHANGED JC!jcVars
<1>1. CASE WaitDone
  BY <1>1, WaitDoneRefines
<1>2. CASE ~WaitDone
  <2>1. UNCHANGED <<jobs, proc>> /\ pc # "forked" /\ pc' # "forked"
    BY MainQuietEffect
  <2>2. \/ pc \in {"prompt", "eval"} /\ pc' \in {"prompt", "eval"}
        \/ pc = "wait" /\ pc' = "suspend" /\ UNCHANGED <<cur, tmp>>
    BY <1>2 DEF MainQuiet, ReadCommand, ReadEOF, EvalNop, EvalOutfileFails, EvalQuit, EvalNoSuchJob,
       EvalJobAbort, EvalKillpgFails, ForkFails, Suspend, Main, shellVars, ReturnWith
  <2>3. \A p \in Pid : JobOf(p)' = JobOf(p)
    BY <2>1, JobOfUntouched
  <2>4. WaitingFor' = WaitingFor
    BY <2>2 DEF WaitingFor
  <2> QED
    BY <2>3, <2>4, StutterStep
<1> QED
  BY <1>1, <1>2

\* A forked child is new until add_job is called for it.
LEMMA ForkRefines ==
    ASSUME BaseInv, NEW q \in Pid, Fork(q)
    PROVE  UNCHANGED JC!jcVars
<1> USE DEF BaseInv
<1>1. /\ pc = "eval" /\ pc' = "forked" /\ cur' = q /\ UNCHANGED jobs
      /\ proc[q].ph = "unused" /\ proc' = [proc EXCEPT ![q].ph = "forked"]
  BY DEF Fork, Main, listVars
<1>2. WaitingFor' = WaitingFor
  BY <1>1 DEF WaitingFor
<1>3. ASSUME NEW p \in Pid PROVE JobOf(p)' = JobOf(p)
  <2>1. CASE p = q
    <3>1. ~OnList(q)
      BY <1>1 DEF OnList, ListInv, Listed
    <3> QED
      BY <1>1, <2>1, <3>1 DEF JobOf, OnList
  <2>2. CASE p # q
    <3>1. proc'[p] = proc[p]
      BY <1>1, <2>2 DEF TypeOK
    <3> QED
      BY <1>1, <2>2, <3>1, JobOfUntouched
  <2> QED
    BY <2>1, <2>2
<1> QED
  BY <1>2, <1>3, StutterStep

-----------------------------------------------------------------------------
(* The handlers and the world outside.                                     *)

\* delete_job: the job is finished.
LEMMA DeleteRefines ==
    ASSUME BaseInv, ReportInv, ChldDelete
    PROVE  JC!JCNext \/ UNCHANGED JC!jcVars
<1> USE DEF BaseInv
<1>1. /\ frames # <<>> /\ UNCHANGED <<pc, cur, tmp, proc>>
      /\ Top.sig = "CHLD" /\ Top.at = "update" /\ Top.status = "ended"
  BY DEF ChldDelete, InHandler, shellVars
<1>2. pc # "forked" /\ pc' # "forked" /\ WaitingFor' = WaitingFor
  BY <1>1 DEF MaskInv, WaitingFor
<1>3. Top.pid \in Pid /\ proc[Top.pid].ph = "reaped"
  <2>1. Len(frames) \in 1 .. Len(frames)
    BY <1>1, TopProperties DEF TypeOK
  <2> QED
    BY <1>1, <2>1 DEF ReportInv, Top
<1>4. PICK p \in Pid : p = Top.pid
  BY <1>3
<1>5. CASE ~JobExists(jobs, JobFromPid(jobs, p))
  <2>1. UNCHANGED jobs
    BY <1>4, <1>5 DEF ChldDelete, listVars
  <2>2. \A q \in Pid : JobOf(q)' = JobOf(q)
    BY <1>1, <2>1, JobOfUntouched
  <2> QED
    BY <1>2, <2>2, StutterStep
<1>6. CASE JobExists(jobs, JobFromPid(jobs, p))
  <2>1. PICK j \in Jid : j = JobFromPid(jobs, p)
    BY <1>6 DEF JobExists
  <2>2. jobs[j].state # "UNDEF" /\ jobs[j].pid = p
    <3>1. j # 0
      BY DEF Jid
    <3> QED
      BY <2>1, <3>1, JobFromPidProperties
  <2>3. jobs' = [jobs EXCEPT ![j] = Cleared]
    BY <1>4, <1>6, <2>1 DEF ChldDelete
  <2>4. jobs'[j].state = "UNDEF" /\ \A i \in Jid : i # j => jobs'[i] = jobs[i]
    BY <2>3 DEF TypeOK, JobListType, Cleared
  <2>5. JobOf(p) \in {"FG", "BG", "ST"}
    <3>1. JobOf(p) = jobs[j].state
      BY <2>2, JobOfListed DEF Listed
    <3> QED
      BY <2>2, <3>1 DEF TypeOK, JobListType, JobState
  <2>6. JobOf(p)' = "off"
    <3>1. ~OnList(p)'
      BY <2>2, <2>4 DEF OnList, ListInv, Listed
    <3> QED
      BY <1>1, <1>2, <1>3, <1>4, <3>1 DEF JobOf
  <2>7. ASSUME NEW q \in Pid, q # p PROVE JobOf(q)' = JobOf(q)
    BY <1>1, <2>2, <2>4, <2>7, OtherJobsKept
  <2>8. [q \in Pid |-> JobOf(q)]' = [[q \in Pid |-> JobOf(q)] EXCEPT ![p] = "off"]
    BY <2>6, <2>7, OneJobStep
  <2>9. JC!Finish(p)
    BY <1>2, <2>5, <2>8 DEF JC!Finish
  <2> QED
    BY <2>9 DEF JC!JCNext
<1> QED
  BY <1>5, <1>6

\* job_set_state(jid, ST): the job stops, if it was not marked so already.
LEMMA StopRefines ==
    ASSUME BaseInv, ReportInv, ChldStop
    PROVE  JC!JCNext \/ UNCHANGED JC!jcVars
<1> USE DEF BaseInv
<1>1. /\ frames # <<>> /\ UNCHANGED <<pc, cur, tmp, proc>>
      /\ Top.sig = "CHLD" /\ Top.at = "update" /\ Top.status = "stopped"
  BY DEF ChldStop, InHandler, shellVars
<1>2. pc # "forked" /\ pc' # "forked" /\ WaitingFor' = WaitingFor
  BY <1>1 DEF MaskInv, WaitingFor
<1>3. Top.pid \in Pid
  <2>1. Len(frames) \in 1 .. Len(frames)
    BY <1>1, TopProperties DEF TypeOK
  <2> QED
    BY <1>1, <2>1 DEF ReportInv, Top
<1>4. PICK p \in Pid : p = Top.pid
  BY <1>3
<1>5. CASE ~JobExists(jobs, JobFromPid(jobs, p))
  <2>1. UNCHANGED jobs
    BY <1>4, <1>5 DEF ChldStop
  <2>2. \A q \in Pid : JobOf(q)' = JobOf(q)
    BY <1>1, <2>1, JobOfUntouched
  <2> QED
    BY <1>2, <2>2, StutterStep
<1>6. CASE JobExists(jobs, JobFromPid(jobs, p))
  <2>1. PICK j \in Jid : j = JobFromPid(jobs, p)
    BY <1>6 DEF JobExists
  <2>2. jobs[j].state # "UNDEF" /\ jobs[j].pid = p
    <3>1. j # 0
      BY DEF Jid
    <3> QED
      BY <2>1, <3>1, JobFromPidProperties
  <2>3. jobs' = [jobs EXCEPT ![j].state = "ST"]
    BY <1>4, <1>6, <2>1 DEF ChldStop, SetState
  <2>4. /\ jobs'[j].state = "ST" /\ jobs'[j].pid = p
        /\ \A i \in Jid : i # j => jobs'[i] = jobs[i]
    BY <2>2, <2>3 DEF TypeOK, JobListType
  <2>5. JobOf(p) \in {"FG", "BG", "ST"}
    <3>1. JobOf(p) = jobs[j].state
      BY <2>2, JobOfListed DEF Listed
    <3> QED
      BY <2>2, <3>1 DEF TypeOK, JobListType, JobState
  <2>6. JobOf(p)' = "ST"
    <3>1. \A i \in Jid : jobs'[i].state # "UNDEF" /\ jobs'[i].pid = p => i = j
      BY <2>2, <2>4 DEF ListInv, Listed
    <3> QED
      BY <2>4, <3>1, NewStateOfListed
  <2>7. ASSUME NEW q \in Pid, q # p PROVE JobOf(q)' = JobOf(q)
    BY <1>1, <2>2, <2>4, <2>7, OtherJobsKept
  <2>8. CASE JobOf(p) = "ST"
    <3>1. \A q \in Pid : JobOf(q)' = JobOf(q)
      BY <2>6, <2>7, <2>8
    <3> QED
      BY <1>2, <3>1, StutterStep
  <2>9. CASE JobOf(p) # "ST"
    <3>1. [q \in Pid |-> JobOf(q)]' = [[q \in Pid |-> JobOf(q)] EXCEPT ![p] = "ST"]
      BY <2>6, <2>7, OneJobStep
    <3>2. JC!Stop(p)
      BY <1>2, <2>5, <2>9, <3>1 DEF JC!Stop
    <3> QED
      BY <3>2 DEF JC!JCNext
  <2> QED
    BY <2>8, <2>9
<1> QED
  BY <1>5, <1>6

LEMMA HandlerRefines ==
    ASSUME BaseInv, ReportInv, Handler
    PROVE  JC!JCNext \/ UNCHANGED JC!jcVars
<1> USE DEF BaseInv
<1>1. CASE ChldDelete
  BY <1>1, DeleteRefines
<1>2. CASE ChldStop
  BY <1>2, StopRefines
<1>3. CASE ~ChldDelete /\ ~ChldStop
  <2>1. UNCHANGED <<pc, cur, tmp, jobs>>
    BY <1>3 DEF Handler, ChldNoMore, ChldBlock, FwdBlock, FwdCheck, FwdSkip, FwdKill,
       HandlerRestore, HandlerReturn, ChldReap, shellVars, listVars
  <2>2. \A p \in Pid : proc'[p].ph = "unused" <=> proc[p].ph = "unused"
    <3>1. CASE UNCHANGED proc
      BY <3>1
    <3>2. ASSUME NEW q \in Pid, ChldReap(q)
          PROVE  \A p \in Pid : proc'[p].ph = "unused" <=> proc[p].ph = "unused"
      BY <3>2 DEF ChldReap, TypeOK
    <3> QED
      BY <1>3, <3>1, <3>2 DEF Handler, ChldNoMore, ChldBlock, FwdBlock, FwdCheck, FwdSkip,
         FwdKill, HandlerRestore, HandlerReturn
  <2>3. \A p \in Pid : JobOf(p)' = JobOf(p)
    BY <2>1, <2>2, JobOfUntouched
  <2> QED
    BY <2>1, <2>3, StutterStep DEF WaitingFor
<1> QED
  BY <1>1, <1>2, <1>3

LEMMA DeliverRefines ==
    ASSUME BaseInv, NEW s \in Sig, Deliver(s)
    PROVE  UNCHANGED JC!jcVars
<1>1. /\ UNCHANGED <<cur, tmp, jobs, proc>>
      /\ pc' = pc \/ (pc = "suspend" /\ pc' = "wait")
  BY DeliverEffect DEF BaseInv
<1>2. \A p \in Pid : JobOf(p)' = JobOf(p)
  BY <1>1, JobOfUntouched
<1>3. WaitingFor' = WaitingFor
  BY <1>1 DEF WaitingFor
<1> QED
  BY <1>2, <1>3, StutterStep

LEMMA OutsideRefines ==
    ASSUME BaseInv, Outside
    PROVE  UNCHANGED JC!jcVars
<1>1. /\ UNCHANGED <<pc, cur, tmp, jobs>>
      /\ \A p \in Pid : proc'[p] = proc[p] \/ Advances(p) \/ Ends(p) \/ Stops(p) \/ Wakes(p)
  BY OutsideEffect DEF BaseInv
<1>2. \A p \in Pid : proc'[p].ph = "unused" <=> proc[p].ph = "unused"
  BY <1>1 DEF Advances, Ends, Stops, Wakes
<1>3. \A p \in Pid : JobOf(p)' = JobOf(p)
  BY <1>1, <1>2, JobOfUntouched
<1> QED
  BY <1>1, <1>3, StutterStep DEF WaitingFor

LEMMA StepRefines ==
    ASSUME BaseInv, WaitInv, CollectInv, [Next]_vars
    PROVE  [JC!JCNext]_(JC!jcVars)
<1>1. CASE UNCHANGED vars
  <2>1. \A p \in Pid : JobOf(p)' = JobOf(p)
    BY <1>1, JobOfUntouched DEF vars
  <2> QED
    BY <1>1, <2>1, StutterStep DEF vars, WaitingFor
<1>2. CASE MainQuiet
  BY <1>2, MainQuietRefines
<1>3. CASE EvalResume
  BY <1>3, ResumeRefines
<1>4. CASE AddJob
  BY <1>4, AddJobRefines
<1>5. ASSUME NEW p \in Pid, Fork(p) PROVE UNCHANGED JC!jcVars
  BY <1>5, ForkRefines
<1>6. ASSUME NEW s \in Sig, Deliver(s) PROVE UNCHANGED JC!jcVars
  BY <1>6, DeliverRefines
<1>7. CASE Handler
  BY <1>7, HandlerRefines DEF CollectInv
<1>8. CASE Outside
  BY <1>8, OutsideRefines
<1> QED
  BY <1>1, <1>2, <1>3, <1>4, <1>5, <1>6, <1>7, <1>8, NextSteps

\* Every behaviour of the shell, with its signals, nested handlers and merged
\* SIGCHLDs, is a behaviour of JobControl: a job takes no transition but those,
\* and the wait for a foreground job never ends before it has left FG.
THEOREM ShellImplementsJobControl == Spec => ImplementsJobControl
<1>1. Init => JC!JCInit
  BY InitRefines
<1>2. BaseInv /\ WaitInv /\ CollectInv /\ [Next]_vars => [JC!JCNext]_(JC!jcVars)
  BY StepRefines
<1> QED
  BY <1>1, <1>2, AlwaysBase, AlwaysWaitInv, AlwaysCollecting, PTL
     DEF Spec, ImplementsJobControl, JC!JCSpec

-----------------------------------------------------------------------------
(* What a user may conclude from JobControl, said of the shell.            *)

JCInv == JC!JCTypeOK /\ JC!OneForeground

LEMMA JCInitInv == JC!JCInit => JCInv
BY DEF JC!JCInit, JCInv, JC!JCTypeOK, JC!OneForeground

LEMMA JCNextInv ==
    ASSUME JCInv, [JC!JCNext]_(JC!jcVars)
    PROVE  JCInv'
<1> USE JobListAssumption DEF JCInv, JC!JCTypeOK, JC!OneForeground
<1>1. CASE UNCHANGED JC!jcVars
  BY <1>1 DEF JC!jcVars
<1>2. CASE JC!Prompt
  BY <1>2 DEF JC!Prompt
<1>3. ASSUME NEW p \in Pid, JC!StartForeground(p) PROVE JCInv'
  BY <1>3 DEF JC!StartForeground
<1>4. ASSUME NEW p \in Pid, JC!StartBackground(p) PROVE JCInv'
  BY <1>4 DEF JC!StartBackground
<1>5. ASSUME NEW p \in Pid, JC!Refuse(p) PROVE JCInv'
  BY <1>5 DEF JC!Refuse
<1>6. ASSUME NEW p \in Pid, JC!Stop(p) PROVE JCInv'
  BY <1>6 DEF JC!Stop
<1>7. ASSUME NEW p \in Pid, JC!Finish(p) PROVE JCInv'
  BY <1>7 DEF JC!Finish
<1>8. ASSUME NEW p \in Pid, JC!Background(p) PROVE JCInv'
  BY <1>8 DEF JC!Background
<1>9. ASSUME NEW p \in Pid, JC!Foreground(p) PROVE JCInv'
  BY <1>9 DEF JC!Foreground
<1> QED
  BY <1>1, <1>2, <1>3, <1>4, <1>5, <1>6, <1>7, <1>8, <1>9 DEF JC!JCNext

\* At every moment at most one job of the shell is in the foreground, and it is
\* the one the shell waits for: eval and do_bg_fg put a job there at the prompt
\* only, whatever the handlers do meanwhile.  It follows from the refinement.
THEOREM ShellHasOneForeground == Spec => []JC!OneForeground
<1>1. JCInv /\ [JC!JCNext]_(JC!jcVars) => JCInv'
  BY JCNextInv
<1>2. JCInv => JC!OneForeground
  BY DEF JCInv
<1> QED
  BY JCInitInv, <1>1, <1>2, ShellImplementsJobControl, PTL DEF ImplementsJobControl, JC!JCSpec
=============================================================================
