---------------------------- MODULE GraderProof ------------------------------
(***************************************************************************)
(* What the points of the cache lab rest on, for any number of traces and  *)
(* any matrix sizes.                                                       *)
(***************************************************************************)
EXTENDS Grader, SequenceTheorems, TLAPS

-----------------------------------------------------------------------------
(* The transposes of trans.c are correct for every matrix size.            *)

\* Writing a set of cells passes the validation if it is all of them.
LEMMA AllWritten ==
    ASSUME NEW M \in Nat, NEW N \in Nat, NEW done, Cells(N, M) \subseteq done
    PROVE  Validate(M, N, Written(M, N, done))
<1> SUFFICES ASSUME NEW i \in 0 .. N - 1, NEW j \in 0 .. M - 1
             PROVE  Written(M, N, done)[<<j, i>>] = InitialA(M, N)[<<i, j>>]
  BY DEF Validate
<1>1. <<j, i>> \in Cells(M, N) /\ <<i, j>> \in Cells(N, M)
  BY DEF Cells
<1>2. <<i, j>> \in done
  BY <1>1
<1> QED
  BY <1>1, <1>2 DEF Written

\* trans_basic and trans_tmp are correct for matrices of any size.
THEOREM TransBasicIsCorrect ==
    \A M, N \in Nat : Validate(M, N, TransBasic(M, N))
BY AllWritten DEF TransBasic

\* Each index below 8n is in the block of its quotient by 8.
LEMMA InABlock ==
    ASSUME NEW n \in Nat, NEW k \in 0 .. 8 * n - 1
    PROVE  \E b \in 0 .. n - 1 : k \in 8 * b .. 8 * (b + 1) - 1
<1> DEFINE b == k \div 8
<1>1. b \in 0 .. n - 1
  OBVIOUS
<1>2. k \in 8 * b .. 8 * (b + 1) - 1
  OBVIOUS
<1> QED
  BY <1>1, <1>2

\* So the blocked loops write every cell of a square matrix, provided that M/8
\* blocks are what is needed, that is if the divisor is M/8.
LEMMA BlockedIsCorrect ==
    ASSUME NEW d \in Nat, NEW M \in Nat, M = 8 * d, M \div d = 8, M \div 8 = d
    PROVE  Validate(M, M, Blocked(M, M, d))
<1> DEFINE done == {c \in Cells(M, M) : \E ii, jj \in 0 .. M \div 8 - 1 :
                      /\ c[1] \in (M \div d) * ii .. (M \div d) * (ii + 1) - 1
                      /\ c[2] \in (M \div d) * jj .. (M \div d) * (jj + 1) - 1}
<1>1. ASSUME NEW c \in Cells(M, M) PROVE c \in done
  <2>1. c[1] \in 0 .. 8 * d - 1 /\ c[2] \in 0 .. 8 * d - 1
    BY DEF Cells
  <2>2. PICK ii \in 0 .. d - 1 : c[1] \in 8 * ii .. 8 * (ii + 1) - 1
    BY <2>1, InABlock
  <2>3. PICK jj \in 0 .. d - 1 : c[2] \in 8 * jj .. 8 * (jj + 1) - 1
    BY <2>1, InABlock
  <2> QED
    BY <2>2, <2>3
<1>2. Cells(M, M) \subseteq done
  BY <1>1
<1>3. Blocked(M, M, d) = Written(M, M, done)
  BY DEF Blocked
<1> HIDE DEF done
<1> QED
  BY <1>2, <1>3, AllWritten

\* The submission takes the blocked path for two sizes and the plain one for all
\* others, and is right for every size: what the grader's run checks for two.
THEOREM SubmitIsCorrect ==
    \A M, N \in Nat : Validate(M, N, TransposeSubmit(M, N))
<1> SUFFICES ASSUME NEW M \in Nat, NEW N \in Nat
             PROVE  Validate(M, N, TransposeSubmit(M, N))
  OBVIOUS
<1>1. CASE M = 32 /\ N = 32
  <2>1. 32 = 8 * 4 /\ 32 \div 4 = 8 /\ 32 \div 8 = 4
    OBVIOUS
  <2>2. Validate(32, 32, Blocked(32, 32, 4))
    BY <2>1, BlockedIsCorrect
  <2>3. TransposeSubmit(32, 32) = Blocked(32, 32, 4)
    BY DEF TransposeSubmit
  <2> QED
    BY <1>1, <2>2, <2>3
<1>2. CASE M = 1024 /\ N = 1024
  <2>1. 1024 = 8 * 128 /\ 1024 \div 128 = 8 /\ 1024 \div 8 = 128
    OBVIOUS
  <2>2. Validate(1024, 1024, Blocked(1024, 1024, 128))
    BY <2>1, BlockedIsCorrect
  <2>3. TransposeSubmit(1024, 1024) = Blocked(1024, 1024, 128)
    BY DEF TransposeSubmit
  <2> QED
    BY <1>2, <2>2, <2>3
<1>3. CASE ~(M = 32 /\ N = 32) /\ ~(M = 1024 /\ N = 1024)
  BY <1>3, TransBasicIsCorrect DEF TransposeSubmit
<1> QED
  BY <1>1, <1>2, <1>3

-----------------------------------------------------------------------------
(* The tools that run them.                                                *)

Process == [id : Nat, prog : {"none", "csim", "csim-ref", "tracegen-ct"},
            st : {"none", "running", "wrote", "exited", "signalled"}, code : Int]
ToolState == [prog : {"none", "test-csim", "test-trans"},
              pc : {"none", "unlink", "wait", "generate", "generated", "simulated", "report"},
              i : Int, who : {"none", "ref", "test"}, M : Nat, N : Nat,
              points : Int, correct : {0, 1}, cycles : Int, own : BOOLEAN]
Credit == [points : Int, correct : {0, 1}, own : BOOLEAN]
DriverState == [next : Nat \ {0}, transOK : BOOLEAN, credit : SUBSET Credit, done : BOOLEAN]

TypeInv ==
    /\ shExecs \in BOOLEAN
    /\ tool \in ToolState /\ child \in Process /\ orphans \subseteq Process
    /\ launched \in Nat /\ driver \in DriverState

\* test-csim is the first tool only, and a tool has a child exactly in system().
PlaceInv ==
    /\ tool.prog = "none" <=> tool.pc = "none"
    /\ tool.prog = "test-csim" => tool.pc \in {"unlink", "wait", "report"} /\ driver.next = 1
    /\ tool.prog = "test-trans" =>
          tool.pc \in {"generate", "generated", "simulated", "report"} /\ driver.next > 1
    /\ tool.pc \notin {"wait", "generated", "simulated"} => child = NoChild
    /\ tool.pc = "wait" => child.prog \in {"csim", "csim-ref"}
    /\ tool.pc = "generated" => child.prog = "tracegen-ct"
    /\ tool.pc = "simulated" => child.prog = "csim-ref"

\* No simulator of an earlier tool is left while test-csim runs, nor, under a
\* shell that stays and holds the pipe, while any other tool does.
OrphanInv ==
    (driver.next = 1 \/ ~shExecs) /\ tool.pc # "report" => orphans = {}

\* So the results are those of the child, once it has written them.
FileInv ==
    /\ tool.prog = "test-csim" /\ tool.pc = "wait" => file \in {<<>>, Counts(child)}
    /\ ~shExecs => child.st # "signalled"
    /\ /\ ~shExecs /\ tool.pc # "report" /\ child.prog = "csim-ref"
       /\ child.st = "wrote" \/ (child.st = "exited" /\ child.code = 0)
       => file = Counts(child)

OwnInv ==
    /\ PointsAreFresh /\ ForkingShellIsSafe
    /\ tool.correct = 1 => tool.pc = "report"
    /\ ~shExecs /\ (tool.correct = 1 \/ tool.pc = "simulated") => tool.own

Inv == TypeInv /\ PlaceInv /\ OrphanInv /\ FileInv /\ OwnInv /\ SubmissionIsCorrect

-----------------------------------------------------------------------------
\* The tools that driver.py runs: test-csim is the first and only the first.
StepType == [prog : {"test-csim", "test-trans"}, M : Nat, N : Nat, perf : BOOLEAN]

\* The plan is a sequence of such steps, whatever the sizes.
LEMMA PlanSteps ==
    /\ Len(Plan) \in Nat
    /\ \A k \in 1 .. Len(Plan) :
          Plan[k] \in StepType /\ (Plan[k].prog = "test-csim" <=> k = 1)
<1> DEFINE First == <<[prog |-> "test-csim", M |-> 0, N |-> 0, perf |-> FALSE]>>
           Trans(sizes, perf) == [i \in 1 .. Len(sizes) |->
               [prog |-> "test-trans", M |-> sizes[i][1], N |-> sizes[i][2], perf |-> perf]]
<1>1. First \in Seq(StepType) /\ Len(First) = 1 /\ First[1].prog = "test-csim"
  BY DEF StepType
<1>2. ASSUME NEW sizes \in Seq(Nat \X Nat), NEW perf \in BOOLEAN
      PROVE  /\ Trans(sizes, perf) \in Seq(StepType)
             /\ \A i \in 1 .. Len(Trans(sizes, perf)) : Trans(sizes, perf)[i].prog = "test-trans"
  <2>1. \A i \in 1 .. Len(sizes) : sizes[i][1] \in Nat /\ sizes[i][2] \in Nat
    <3>1. \A i \in 1 .. Len(sizes) : sizes[i] \in Nat \X Nat
      OBVIOUS
    <3> QED
      BY <3>1
  <2>2. Trans(sizes, perf) \in [1 .. Len(sizes) -> StepType]
    BY <2>1 DEF StepType
  <2>3. Len(sizes) \in Nat
    OBVIOUS
  <2>4. Trans(sizes, perf) \in Seq(StepType)
    <3> DEFINE t == Trans(sizes, perf)
               n == Len(sizes)
    <3>1. t \in [1 .. n -> StepType] /\ n \in Nat
      BY <2>2, <2>3
    <3> HIDE DEF t, n
    <3>2. t \in Seq(StepType)
      BY <3>1, SeqDef
    <3> QED
      BY <3>2 DEF t
  <2>5. Len(Trans(sizes, perf)) = Len(sizes)
    BY <2>2, <2>3, <2>4, LenProperties
  <2> QED
    BY <2>4, <2>5
<1> DEFINE T == Trans(Sizes, FALSE)
           P == Trans(Perf, TRUE)
<1>3. Plan = (First \o T) \o P
  BY DEF Plan
<1>4. /\ T \in Seq(StepType) /\ \A i \in 1 .. Len(T) : T[i].prog = "test-trans"
      /\ P \in Seq(StepType) /\ \A i \in 1 .. Len(P) : P[i].prog = "test-trans"
  BY <1>2, GraderAssumption
<1> HIDE DEF First, T, P, Trans
<1> DEFINE FT == First \o T
<1>5. /\ FT \in Seq(StepType) /\ Len(FT) = 1 + Len(T) /\ Len(T) \in Nat
      /\ \A i \in 1 .. Len(FT) : FT[i] = IF i <= 1 THEN First[i] ELSE T[i - 1]
  <2>1. /\ First \o T \in Seq(StepType) /\ Len(First \o T) = Len(First) + Len(T)
        /\ \A i \in 1 .. Len(First) + Len(T) :
              (First \o T)[i] = IF i <= Len(First) THEN First[i] ELSE T[i - Len(First)]
    BY SMTT(30), <1>1, <1>4, ConcatProperties, Zenon
  <2>2. Len(T) \in Nat
    BY <1>4, LenProperties
  <2>3. Len(First \o T) = 1 + Len(T)
    BY <2>1, <1>1
  <2>4. ASSUME NEW i \in 1 .. 1 + Len(T)
        PROVE  (First \o T)[i] = IF i <= 1 THEN First[i] ELSE T[i - 1]
    BY <2>1, <1>1
  <2> QED
    BY <2>1, <2>2, <2>3, <2>4
<1> HIDE DEF FT
<1>6. /\ Plan \in Seq(StepType) /\ Len(Plan) = Len(FT) + Len(P) /\ Len(P) \in Nat
      /\ \A i \in 1 .. Len(FT) + Len(P) :
            Plan[i] = IF i <= Len(FT) THEN FT[i] ELSE P[i - Len(FT)]
  <2>1. Plan = FT \o P
    BY <1>3 DEF FT
  <2>2. /\ FT \o P \in Seq(StepType) /\ Len(FT \o P) = Len(FT) + Len(P)
        /\ \A i \in 1 .. Len(FT) + Len(P) :
              (FT \o P)[i] = IF i <= Len(FT) THEN FT[i] ELSE P[i - Len(FT)]
    BY <1>4, <1>5, ConcatProperties, Zenon
  <2>3. Len(P) \in Nat
    BY <1>4, LenProperties
  <2> QED
    BY <2>1, <2>2, <2>3, Zenon
<1>7. Len(Plan) \in Nat
  BY <1>5, <1>6
<1>8. ASSUME NEW k \in 1 .. Len(Plan)
      PROVE  Plan[k] \in StepType /\ (Plan[k].prog = "test-csim" <=> k = 1)
  <2>1. Plan[k] \in StepType
    BY <1>6
  <2>2. CASE k = 1
    BY <1>1, <1>5, <1>6, <2>1, <2>2
  <2>3. CASE k # 1 /\ k <= Len(FT)
    <3>1. Plan[k] = T[k - 1] /\ k - 1 \in 1 .. Len(T)
      BY <1>5, <1>6, <2>3
    <3>2. T[k - 1].prog = "test-trans"
      BY <3>1, <1>4
    <3> QED
      BY <3>1, <3>2, <2>1, <2>3
  <2>4. CASE k > Len(FT)
    <3>1. Plan[k] = P[k - Len(FT)] /\ k - Len(FT) \in 1 .. Len(P)
      BY <1>5, <1>6, <2>4
    <3>2. P[k - Len(FT)].prog = "test-trans"
      BY <3>1, <1>4
    <3> QED
      BY <3>1, <3>2, <1>5, <2>1, <2>4
  <2> QED
    BY <2>2, <2>3, <2>4, <1>5, <1>6
<1> QED
  BY <1>7, <1>8

-----------------------------------------------------------------------------
\* The invariant holds before the driver starts.
LEMMA InitInv == Init => Inv
BY DEF Init, Inv, TypeInv, PlaceInv, OrphanInv, FileInv, OwnInv, PointsAreFresh,
   ForkingShellIsSafe, SubmissionIsCorrect, NoTool, NoChild, Process, ToolState,
   Credit, DriverState

\* The next trace, or the report.
LEMMA AfterTraceType ==
    ASSUME NEW t \in ToolState
    PROVE  AfterTrace(t) \in ToolState
<1>1. \A i \in Int : [t EXCEPT !.i = i, !.who = "ref", !.pc = "unlink"] \in ToolState
  BY DEF ToolState
<1>2. [t EXCEPT !.pc = "report"] \in ToolState
  BY DEF ToolState
<1>3. t.i + 1 \in Int
  BY DEF ToolState
<1> QED
  BY <1>1, <1>2, <1>3 DEF AfterTrace

\* Every step keeps the types.
LEMMA NextTypeInv ==
    ASSUME TypeInv, [Next]_vars
    PROVE  TypeInv'
<1> DEFINE Rest == /\ orphans' \subseteq Process /\ launched' \in Nat
                   /\ driver' \in DriverState /\ shExecs' \in BOOLEAN
<1>1. /\ tool \in ToolState /\ child \in Process /\ orphans \subseteq Process
      /\ launched \in Nat /\ driver \in DriverState /\ shExecs \in BOOLEAN
  BY DEF TypeInv
<1>2. NoChild \in Process /\ NoTool \in ToolState
  BY DEF NoChild, NoTool, Process, ToolState
<1> SUFFICES tool' \in ToolState /\ child' \in Process /\ Rest
  BY DEF TypeInv
<1>3. CASE UNCHANGED vars
  BY <1>3, <1>1 DEF vars
<1>4. CASE ChildWrites
  <2>1. tool' \in ToolState
    BY <1>1, <1>4 DEF ChildWrites
  <2>2. child' \in Process
    BY <1>1, <1>4 DEF ChildWrites, Process
  <2>3. Rest
    BY <1>1, <1>4 DEF ChildWrites
  <2> QED
    BY <2>1, <2>2, <2>3
<1>5. CASE ChildExits
  <2>1. tool' \in ToolState
    BY <1>1, <1>5 DEF ChildExits
  <2>2. \A c \in Int : [child EXCEPT !.st = "exited", !.code = c] \in Process
    BY <1>1 DEF Process
  <2>3. ExitCodes(child) \subseteq Int
    BY DEF ExitCodes
  <2>4. child' \in Process
    BY <2>2, <2>3, <1>5 DEF ChildExits
  <2>5. Rest
    BY <1>1, <1>5 DEF ChildExits
  <2> QED
    BY <2>1, <2>4, <2>5
<1>6. CASE ChildKilled
  <2> DEFINE code == 139
  <2>1. \/ child' = [child EXCEPT !.st = "signalled"]
        \/ child' = [child EXCEPT !.st = "exited", !.code = code]
    BY <1>6 DEF ChildKilled
  <2>2. code \in Int
    OBVIOUS
  <2> HIDE DEF code
  <2>3. tool' \in ToolState
    BY <1>1, <1>6 DEF ChildKilled
  <2>4. child' \in Process
    BY <1>1, <2>1, <2>2 DEF Process
  <2>5. Rest
    BY <1>1, <1>6 DEF ChildKilled
  <2> QED
    BY <2>3, <2>4, <2>5
<1>7. CASE OrphanWrites
  <2>1. tool' \in ToolState /\ child' \in Process
    BY <1>1, <1>7 DEF OrphanWrites
  <2>2. \A p \in Process : [p EXCEPT !.st = "wrote"] \in Process
    BY DEF Process
  <2>3. Rest
    BY <1>1, <2>2, <1>7 DEF OrphanWrites
  <2> QED
    BY <2>1, <2>3
<1>8. CASE \E p \in orphans : Ends(p)
  BY <1>8, <1>1 DEF Ends
<1>9. CASE CsimUnlink
  <2>1. tool' \in ToolState
    BY <1>1, <1>9 DEF CsimUnlink, ToolState
  <2>2. child' \in Process
    BY <1>1, <1>9 DEF CsimUnlink, System, Process
  <2>3. Rest
    BY <1>1, <1>9 DEF CsimUnlink, System
  <2> QED
    BY <2>1, <2>2, <2>3
<1>10. CASE CsimFails
  <2>1. AfterTrace(tool) \in ToolState
    BY <1>1, AfterTraceType
  <2>2. tool' \in ToolState
    BY <2>1, <1>10 DEF CsimFails
  <2>3. child' \in Process
    BY <1>2, <1>10 DEF CsimFails
  <2>4. Rest
    BY <1>1, <1>10 DEF CsimFails
  <2> QED
    BY <2>2, <2>3, <2>4
<1>11. CASE CsimLoads
  <2>1. \A own \in BOOLEAN : [tool EXCEPT !.who = "test", !.pc = "unlink", !.own = own] \in ToolState
    BY <1>1 DEF ToolState
  <2>2. \A own \in BOOLEAN, points \in Int : [tool EXCEPT !.points = points, !.own = own] \in ToolState
    BY <1>1 DEF ToolState
  <2>3. \A own \in BOOLEAN, points \in Int :
           AfterTrace([tool EXCEPT !.points = points, !.own = own]) \in ToolState
    BY <2>2, AfterTraceType
  <2>4. tool.own \in BOOLEAN /\ tool.points \in Int
    BY <1>1 DEF ToolState
  <2>5. /\ (tool.own /\ file = Counts(child)) \in BOOLEAN
        /\ \A matches \in {0, 5} : tool.points + matches \in Int
    BY <2>4
  <2>6. ASSUME tool.who = "ref" PROVE  tool' \in ToolState
    BY <2>1, <2>5, <2>6, <1>11 DEF CsimLoads
  <2>7. ASSUME tool.who # "ref" PROVE  tool' \in ToolState
    BY <2>3, <2>5, <2>7, <1>11 DEF CsimLoads
  <2>8. tool' \in ToolState
    BY <2>6, <2>7
  <2>9. child' \in Process
    BY <1>2, <1>11 DEF CsimLoads
  <2>10. Rest
    BY <1>1, <1>11 DEF CsimLoads
  <2> QED
    BY <2>8, <2>9, <2>10
<1>12. CASE GenerateTrace
  <2>1. tool' \in ToolState
    BY <1>1, <1>12 DEF GenerateTrace, ToolState
  <2>2. child' \in Process
    BY <1>1, <1>12 DEF GenerateTrace, System, Process
  <2>3. Rest
    BY <1>1, <1>12 DEF GenerateTrace, System
  <2> QED
    BY <2>1, <2>2, <2>3
<1>13. CASE TraceFails
  <2>1. tool' = [tool EXCEPT !.pc = "report", !.cycles = Overflowed] /\ Overflowed \in Int
    BY <1>13 DEF TraceFails, Overflowed
  <2>2. tool' \in ToolState
    BY <1>1, <2>1 DEF ToolState
  <2>3. child' \in Process
    BY <1>2, <1>13 DEF TraceFails
  <2>4. Rest
    BY <1>1, <1>13 DEF TraceFails
  <2> QED
    BY <2>2, <2>3, <2>4
<1>14. CASE ComputeStats
  <2>1. tool' \in ToolState
    BY <1>1, <1>14 DEF ComputeStats, ToolState
  <2>2. child' \in Process
    BY <1>1, <1>14 DEF ComputeStats, System, Process
  <2>3. Rest
    BY <1>1, <1>14 DEF ComputeStats, System
  <2> QED
    BY <2>1, <2>2, <2>3
<1>15. CASE StatsFail
  <2>1. tool' = [tool EXCEPT !.pc = "report", !.cycles = Overflowed] /\ Overflowed \in Int
    BY <1>15 DEF StatsFail, Overflowed
  <2>2. tool' \in ToolState
    BY <1>1, <2>1 DEF ToolState
  <2>3. child' \in Process
    BY <1>2, <1>15 DEF StatsFail
  <2>4. Rest
    BY <1>1, <1>15 DEF StatsFail
  <2> QED
    BY <2>2, <2>3, <2>4
<1>16. CASE StatsLoad
  <2>1. \A c \in Int, own \in BOOLEAN :
          [tool EXCEPT !.pc = "report", !.correct = 1, !.cycles = c, !.own = own] \in ToolState
    BY <1>1 DEF ToolState
  <2>2. tool.own \in BOOLEAN /\ Lower \in Int /\ Upper \in Int
    BY <1>1 DEF ToolState, Lower, Upper
  <2>3. tool' \in ToolState
    BY <2>1, <2>2, <1>16 DEF StatsLoad
  <2>4. child' \in Process
    BY <1>2, <1>16 DEF StatsLoad
  <2>5. Rest
    BY <1>1, <1>16 DEF StatsLoad
  <2> QED
    BY <2>3, <2>4, <2>5
<1>17. CASE Alarm
  <2> DEFINE zero == 0
  <2>1. tool' = [tool EXCEPT !.pc = "report", !.points = zero, !.correct = zero, !.cycles = zero]
    BY <1>17 DEF Alarm
  <2>2. zero \in Int /\ zero \in {0, 1}
    OBVIOUS
  <2> HIDE DEF zero
  <2>3. tool' \in ToolState
    BY <1>1, <2>1, <2>2 DEF ToolState
  <2>4. child' \in Process
    BY <1>2, <1>17 DEF Alarm
  <2>5. Rest
    BY <1>1, <1>17 DEF Alarm
  <2> QED
    BY <2>3, <2>4, <2>5
<1>18. CASE StartTool
  <2> DEFINE one == 1
  <2>1. Step \in StepType
    BY <1>1, <1>18, PlanSteps DEF StartTool, Step, DriverState
  <2>2. tool' = [NoTool EXCEPT !.prog = Step.prog, !.M = Step.M, !.N = Step.N,
                             !.pc = IF Step.prog = "test-csim" THEN "unlink" ELSE "generate",
                             !.i = one, !.who = "ref"]
    BY <1>18 DEF StartTool
  <2>3. one \in Int
    OBVIOUS
  <2> HIDE DEF one
  <2>4. Step.prog \in {"test-csim", "test-trans"} /\ Step.M \in Nat /\ Step.N \in Nat
    BY <2>1 DEF StepType
  <2>5. tool' \in ToolState
    BY <1>2, <2>2, <2>3, <2>4 DEF ToolState
  <2>6. child' \in Process
    BY <1>1, <1>18 DEF StartTool
  <2>7. Rest
    BY <1>1, <1>18 DEF StartTool
  <2> QED
    BY <2>5, <2>6, <2>7
<1>19. CASE ReadReport
  <2>1. tool.cycles \in Int /\ tool.correct \in {0, 1} /\ tool.own \in BOOLEAN
    BY <1>1 DEF ToolState
  <2>2. ComputeMissScore(tool.cycles) \in Int
    BY <2>1 DEF ComputeMissScore, Lower, Upper
  <2>3. [points |-> ComputeMissScore(tool.cycles), correct |-> tool.correct, own |-> tool.own] \in Credit
    BY <2>1, <2>2 DEF Credit
  <2>4. \A n \in Nat \ {0}, credit \in SUBSET Credit, ok \in BOOLEAN :
          [driver EXCEPT !.next = n, !.transOK = ok, !.credit = credit] \in DriverState
    BY <1>1 DEF DriverState
  <2>5. driver.next + 1 \in Nat \ {0} /\ driver.credit \subseteq Credit /\ driver.transOK \in BOOLEAN
    BY <1>1 DEF DriverState
  <2>6. driver' \in DriverState
    BY <2>3, <2>4, <2>5, <1>19 DEF ReadReport
  <2>7. tool' \in ToolState /\ child' \in Process
    BY <1>1, <1>2, <1>19 DEF ReadReport
  <2>8. Rest
    BY <1>1, <2>6, <1>19 DEF ReadReport
  <2> QED
    BY <2>7, <2>8
<1>20. CASE Finish
  <2>1. driver' \in DriverState
    BY <1>1, <1>20 DEF Finish, DriverState
  <2>2. tool' \in ToolState /\ child' \in Process
    BY <1>1, <1>20 DEF Finish
  <2>3. Rest
    BY <1>1, <2>1, <1>20 DEF Finish
  <2> QED
    BY <2>2, <2>3
<1> QED
  BY <1>3, <1>4, <1>5, <1>6, <1>7, <1>8, <1>9, <1>10, <1>11, <1>12, <1>13,
     <1>14, <1>15, <1>16, <1>17, <1>18, <1>19, <1>20
     DEF Next

\* No step of a process, a tool or the driver breaks the invariant.
LEMMA NextInv ==
    ASSUME Inv, [Next]_vars
    PROVE  Inv'
<1> USE DEF Inv, TypeInv, Process, ToolState
<1>0. TypeInv'
  BY NextTypeInv DEF Inv
<1>1. CASE UNCHANGED vars
  <2>1. PlaceInv'
    BY <1>1 DEF vars, PlaceInv, OwnInv, NoChild, DriverState
  <2>2. OrphanInv'
    BY <1>1 DEF vars, PlaceInv, OrphanInv, NoChild, DriverState
  <2>3. FileInv'
    BY <1>1 DEF vars, PlaceInv, FileInv, OrphanInv, Counts, NoChild, Writes
  <2>4. OwnInv'
    BY <1>1 DEF vars, OwnInv, PlaceInv, FileInv, PointsAreFresh,
           ForkingShellIsSafe, Counts, Credit, DriverState
  <2>5. SubmissionIsCorrect'
    BY <1>1 DEF vars, SubmissionIsCorrect, PlaceInv, NoChild
  <2> QED
    BY <1>0, <2>1, <2>2, <2>3, <2>4, <2>5
<1>2. CASE ChildWrites
  <2>1. PlaceInv'
    BY <1>2 DEF ChildWrites, Writes, PlaceInv, OwnInv, NoChild, DriverState
  <2>2. OrphanInv'
    BY <1>2 DEF ChildWrites, Writes, PlaceInv, OrphanInv, NoChild, DriverState
  <2>3. FileInv'
    BY <1>2 DEF ChildWrites, Writes, PlaceInv, FileInv, OrphanInv, Counts,
           NoChild
  <2>4. OwnInv'
    BY <1>2 DEF ChildWrites, Writes, OwnInv, PlaceInv, FileInv,
           PointsAreFresh, ForkingShellIsSafe, Counts, Credit, DriverState
  <2>5. SubmissionIsCorrect'
    BY <1>2 DEF ChildWrites, Writes, SubmissionIsCorrect, PlaceInv, NoChild
  <2> QED
    BY <1>0, <2>1, <2>2, <2>3, <2>4, <2>5
<1>3. CASE ChildExits
  <2>1. submission = "this" /\ child.prog = "tracegen-ct" => TraceIsValid
    BY SubmitIsCorrect DEF TraceIsValid
  <2>2. PlaceInv'
    BY <1>3, <2>1 DEF ChildExits, ExitCodes, PlaceInv, OwnInv, NoChild,
           DriverState
  <2>3. OrphanInv'
    BY <1>3, <2>1 DEF ChildExits, ExitCodes, PlaceInv, OrphanInv, NoChild,
           DriverState
  <2>4. FileInv'
    BY <1>3, <2>1 DEF ChildExits, ExitCodes, PlaceInv, FileInv, OrphanInv,
           Counts, NoChild, Writes
  <2>5. OwnInv'
    BY <1>3, <2>1 DEF ChildExits, ExitCodes, OwnInv, PlaceInv, FileInv,
           PointsAreFresh, ForkingShellIsSafe, Counts, Credit, DriverState
  <2>6. SubmissionIsCorrect'
    BY <1>3, <2>1 DEF ChildExits, ExitCodes, SubmissionIsCorrect, PlaceInv,
           NoChild
  <2> QED
    BY <1>0, <2>2, <2>3, <2>4, <2>5, <2>6
<1>4. CASE ChildKilled
  <2>1. PlaceInv'
    BY <1>4 DEF ChildKilled, PlaceInv, OwnInv, NoChild, DriverState
  <2>2. OrphanInv'
    BY <1>4 DEF ChildKilled, PlaceInv, OrphanInv, NoChild, DriverState
  <2>3. FileInv'
    BY <1>4 DEF ChildKilled, PlaceInv, FileInv, OrphanInv, Counts, NoChild,
           Writes
  <2>4. OwnInv'
    BY <1>4 DEF ChildKilled, OwnInv, PlaceInv, FileInv, PointsAreFresh,
           ForkingShellIsSafe, Counts, Credit, DriverState
  <2>5. SubmissionIsCorrect'
    BY <1>4 DEF ChildKilled, SubmissionIsCorrect, PlaceInv, NoChild
  <2> QED
    BY <1>0, <2>1, <2>2, <2>3, <2>4, <2>5
<1>5. CASE OrphanWrites
  <2>1. PlaceInv'
    BY <1>5 DEF OrphanWrites, Writes, PlaceInv, OwnInv, NoChild, DriverState
  <2>2. OrphanInv'
    BY <1>5 DEF OrphanWrites, Writes, PlaceInv, OrphanInv, NoChild, DriverState
  <2>3. FileInv'
    BY <1>5 DEF OrphanWrites, Writes, PlaceInv, FileInv, OrphanInv, Counts,
           NoChild
  <2>4. OwnInv'
    BY <1>5 DEF OrphanWrites, Writes, OwnInv, PlaceInv, FileInv,
           PointsAreFresh, ForkingShellIsSafe, Counts, Credit, DriverState
  <2>5. SubmissionIsCorrect'
    BY <1>5 DEF OrphanWrites, Writes, SubmissionIsCorrect, PlaceInv, NoChild
  <2> QED
    BY <1>0, <2>1, <2>2, <2>3, <2>4, <2>5
<1>6. CASE \E p \in orphans : Ends(p)
  <2>1. PlaceInv'
    BY <1>6 DEF Ends, PlaceInv, OwnInv, NoChild, DriverState
  <2>2. OrphanInv'
    BY <1>6 DEF Ends, PlaceInv, OrphanInv, NoChild, DriverState
  <2>3. FileInv'
    BY <1>6 DEF Ends, PlaceInv, FileInv, OrphanInv, Counts, NoChild, Writes
  <2>4. OwnInv'
    BY <1>6 DEF Ends, OwnInv, PlaceInv, FileInv, PointsAreFresh,
           ForkingShellIsSafe, Counts, Credit, DriverState
  <2>5. SubmissionIsCorrect'
    BY <1>6 DEF Ends, SubmissionIsCorrect, PlaceInv, NoChild
  <2> QED
    BY <1>0, <2>1, <2>2, <2>3, <2>4, <2>5
<1>7. CASE CsimUnlink
  <2>1. PlaceInv'
    BY <1>7 DEF CsimUnlink, System, PlaceInv, OwnInv, NoChild, DriverState
  <2>2. OrphanInv'
    BY <1>7 DEF CsimUnlink, System, PlaceInv, OrphanInv, NoChild, DriverState
  <2>3. FileInv'
    BY <1>7 DEF CsimUnlink, System, PlaceInv, FileInv, OrphanInv, Counts,
           NoChild, Writes
  <2>4. OwnInv'
    BY <1>7 DEF CsimUnlink, System, OwnInv, PlaceInv, FileInv, PointsAreFresh,
           ForkingShellIsSafe, Counts, Credit, DriverState
  <2>5. SubmissionIsCorrect'
    BY <1>7 DEF CsimUnlink, System, SubmissionIsCorrect, PlaceInv, NoChild
  <2> QED
    BY <1>0, <2>1, <2>2, <2>3, <2>4, <2>5
<1>8. CASE CsimFails
  <2>1. PlaceInv'
    BY <1>8 DEF CsimFails, AfterTrace, Ended, PlaceInv, OwnInv, NoChild,
           DriverState
  <2>2. OrphanInv'
    BY <1>8 DEF CsimFails, AfterTrace, Ended, PlaceInv, OrphanInv, NoChild,
           DriverState
  <2>3. FileInv'
    BY <1>8 DEF CsimFails, AfterTrace, Ended, PlaceInv, FileInv, OrphanInv,
           Counts, NoChild, Writes
  <2>4. OwnInv'
    BY <1>8 DEF CsimFails, AfterTrace, Ended, OwnInv, PlaceInv, FileInv,
           PointsAreFresh, ForkingShellIsSafe, Counts, Credit, DriverState
  <2>5. SubmissionIsCorrect'
    BY <1>8 DEF CsimFails, AfterTrace, Ended, SubmissionIsCorrect, PlaceInv,
           NoChild
  <2> QED
    BY <1>0, <2>1, <2>2, <2>3, <2>4, <2>5
<1>9. CASE CsimLoads
  <2>1. tool.prog = "test-csim" /\ tool.own /\ file = Counts(child) /\ tool.correct # 1
    BY <1>9 DEF CsimLoads, PlaceInv, FileInv, OwnInv, PointsAreFresh
  <2>2. /\ tool'.prog = "test-csim" /\ tool'.own /\ tool'.correct # 1
        /\ tool'.pc \in {"unlink", "report"}
    BY ZenonT(60), <1>9, <2>1 DEF CsimLoads, AfterTrace
  <2>3. PlaceInv'
    BY <1>9, <2>1, <2>2 DEF CsimLoads, PlaceInv, OwnInv, NoChild, DriverState
  <2>4. OrphanInv'
    BY <1>9, <2>1, <2>2 DEF CsimLoads, PlaceInv, OrphanInv, NoChild, DriverState
  <2>5. FileInv'
    BY <1>9, <2>1, <2>2 DEF CsimLoads, PlaceInv, FileInv, OrphanInv, Counts,
           NoChild, Writes
  <2>6. OwnInv'
    BY <1>9, <2>1, <2>2 DEF CsimLoads, OwnInv, PlaceInv, FileInv,
           PointsAreFresh, ForkingShellIsSafe, Counts, Credit, DriverState
  <2>7. SubmissionIsCorrect'
    BY <1>9, <2>1, <2>2 DEF CsimLoads, SubmissionIsCorrect, PlaceInv, NoChild
  <2> QED
    BY <1>0, <2>3, <2>4, <2>5, <2>6, <2>7
<1>10. CASE GenerateTrace
  <2>1. PlaceInv'
    BY <1>10 DEF GenerateTrace, System, PlaceInv, OwnInv, NoChild, DriverState
  <2>2. OrphanInv'
    BY <1>10 DEF GenerateTrace, System, PlaceInv, OrphanInv, NoChild,
           DriverState
  <2>3. FileInv'
    BY <1>10 DEF GenerateTrace, System, PlaceInv, FileInv, OrphanInv, Counts,
           NoChild, Writes
  <2>4. OwnInv'
    BY <1>10 DEF GenerateTrace, System, OwnInv, PlaceInv, FileInv,
           PointsAreFresh, ForkingShellIsSafe, Counts, Credit, DriverState
  <2>5. SubmissionIsCorrect'
    BY <1>10 DEF GenerateTrace, System, SubmissionIsCorrect, PlaceInv, NoChild
  <2> QED
    BY <1>0, <2>1, <2>2, <2>3, <2>4, <2>5
<1>11. CASE TraceFails
  <2>1. PlaceInv'
    BY <1>11 DEF TraceFails, Ended, Overflowed, PlaceInv, OwnInv, NoChild,
           DriverState
  <2>2. OrphanInv'
    BY <1>11 DEF TraceFails, Ended, Overflowed, PlaceInv, OrphanInv, NoChild,
           DriverState
  <2>3. FileInv'
    BY <1>11 DEF TraceFails, Ended, Overflowed, PlaceInv, FileInv, OrphanInv,
           Counts, NoChild, Writes
  <2>4. OwnInv'
    BY <1>11 DEF TraceFails, Ended, Overflowed, OwnInv, PlaceInv, FileInv,
           PointsAreFresh, ForkingShellIsSafe, Counts, Credit, DriverState
  <2>5. SubmissionIsCorrect'
    BY <1>11 DEF TraceFails, Ended, Overflowed, SubmissionIsCorrect, PlaceInv,
           NoChild
  <2> QED
    BY <1>0, <2>1, <2>2, <2>3, <2>4, <2>5
<1>12. CASE ComputeStats
  <2>1. PlaceInv'
    BY <1>12 DEF ComputeStats, System, Ended, ExitStatus, PlaceInv, OwnInv,
           NoChild, DriverState
  <2>2. OrphanInv'
    BY <1>12 DEF ComputeStats, System, Ended, ExitStatus, PlaceInv, OrphanInv,
           NoChild, DriverState
  <2>3. FileInv'
    BY <1>12 DEF ComputeStats, System, Ended, ExitStatus, PlaceInv, FileInv,
           OrphanInv, Counts, NoChild, Writes
  <2>4. OwnInv'
    BY <1>12 DEF ComputeStats, System, Ended, ExitStatus, OwnInv, PlaceInv,
           FileInv, PointsAreFresh, ForkingShellIsSafe, Counts, Credit,
           DriverState
  <2>5. SubmissionIsCorrect'
    BY <1>12 DEF ComputeStats, System, Ended, ExitStatus, SubmissionIsCorrect,
           PlaceInv, NoChild
  <2> QED
    BY <1>0, <2>1, <2>2, <2>3, <2>4, <2>5
<1>13. CASE StatsFail
  <2>1. PlaceInv'
    BY <1>13 DEF StatsFail, Ended, Overflowed, PlaceInv, OwnInv, NoChild,
           DriverState
  <2>2. OrphanInv'
    BY <1>13 DEF StatsFail, Ended, Overflowed, PlaceInv, OrphanInv, NoChild,
           DriverState
  <2>3. FileInv'
    BY <1>13 DEF StatsFail, Ended, Overflowed, PlaceInv, FileInv, OrphanInv,
           Counts, NoChild, Writes
  <2>4. OwnInv'
    BY <1>13 DEF StatsFail, Ended, Overflowed, OwnInv, PlaceInv, FileInv,
           PointsAreFresh, ForkingShellIsSafe, Counts, Credit, DriverState
  <2>5. SubmissionIsCorrect'
    BY <1>13 DEF StatsFail, Ended, Overflowed, SubmissionIsCorrect, PlaceInv,
           NoChild
  <2> QED
    BY <1>0, <2>1, <2>2, <2>3, <2>4, <2>5
<1>14. CASE StatsLoad
  <2>1. PlaceInv'
    BY <1>14 DEF StatsLoad, Ended, ExitStatus, Lower, Upper, PlaceInv, OwnInv,
           NoChild, DriverState
  <2>2. OrphanInv'
    BY <1>14 DEF StatsLoad, Ended, ExitStatus, Lower, Upper, PlaceInv,
           OrphanInv, NoChild, DriverState
  <2>3. FileInv'
    BY <1>14 DEF StatsLoad, Ended, ExitStatus, Lower, Upper, PlaceInv,
           FileInv, OrphanInv, Counts, NoChild, Writes
  <2>4. OwnInv'
    BY <1>14 DEF StatsLoad, Ended, ExitStatus, Lower, Upper, OwnInv, PlaceInv,
           FileInv, PointsAreFresh, ForkingShellIsSafe, Counts, Credit,
           DriverState
  <2>5. SubmissionIsCorrect'
    BY <1>14 DEF StatsLoad, Ended, ExitStatus, Lower, Upper,
           SubmissionIsCorrect, PlaceInv, NoChild
  <2> QED
    BY <1>0, <2>1, <2>2, <2>3, <2>4, <2>5
<1>15. CASE Alarm
  <2>1. PlaceInv'
    BY <1>15 DEF Alarm, PlaceInv, OwnInv, NoChild, DriverState
  <2>2. OrphanInv'
    BY <1>15 DEF Alarm, PlaceInv, OrphanInv, NoChild, DriverState
  <2>3. FileInv'
    BY <1>15 DEF Alarm, PlaceInv, FileInv, OrphanInv, Counts, NoChild, Writes
  <2>4. OwnInv'
    BY <1>15 DEF Alarm, OwnInv, PlaceInv, FileInv, PointsAreFresh,
           ForkingShellIsSafe, Counts, Credit, DriverState
  <2>5. SubmissionIsCorrect'
    BY <1>15 DEF Alarm, SubmissionIsCorrect, PlaceInv, NoChild
  <2> QED
    BY <1>0, <2>1, <2>2, <2>3, <2>4, <2>5
<1>16. CASE StartTool
  <2>1. Step \in StepType /\ (Step.prog = "test-csim" <=> driver.next = 1)
    BY <1>16, PlanSteps DEF StartTool, Step, DriverState
  <2>2. PlaceInv'
    BY <1>16, <2>1 DEF StartTool, StepType, NoTool, PlaceInv, OwnInv, NoChild,
           DriverState
  <2>3. OrphanInv'
    BY <1>16, <2>1 DEF StartTool, StepType, NoTool, PlaceInv, OrphanInv,
           NoChild, DriverState
  <2>4. FileInv'
    BY <1>16, <2>1 DEF StartTool, StepType, NoTool, PlaceInv, FileInv,
           OrphanInv, Counts, NoChild, Writes
  <2>5. OwnInv'
    BY <1>16, <2>1 DEF StartTool, StepType, NoTool, OwnInv, PlaceInv, FileInv,
           PointsAreFresh, ForkingShellIsSafe, Counts, Credit, DriverState
  <2>6. SubmissionIsCorrect'
    BY <1>16, <2>1 DEF StartTool, StepType, NoTool, SubmissionIsCorrect,
           PlaceInv, NoChild
  <2> QED
    BY <1>0, <2>2, <2>3, <2>4, <2>5, <2>6
<1>17. CASE ReadReport
  <2>1. PlaceInv'
    BY <1>17 DEF ReadReport, HoldsPipe, NoTool, PlaceInv, OwnInv, NoChild,
           DriverState
  <2>2. OrphanInv'
    BY <1>17 DEF ReadReport, HoldsPipe, NoTool, PlaceInv, OrphanInv, NoChild,
           DriverState
  <2>3. FileInv'
    BY <1>17 DEF ReadReport, HoldsPipe, NoTool, PlaceInv, FileInv, OrphanInv,
           Counts, NoChild, Writes
  <2>4. OwnInv'
    BY <1>17 DEF ReadReport, HoldsPipe, NoTool, OwnInv, PlaceInv, FileInv,
           PointsAreFresh, ForkingShellIsSafe, Counts, Credit, DriverState
  <2>5. SubmissionIsCorrect'
    BY <1>17 DEF ReadReport, HoldsPipe, NoTool, SubmissionIsCorrect, PlaceInv,
           NoChild
  <2> QED
    BY <1>0, <2>1, <2>2, <2>3, <2>4, <2>5
<1>18. CASE Finish
  <2>1. PlaceInv'
    BY <1>18 DEF Finish, PlaceInv, OwnInv, NoChild, DriverState
  <2>2. OrphanInv'
    BY <1>18 DEF Finish, PlaceInv, OrphanInv, NoChild, DriverState
  <2>3. FileInv'
    BY <1>18 DEF Finish, PlaceInv, FileInv, OrphanInv, Counts, NoChild, Writes
  <2>4. OwnInv'
    BY <1>18 DEF Finish, OwnInv, PlaceInv, FileInv, PointsAreFresh,
           ForkingShellIsSafe, Counts, Credit, DriverState
  <2>5. SubmissionIsCorrect'
    BY <1>18 DEF Finish, SubmissionIsCorrect, PlaceInv, NoChild
  <2> QED
    BY <1>0, <2>1, <2>2, <2>3, <2>4, <2>5
<1> QED
  BY <1>1, <1>2, <1>3, <1>4, <1>5, <1>6, <1>7, <1>8, <1>9, <1>10, <1>11,
     <1>12, <1>13, <1>14, <1>15, <1>16, <1>17, <1>18
     DEF Next

\* The invariant holds throughout every grading.
LEMMA AlwaysInv == Spec => []Inv
BY InitInv, NextInv, PTL DEF Spec

\* The points of test-csim are given for counts that the simulator just run
\* wrote, for any number of traces.
THEOREM PointsAlwaysFresh == Spec => []PointsAreFresh
<1>1. Inv => PointsAreFresh
  BY DEF Inv, OwnInv
<1> QED
  BY <1>1, AlwaysInv, PTL

\* Under a shell that stays, a performance score that reports a correct
\* transpose rests on counts that csim-ref wrote for its validated trace.
THEOREM ForkingShellAlwaysSafe == Spec => []ForkingShellIsSafe
<1>1. Inv => ForkingShellIsSafe
  BY DEF Inv, OwnInv
<1> QED
  BY <1>1, AlwaysInv, PTL

\* tracegen-ct never rejects the transposes of trans.c, for any sizes.
THEOREM SubmissionAlwaysCorrect == Spec => []SubmissionIsCorrect
<1>1. Inv => SubmissionIsCorrect
  BY DEF Inv
<1> QED
  BY <1>1, AlwaysInv, PTL
=============================================================================
