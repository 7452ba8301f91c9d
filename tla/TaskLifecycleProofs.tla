------------------------ MODULE TaskLifecycleProofs ------------------------
(***************************************************************************)
(* Proofs about TaskLifecycle for any sets of tasks and nodes, with every  *)
(* loss, delay and crash the model has. The argument: a task's request,    *)
(* its trigger and its execution form one pass (TriggeredOnce), a          *)
(* goroutine's place determines its container (ContainerFollows), and the  *)
(* reports in flight are already true when they are sent (ReportsAreTrue); *)
(* so whatever order they arrive in, what the store says of success and    *)
(* containers is true.                                                     *)
(***************************************************************************)
EXTENDS TaskLifecycle, TLAPS

LEMMA SentReportIsReport ==
  ASSUME TypeOK, NEW t \in Tasks, NEW s \in {"running", "completed", "failed"},
         NEW c \in BOOLEAN, SendReport(t, s, c)
  PROVE  reports' \in SUBSET Report
BY DEF TypeOK, SendReport, Report

LEMMA TypeOKStep == TypeOK /\ [Next]_vars => TypeOK'
<1> SUFFICES ASSUME TypeOK, [Next]_vars PROVE TypeOK'
  OBVIOUS
<1> USE DEF masterVars, requestVars, dockerVars, healthVars, pruneVars
<1>1. ASSUME NEW n \in Nodes, NodeAvailable(n) PROVE TypeOK'
  BY <1>1 DEF TypeOK, NodeAvailable
<1>2. ASSUME NEW n \in Nodes, NodeUnavailable(n) PROVE TypeOK'
  BY <1>2 DEF TypeOK, NodeUnavailable
<1>3. ASSUME NEW n \in Nodes, WorkerEnds(n) PROVE TypeOK'
  <2>1. callback' \in [Tasks -> BOOLEAN]
    BY <1>3, Zenon DEF TypeOK, WorkerEnds
  <2>2. pc' \in [Tasks -> PC]
    BY <1>3 DEF TypeOK, WorkerEnds, PC
  <2> QED
    BY <1>3, <2>1, <2>2 DEF TypeOK, WorkerEnds
<1>4. ASSUME NEW t \in Tasks, CreateTask(t) PROVE TypeOK'
  BY <1>4 DEF TypeOK, CreateTask, Status, Terminal
<1>5. ASSUME NEW t \in Tasks, SchedulingFails(t) PROVE TypeOK'
  BY <1>5 DEF TypeOK, SchedulingFails
<1>6. ASSUME NEW t \in Tasks, AssignNode(t) PROVE TypeOK'
  BY <1>6 DEF TypeOK, AssignNode, Status, Terminal
<1>7. ASSUME NEW t \in Tasks, TriggerExecution(t) PROVE TypeOK'
  BY <1>7 DEF TypeOK, TriggerExecution
<1>8. ASSUME NEW t \in Tasks, LoseTrigger(t) PROVE TypeOK'
  BY <1>8 DEF TypeOK, LoseTrigger
<1>9. ASSUME NEW t \in Tasks, NEW n \in Nodes, SelectNode(t, n) PROVE TypeOK'
  BY <1>9 DEF TypeOK, SelectNode
<1>10. ASSUME NEW t \in Tasks, AcceptTask(t) PROVE TypeOK'
  BY <1>10 DEF TypeOK, AcceptTask, PC
<1>11. ASSUME NEW t \in Tasks, ExecuteTask(t) PROVE TypeOK'
  <2> DEFINE Goroutine == /\ pc' \in [Tasks -> PC]
                          /\ reports' \in SUBSET Report
                          /\ container' \in [Tasks -> {"none", "created", "running", "exited", "removed"}]
                          /\ exitCode' = exitCode
  <2>1. ASSUME Begin(t) PROVE Goroutine
    <3>1. reports' \in SUBSET Report
      BY <2>1, SentReportIsReport DEF Begin
    <3> QED
      BY <2>1, <3>1 DEF Begin, GoTo, TypeOK, PC
  <2>2. ASSUME RunningReported(t) PROVE Goroutine
    BY <2>2 DEF RunningReported, GoTo, TypeOK, PC
  <2>3. ASSUME PullImage(t) PROVE Goroutine
    BY <2>3 DEF PullImage, GoTo, TypeOK, PC
  <2>4. ASSUME CreateContainer(t) PROVE Goroutine
    BY <2>4 DEF CreateContainer, GoTo, TypeOK, PC
  <2>5. ASSUME PrepareFails(t) PROVE Goroutine
    <3>1. reports' \in SUBSET Report
      BY <2>5, SentReportIsReport DEF PrepareFails
    <3> QED
      BY <2>5, <3>1 DEF PrepareFails, GoTo, TypeOK, PC
  <2>6. ASSUME StartContainer(t) PROVE Goroutine
    <3>1. reports' \in SUBSET Report
      BY <2>6, SentReportIsReport DEF StartContainer
    <3> QED
      BY <2>6, <3>1 DEF StartContainer, GoTo, TypeOK, PC
  <2>7. ASSUME StartFails(t) PROVE Goroutine
    <3>1. reports' \in SUBSET Report
      BY <2>7, SentReportIsReport DEF StartFails
    <3> QED
      BY <2>7, <3>1 DEF StartFails, GoTo, TypeOK, PC
  <2>8. ASSUME ContainerReported(t) PROVE Goroutine
    BY <2>8 DEF ContainerReported, GoTo, TypeOK, PC
  <2>9. ASSUME WaitReturns(t) PROVE Goroutine
    <3>1. reports' \in SUBSET Report
      BY <2>9, SentReportIsReport DEF WaitReturns
    <3> QED
      BY <2>9, <3>1 DEF WaitReturns, GoTo, TypeOK, PC
  <2>10. ASSUME WaitFails(t) PROVE Goroutine
    <3>1. reports' \in SUBSET Report
      BY <2>10, SentReportIsReport DEF WaitFails
    <3> QED
      BY <2>10, <3>1 DEF WaitFails, GoTo, TypeOK, PC
  <2>11. ASSUME ExitReported(t) PROVE Goroutine
    BY <2>11 DEF ExitReported, GoTo, TypeOK, PC
  <2>12. ASSUME RemoveContainer(t) PROVE Goroutine
    BY <2>12 DEF RemoveContainer, GoTo, TypeOK, PC
  <2>13. ASSUME FailureReported(t) PROVE Goroutine
    BY <2>13 DEF FailureReported, GoTo, TypeOK, PC
  <2>14. Goroutine
    BY <1>11, <2>1, <2>2, <2>3, <2>4, <2>5, <2>6, <2>7, <2>8, <2>9, <2>10, <2>11,
       <2>12, <2>13 DEF ExecuteTask
  <2> QED
    BY <1>11, <2>14 DEF ExecuteTask, TypeOK
<1>12. ASSUME NEW t \in Tasks, NEW code \in {"zero", "nonzero"}, ContainerExits(t, code) PROVE TypeOK'
  BY <1>12 DEF TypeOK, ContainerExits
<1>13. ASSUME NEW t \in Tasks, ProbeSucceeds(t) PROVE TypeOK'
  BY <1>13 DEF TypeOK, ProbeSucceeds
<1>14. ASSUME NEW t \in Tasks, ProbeFails(t) PROVE TypeOK'
  <2>1. callback' \in [Tasks -> BOOLEAN]
    BY <1>14, Zenon DEF TypeOK, ProbeFails
  <2> QED
    BY <1>14, <2>1 DEF TypeOK, ProbeFails
<1>15. ASSUME NEW t \in Tasks, HandleUnhealthyContainer(t) PROVE TypeOK'
  <2> DEFINE r == [task |-> t, from |-> "health", status |-> "failed", containerID |-> FALSE]
  <2>1. r \in Report
    BY DEF Report
  <2>2. reports' \in SUBSET Report
    BY <1>15, <2>1 DEF TypeOK, HandleUnhealthyContainer
  <2>3. callback' \in [Tasks -> BOOLEAN]
    BY <1>15 DEF TypeOK, HandleUnhealthyContainer
  <2> QED
    BY <1>15, <2>2, <2>3 DEF TypeOK, HandleUnhealthyContainer
<1>16. ASSUME NEW t \in Tasks, DeleteTask(t) PROVE TypeOK'
  BY <1>16 DEF TypeOK, DeleteTask, Status
<1>17. ASSUME NEW r \in reports, UpdateTaskStatus(r) PROVE TypeOK'
  BY <1>17 DEF TypeOK, UpdateTaskStatus, Report, Status, Terminal
<1>18. ASSUME NEW r \in reports, LoseReport(r) PROVE TypeOK'
  BY <1>18 DEF TypeOK, LoseReport
<1>19. ASSUME NEW all \in BOOLEAN, PruneTasks(all) PROVE TypeOK'
  BY <1>19 DEF TypeOK, PruneTasks
<1>20. CASE UNCHANGED vars
  BY <1>20 DEF TypeOK, vars
<1> QED
  BY <1>1, <1>2, <1>3, <1>4, <1>5, <1>6, <1>7, <1>8, <1>9, <1>10, <1>11, <1>12,
     <1>13, <1>14, <1>15, <1>16, <1>17, <1>18, <1>19, <1>20
     DEF Next

(* Every variable keeps its type. *)
THEOREM TypeCorrect == Spec => []TypeOK
<1>1. Init => TypeOK
  <2> SUFFICES ASSUME Init PROVE TypeOK
    OBVIOUS
  <2>1. containerID \in [Tasks -> BOOLEAN] /\ callback \in [Tasks -> BOOLEAN]
    BY Zenon DEF Init
  <2> QED
    BY <2>1 DEF Init, TypeOK, Status, PC
<1> QED
  BY <1>1, TypeOKStep, PTL DEF Spec

-----------------------------------------------------------------------------
(* The inductive invariant. A step is split into the part about one task   *)
(* and the parts about the reports and the store.                          *)

OneTaskInv(t) == TriggeredOnce(t) /\ Assigned(t) /\ ContainerFollows(t)

LEMMA InvInit == Init => Inv
<1> SUFFICES ASSUME Init PROVE Inv
  OBVIOUS
<1>1. TypeOK
  <2>1. containerID \in [Tasks -> BOOLEAN] /\ callback \in [Tasks -> BOOLEAN]
    BY Zenon DEF Init
  <2> QED
    BY <2>1 DEF Init, TypeOK, Status, PC
<1>2. ASSUME NEW t \in Tasks PROVE OneTaskInv(t)
  BY DEF Init, OneTaskInv, TriggeredOnce, Assigned, ContainerFollows,
     BeforeContainer, WithContainer, Stored
<1>3. CompletedMeansExitedZero /\ ContainerIDIsReal /\ ReportsAreTrue
  BY DEF Init, CompletedMeansExitedZero, ContainerIDIsReal, ReportsAreTrue
<1> QED
  BY <1>1, <1>2, <1>3 DEF Inv, OneTaskInv

(* Steps that leave the requests, the executions and the store alone and   *)
(* send nothing.                                                           *)
LEMMA InvFrame ==
  ASSUME Inv, TypeOK',
         UNCHANGED <<masterVars, requestVars, triggers, pc, dockerVars>>,
         reports' \subseteq reports
  PROVE  Inv'
<1> USE DEF masterVars, requestVars, dockerVars
<1>1. ASSUME NEW t \in Tasks PROVE OneTaskInv(t)'
  BY DEF Inv, OneTaskInv, TriggeredOnce, Assigned, ContainerFollows
<1>2. (CompletedMeansExitedZero /\ ContainerIDIsReal /\ ReportsAreTrue)'
  BY DEF Inv, CompletedMeansExitedZero, ContainerIDIsReal, ReportsAreTrue
<1> QED
  BY <1>1, <1>2 DEF Inv, OneTaskInv

LEMMA InvStep == Inv /\ [Next]_vars => Inv'
<1> SUFFICES ASSUME Inv, [Next]_vars PROVE Inv'
  OBVIOUS
<1> USE DEF masterVars, requestVars, dockerVars, healthVars, pruneVars
<1>0. TypeOK /\ TypeOK'
  BY TypeOKStep DEF Inv
<1>1. ASSUME NEW n \in Nodes, NodeAvailable(n) PROVE Inv'
  BY <1>0, <1>1, InvFrame DEF NodeAvailable
<1>2. ASSUME NEW n \in Nodes, NodeUnavailable(n) PROVE Inv'
  BY <1>0, <1>2, InvFrame DEF NodeUnavailable
<1>3. ASSUME NEW n \in Nodes, WorkerEnds(n) PROVE Inv'
  <2>1. ASSUME NEW x \in Tasks PROVE OneTaskInv(x)'
    BY <1>0, <1>3
       DEF WorkerEnds, TypeOK, PC, Inv, OneTaskInv, TriggeredOnce, Assigned,
        ContainerFollows, BeforeContainer, WithContainer, Stored, Status, Terminal
  <2>2. ReportsAreTrue'
    BY <1>0, <1>3
       DEF WorkerEnds, TypeOK, PC, Report, Inv, ReportsAreTrue, ContainerFollows,
        BeforeContainer, WithContainer
  <2>3. (CompletedMeansExitedZero /\ ContainerIDIsReal)'
    BY <1>0, <1>3
       DEF WorkerEnds, TypeOK, Report, Inv, CompletedMeansExitedZero,
        ContainerIDIsReal, ReportsAreTrue, ContainerFollows, BeforeContainer,
        WithContainer
  <2> QED
    BY <1>0, <2>1, <2>2, <2>3 DEF Inv, OneTaskInv
<1>4. ASSUME NEW t \in Tasks, CreateTask(t) PROVE Inv'
  <2>1. ASSUME NEW x \in Tasks PROVE OneTaskInv(x)'
    BY <1>0, <1>4
       DEF CreateTask, TypeOK, PC, Inv, OneTaskInv, TriggeredOnce, Assigned,
        ContainerFollows, BeforeContainer, WithContainer, Stored, Status, Terminal
  <2>2. ReportsAreTrue'
    BY <1>0, <1>4
       DEF CreateTask, TypeOK, PC, Report, Inv, ReportsAreTrue, ContainerFollows,
        BeforeContainer, WithContainer
  <2>3. (CompletedMeansExitedZero /\ ContainerIDIsReal)'
    BY <1>0, <1>4
       DEF CreateTask, TypeOK, Report, Inv, CompletedMeansExitedZero,
        ContainerIDIsReal, ReportsAreTrue, ContainerFollows, BeforeContainer,
        WithContainer
  <2> QED
    BY <1>0, <2>1, <2>2, <2>3 DEF Inv, OneTaskInv
<1>5. ASSUME NEW t \in Tasks, SchedulingFails(t) PROVE Inv'
  <2>1. ASSUME NEW x \in Tasks PROVE OneTaskInv(x)'
    BY <1>0, <1>5
       DEF SchedulingFails, TypeOK, PC, Inv, OneTaskInv, TriggeredOnce, Assigned,
        ContainerFollows, BeforeContainer, WithContainer, Stored, Status, Terminal
  <2>2. ReportsAreTrue'
    BY <1>0, <1>5
       DEF SchedulingFails, TypeOK, PC, Report, Inv, ReportsAreTrue,
        ContainerFollows, BeforeContainer, WithContainer
  <2>3. (CompletedMeansExitedZero /\ ContainerIDIsReal)'
    BY <1>0, <1>5
       DEF SchedulingFails, TypeOK, Report, Inv, CompletedMeansExitedZero,
        ContainerIDIsReal, ReportsAreTrue, ContainerFollows, BeforeContainer,
        WithContainer
  <2> QED
    BY <1>0, <2>1, <2>2, <2>3 DEF Inv, OneTaskInv
<1>6. ASSUME NEW t \in Tasks, AssignNode(t) PROVE Inv'
  <2>1. ASSUME NEW x \in Tasks PROVE OneTaskInv(x)'
    BY <1>0, <1>6
       DEF AssignNode, TypeOK, PC, Inv, OneTaskInv, TriggeredOnce, Assigned,
        ContainerFollows, BeforeContainer, WithContainer, Stored, Status, Terminal
  <2>2. ReportsAreTrue'
    BY <1>0, <1>6
       DEF AssignNode, TypeOK, PC, Report, Inv, ReportsAreTrue, ContainerFollows,
        BeforeContainer, WithContainer
  <2>3. (CompletedMeansExitedZero /\ ContainerIDIsReal)'
    BY <1>0, <1>6
       DEF AssignNode, TypeOK, Report, Inv, CompletedMeansExitedZero,
        ContainerIDIsReal, ReportsAreTrue, ContainerFollows, BeforeContainer,
        WithContainer
  <2> QED
    BY <1>0, <2>1, <2>2, <2>3 DEF Inv, OneTaskInv
<1>7. ASSUME NEW t \in Tasks, TriggerExecution(t) PROVE Inv'
  <2>1. ASSUME NEW x \in Tasks PROVE OneTaskInv(x)'
    BY <1>0, <1>7
       DEF TriggerExecution, TypeOK, PC, Inv, OneTaskInv, TriggeredOnce, Assigned,
        ContainerFollows, BeforeContainer, WithContainer, Stored, Status, Terminal
  <2>2. ReportsAreTrue'
    BY <1>0, <1>7
       DEF TriggerExecution, TypeOK, PC, Report, Inv, ReportsAreTrue,
        ContainerFollows, BeforeContainer, WithContainer
  <2>3. (CompletedMeansExitedZero /\ ContainerIDIsReal)'
    BY <1>0, <1>7
       DEF TriggerExecution, TypeOK, Report, Inv, CompletedMeansExitedZero,
        ContainerIDIsReal, ReportsAreTrue, ContainerFollows, BeforeContainer,
        WithContainer
  <2> QED
    BY <1>0, <2>1, <2>2, <2>3 DEF Inv, OneTaskInv
<1>8. ASSUME NEW t \in Tasks, LoseTrigger(t) PROVE Inv'
  <2>1. ASSUME NEW x \in Tasks PROVE OneTaskInv(x)'
    BY <1>0, <1>8
       DEF LoseTrigger, TypeOK, PC, Inv, OneTaskInv, TriggeredOnce, Assigned,
        ContainerFollows, BeforeContainer, WithContainer, Stored, Status, Terminal
  <2>2. ReportsAreTrue'
    BY <1>0, <1>8
       DEF LoseTrigger, TypeOK, PC, Report, Inv, ReportsAreTrue, ContainerFollows,
        BeforeContainer, WithContainer
  <2>3. (CompletedMeansExitedZero /\ ContainerIDIsReal)'
    BY <1>0, <1>8
       DEF LoseTrigger, TypeOK, Report, Inv, CompletedMeansExitedZero,
        ContainerIDIsReal, ReportsAreTrue, ContainerFollows, BeforeContainer,
        WithContainer
  <2> QED
    BY <1>0, <2>1, <2>2, <2>3 DEF Inv, OneTaskInv
<1>9. ASSUME NEW t \in Tasks, NEW n \in Nodes, SelectNode(t, n) PROVE Inv'
  <2>1. ASSUME NEW x \in Tasks PROVE OneTaskInv(x)'
    BY <1>0, <1>9
       DEF SelectNode, TypeOK, PC, Inv, OneTaskInv, TriggeredOnce, Assigned,
        ContainerFollows, BeforeContainer, WithContainer, Stored, Status, Terminal
  <2>2. ReportsAreTrue'
    BY <1>0, <1>9
       DEF SelectNode, TypeOK, PC, Report, Inv, ReportsAreTrue, ContainerFollows,
        BeforeContainer, WithContainer
  <2>3. (CompletedMeansExitedZero /\ ContainerIDIsReal)'
    BY <1>0, <1>9
       DEF SelectNode, TypeOK, Report, Inv, CompletedMeansExitedZero,
        ContainerIDIsReal, ReportsAreTrue, ContainerFollows, BeforeContainer,
        WithContainer
  <2> QED
    BY <1>0, <2>1, <2>2, <2>3 DEF Inv, OneTaskInv
<1>10. ASSUME NEW t \in Tasks, AcceptTask(t) PROVE Inv'
  <2>1. ASSUME NEW x \in Tasks PROVE OneTaskInv(x)'
    BY <1>0, <1>10
       DEF AcceptTask, TypeOK, PC, Inv, OneTaskInv, TriggeredOnce, Assigned,
        ContainerFollows, BeforeContainer, WithContainer, Stored, Status, Terminal
  <2>2. ReportsAreTrue'
    BY <1>0, <1>10
       DEF AcceptTask, TypeOK, PC, Report, Inv, ReportsAreTrue, ContainerFollows,
        BeforeContainer, WithContainer
  <2>3. (CompletedMeansExitedZero /\ ContainerIDIsReal)'
    BY <1>0, <1>10
       DEF AcceptTask, TypeOK, Report, Inv, CompletedMeansExitedZero,
        ContainerIDIsReal, ReportsAreTrue, ContainerFollows, BeforeContainer,
        WithContainer
  <2> QED
    BY <1>0, <2>1, <2>2, <2>3 DEF Inv, OneTaskInv
<1>11. ASSUME NEW t \in Tasks, ExecuteTask(t) PROVE Inv'
  <2> USE DEF GoTo, SendReport
  <2>1. CASE Begin(t)
    <3>1. ASSUME NEW x \in Tasks PROVE OneTaskInv(x)'
      BY <1>0, <1>11, <2>1
         DEF ExecuteTask, Begin, TypeOK, PC, Inv, OneTaskInv, TriggeredOnce,
          Assigned, ContainerFollows, BeforeContainer, WithContainer, Stored,
          Status, Terminal
    <3>2. ReportsAreTrue'
      BY <1>0, <1>11, <2>1
         DEF ExecuteTask, Begin, TypeOK, PC, Report, Inv, ReportsAreTrue,
          ContainerFollows, BeforeContainer, WithContainer
    <3>3. (CompletedMeansExitedZero /\ ContainerIDIsReal)'
      BY <1>0, <1>11, <2>1
         DEF ExecuteTask, Begin, TypeOK, Inv, CompletedMeansExitedZero,
          ContainerIDIsReal, ContainerFollows
    <3> QED
      BY <1>0, <3>1, <3>2, <3>3 DEF Inv, OneTaskInv
  <2>2. CASE RunningReported(t)
    <3>1. ASSUME NEW x \in Tasks PROVE OneTaskInv(x)'
      BY <1>0, <1>11, <2>2
         DEF ExecuteTask, RunningReported, TypeOK, PC, Inv, OneTaskInv,
          TriggeredOnce, Assigned, ContainerFollows, BeforeContainer,
          WithContainer, Stored, Status, Terminal
    <3>2. ReportsAreTrue'
      BY <1>0, <1>11, <2>2
         DEF ExecuteTask, RunningReported, TypeOK, PC, Report, Inv, ReportsAreTrue,
          ContainerFollows, BeforeContainer, WithContainer
    <3>3. (CompletedMeansExitedZero /\ ContainerIDIsReal)'
      BY <1>0, <1>11, <2>2
         DEF ExecuteTask, RunningReported, TypeOK, Inv, CompletedMeansExitedZero,
          ContainerIDIsReal, ContainerFollows
    <3> QED
      BY <1>0, <3>1, <3>2, <3>3 DEF Inv, OneTaskInv
  <2>3. CASE PullImage(t)
    <3>1. ASSUME NEW x \in Tasks PROVE OneTaskInv(x)'
      BY <1>0, <1>11, <2>3
         DEF ExecuteTask, PullImage, TypeOK, PC, Inv, OneTaskInv, TriggeredOnce,
          Assigned, ContainerFollows, BeforeContainer, WithContainer, Stored,
          Status, Terminal
    <3>2. ReportsAreTrue'
      BY <1>0, <1>11, <2>3
         DEF ExecuteTask, PullImage, TypeOK, PC, Report, Inv, ReportsAreTrue,
          ContainerFollows, BeforeContainer, WithContainer
    <3>3. (CompletedMeansExitedZero /\ ContainerIDIsReal)'
      BY <1>0, <1>11, <2>3
         DEF ExecuteTask, PullImage, TypeOK, Inv, CompletedMeansExitedZero,
          ContainerIDIsReal, ContainerFollows
    <3> QED
      BY <1>0, <3>1, <3>2, <3>3 DEF Inv, OneTaskInv
  <2>4. CASE CreateContainer(t)
    <3>1. ASSUME NEW x \in Tasks PROVE OneTaskInv(x)'
      BY <1>0, <1>11, <2>4
         DEF ExecuteTask, CreateContainer, TypeOK, PC, Inv, OneTaskInv,
          TriggeredOnce, Assigned, ContainerFollows, BeforeContainer,
          WithContainer, Stored, Status, Terminal
    <3>2. ReportsAreTrue'
      BY <1>0, <1>11, <2>4
         DEF ExecuteTask, CreateContainer, TypeOK, PC, Report, Inv, ReportsAreTrue,
          ContainerFollows, BeforeContainer, WithContainer
    <3>3. (CompletedMeansExitedZero /\ ContainerIDIsReal)'
      BY <1>0, <1>11, <2>4
         DEF ExecuteTask, CreateContainer, TypeOK, Inv, CompletedMeansExitedZero,
          ContainerIDIsReal, ContainerFollows
    <3> QED
      BY <1>0, <3>1, <3>2, <3>3 DEF Inv, OneTaskInv
  <2>5. CASE PrepareFails(t)
    <3>1. ASSUME NEW x \in Tasks PROVE OneTaskInv(x)'
      BY <1>0, <1>11, <2>5
         DEF ExecuteTask, PrepareFails, TypeOK, PC, Inv, OneTaskInv, TriggeredOnce,
          Assigned, ContainerFollows, BeforeContainer, WithContainer, Stored,
          Status, Terminal
    <3>2. ReportsAreTrue'
      BY <1>0, <1>11, <2>5
         DEF ExecuteTask, PrepareFails, TypeOK, PC, Report, Inv, ReportsAreTrue,
          ContainerFollows, BeforeContainer, WithContainer
    <3>3. (CompletedMeansExitedZero /\ ContainerIDIsReal)'
      BY <1>0, <1>11, <2>5
         DEF ExecuteTask, PrepareFails, TypeOK, Inv, CompletedMeansExitedZero,
          ContainerIDIsReal, ContainerFollows
    <3> QED
      BY <1>0, <3>1, <3>2, <3>3 DEF Inv, OneTaskInv
  <2>6. CASE StartContainer(t)
    <3>1. ASSUME NEW x \in Tasks PROVE OneTaskInv(x)'
      BY <1>0, <1>11, <2>6
         DEF ExecuteTask, StartContainer, TypeOK, PC, Inv, OneTaskInv,
          TriggeredOnce, Assigned, ContainerFollows, BeforeContainer,
          WithContainer, Stored, Status, Terminal
    <3>2. ReportsAreTrue'
      BY <1>0, <1>11, <2>6
         DEF ExecuteTask, StartContainer, TypeOK, PC, Report, Inv, ReportsAreTrue,
          ContainerFollows, BeforeContainer, WithContainer
    <3>3. (CompletedMeansExitedZero /\ ContainerIDIsReal)'
      BY <1>0, <1>11, <2>6
         DEF ExecuteTask, StartContainer, TypeOK, Inv, CompletedMeansExitedZero,
          ContainerIDIsReal, ContainerFollows
    <3> QED
      BY <1>0, <3>1, <3>2, <3>3 DEF Inv, OneTaskInv
  <2>7. CASE StartFails(t)
    <3>1. ASSUME NEW x \in Tasks PROVE OneTaskInv(x)'
      BY <1>0, <1>11, <2>7
         DEF ExecuteTask, StartFails, TypeOK, PC, Inv, OneTaskInv, TriggeredOnce,
          Assigned, ContainerFollows, BeforeContainer, WithContainer, Stored,
          Status, Terminal
    <3>2. ReportsAreTrue'
      BY <1>0, <1>11, <2>7
         DEF ExecuteTask, StartFails, TypeOK, PC, Report, Inv, ReportsAreTrue,
          ContainerFollows, BeforeContainer, WithContainer
    <3>3. (CompletedMeansExitedZero /\ ContainerIDIsReal)'
      BY <1>0, <1>11, <2>7
         DEF ExecuteTask, StartFails, TypeOK, Inv, CompletedMeansExitedZero,
          ContainerIDIsReal, ContainerFollows
    <3> QED
      BY <1>0, <3>1, <3>2, <3>3 DEF Inv, OneTaskInv
  <2>8. CASE ContainerReported(t)
    <3>1. ASSUME NEW x \in Tasks PROVE OneTaskInv(x)'
      BY <1>0, <1>11, <2>8
         DEF ExecuteTask, ContainerReported, TypeOK, PC, Inv, OneTaskInv,
          TriggeredOnce, Assigned, ContainerFollows, BeforeContainer,
          WithContainer, Stored, Status, Terminal
    <3>2. ReportsAreTrue'
      BY <1>0, <1>11, <2>8
         DEF ExecuteTask, ContainerReported, TypeOK, PC, Report, Inv,
          ReportsAreTrue, ContainerFollows, BeforeContainer, WithContainer
    <3>3. (CompletedMeansExitedZero /\ ContainerIDIsReal)'
      BY <1>0, <1>11, <2>8
         DEF ExecuteTask, ContainerReported, TypeOK, Inv, CompletedMeansExitedZero,
          ContainerIDIsReal, ContainerFollows
    <3> QED
      BY <1>0, <3>1, <3>2, <3>3 DEF Inv, OneTaskInv
  <2>9. CASE WaitReturns(t)
    <3>1. ASSUME NEW x \in Tasks PROVE OneTaskInv(x)'
      BY <1>0, <1>11, <2>9
         DEF ExecuteTask, WaitReturns, TypeOK, PC, Inv, OneTaskInv, TriggeredOnce,
          Assigned, ContainerFollows, BeforeContainer, WithContainer, Stored,
          Status, Terminal
    <3>2. ReportsAreTrue'
      BY <1>0, <1>11, <2>9
         DEF ExecuteTask, WaitReturns, TypeOK, PC, Report, Inv, ReportsAreTrue,
          ContainerFollows, BeforeContainer, WithContainer
    <3>3. (CompletedMeansExitedZero /\ ContainerIDIsReal)'
      BY <1>0, <1>11, <2>9
         DEF ExecuteTask, WaitReturns, TypeOK, Inv, CompletedMeansExitedZero,
          ContainerIDIsReal, ContainerFollows
    <3> QED
      BY <1>0, <3>1, <3>2, <3>3 DEF Inv, OneTaskInv
  <2>10. CASE WaitFails(t)
    <3>1. ASSUME NEW x \in Tasks PROVE OneTaskInv(x)'
      BY <1>0, <1>11, <2>10
         DEF ExecuteTask, WaitFails, TypeOK, PC, Inv, OneTaskInv, TriggeredOnce,
          Assigned, ContainerFollows, BeforeContainer, WithContainer, Stored,
          Status, Terminal
    <3>2. ReportsAreTrue'
      BY <1>0, <1>11, <2>10
         DEF ExecuteTask, WaitFails, TypeOK, PC, Report, Inv, ReportsAreTrue,
          ContainerFollows, BeforeContainer, WithContainer
    <3>3. (CompletedMeansExitedZero /\ ContainerIDIsReal)'
      BY <1>0, <1>11, <2>10
         DEF ExecuteTask, WaitFails, TypeOK, Inv, CompletedMeansExitedZero,
          ContainerIDIsReal, ContainerFollows
    <3> QED
      BY <1>0, <3>1, <3>2, <3>3 DEF Inv, OneTaskInv
  <2>11. CASE ExitReported(t)
    <3>1. ASSUME NEW x \in Tasks PROVE OneTaskInv(x)'
      BY <1>0, <1>11, <2>11
         DEF ExecuteTask, ExitReported, TypeOK, PC, Inv, OneTaskInv, TriggeredOnce,
          Assigned, ContainerFollows, BeforeContainer, WithContainer, Stored,
          Status, Terminal
    <3>2. ReportsAreTrue'
      BY <1>0, <1>11, <2>11
         DEF ExecuteTask, ExitReported, TypeOK, PC, Report, Inv, ReportsAreTrue,
          ContainerFollows, BeforeContainer, WithContainer
    <3>3. (CompletedMeansExitedZero /\ ContainerIDIsReal)'
      BY <1>0, <1>11, <2>11
         DEF ExecuteTask, ExitReported, TypeOK, Inv, CompletedMeansExitedZero,
          ContainerIDIsReal, ContainerFollows
    <3> QED
      BY <1>0, <3>1, <3>2, <3>3 DEF Inv, OneTaskInv
  <2>12. CASE RemoveContainer(t)
    <3>1. ASSUME NEW x \in Tasks PROVE OneTaskInv(x)'
      BY <1>0, <1>11, <2>12
         DEF ExecuteTask, RemoveContainer, TypeOK, PC, Inv, OneTaskInv,
          TriggeredOnce, Assigned, ContainerFollows, BeforeContainer,
          WithContainer, Stored, Status, Terminal
    <3>2. ReportsAreTrue'
      BY <1>0, <1>11, <2>12
         DEF ExecuteTask, RemoveContainer, TypeOK, PC, Report, Inv, ReportsAreTrue,
          ContainerFollows, BeforeContainer, WithContainer
    <3>3. (CompletedMeansExitedZero /\ ContainerIDIsReal)'
      BY <1>0, <1>11, <2>12
         DEF ExecuteTask, RemoveContainer, TypeOK, Inv, CompletedMeansExitedZero,
          ContainerIDIsReal, ContainerFollows
    <3> QED
      BY <1>0, <3>1, <3>2, <3>3 DEF Inv, OneTaskInv
  <2>13. CASE FailureReported(t)
    <3>1. ASSUME NEW x \in Tasks PROVE OneTaskInv(x)'
      BY <1>0, <1>11, <2>13
         DEF ExecuteTask, FailureReported, TypeOK, PC, Inv, OneTaskInv,
          TriggeredOnce, Assigned, ContainerFollows, BeforeContainer,
          WithContainer, Stored, Status, Terminal
    <3>2. ReportsAreTrue'
      BY <1>0, <1>11, <2>13
         DEF ExecuteTask, FailureReported, TypeOK, PC, Report, Inv, ReportsAreTrue,
          ContainerFollows, BeforeContainer, WithContainer
    <3>3. (CompletedMeansExitedZero /\ ContainerIDIsReal)'
      BY <1>0, <1>11, <2>13
         DEF ExecuteTask, FailureReported, TypeOK, Inv, CompletedMeansExitedZero,
          ContainerIDIsReal, ContainerFollows
    <3> QED
      BY <1>0, <3>1, <3>2, <3>3 DEF Inv, OneTaskInv
  <2> QED
    BY <1>11, <2>1, <2>2, <2>3, <2>4, <2>5, <2>6, <2>7, <2>8, <2>9, <2>10, <2>11,
       <2>12, <2>13 DEF ExecuteTask
<1>12. ASSUME NEW t \in Tasks, NEW code \in {"zero", "nonzero"}, ContainerExits(t, code) PROVE Inv'
  <2>1. ASSUME NEW x \in Tasks PROVE OneTaskInv(x)'
    BY <1>0, <1>12
       DEF ContainerExits, TypeOK, PC, Inv, OneTaskInv, TriggeredOnce, Assigned,
        ContainerFollows, BeforeContainer, WithContainer, Stored, Status, Terminal
  <2>2. ReportsAreTrue'
    BY <1>0, <1>12
       DEF ContainerExits, TypeOK, PC, Report, Inv, ReportsAreTrue,
        ContainerFollows, BeforeContainer, WithContainer
  <2>3. (CompletedMeansExitedZero /\ ContainerIDIsReal)'
    BY <1>0, <1>12
       DEF ContainerExits, TypeOK, Report, Inv, CompletedMeansExitedZero,
        ContainerIDIsReal, ReportsAreTrue, ContainerFollows, BeforeContainer,
        WithContainer
  <2> QED
    BY <1>0, <2>1, <2>2, <2>3 DEF Inv, OneTaskInv
<1>13. ASSUME NEW t \in Tasks, ProbeSucceeds(t) PROVE Inv'
  BY <1>0, <1>13, InvFrame DEF ProbeSucceeds
<1>14. ASSUME NEW t \in Tasks, ProbeFails(t) PROVE Inv'
  BY <1>0, <1>14, InvFrame DEF ProbeFails
<1>15. ASSUME NEW t \in Tasks, HandleUnhealthyContainer(t) PROVE Inv'
  <2>1. ASSUME NEW x \in Tasks PROVE OneTaskInv(x)'
    BY <1>0, <1>15
       DEF HandleUnhealthyContainer, TypeOK, PC, Inv, OneTaskInv, TriggeredOnce,
        Assigned, ContainerFollows, BeforeContainer, WithContainer, Stored, Status,
        Terminal
  <2>2. ReportsAreTrue'
    BY <1>0, <1>15
       DEF HandleUnhealthyContainer, TypeOK, PC, Report, Inv, ReportsAreTrue,
        ContainerFollows, BeforeContainer, WithContainer
  <2>3. (CompletedMeansExitedZero /\ ContainerIDIsReal)'
    BY <1>0, <1>15
       DEF HandleUnhealthyContainer, TypeOK, Report, Inv, CompletedMeansExitedZero,
        ContainerIDIsReal, ReportsAreTrue, ContainerFollows, BeforeContainer,
        WithContainer
  <2> QED
    BY <1>0, <2>1, <2>2, <2>3 DEF Inv, OneTaskInv
<1>16. ASSUME NEW t \in Tasks, DeleteTask(t) PROVE Inv'
  <2>1. ASSUME NEW x \in Tasks PROVE OneTaskInv(x)'
    BY <1>0, <1>16
       DEF DeleteTask, TypeOK, PC, Inv, OneTaskInv, TriggeredOnce, Assigned,
        ContainerFollows, BeforeContainer, WithContainer, Stored, Status, Terminal
  <2>2. ReportsAreTrue'
    BY <1>0, <1>16
       DEF DeleteTask, TypeOK, PC, Report, Inv, ReportsAreTrue, ContainerFollows,
        BeforeContainer, WithContainer
  <2>3. (CompletedMeansExitedZero /\ ContainerIDIsReal)'
    BY <1>0, <1>16
       DEF DeleteTask, TypeOK, Report, Inv, CompletedMeansExitedZero,
        ContainerIDIsReal, ReportsAreTrue, ContainerFollows, BeforeContainer,
        WithContainer
  <2> QED
    BY <1>0, <2>1, <2>2, <2>3 DEF Inv, OneTaskInv
<1>17. ASSUME NEW r \in reports, UpdateTaskStatus(r) PROVE Inv'
  <2>0. r.task \in Tasks /\ r.status \in Stored
    BY <1>0, <1>17 DEF TypeOK, Report, Stored, Status, Terminal
  <2>1. ASSUME NEW x \in Tasks PROVE OneTaskInv(x)'
    <3>1. /\ status'[x] \in Stored <=> status[x] \in Stored
          /\ status'[x] = "absent" <=> status[x] = "absent"
      BY <1>0, <1>17, <2>0 DEF UpdateTaskStatus, TypeOK, Stored
    <3> QED
      BY <3>1, <1>17
         DEF UpdateTaskStatus, Inv, OneTaskInv, TriggeredOnce, Assigned,
          ContainerFollows
  <2>2. ReportsAreTrue'
    BY <1>0, <1>17
       DEF UpdateTaskStatus, TypeOK, PC, Report, Inv, ReportsAreTrue,
        ContainerFollows, BeforeContainer, WithContainer
  <2>3. (CompletedMeansExitedZero /\ ContainerIDIsReal)'
    BY <1>0, <1>17
       DEF UpdateTaskStatus, TypeOK, Report, Inv, CompletedMeansExitedZero,
        ContainerIDIsReal, ReportsAreTrue, ContainerFollows, BeforeContainer,
        WithContainer
  <2> QED
    BY <1>0, <2>1, <2>2, <2>3 DEF Inv, OneTaskInv
<1>18. ASSUME NEW r \in reports, LoseReport(r) PROVE Inv'
  BY <1>0, <1>18, InvFrame DEF LoseReport
<1>19. ASSUME NEW all \in BOOLEAN, PruneTasks(all) PROVE Inv'
  BY <1>0, <1>19, InvFrame DEF PruneTasks
<1>20. CASE UNCHANGED vars
  BY <1>0, <1>20, InvFrame DEF vars
<1> QED
  BY <1>1, <1>2, <1>3, <1>4, <1>5, <1>6, <1>7, <1>8, <1>9, <1>10, <1>11, <1>12,
     <1>13, <1>14, <1>15, <1>16, <1>17, <1>18, <1>19, <1>20 DEF Next

(* The inductive invariant of the task's life, with any calls lost or late  *)
(* and workers that end: one pass per request, true reports.                *)
THEOREM Invariance == Spec => []Inv
  BY InvInit, InvStep, PTL DEF Spec

(* Completed tasks succeeded, whatever was lost, late or killed. *)
THEOREM CompletedIsTrue == Spec => []CompletedMeansExitedZero
<1>1. Inv => CompletedMeansExitedZero
  BY DEF Inv
<1> QED
  BY <1>1, Invariance, PTL

(* A stored container ID belongs to a container that was created. *)
THEOREM StoredContainerIDIsReal == Spec => []ContainerIDIsReal
<1>1. Inv => ContainerIDIsReal
  BY DEF Inv
<1> QED
  BY <1>1, Invariance, PTL

-----------------------------------------------------------------------------
(* The only steps that change a stored status. *)
LEMMA WhoWritesStatus ==
  ASSUME [Next]_vars
  PROVE  \/ status' = status
         \/ \E t \in Tasks : CreateTask(t) \/ AssignNode(t) \/ DeleteTask(t)
         \/ \E r \in reports : UpdateTaskStatus(r)
<1> USE DEF masterVars
<1>1. ASSUME NEW n \in Nodes,
             NodeAvailable(n) \/ NodeUnavailable(n) \/ WorkerEnds(n)
      PROVE  status' = status
  BY <1>1 DEF NodeAvailable, NodeUnavailable, WorkerEnds
<1>2. ASSUME NEW t \in Tasks,
             SchedulingFails(t) \/ TriggerExecution(t) \/ LoseTrigger(t)
               \/ AcceptTask(t) \/ ExecuteTask(t)
      PROVE  status' = status
  BY <1>2
     DEF SchedulingFails, TriggerExecution, LoseTrigger, AcceptTask, ExecuteTask
<1>3. ASSUME NEW t \in Tasks, NEW n \in Nodes, SelectNode(t, n)
      PROVE  status' = status
  BY <1>3 DEF SelectNode
<1>4. ASSUME NEW t \in Tasks, NEW code \in {"zero", "nonzero"}, ContainerExits(t, code)
      PROVE  status' = status
  BY <1>4 DEF ContainerExits
<1>5. ASSUME NEW t \in Tasks,
             ProbeSucceeds(t) \/ ProbeFails(t) \/ HandleUnhealthyContainer(t)
      PROVE  status' = status
  BY <1>5 DEF ProbeSucceeds, ProbeFails, HandleUnhealthyContainer
<1>6. ASSUME NEW r \in reports, LoseReport(r) PROVE status' = status
  BY <1>6 DEF LoseReport
<1>7. ASSUME NEW all \in BOOLEAN, PruneTasks(all) PROVE status' = status
  BY <1>7 DEF PruneTasks
<1>8. CASE UNCHANGED vars
  BY <1>8 DEF vars
<1> QED
  BY <1>1, <1>2, <1>3, <1>4, <1>5, <1>6, <1>7, <1>8 DEF Next

(* No update or assignment brings a pruned task back. *)
THEOREM PrunedTasksStayPruned == Spec => PrunedStaysPruned
<1>1. ASSUME TypeOK, [Next]_vars, NEW t \in Tasks, status[t] = "deleted"
      PROVE  status'[t] = "deleted"
  <2>1. ASSUME NEW u \in Tasks, CreateTask(u) \/ AssignNode(u) \/ DeleteTask(u)
        PROVE  status'[t] = "deleted"
    BY <1>1, <2>1 DEF CreateTask, AssignNode, DeleteTask, TypeOK, Stored
  <2>2. ASSUME NEW r \in reports, UpdateTaskStatus(r)
        PROVE  status'[t] = "deleted"
    BY <1>1, <2>2 DEF UpdateTaskStatus, TypeOK, Stored
  <2> QED
    BY <1>1, <2>1, <2>2, WhoWritesStatus
<1>2. TypeOK /\ [Next]_vars =>
        [\A t \in Tasks : status[t] = "deleted" => status'[t] = "deleted"]_vars
  BY <1>1
<1> QED
  BY <1>2, TypeCorrect, PTL DEF Spec, PrunedStaysPruned

=============================================================================
