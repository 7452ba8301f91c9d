-------------------------- MODULE TaskFlowProofs --------------------------
(***************************************************************************)
(* Proofs about TaskLifecycle when no call is lost or late and no worker   *)
(* dies: the executor waits for the answer to every report, so the stored  *)
(* status is never behind or ahead of the goroutine (InStep), and the      *)
(* master moves along the documented flow. Probe callbacks report          *)
(* concurrently: with them the status still never goes back, but only      *)
(* for tasks without a probe are the terminal states final.                *)
(*                                                                         *)
(* From it: a finished execution has told the master its outcome           *)
(* (Settling), a task on a prune's list is finished and stays so, no       *)
(* report without a container ID comes after the one that brought it, and  *)
(* an executor says nothing after its last word.                           *)
(***************************************************************************)
EXTENDS TaskLifecycleProofs

LEMMA SentIsOut ==
  ASSUME NEW t \in Tasks, NEW s, NEW c, SendReport(t, s, c), NEW x \in Tasks
  PROVE  Out(x)' <=> (x = t \/ Out(x))
<1> DEFINE sent == [task |-> t, from |-> "executor", status |-> s, containerID |-> c]
<1>1. reports' = reports \cup {sent} /\ sent.task = t /\ sent.from = "executor"
  BY DEF SendReport
<1> HIDE DEF sent
<1> QED
  BY <1>1 DEF Out

LEMMA InStepInit == Init => InStep
<1> SUFFICES ASSUME Init PROVE InStep
  OBVIOUS
<1>1. ReportsInStep
  BY DEF Init, ReportsInStep
<1>2. ASSUME NEW t \in Tasks PROVE StatusInStep(t)
  BY DEF Init, StatusInStep, Out, Probing
<1> QED
  BY <1>1, <1>2, InvInit DEF InStep

LEMMA InStepStep ==
  ASSUME Unreliable = FALSE, InStep, [Next]_vars
  PROVE  InStep'
<1> USE DEF masterVars, requestVars, dockerVars, healthVars, pruneVars
<1>0. Inv /\ Inv' /\ TypeOK /\ TypeOK'
  BY InvStep DEF InStep, Inv
<1>00. \A r \in reports : r \in Report /\ r.task \in Tasks
  BY <1>0 DEF TypeOK, Report
<1>1. ASSUME NEW n \in Nodes, NodeAvailable(n) PROVE InStep'
  <2>1. ReportsInStep'
    BY <1>0, <1>00, <1>1
       DEF NodeAvailable, TypeOK, InStep, ReportsInStep, Probing, Awaited,
        Terminal, Inv, TriggeredOnce
  <2>2. ASSUME NEW x \in Tasks PROVE StatusInStep(x)'
    <3>1. Out(x)' <=> Out(x)
      BY <1>1 DEF NodeAvailable, Out
    <3> QED
      BY <1>0, <1>1, <3>1
         DEF NodeAvailable, TypeOK, InStep, StatusInStep, Probing, Terminal,
          Status, Stored, Inv, TriggeredOnce
  <2> QED
    BY <1>0, <2>1, <2>2 DEF InStep
<1>2. ASSUME NEW n \in Nodes, NodeUnavailable(n) PROVE InStep'
  <2>1. ReportsInStep'
    BY <1>0, <1>00, <1>2
       DEF NodeUnavailable, TypeOK, InStep, ReportsInStep, Probing, Awaited,
        Terminal, Inv, TriggeredOnce
  <2>2. ASSUME NEW x \in Tasks PROVE StatusInStep(x)'
    <3>1. Out(x)' <=> Out(x)
      BY <1>2 DEF NodeUnavailable, Out
    <3> QED
      BY <1>0, <1>2, <3>1
         DEF NodeUnavailable, TypeOK, InStep, StatusInStep, Probing, Terminal,
          Status, Stored, Inv, TriggeredOnce
  <2> QED
    BY <1>0, <2>1, <2>2 DEF InStep
<1>3. ASSUME NEW n \in Nodes, WorkerEnds(n) PROVE InStep'
  BY <1>3 DEF WorkerEnds
<1>4. ASSUME NEW t \in Tasks, CreateTask(t) PROVE InStep'
  <2>1. ReportsInStep'
    BY <1>0, <1>00, <1>4
       DEF CreateTask, TypeOK, InStep, ReportsInStep, Probing, Awaited, Terminal,
        Inv, TriggeredOnce
  <2>2. ASSUME NEW x \in Tasks PROVE StatusInStep(x)'
    <3>1. Out(x)' <=> Out(x)
      BY <1>4 DEF CreateTask, Out
    <3> QED
      BY <1>0, <1>4, <3>1
         DEF CreateTask, TypeOK, InStep, StatusInStep, Probing, Terminal, Status,
          Stored, Inv, TriggeredOnce
  <2> QED
    BY <1>0, <2>1, <2>2 DEF InStep
<1>5. ASSUME NEW t \in Tasks, SchedulingFails(t) PROVE InStep'
  <2>1. ReportsInStep'
    BY <1>0, <1>00, <1>5
       DEF SchedulingFails, TypeOK, InStep, ReportsInStep, Probing, Awaited,
        Terminal, Inv, TriggeredOnce
  <2>2. ASSUME NEW x \in Tasks PROVE StatusInStep(x)'
    <3>1. Out(x)' <=> Out(x)
      BY <1>5 DEF SchedulingFails, Out
    <3> QED
      BY <1>0, <1>5, <3>1
         DEF SchedulingFails, TypeOK, InStep, StatusInStep, Probing, Terminal,
          Status, Stored, Inv, TriggeredOnce
  <2> QED
    BY <1>0, <2>1, <2>2 DEF InStep
<1>6. ASSUME NEW t \in Tasks, AssignNode(t) PROVE InStep'
  <2>1. ReportsInStep'
    BY <1>0, <1>00, <1>6
       DEF AssignNode, TypeOK, InStep, ReportsInStep, Probing, Awaited, Terminal,
        Inv, TriggeredOnce
  <2>2. ASSUME NEW x \in Tasks PROVE StatusInStep(x)'
    <3>1. Out(x)' <=> Out(x)
      BY <1>6 DEF AssignNode, Out
    <3> QED
      BY <1>0, <1>6, <3>1
         DEF AssignNode, TypeOK, InStep, StatusInStep, Probing, Terminal, Status,
          Stored, Inv, TriggeredOnce
  <2> QED
    BY <1>0, <2>1, <2>2 DEF InStep
<1>7. ASSUME NEW t \in Tasks, TriggerExecution(t) PROVE InStep'
  <2>1. ReportsInStep'
    BY <1>0, <1>00, <1>7
       DEF TriggerExecution, TypeOK, InStep, ReportsInStep, Probing, Awaited,
        Terminal, Inv, TriggeredOnce
  <2>2. ASSUME NEW x \in Tasks PROVE StatusInStep(x)'
    <3>1. Out(x)' <=> Out(x)
      BY <1>7 DEF TriggerExecution, Out
    <3> QED
      BY <1>0, <1>7, <3>1
         DEF TriggerExecution, TypeOK, InStep, StatusInStep, Probing, Terminal,
          Status, Stored, Inv, TriggeredOnce
  <2> QED
    BY <1>0, <2>1, <2>2 DEF InStep
<1>8. ASSUME NEW t \in Tasks, LoseTrigger(t) PROVE InStep'
  <2>1. ReportsInStep'
    BY <1>0, <1>00, <1>8
       DEF LoseTrigger, TypeOK, InStep, ReportsInStep, Probing, Awaited, Terminal,
        Inv, TriggeredOnce
  <2>2. ASSUME NEW x \in Tasks PROVE StatusInStep(x)'
    <3>1. Out(x)' <=> Out(x)
      BY <1>8 DEF LoseTrigger, Out
    <3> QED
      BY <1>0, <1>8, <3>1
         DEF LoseTrigger, TypeOK, InStep, StatusInStep, Probing, Terminal, Status,
          Stored, Inv, TriggeredOnce
  <2> QED
    BY <1>0, <2>1, <2>2 DEF InStep
<1>9. ASSUME NEW t \in Tasks, NEW n \in Nodes, SelectNode(t, n) PROVE InStep'
  <2>1. ReportsInStep'
    BY <1>0, <1>00, <1>9
       DEF SelectNode, TypeOK, InStep, ReportsInStep, Probing, Awaited, Terminal,
        Inv, TriggeredOnce
  <2>2. ASSUME NEW x \in Tasks PROVE StatusInStep(x)'
    <3>1. Out(x)' <=> Out(x)
      BY <1>9 DEF SelectNode, Out
    <3> QED
      BY <1>0, <1>9, <3>1
         DEF SelectNode, TypeOK, InStep, StatusInStep, Probing, Terminal, Status,
          Stored, Inv, TriggeredOnce
  <2> QED
    BY <1>0, <2>1, <2>2 DEF InStep
<1>10. ASSUME NEW t \in Tasks, AcceptTask(t) PROVE InStep'
  <2>1. ReportsInStep'
    BY <1>0, <1>00, <1>10
       DEF AcceptTask, TypeOK, InStep, ReportsInStep, Probing, Awaited, Terminal,
        Inv, TriggeredOnce
  <2>2. ASSUME NEW x \in Tasks PROVE StatusInStep(x)'
    <3>1. Out(x)' <=> Out(x)
      BY <1>10 DEF AcceptTask, Out
    <3> QED
      BY <1>0, <1>10, <3>1
         DEF AcceptTask, TypeOK, InStep, StatusInStep, Probing, Terminal, Status,
          Stored, Inv, TriggeredOnce
  <2> QED
    BY <1>0, <2>1, <2>2 DEF InStep
<1>11. ASSUME NEW t \in Tasks, ExecuteTask(t) PROVE InStep'
  <2> USE DEF GoTo, SendReport
  <2>1. CASE Begin(t)
    <3>0. ~Out(t)
      BY <1>0, <1>00, <2>1
         DEF Begin, Out, InStep, ReportsInStep, Probing, Awaited, Terminal,
          CallReturns, Report
    <3>1. ReportsInStep'
      BY <1>0, <1>00, <1>11, <2>1, <3>0
         DEF ExecuteTask, Begin, Out, Report, TypeOK, InStep, ReportsInStep,
          Probing, Awaited, Terminal
    <3>2. ASSUME NEW x \in Tasks PROVE StatusInStep(x)'
      <4>1. Out(x)' <=> (x = t \/ Out(x))
        BY <2>1, SentIsOut DEF Begin
      <4> QED
        BY <1>0, <1>11, <2>1, <3>0, <4>1
           DEF ExecuteTask, Begin, TypeOK, InStep, StatusInStep, Probing, Terminal,
            Status, Stored, Inv, ContainerFollows
    <3> QED
      BY <1>0, <3>1, <3>2 DEF InStep
  <2>2. CASE RunningReported(t)
    <3>0. ~Out(t)
      BY <1>0, <1>00, <2>2
         DEF RunningReported, Out, InStep, ReportsInStep, Probing, Awaited,
          Terminal, CallReturns, Report
    <3>1. ReportsInStep'
      BY <1>0, <1>00, <1>11, <2>2, <3>0
         DEF ExecuteTask, RunningReported, Out, Report, TypeOK, InStep,
          ReportsInStep, Probing, Awaited, Terminal
    <3>2. ASSUME NEW x \in Tasks PROVE StatusInStep(x)'
      <4>1. Out(x)' <=> Out(x)
        BY <2>2 DEF RunningReported, Out
      <4> QED
        BY <1>0, <1>11, <2>2, <3>0, <4>1
           DEF ExecuteTask, RunningReported, TypeOK, InStep, StatusInStep, Probing,
            Terminal, Status, Stored, Inv, ContainerFollows
    <3> QED
      BY <1>0, <3>1, <3>2 DEF InStep
  <2>3. CASE PullImage(t)
    <3>0. ~Out(t)
      BY <1>0, <1>00, <2>3
         DEF PullImage, Out, InStep, ReportsInStep, Probing, Awaited, Terminal,
          CallReturns, Report
    <3>1. ReportsInStep'
      BY <1>0, <1>00, <1>11, <2>3, <3>0
         DEF ExecuteTask, PullImage, Out, Report, TypeOK, InStep, ReportsInStep,
          Probing, Awaited, Terminal
    <3>2. ASSUME NEW x \in Tasks PROVE StatusInStep(x)'
      <4>1. Out(x)' <=> Out(x)
        BY <2>3 DEF PullImage, Out
      <4> QED
        BY <1>0, <1>11, <2>3, <3>0, <4>1
           DEF ExecuteTask, PullImage, TypeOK, InStep, StatusInStep, Probing,
            Terminal, Status, Stored, Inv, ContainerFollows
    <3> QED
      BY <1>0, <3>1, <3>2 DEF InStep
  <2>4. CASE CreateContainer(t)
    <3>0. ~Out(t)
      BY <1>0, <1>00, <2>4
         DEF CreateContainer, Out, InStep, ReportsInStep, Probing, Awaited,
          Terminal, CallReturns, Report
    <3>1. ReportsInStep'
      BY <1>0, <1>00, <1>11, <2>4, <3>0
         DEF ExecuteTask, CreateContainer, Out, Report, TypeOK, InStep,
          ReportsInStep, Probing, Awaited, Terminal
    <3>2. ASSUME NEW x \in Tasks PROVE StatusInStep(x)'
      <4>1. Out(x)' <=> Out(x)
        BY <2>4 DEF CreateContainer, Out
      <4> QED
        BY <1>0, <1>11, <2>4, <3>0, <4>1
           DEF ExecuteTask, CreateContainer, TypeOK, InStep, StatusInStep, Probing,
            Terminal, Status, Stored, Inv, ContainerFollows
    <3> QED
      BY <1>0, <3>1, <3>2 DEF InStep
  <2>5. CASE PrepareFails(t)
    <3>0. ~Out(t)
      BY <1>0, <1>00, <2>5
         DEF PrepareFails, Out, InStep, ReportsInStep, Probing, Awaited, Terminal,
          CallReturns, Report
    <3>1. ReportsInStep'
      BY <1>0, <1>00, <1>11, <2>5, <3>0
         DEF ExecuteTask, PrepareFails, Out, Report, TypeOK, InStep, ReportsInStep,
          Probing, Awaited, Terminal
    <3>2. ASSUME NEW x \in Tasks PROVE StatusInStep(x)'
      <4>1. Out(x)' <=> (x = t \/ Out(x))
        BY <2>5, SentIsOut DEF PrepareFails
      <4> QED
        BY <1>0, <1>11, <2>5, <3>0, <4>1
           DEF ExecuteTask, PrepareFails, TypeOK, InStep, StatusInStep, Probing,
            Terminal, Status, Stored, Inv, ContainerFollows
    <3> QED
      BY <1>0, <3>1, <3>2 DEF InStep
  <2>6. CASE StartContainer(t)
    <3>0. ~Out(t)
      BY <1>0, <1>00, <2>6
         DEF StartContainer, Out, InStep, ReportsInStep, Probing, Awaited,
          Terminal, CallReturns, Report
    <3>1. ReportsInStep'
      BY <1>0, <1>00, <1>11, <2>6, <3>0
         DEF ExecuteTask, StartContainer, Out, Report, TypeOK, InStep,
          ReportsInStep, Probing, Awaited, Terminal
    <3>2. ASSUME NEW x \in Tasks PROVE StatusInStep(x)'
      <4>1. Out(x)' <=> (x = t \/ Out(x))
        BY <2>6, SentIsOut DEF StartContainer
      <4> QED
        BY <1>0, <1>11, <2>6, <3>0, <4>1
           DEF ExecuteTask, StartContainer, TypeOK, InStep, StatusInStep, Probing,
            Terminal, Status, Stored, Inv, ContainerFollows
    <3> QED
      BY <1>0, <3>1, <3>2 DEF InStep
  <2>7. CASE StartFails(t)
    <3>0. ~Out(t)
      BY <1>0, <1>00, <2>7
         DEF StartFails, Out, InStep, ReportsInStep, Probing, Awaited, Terminal,
          CallReturns, Report
    <3>1. ReportsInStep'
      BY <1>0, <1>00, <1>11, <2>7, <3>0
         DEF ExecuteTask, StartFails, Out, Report, TypeOK, InStep, ReportsInStep,
          Probing, Awaited, Terminal
    <3>2. ASSUME NEW x \in Tasks PROVE StatusInStep(x)'
      <4>1. Out(x)' <=> (x = t \/ Out(x))
        BY <2>7, SentIsOut DEF StartFails
      <4> QED
        BY <1>0, <1>11, <2>7, <3>0, <4>1
           DEF ExecuteTask, StartFails, TypeOK, InStep, StatusInStep, Probing,
            Terminal, Status, Stored, Inv, ContainerFollows
    <3> QED
      BY <1>0, <3>1, <3>2 DEF InStep
  <2>8. CASE ContainerReported(t)
    <3>0. ~Out(t)
      BY <1>0, <1>00, <2>8
         DEF ContainerReported, Out, InStep, ReportsInStep, Probing, Awaited,
          Terminal, CallReturns, Report
    <3>1. ReportsInStep'
      BY <1>0, <1>00, <1>11, <2>8, <3>0
         DEF ExecuteTask, ContainerReported, Out, Report, TypeOK, InStep,
          ReportsInStep, Probing, Awaited, Terminal
    <3>2. ASSUME NEW x \in Tasks PROVE StatusInStep(x)'
      <4>1. Out(x)' <=> Out(x)
        BY <2>8 DEF ContainerReported, Out
      <4> QED
        BY <1>0, <1>11, <2>8, <3>0, <4>1
           DEF ExecuteTask, ContainerReported, TypeOK, InStep, StatusInStep,
            Probing, Terminal, Status, Stored, Inv, ContainerFollows
    <3> QED
      BY <1>0, <3>1, <3>2 DEF InStep
  <2>9. CASE WaitReturns(t)
    <3>0. ~Out(t)
      BY <1>0, <1>00, <2>9
         DEF WaitReturns, Out, InStep, ReportsInStep, Probing, Awaited, Terminal,
          CallReturns, Report
    <3>1. ReportsInStep'
      BY <1>0, <1>00, <1>11, <2>9, <3>0
         DEF ExecuteTask, WaitReturns, Out, Report, TypeOK, InStep, ReportsInStep,
          Probing, Awaited, Terminal
    <3>2. ASSUME NEW x \in Tasks PROVE StatusInStep(x)'
      <4>1. Out(x)' <=> (x = t \/ Out(x))
        BY <2>9, SentIsOut DEF WaitReturns
      <4> QED
        BY <1>0, <1>11, <2>9, <3>0, <4>1
           DEF ExecuteTask, WaitReturns, TypeOK, InStep, StatusInStep, Probing,
            Terminal, Status, Stored, Inv, ContainerFollows
    <3> QED
      BY <1>0, <3>1, <3>2 DEF InStep
  <2>10. CASE WaitFails(t)
    <3>0. ~Out(t)
      BY <1>0, <1>00, <2>10
         DEF WaitFails, Out, InStep, ReportsInStep, Probing, Awaited, Terminal,
          CallReturns, Report
    <3>1. ReportsInStep'
      BY <1>0, <1>00, <1>11, <2>10, <3>0
         DEF ExecuteTask, WaitFails, Out, Report, TypeOK, InStep, ReportsInStep,
          Probing, Awaited, Terminal
    <3>2. ASSUME NEW x \in Tasks PROVE StatusInStep(x)'
      <4>1. Out(x)' <=> (x = t \/ Out(x))
        BY <2>10, SentIsOut DEF WaitFails
      <4> QED
        BY <1>0, <1>11, <2>10, <3>0, <4>1
           DEF ExecuteTask, WaitFails, TypeOK, InStep, StatusInStep, Probing,
            Terminal, Status, Stored, Inv, ContainerFollows
    <3> QED
      BY <1>0, <3>1, <3>2 DEF InStep
  <2>11. CASE ExitReported(t)
    <3>0. ~Out(t)
      BY <1>0, <1>00, <2>11
         DEF ExitReported, Out, InStep, ReportsInStep, Probing, Awaited, Terminal,
          CallReturns, Report
    <3>1. ReportsInStep'
      BY <1>0, <1>00, <1>11, <2>11, <3>0
         DEF ExecuteTask, ExitReported, Out, Report, TypeOK, InStep, ReportsInStep,
          Probing, Awaited, Terminal
    <3>2. ASSUME NEW x \in Tasks PROVE StatusInStep(x)'
      <4>1. Out(x)' <=> Out(x)
        BY <2>11 DEF ExitReported, Out
      <4> QED
        BY <1>0, <1>11, <2>11, <3>0, <4>1
           DEF ExecuteTask, ExitReported, TypeOK, InStep, StatusInStep, Probing,
            Terminal, Status, Stored, Inv, ContainerFollows
    <3> QED
      BY <1>0, <3>1, <3>2 DEF InStep
  <2>12. CASE RemoveContainer(t)
    <3>0. ~Out(t)
      BY <1>0, <1>00, <2>12
         DEF RemoveContainer, Out, InStep, ReportsInStep, Probing, Awaited,
          Terminal, CallReturns, Report
    <3>1. ReportsInStep'
      BY <1>0, <1>00, <1>11, <2>12, <3>0
         DEF ExecuteTask, RemoveContainer, Out, Report, TypeOK, InStep,
          ReportsInStep, Probing, Awaited, Terminal
    <3>2. ASSUME NEW x \in Tasks PROVE StatusInStep(x)'
      <4>1. Out(x)' <=> Out(x)
        BY <2>12 DEF RemoveContainer, Out
      <4> QED
        BY <1>0, <1>11, <2>12, <3>0, <4>1
           DEF ExecuteTask, RemoveContainer, TypeOK, InStep, StatusInStep, Probing,
            Terminal, Status, Stored, Inv, ContainerFollows
    <3> QED
      BY <1>0, <3>1, <3>2 DEF InStep
  <2>13. CASE FailureReported(t)
    <3>0. ~Out(t)
      BY <1>0, <1>00, <2>13
         DEF FailureReported, Out, InStep, ReportsInStep, Probing, Awaited,
          Terminal, CallReturns, Report
    <3>1. ReportsInStep'
      BY <1>0, <1>00, <1>11, <2>13, <3>0
         DEF ExecuteTask, FailureReported, Out, Report, TypeOK, InStep,
          ReportsInStep, Probing, Awaited, Terminal
    <3>2. ASSUME NEW x \in Tasks PROVE StatusInStep(x)'
      <4>1. Out(x)' <=> Out(x)
        BY <2>13 DEF FailureReported, Out
      <4> QED
        BY <1>0, <1>11, <2>13, <3>0, <4>1
           DEF ExecuteTask, FailureReported, TypeOK, InStep, StatusInStep, Probing,
            Terminal, Status, Stored, Inv, ContainerFollows
    <3> QED
      BY <1>0, <3>1, <3>2 DEF InStep
  <2> QED
    BY <1>11, <2>1, <2>2, <2>3, <2>4, <2>5, <2>6, <2>7, <2>8, <2>9, <2>10, <2>11,
       <2>12, <2>13 DEF ExecuteTask
<1>12. ASSUME NEW t \in Tasks, NEW code \in {"zero", "nonzero"}, ContainerExits(t, code) PROVE InStep'
  <2>1. ReportsInStep'
    BY <1>0, <1>00, <1>12
       DEF ContainerExits, TypeOK, InStep, ReportsInStep, Probing, Awaited,
        Terminal, Inv, TriggeredOnce
  <2>2. ASSUME NEW x \in Tasks PROVE StatusInStep(x)'
    <3>1. Out(x)' <=> Out(x)
      BY <1>12 DEF ContainerExits, Out
    <3> QED
      BY <1>0, <1>12, <3>1
         DEF ContainerExits, TypeOK, InStep, StatusInStep, Probing, Terminal,
          Status, Stored, Inv, TriggeredOnce
  <2> QED
    BY <1>0, <2>1, <2>2 DEF InStep
<1>13. ASSUME NEW t \in Tasks, ProbeSucceeds(t) PROVE InStep'
  <2>1. ReportsInStep'
    BY <1>0, <1>00, <1>13
       DEF ProbeSucceeds, CheckerRuns, TypeOK, InStep, ReportsInStep, Probing,
        Awaited, Terminal, Inv, TriggeredOnce
  <2>2. ASSUME NEW x \in Tasks PROVE StatusInStep(x)'
    <3>1. Out(x)' <=> Out(x)
      BY <1>13 DEF ProbeSucceeds, CheckerRuns, Out
    <3> QED
      BY <1>0, <1>13, <3>1
         DEF ProbeSucceeds, CheckerRuns, TypeOK, InStep, StatusInStep, Probing,
          Terminal, Status, Stored, Inv, TriggeredOnce
  <2> QED
    BY <1>0, <2>1, <2>2 DEF InStep
<1>14. ASSUME NEW t \in Tasks, ProbeFails(t) PROVE InStep'
  <2>1. ReportsInStep'
    BY <1>0, <1>00, <1>14
       DEF ProbeFails, CheckerRuns, TypeOK, InStep, ReportsInStep, Probing,
        Awaited, Terminal, Inv, TriggeredOnce
  <2>2. ASSUME NEW x \in Tasks PROVE StatusInStep(x)'
    <3>1. Out(x)' <=> Out(x)
      BY <1>14 DEF ProbeFails, CheckerRuns, Out
    <3> QED
      BY <1>0, <1>14, <3>1
         DEF ProbeFails, CheckerRuns, TypeOK, InStep, StatusInStep, Probing,
          Terminal, Status, Stored, Inv, TriggeredOnce
  <2> QED
    BY <1>0, <2>1, <2>2 DEF InStep
<1>15. ASSUME NEW t \in Tasks, HandleUnhealthyContainer(t) PROVE InStep'
  <2>1. ReportsInStep'
    BY <1>0, <1>00, <1>15
       DEF HandleUnhealthyContainer, Tracked, StatusInStep, TypeOK, InStep,
        ReportsInStep, Probing, Awaited, Terminal, Inv, TriggeredOnce
  <2>2. ASSUME NEW x \in Tasks PROVE StatusInStep(x)'
    <3>1. Out(x)' <=> Out(x)
      BY <1>15 DEF HandleUnhealthyContainer, Tracked, StatusInStep, Out
    <3> QED
      BY <1>0, <1>15, <3>1
         DEF HandleUnhealthyContainer, Tracked, StatusInStep, TypeOK, InStep,
          StatusInStep, Probing, Terminal, Status, Stored, Inv, TriggeredOnce
  <2> QED
    BY <1>0, <2>1, <2>2 DEF InStep
<1>16. ASSUME NEW t \in Tasks, DeleteTask(t) PROVE InStep'
  <2>1. ReportsInStep'
    BY <1>0, <1>00, <1>16
       DEF DeleteTask, TypeOK, InStep, ReportsInStep, Probing, Awaited, Terminal,
        Inv, TriggeredOnce
  <2>2. ASSUME NEW x \in Tasks PROVE StatusInStep(x)'
    <3>1. Out(x)' <=> Out(x)
      BY <1>16 DEF DeleteTask, Out
    <3> QED
      BY <1>0, <1>16, <3>1
         DEF DeleteTask, TypeOK, InStep, StatusInStep, Probing, Terminal, Status,
          Stored, Inv, TriggeredOnce
  <2> QED
    BY <1>0, <2>1, <2>2 DEF InStep
<1>17. ASSUME NEW r \in reports, UpdateTaskStatus(r) PROVE InStep'
  <2> DEFINE u == r.task
  <2>1. u \in Tasks /\ r \in Report /\ r.from \in {"executor", "health"}
    BY <1>00, <1>17 DEF Report
  <2>2. ReportsInStep'
    BY <1>0, <1>00, <1>17
       DEF UpdateTaskStatus, InStep, ReportsInStep, Probing, Awaited, Terminal
  <2>3. ASSUME NEW x \in Tasks, x /= u PROVE StatusInStep(x)'
    <3>1. Out(x)' <=> Out(x)
      BY <1>17, <2>3 DEF UpdateTaskStatus, Out
    <3> QED
      BY <1>0, <1>17, <2>1, <2>3, <3>1
         DEF UpdateTaskStatus, TypeOK, InStep, StatusInStep, Probing
  <2>4. CASE r.from = "executor"
    <3>1. ~Out(u)'
      BY <1>17, <2>4 DEF UpdateTaskStatus, Out, InStep, ReportsInStep
    <3>2. pc[u] \in DOMAIN Awaited /\ r.status \in Awaited[pc[u]] /\ Out(u)
      BY <1>17, <2>4 DEF InStep, ReportsInStep, Out
    <3>3. StatusInStep(u)'
      BY <1>0, <1>17, <2>1, <3>1, <3>2
         DEF UpdateTaskStatus, Awaited, TypeOK, InStep, Inv, TriggeredOnce,
          StatusInStep, Probing, Terminal, Status, Stored
    <3> QED
      BY <1>0, <2>2, <2>3, <3>3 DEF InStep
  <2>5. CASE r.from = "health"
    <3>1. Out(u)' <=> Out(u)
      BY <1>17, <2>5 DEF UpdateTaskStatus, Out
    <3>2. r.status = "failed" /\ u \in Probed /\ pc[u] \in Probing
      BY <1>17, <2>5 DEF InStep, ReportsInStep
    <3>3. StatusInStep(u)'
      BY <1>0, <1>17, <2>1, <3>1, <3>2
         DEF UpdateTaskStatus, TypeOK, InStep, Inv, TriggeredOnce, StatusInStep,
          Probing, Terminal, Status, Stored
    <3> QED
      BY <1>0, <2>2, <2>3, <3>3 DEF InStep
  <2> QED
    BY <2>1, <2>4, <2>5
<1>18. ASSUME NEW r \in reports, LoseReport(r) PROVE InStep'
  <2>1. ReportsInStep'
    BY <1>0, <1>00, <1>18
       DEF LoseReport, TypeOK, InStep, ReportsInStep, Probing, Awaited, Terminal,
        Inv, TriggeredOnce
  <2>2. ASSUME NEW x \in Tasks PROVE StatusInStep(x)'
    <3>1. Out(x)' <=> Out(x)
      BY <1>18 DEF LoseReport, Out
    <3> QED
      BY <1>0, <1>18, <3>1
         DEF LoseReport, TypeOK, InStep, StatusInStep, Probing, Terminal, Status,
          Stored, Inv, TriggeredOnce
  <2> QED
    BY <1>0, <2>1, <2>2 DEF InStep
<1>19. ASSUME NEW all \in BOOLEAN, PruneTasks(all) PROVE InStep'
  <2>1. ReportsInStep'
    BY <1>0, <1>00, <1>19
       DEF PruneTasks, Stored, Terminal, TypeOK, InStep, ReportsInStep, Probing,
        Awaited, Terminal, Inv, TriggeredOnce
  <2>2. ASSUME NEW x \in Tasks PROVE StatusInStep(x)'
    <3>1. Out(x)' <=> Out(x)
      BY <1>19 DEF PruneTasks, Stored, Terminal, Out
    <3> QED
      BY <1>0, <1>19, <3>1
         DEF PruneTasks, Stored, Terminal, TypeOK, InStep, StatusInStep, Probing,
          Terminal, Status, Stored, Inv, TriggeredOnce
  <2> QED
    BY <1>0, <2>1, <2>2 DEF InStep
<1>20. CASE UNCHANGED vars
  <2>1. ReportsInStep'
    BY <1>20 DEF vars, InStep, ReportsInStep, Probing, Awaited, Terminal
  <2>2. ASSUME NEW x \in Tasks PROVE StatusInStep(x)'
    BY <1>20 DEF vars, InStep, StatusInStep, Out
  <2> QED
    BY <1>0, <2>1, <2>2 DEF InStep
<1> QED
  BY <1>1, <1>2, <1>3, <1>4, <1>5, <1>6, <1>7, <1>8, <1>9, <1>10, <1>11, <1>12,
     <1>13, <1>14, <1>15, <1>16, <1>17, <1>18, <1>19, <1>20 DEF Next

(* With no call lost the stored status is where the executor's place says,  *)
(* and the executor has a report out only while it waits for it.           *)
THEOREM AlwaysInStep == Unreliable = FALSE => (Spec => []InStep)
<1> SUFFICES ASSUME Unreliable = FALSE PROVE Spec => []InStep
  OBVIOUS
<1>1. InStep /\ [Next]_vars => InStep'
  BY InStepStep
<1> QED
  BY <1>1, InStepInit, PTL DEF Spec
-----------------------------------------------------------------------------
(* What a status update that arrives does to a task that is still stored.  *)
LEMMA UpdateMovesOn ==
  ASSUME InStep, NEW r \in reports, status[r.task] \in Stored
  PROVE  /\ r.task \in Tasks
         /\ \/ status[r.task] \in {"scheduled", "running"} /\ r.status = "running"
            \/ /\ r.status \in Terminal
               /\ status[r.task] \in {"running"} \cup Terminal
               /\ r.task \notin Probed => status[r.task] = "running"
<1> DEFINE u == r.task
<1>1. u \in Tasks /\ r.from \in {"executor", "health"} /\ StatusInStep(u)
  BY DEF InStep, Inv, TypeOK, Report
<1>2. CASE r.from = "health"
  BY <1>1, <1>2 DEF InStep, ReportsInStep, StatusInStep, Probing, Stored, Terminal
<1>3. CASE r.from = "executor"
  <2>1. Out(u) /\ pc[u] \in DOMAIN Awaited /\ r.status \in Awaited[pc[u]]
    BY <1>3 DEF Out, InStep, ReportsInStep
  <2> QED
    BY <1>1, <2>1 DEF StatusInStep, Awaited, Probing, Stored, Terminal
<1> QED
  BY <1>1, <1>2, <1>3

LEMMA AssignedFromPending ==
  ASSUME InStep, NEW t \in Tasks, AssignNode(t), status[t] \in Stored
  PROVE  status[t] = "pending"
BY DEF InStep, StatusInStep, AssignNode, Stored

(* With no losses the status a client reads never goes back, also when     *)
(* liveness callbacks report failures beside the executor.                 *)
THEOREM StatusMovesForward ==
  Unreliable = FALSE => (Spec => StatusNeverGoesBack)
<1> SUFFICES ASSUME Unreliable = FALSE PROVE Spec => StatusNeverGoesBack
  OBVIOUS
<1>1. ASSUME InStep, [Next]_vars, NEW t \in Tasks
      PROVE  Order[status[t]] <= Order[status'[t]]
  <2>0. status[t] \in Status /\ TypeOK
    BY <1>1 DEF InStep, Inv, TypeOK
  <2>1. CASE status'[t] = status[t] \/ status'[t] = "deleted" \/ status[t] = "absent"
    BY <1>1, <2>0, <2>1, TypeOKStep DEF Order, Status, Terminal, TypeOK
  <2>2. ASSUME NEW u \in Tasks, CreateTask(u) \/ AssignNode(u) \/ DeleteTask(u)
        PROVE  Order[status[t]] <= Order[status'[t]]
    BY <1>1, <2>0, <2>1, <2>2, AssignedFromPending
       DEF CreateTask, AssignNode, DeleteTask, TypeOK, Order
  <2>3. ASSUME NEW r \in reports, UpdateTaskStatus(r)
        PROVE  Order[status[t]] <= Order[status'[t]]
    <3>1. CASE status[r.task] \in Stored /\ r.task = t
      BY <1>1, <2>0, <2>3, <3>1, UpdateMovesOn
         DEF UpdateTaskStatus, TypeOK, Order, Terminal
    <3>2. CASE ~(status[r.task] \in Stored /\ r.task = t)
      BY <2>0, <2>1, <2>3, <3>2 DEF UpdateTaskStatus, TypeOK
    <3> QED
      BY <3>1, <3>2
  <2> QED
    BY <1>1, <2>1, <2>2, <2>3, WhoWritesStatus
<1>2. InStep /\ [Next]_vars =>
        [\A t \in Tasks : Order[status[t]] <= Order[status'[t]]]_vars
  BY <1>1
<1> QED
  BY <1>2, AlwaysInStep, PTL DEF Spec, StatusNeverGoesBack

(* Changing the status of one task changes the abstract status of that     *)
(* task if it is plain, and nothing otherwise.                             *)
LEMMA PlainChange ==
  ASSUME TypeOK, NEW t \in Tasks, NEW s, status' = [status EXCEPT ![t] = s]
  PROVE  /\ t \notin Plain => UNCHANGED plainStatus
         /\ t \in Plain =>
              /\ plainStatus[t] = status[t]
              /\ plainStatus' = [plainStatus EXCEPT ![t] = s]
<1>1. \A u \in Plain : u \in Tasks /\ status'[u] = IF u = t THEN s ELSE status[u]
  BY DEF TypeOK, Plain
<1>2. CASE t \notin Plain
  BY <1>1, <1>2 DEF plainStatus
<1>3. CASE t \in Plain
  BY <1>1, <1>3 DEF plainStatus
<1> QED
  BY <1>2, <1>3

(* Without losses the master moves every task that has no liveness probe   *)
(* along the documented flow of statuses, one arrow at a time, and leaves  *)
(* a finished task as it is.                                               *)
THEOREM RefinesFlow ==
  Unreliable = FALSE => (Spec => Flow!Spec)
<1> SUFFICES ASSUME Unreliable = FALSE PROVE Spec => Flow!Spec
  OBVIOUS
<1>1. Init => Flow!Init
  BY DEF Init, Flow!Init, Plain, plainStatus
<1>2. ASSUME InStep, [Next]_vars PROVE [Flow!Next]_plainStatus
  <2> USE DEF Flow!Next, Flow!Create, Flow!Schedule, Flow!Run, Flow!Finish,
              Flow!Prune, Flow!Move, Flow!Finished
  <2>0. TypeOK /\ \A t \in Tasks : StatusInStep(t)
    BY <1>2 DEF InStep, Inv
  <2>00. ASSUME UNCHANGED status PROVE UNCHANGED plainStatus
    BY <2>00 DEF plainStatus
  <2>1. ASSUME NEW t \in Tasks, CreateTask(t) PROVE [Flow!Next]_plainStatus
    <3>1. status[t] = "absent" /\ status' = [status EXCEPT ![t] = "pending"]
      BY <2>1 DEF CreateTask
    <3>2. CASE t \in Plain
      BY <2>0, <3>1, <3>2, PlainChange
    <3>3. CASE t \notin Plain
      BY <2>0, <3>1, <3>3, PlainChange
    <3> QED
      BY <3>2, <3>3
  <2>2. ASSUME NEW t \in Tasks, AssignNode(t) PROVE [Flow!Next]_plainStatus
    <3>1. CASE status[t] \in Stored
      <4>1. status[t] = "pending" /\ status' = [status EXCEPT ![t] = "scheduled"]
        BY <1>2, <2>2, <3>1, AssignedFromPending DEF AssignNode
      <4>2. CASE t \in Plain
        BY <2>0, <4>1, <4>2, PlainChange
      <4>3. CASE t \notin Plain
        BY <2>0, <4>1, <4>3, PlainChange
      <4> QED
        BY <4>2, <4>3
    <3>2. CASE status[t] \notin Stored
      BY <2>00, <2>2, <3>2 DEF AssignNode
    <3> QED
      BY <3>1, <3>2
  <2>3. ASSUME NEW t \in Tasks, DeleteTask(t) PROVE [Flow!Next]_plainStatus
    <3>1. status[t] \in Stored \/ status[t] = "deleted"
      BY <2>0, <2>3 DEF DeleteTask, StatusInStep, TypeOK, Stored
    <3>2. CASE status[t] \in Stored
      <4>1. /\ status[t] \in {"pending", "scheduled", "running"} \cup {"completed", "failed"}
            /\ status' = [status EXCEPT ![t] = "deleted"]
        BY <2>3, <3>2 DEF DeleteTask, Stored, Status, Terminal
      <4>2. CASE t \in Plain
        BY <2>0, <4>1, <4>2, PlainChange
      <4>3. CASE t \notin Plain
        BY <2>0, <4>1, <4>3, PlainChange
      <4> QED
        BY <4>2, <4>3
    <3>3. CASE status[t] = "deleted"
      BY <2>0, <2>00, <2>3, <3>3 DEF DeleteTask, TypeOK
    <3> QED
      BY <3>1, <3>2, <3>3
  <2>4. ASSUME NEW r \in reports, UpdateTaskStatus(r) PROVE [Flow!Next]_plainStatus
    <3>1. CASE status[r.task] \notin Stored
      BY <2>00, <2>4, <3>1 DEF UpdateTaskStatus
    <3>2. CASE status[r.task] \in Stored
      <4>1. r.task \in Tasks /\ status' = [status EXCEPT ![r.task] = r.status]
        BY <1>2, <2>4, <3>2, UpdateMovesOn DEF UpdateTaskStatus
      <4>2. CASE r.task \notin Plain
        BY <2>0, <4>1, <4>2, PlainChange
      <4>3. CASE r.task \in Plain
        <5>1. r.task \notin Probed
          BY <4>3 DEF Plain
        <5>2. \/ status[r.task] = "scheduled" /\ r.status = "running"
              \/ status[r.task] = "running" /\ r.status = "running"
              \/ status[r.task] = "running" /\ r.status \in Terminal
          BY <1>2, <3>2, <5>1, UpdateMovesOn
        <5>3. CASE status[r.task] = "running" /\ r.status = "running"
          BY <2>0, <2>00, <4>1, <5>3 DEF TypeOK
        <5>4. CASE status[r.task] = "scheduled" /\ r.status = "running"
          BY <2>0, <4>1, <4>3, <5>4, PlainChange
        <5>5. CASE status[r.task] = "running" /\ r.status \in Terminal
          BY <2>0, <4>1, <4>3, <5>5, PlainChange DEF Terminal
        <5> QED
          BY <5>2, <5>3, <5>4, <5>5
      <4> QED
        BY <4>2, <4>3
    <3> QED
      BY <3>1, <3>2
  <2> QED
    BY <1>2, <2>00, <2>1, <2>2, <2>3, <2>4, WhoWritesStatus
<1>3. InStep /\ [Next]_vars => [Flow!Next]_plainStatus
  BY <1>2
<1> QED
  BY <1>1, <1>3, AlwaysInStep, PTL DEF Spec, Flow!Spec
-----------------------------------------------------------------------------
(***************************************************************************)
(* The status a task settles in is true: from the moment the master has    *)
(* handled the executor's last report (Told) the status is final, and      *)
(* without a liveness probe it is the outcome of the container (Settles).  *)
(* Probe callbacks, prunes and other tasks go on meanwhile.                *)
(***************************************************************************)

(* The reports of a task's executor that are on their way. *)
Sent(t) == {r \in reports : r.task = t /\ r.from = "executor"}

(* A step that does not touch what Settles reads of a task. *)
LEMMA SettlesFrame ==
  ASSUME NEW x \in Tasks, Settles(x),
         UNCHANGED <<status[x], pc[x], container[x], exitCode[x], Sent(x)>>
  PROVE  Settles(x)'
<1>1. Out(x)' <=> Out(x)
  BY DEF Out, Sent
<1> QED
  BY <1>1 DEF Settles, Told, Sent

(* Neither does one before the executor's last report is sent. *)
LEMMA SettlesEarly ==
  ASSUME NEW x \in Tasks, container'[x] /= "removed",
         pc'[x] \notin {"reportExit", "reportFailed", "remove", "done"}
  PROVE  Settles(x)'
BY DEF Settles, Told

(* Nobody but the executor sends an executor's reports. *)
LEMMA SendsOwn ==
  ASSUME NEW t \in Tasks, NEW s, NEW c, SendReport(t, s, c), NEW x \in Tasks, x /= t
  PROVE  Sent(x)' = Sent(x)
<1> DEFINE sent == [task |-> t, from |-> "executor", status |-> s, containerID |-> c]
<1>1. reports' = reports \cup {sent} /\ sent.task = t
  BY DEF SendReport
<1> HIDE DEF sent
<1> QED
  BY <1>1 DEF Sent

(* A report that is sent when none is out is the only one out. *)
LEMMA SendsOne ==
  ASSUME NEW t \in Tasks, NEW s, NEW c, SendReport(t, s, c), ~Out(t)
  PROVE  /\ Out(t)'
         /\ \A r \in reports' : r.task = t /\ r.from = "executor" => r.status = s
<1> DEFINE sent == [task |-> t, from |-> "executor", status |-> s, containerID |-> c]
<1>1. reports' = reports \cup {sent} /\ sent.task = t /\ sent.from = "executor" /\ sent.status = s
  BY DEF SendReport
<1> HIDE DEF sent
<1> QED
  BY <1>1 DEF Out

LEMMA SettlingInit == Init => Settling
<1> SUFFICES ASSUME Init PROVE Settling
  OBVIOUS
<1>1. ASSUME NEW t \in Tasks PROVE Settles(t)
  BY DEF Init, Settles, Told
<1> QED
  BY <1>1, InStepInit DEF Settling

(* The executor: its reports tell the truth, and it waits for the answer.  *)
LEMMA ExecutorSettles ==
  ASSUME Unreliable = FALSE, InStep, NEW t \in Tasks, ExecuteTask(t), Settles(t)
  PROVE  Settles(t)'
<1> USE DEF dockerVars, masterVars, GoTo
<1>0. TypeOK /\ ContainerFollows(t) /\ StatusInStep(t) /\ t \in DOMAIN pc /\ t \in DOMAIN container
  BY DEF InStep, Inv, TypeOK
<1>1. status' = status
  BY DEF ExecuteTask
<1>2. pc[t] \notin DOMAIN Awaited => ~Out(t)
  BY DEF InStep, ReportsInStep, Out
<1>3. ASSUME Begin(t) \/ RunningReported(t) \/ PullImage(t) \/ CreateContainer(t)
               \/ StartContainer(t) \/ ContainerReported(t)
      PROVE  Settles(t)'
  <2>1. pc'[t] \in {"reportRunning", "pull", "create", "start", "reportContainer", "wait"}
    BY <1>0, <1>3 DEF Begin, RunningReported, PullImage, CreateContainer,
                      StartContainer, ContainerReported
  <2>2. container'[t] /= "removed"
    BY <1>0, <1>3 DEF Begin, RunningReported, PullImage, CreateContainer,
                      StartContainer, ContainerReported, Settles
  <2> QED
    BY <2>1, <2>2, SettlesEarly
<1>4. ASSUME PrepareFails(t) \/ StartFails(t) \/ WaitFails(t)
      PROVE  Settles(t)'
  <2>1. pc'[t] = "reportFailed" /\ container'[t] = container[t] /\ container[t] /= "removed"
    BY <1>0, <1>4 DEF PrepareFails, StartFails, WaitFails, Settles
  <2>2. ~Out(t)
    BY <1>2, <1>4 DEF PrepareFails, StartFails, WaitFails, Awaited
  <2>3. \E c \in BOOLEAN : SendReport(t, "failed", c)
    BY <1>4 DEF PrepareFails, StartFails, WaitFails
  <2>4. Out(t)'
    BY <2>2, <2>3, SendsOne
  <2> QED
    BY <2>1, <2>4 DEF Settles, Told
<1>5. CASE WaitReturns(t)
  <2> DEFINE s == IF exitCode[t] = "zero" THEN "completed" ELSE "failed"
  <2>1. /\ pc'[t] = "reportExit" /\ container'[t] = "exited"
        /\ exitCode' = exitCode /\ SendReport(t, s, TRUE)
    BY <1>0, <1>5 DEF WaitReturns
  <2>2. ~Out(t)
    BY <1>2, <1>5 DEF WaitReturns, Awaited
  <2> HIDE DEF s
  <2>3. Out(t)' /\ \A r \in reports' : r.task = t /\ r.from = "executor" => r.status = s
    BY <2>1, <2>2, SendsOne
  <2> QED
    BY <2>1, <2>3 DEF Settles, Told, s
<1>6. CASE ExitReported(t)
  <2>1. /\ pc[t] = "reportExit" /\ pc'[t] = "remove"
        /\ UNCHANGED <<reports, container, exitCode>> /\ ~Out(t)
    BY <1>0, <1>6 DEF ExitReported, CallReturns, Out
  <2> QED
    BY <1>1, <2>1 DEF Settles, Told
<1>7. CASE RemoveContainer(t)
  <2>1. /\ pc[t] = "remove" /\ pc'[t] = "done" /\ UNCHANGED exitCode
    BY <1>0, <1>7 DEF RemoveContainer
  <2> QED
    BY <1>1, <2>1 DEF Settles, Told
<1>8. CASE FailureReported(t)
  <2>1. /\ pc[t] = "reportFailed" /\ pc'[t] = "done"
        /\ UNCHANGED <<reports, container, exitCode>> /\ ~Out(t)
    BY <1>0, <1>8 DEF FailureReported, CallReturns, Out
  <2> QED
    BY <1>1, <2>1 DEF Settles, Told
<1> QED
  BY <1>3, <1>4, <1>5, <1>6, <1>7, <1>8 DEF ExecuteTask

(* The handler: the last report of the executor brings the outcome, that   *)
(* of a callback, for a probed task, a terminal status.                    *)
LEMMA UpdateSettles ==
  ASSUME Unreliable = FALSE, InStep, InStep', NEW r \in reports, UpdateTaskStatus(r),
         r.task \in Tasks, Settles(r.task)
  PROVE  Settles(r.task)'
<1> DEFINE t == r.task
<1>0. /\ t \in Tasks /\ t \in DOMAIN status /\ r.from \in {"executor", "health"}
      /\ StatusInStep(t) /\ TriggeredOnce(t) /\ ContainerFollows(t)
      /\ UNCHANGED <<pc, container, exitCode>> /\ reports' = reports \ {r}
  BY DEF InStep, Inv, TypeOK, Report, UpdateTaskStatus, dockerVars
<1>1. \/ status[t] \in Stored /\ status'[t] = r.status
      \/ status[t] \in {"absent", "deleted"} /\ status'[t] = status[t]
  BY <1>0 DEF UpdateTaskStatus, InStep, Inv, TypeOK, Stored
<1>2. status[t] = "absent" => pc[t] = "none"
  BY <1>0 DEF TriggeredOnce
<1>3. CASE r.from = "health"
  <2>1. r.status = "failed" /\ t \in Probed
    BY <1>3 DEF InStep, ReportsInStep
  <2>2. Out(t)' <=> Out(t)
    BY <1>0, <1>3 DEF Out
  <2> QED
    BY <1>0, <1>1, <1>2, <2>1, <2>2 DEF Settles, Told, Terminal
<1>4. CASE r.from = "executor"
  <2>1. pc[t] \in DOMAIN Awaited /\ r.status \in Awaited[pc[t]]
    BY <1>4 DEF InStep, ReportsInStep
  <2>2. pc[t] = "reportExit" => (r.status = "completed" <=> exitCode[t] = "zero")
    BY <1>4 DEF Settles
  <2> QED
    BY <1>0, <1>1, <1>2, <2>1, <2>2 DEF Settles, Told, Terminal, Awaited
<1> QED
  BY <1>0, <1>3, <1>4

LEMMA SettlingStep ==
  ASSUME Unreliable = FALSE, Settling, [Next]_vars
  PROVE  Settling'
<1> USE DEF masterVars, requestVars, dockerVars, healthVars, pruneVars
<1>0. InStep /\ InStep' /\ TypeOK /\ \A t \in Tasks : Settles(t)
  BY InStepStep DEF Settling, InStep, Inv
<1> SUFFICES ASSUME NEW x \in Tasks PROVE Settles(x)'
  BY <1>0 DEF Settling
<1>1. Settles(x) /\ StatusInStep(x) /\ TriggeredOnce(x) /\ ContainerFollows(x)
  BY <1>0 DEF InStep, Inv
<1>2. ASSUME UNCHANGED <<status, reports, pc, dockerVars>> PROVE Settles(x)'
  <2>1. Sent(x)' = Sent(x)
    BY <1>2 DEF Sent
  <2> QED
    BY <1>1, <1>2, <2>1, SettlesFrame
<1>3. ASSUME NEW n \in Nodes, NodeAvailable(n) \/ NodeUnavailable(n) \/ WorkerEnds(n)
      PROVE  Settles(x)'
  BY <1>2, <1>3 DEF NodeAvailable, NodeUnavailable, WorkerEnds
<1>4. ASSUME NEW t \in Tasks,
             SchedulingFails(t) \/ TriggerExecution(t) \/ LoseTrigger(t)
               \/ ProbeSucceeds(t) \/ ProbeFails(t) \/ \E n \in Nodes : SelectNode(t, n)
      PROVE  Settles(x)'
  BY <1>2, <1>4 DEF SchedulingFails, TriggerExecution, LoseTrigger, ProbeSucceeds,
                    ProbeFails, SelectNode
<1>5. ASSUME NEW all \in BOOLEAN, PruneTasks(all) PROVE Settles(x)'
  BY <1>2, <1>5 DEF PruneTasks
<1>6. ASSUME NEW t \in Tasks, CreateTask(t) \/ AssignNode(t) PROVE Settles(x)'
  <2>1. UNCHANGED <<reports, pc, container, exitCode>>
    BY <1>6 DEF CreateTask, AssignNode
  <2>2. CASE x = t
    <3>1. pc[x] = "none" /\ container[x] = "none"
      BY <1>0, <1>1, <1>6, <2>2
         DEF CreateTask, AssignNode, TriggeredOnce, ContainerFollows, BeforeContainer
    <3> QED
      BY <2>1, <3>1, SettlesEarly
  <2>3. CASE x /= t
    <3>1. status'[x] = status[x] /\ Sent(x)' = Sent(x)
      BY <1>0, <1>6, <2>1, <2>3 DEF CreateTask, AssignNode, TypeOK, Sent
    <3> QED
      BY <1>1, <2>1, <3>1, SettlesFrame
  <2> QED
    BY <2>2, <2>3
<1>7. ASSUME NEW t \in Tasks, AcceptTask(t) PROVE Settles(x)'
  <2>1. UNCHANGED <<status, reports, container, exitCode>> /\ Sent(x)' = Sent(x)
    BY <1>7 DEF AcceptTask, Sent
  <2>2. CASE pc'[x] = pc[x]
    BY <1>1, <2>1, <2>2, SettlesFrame
  <2>3. CASE pc'[x] /= pc[x]
    <3>1. pc[x] = "none" /\ pc'[x] = "accepted"
      BY <1>0, <1>1, <1>7, <2>3 DEF AcceptTask, TypeOK, TriggeredOnce
    <3> QED
      BY <1>1, <2>1, <3>1, SettlesEarly DEF ContainerFollows, BeforeContainer
  <2> QED
    BY <2>2, <2>3
<1>8. ASSUME NEW t \in Tasks, ExecuteTask(t) PROVE Settles(x)'
  <2>1. CASE x = t
    BY <1>0, <1>8, <2>1, ExecutorSettles
  <2>2. CASE x /= t
    <3>1. UNCHANGED <<status[x], pc[x], container[x], exitCode[x]>>
      BY <1>0, <1>8, <2>2
         DEF ExecuteTask, Begin, RunningReported, PullImage, CreateContainer,
             PrepareFails, StartContainer, StartFails, ContainerReported, WaitReturns,
             WaitFails, ExitReported, RemoveContainer, FailureReported, GoTo, TypeOK
    <3>2. reports' = reports \/ \E s, c : SendReport(t, s, c)
      BY <1>8
         DEF ExecuteTask, Begin, RunningReported, PullImage, CreateContainer,
             PrepareFails, StartContainer, StartFails, ContainerReported, WaitReturns,
             WaitFails, ExitReported, RemoveContainer, FailureReported
    <3>3. Sent(x)' = Sent(x)
      <4>1. CASE reports' = reports
        BY <4>1 DEF Sent
      <4>2. ASSUME NEW s, NEW c, SendReport(t, s, c) PROVE Sent(x)' = Sent(x)
        BY <2>2, <4>2, SendsOwn
      <4> QED
        BY <3>2, <4>1, <4>2
    <3> QED
      BY <1>1, <3>1, <3>3, SettlesFrame
  <2> QED
    BY <2>1, <2>2
<1>9. ASSUME NEW t \in Tasks, NEW code \in {"zero", "nonzero"}, ContainerExits(t, code)
      PROVE  Settles(x)'
  <2>1. UNCHANGED <<status, reports, pc>> /\ (Out(x)' <=> Out(x)) /\ Sent(x)' = Sent(x)
    BY <1>9 DEF ContainerExits, Out, Sent
  <2>2. CASE x = t
    <3>1. container[x] = "running" /\ container'[x] = "exited"
      BY <1>0, <1>9, <2>2 DEF ContainerExits, TypeOK
    <3> QED
      BY <1>1, <2>1, <3>1 DEF Settles, Told
  <2>3. CASE x /= t
    <3>1. container'[x] = container[x] /\ exitCode'[x] = exitCode[x]
      BY <1>0, <1>9, <2>3 DEF ContainerExits, TypeOK
    <3> QED
      BY <1>1, <2>1, <3>1, SettlesFrame
  <2> QED
    BY <2>2, <2>3
<1>10. ASSUME NEW t \in Tasks, HandleUnhealthyContainer(t) PROVE Settles(x)'
  <2>1. UNCHANGED <<status, pc, container, exitCode>>
    BY <1>10 DEF HandleUnhealthyContainer
  <2>2. Sent(x)' = Sent(x)
    BY <1>10 DEF HandleUnhealthyContainer, Sent
  <2> QED
    BY <1>1, <2>1, <2>2, SettlesFrame
<1>11. ASSUME NEW t \in Tasks, DeleteTask(t) PROVE Settles(x)'
  <2>1. UNCHANGED <<reports, pc, container, exitCode>> /\ Sent(x)' = Sent(x) /\ (Out(x)' <=> Out(x))
    BY <1>11 DEF DeleteTask, Sent, Out
  <2>2. status'[x] = status[x] \/ status'[x] = "deleted"
    BY <1>0, <1>11 DEF DeleteTask, TypeOK
  <2> QED
    BY <1>1, <2>1, <2>2 DEF Settles, Told
<1>12. ASSUME NEW r \in reports, UpdateTaskStatus(r) PROVE Settles(x)'
  <2>1. r.task \in Tasks
    BY <1>0, <1>12 DEF TypeOK, Report
  <2>2. CASE x = r.task
    BY <1>0, <1>12, <2>1, <2>2, UpdateSettles
  <2>3. CASE x /= r.task
    <3>1. UNCHANGED <<status[x], pc, container, exitCode>> /\ Sent(x)' = Sent(x)
      BY <1>0, <1>12, <2>1, <2>3 DEF UpdateTaskStatus, TypeOK, Sent
    <3> QED
      BY <1>1, <3>1, SettlesFrame
  <2> QED
    BY <2>2, <2>3
<1>13. ASSUME NEW r \in reports, LoseReport(r) PROVE Settles(x)'
  BY <1>13 DEF LoseReport
<1>14. CASE UNCHANGED vars
  BY <1>2, <1>14 DEF vars
<1> QED
  BY <1>3, <1>4, <1>5, <1>6, <1>7, <1>8, <1>9, <1>10, <1>11, <1>12, <1>13, <1>14 DEF Next

(* With no call lost or late: when the worker is through with a task and   *)
(* nothing about it is on its way, the master shows it finished, and       *)
(* without a liveness probe it shows the outcome its container had.        *)
THEOREM StatusSettlesTrue ==
  Unreliable = FALSE => (Spec => []SettledStatusIsTrue)
<1> SUFFICES ASSUME Unreliable = FALSE PROVE Spec => []SettledStatusIsTrue
  OBVIOUS
<1>1. Settling /\ [Next]_vars => Settling'
  BY SettlingStep
<1>2. ASSUME Settling PROVE SettledStatusIsTrue
  BY <1>2 DEF Settling, Settles, Told, SettledStatusIsTrue, Stored, Terminal
<1>3. Settling => SettledStatusIsTrue
  BY <1>2
<1> QED
  BY <1>1, <1>3, SettlingInit, PTL DEF Spec
-----------------------------------------------------------------------------
(* Who touches the list of a prune request.                                *)
LEMMA WhoWritesPruneList ==
  ASSUME [Next]_vars
  PROVE  \/ UNCHANGED pruneVars
         \/ \E t \in Tasks : DeleteTask(t)
         \/ \E all \in BOOLEAN : PruneTasks(all)
<1> USE DEF pruneVars
<1>1. ASSUME NEW n \in Nodes,
             NodeAvailable(n) \/ NodeUnavailable(n) \/ WorkerEnds(n)
      PROVE  UNCHANGED pruneVars
  BY <1>1 DEF NodeAvailable, NodeUnavailable, WorkerEnds
<1>2. ASSUME NEW t \in Tasks,
             CreateTask(t) \/ SchedulingFails(t) \/ AssignNode(t)
               \/ TriggerExecution(t) \/ LoseTrigger(t) \/ AcceptTask(t)
               \/ ExecuteTask(t) \/ \E n \in Nodes : SelectNode(t, n)
      PROVE  UNCHANGED pruneVars
  BY <1>2 DEF CreateTask, SchedulingFails, AssignNode, TriggerExecution,
              LoseTrigger, AcceptTask, ExecuteTask, SelectNode
<1>3. ASSUME NEW t \in Tasks,
             ProbeSucceeds(t) \/ ProbeFails(t) \/ HandleUnhealthyContainer(t)
               \/ \E code \in {"zero", "nonzero"} : ContainerExits(t, code)
      PROVE  UNCHANGED pruneVars
  BY <1>3 DEF ProbeSucceeds, ProbeFails, HandleUnhealthyContainer, ContainerExits
<1>4. ASSUME NEW r \in reports, UpdateTaskStatus(r) \/ LoseReport(r)
      PROVE  UNCHANGED pruneVars
  BY <1>4 DEF UpdateTaskStatus, LoseReport
<1>5. CASE UNCHANGED vars
  BY <1>5 DEF vars
<1> QED
  BY <1>1, <1>2, <1>3, <1>4, <1>5 DEF Next

(* A status that is over stays over: an update of a finished task finishes *)
(* it again, and a deleted one is not stored.                              *)
LEMMA OverStaysOver ==
  ASSUME InStep, [Next]_vars, NEW t \in Tasks,
         status[t] \in Terminal \cup {"deleted"}
  PROVE  status'[t] \in Terminal \cup {"deleted"}
<1>0. TypeOK
  BY DEF InStep, Inv
<1>1. CASE status' = status
  BY <1>1
<1>2. ASSUME NEW u \in Tasks, CreateTask(u) \/ AssignNode(u) \/ DeleteTask(u)
      PROVE  status'[t] \in Terminal \cup {"deleted"}
  BY <1>0, <1>2, AssignedFromPending
     DEF CreateTask, AssignNode, DeleteTask, TypeOK, Terminal
<1>3. ASSUME NEW r \in reports, UpdateTaskStatus(r)
      PROVE  status'[t] \in Terminal \cup {"deleted"}
  <2>1. CASE status[r.task] \in Stored /\ r.task = t
    <3>1. r.status \in Terminal
      BY <2>1, UpdateMovesOn DEF Terminal
    <3> QED
      BY <1>0, <1>3, <2>1, <3>1 DEF UpdateTaskStatus, TypeOK
  <2>2. CASE ~(status[r.task] \in Stored /\ r.task = t)
    BY <1>0, <1>3, <2>2 DEF UpdateTaskStatus, TypeOK
  <2> QED
    BY <2>1, <2>2
<1> QED
  BY <1>1, <1>2, <1>3, WhoWritesStatus

LEMMA OnlyFinishedListedStep ==
  ASSUME InStep, OnlyFinishedListed, [Next]_vars
  PROVE  OnlyFinishedListed'
<1> SUFFICES ASSUME ~pruneAll', NEW t \in pruneList'
             PROVE  status'[t] \in Terminal \cup {"deleted"}
  BY DEF OnlyFinishedListed
<1>0. TypeOK /\ pruneList \in SUBSET Tasks
  BY DEF InStep, Inv, TypeOK
<1>1. CASE UNCHANGED pruneVars
  <2>1. t \in Tasks /\ status[t] \in Terminal \cup {"deleted"}
    BY <1>0, <1>1 DEF pruneVars, OnlyFinishedListed
  <2> QED
    BY <2>1, OverStaysOver
<1>2. ASSUME NEW u \in Tasks, DeleteTask(u)
      PROVE  status'[t] \in Terminal \cup {"deleted"}
  <2>1. t \in Tasks /\ status[t] \in Terminal \cup {"deleted"}
    BY <1>0, <1>2 DEF DeleteTask, OnlyFinishedListed
  <2> QED
    BY <2>1, OverStaysOver
<1>3. ASSUME NEW all \in BOOLEAN, PruneTasks(all)
      PROVE  status'[t] \in Terminal \cup {"deleted"}
  <2>1. t \in {x \in Tasks : status[x] \in Terminal}
    BY <1>3 DEF PruneTasks
  <2> QED
    BY <1>3, <2>1 DEF PruneTasks, masterVars
<1> QED
  BY <1>1, <1>2, <1>3, WhoWritesPruneList

(* With no call lost or late, a prune of finished tasks deletes no task    *)
(* that is waiting or running, although it works through a list it took    *)
(* before: status updates may come in between, but a finished task stays   *)
(* finished.                                                               *)
THEOREM PruneIsSelective ==
  Unreliable = FALSE => (Spec => PruneSparesUnfinishedTasks)
<1> SUFFICES ASSUME Unreliable = FALSE PROVE Spec => PruneSparesUnfinishedTasks
  OBVIOUS
<1>1. Init => OnlyFinishedListed
  BY DEF Init, OnlyFinishedListed
<1>2. InStep /\ OnlyFinishedListed /\ [Next]_vars => OnlyFinishedListed'
  BY OnlyFinishedListedStep
<1>3. ASSUME InStep, OnlyFinishedListed, [Next]_vars, NEW t \in Tasks,
             ~pruneAll, t \in pruneList
      PROVE  status[t] \in Terminal \cup {"deleted"}
  BY <1>3 DEF OnlyFinishedListed
<1>4. InStep /\ OnlyFinishedListed /\ [Next]_vars =>
        [\A t \in Tasks : ~pruneAll /\ t \in pruneList /\ t \notin pruneList' =>
           status[t] \in Terminal \cup {"deleted"}]_vars
  BY <1>3
<1> QED
  BY <1>1, <1>2, <1>4, AlwaysInStep, PTL DEF Spec, PruneSparesUnfinishedTasks
-----------------------------------------------------------------------------
(* Who writes the container ID of a stored task.                           *)
LEMMA WhoWritesContainerID ==
  ASSUME [Next]_vars
  PROVE  \/ UNCHANGED containerID
         \/ \E t \in Tasks : DeleteTask(t)
         \/ \E r \in reports : UpdateTaskStatus(r)
<1> USE DEF masterVars
<1>1. ASSUME NEW n \in Nodes,
             NodeAvailable(n) \/ NodeUnavailable(n) \/ WorkerEnds(n)
      PROVE  UNCHANGED containerID
  BY <1>1 DEF NodeAvailable, NodeUnavailable, WorkerEnds
<1>2. ASSUME NEW t \in Tasks,
             CreateTask(t) \/ SchedulingFails(t) \/ AssignNode(t)
               \/ TriggerExecution(t) \/ LoseTrigger(t) \/ AcceptTask(t)
               \/ ExecuteTask(t) \/ \E n \in Nodes : SelectNode(t, n)
      PROVE  UNCHANGED containerID
  BY <1>2 DEF CreateTask, SchedulingFails, AssignNode, TriggerExecution,
              LoseTrigger, AcceptTask, ExecuteTask, SelectNode
<1>3. ASSUME NEW t \in Tasks,
             ProbeSucceeds(t) \/ ProbeFails(t) \/ HandleUnhealthyContainer(t)
               \/ \E code \in {"zero", "nonzero"} : ContainerExits(t, code)
      PROVE  UNCHANGED containerID
  BY <1>3 DEF ProbeSucceeds, ProbeFails, HandleUnhealthyContainer, ContainerExits
<1>4. ASSUME NEW r \in reports, LoseReport(r) PROVE UNCHANGED containerID
  BY <1>4 DEF LoseReport
<1>5. ASSUME NEW all \in BOOLEAN, PruneTasks(all) PROVE UNCHANGED containerID
  BY <1>5 DEF PruneTasks
<1>6. CASE UNCHANGED vars
  BY <1>6 DEF vars
<1> QED
  BY <1>1, <1>2, <1>3, <1>4, <1>5, <1>6 DEF Next

LEMMA SentBringsID ==
  ASSUME ReportsBringID, NEW t \in Tasks, NEW s, NEW c, SendReport(t, s, c),
         container' = container, ~c => container[t] = "none"
  PROVE  ReportsBringID'
<1> DEFINE sent == [task |-> t, from |-> "executor", status |-> s, containerID |-> c]
<1>1. reports' = reports \cup {sent} /\ sent.task = t /\ sent.containerID = c
  BY DEF SendReport
<1> HIDE DEF sent
<1> QED
  BY <1>1 DEF ReportsBringID

LEMMA ReportsBringIDStep ==
  ASSUME InStep, ReportsBringID, [Next]_vars
  PROVE  ReportsBringID'
<1> USE DEF masterVars, requestVars, dockerVars, healthVars, pruneVars
<1>0. /\ TypeOK /\ \A t \in Tasks : ContainerFollows(t)
      /\ \A r \in reports : r.task \in Tasks
      /\ \A r \in reports : r.from = "executor" => pc[r.task] \in DOMAIN Awaited
  BY DEF InStep, Inv, TypeOK, Report, ReportsInStep
<1>1. ASSUME reports' \subseteq reports, container' = container PROVE ReportsBringID'
  BY <1>1 DEF ReportsBringID
<1>2. ASSUME NEW n \in Nodes,
             NodeAvailable(n) \/ NodeUnavailable(n) \/ WorkerEnds(n)
      PROVE  ReportsBringID'
  BY <1>1, <1>2 DEF NodeAvailable, NodeUnavailable, WorkerEnds
<1>3. ASSUME NEW t \in Tasks,
             CreateTask(t) \/ SchedulingFails(t) \/ AssignNode(t)
               \/ TriggerExecution(t) \/ LoseTrigger(t) \/ AcceptTask(t)
               \/ \E n \in Nodes : SelectNode(t, n)
      PROVE  ReportsBringID'
  BY <1>1, <1>3 DEF CreateTask, SchedulingFails, AssignNode, TriggerExecution,
                    LoseTrigger, AcceptTask, SelectNode
<1>4. ASSUME NEW t \in Tasks, ProbeSucceeds(t) \/ ProbeFails(t) \/ DeleteTask(t)
      PROVE  ReportsBringID'
  BY <1>1, <1>4 DEF ProbeSucceeds, ProbeFails, DeleteTask
<1>5. ASSUME NEW all \in BOOLEAN, PruneTasks(all) PROVE ReportsBringID'
  BY <1>1, <1>5 DEF PruneTasks
<1>6. ASSUME NEW r \in reports, UpdateTaskStatus(r) \/ LoseReport(r)
      PROVE  ReportsBringID'
  BY <1>1, <1>6 DEF UpdateTaskStatus, LoseReport
<1>7. ASSUME NEW t \in Tasks, HandleUnhealthyContainer(t) PROVE ReportsBringID'
  BY <1>7 DEF HandleUnhealthyContainer, ReportsBringID
<1>8. ASSUME NEW t \in Tasks, NEW code \in {"zero", "nonzero"}, ContainerExits(t, code)
      PROVE  ReportsBringID'
  BY <1>0, <1>8 DEF ContainerExits, ReportsBringID, TypeOK
<1>9. ASSUME NEW t \in Tasks, ExecuteTask(t) PROVE ReportsBringID'
  <2> USE DEF GoTo
  <2>1. CASE CreateContainer(t) \/ RemoveContainer(t)
    <3>1. \A r \in reports : r.from = "executor" => r.task /= t
      BY <1>0, <2>1 DEF CreateContainer, RemoveContainer, Awaited
    <3> QED
      BY <1>0, <2>1, <3>1
         DEF CreateContainer, RemoveContainer, ReportsBringID, TypeOK
  <2>2. CASE StartContainer(t)
    <3> DEFINE sent == [task |-> t, from |-> "executor", status |-> "running",
                        containerID |-> TRUE]
    <3>1. reports' = reports \cup {sent} /\ sent.containerID
      BY <2>2 DEF StartContainer, SendReport
    <3>2. \A r \in reports : r.from = "executor" => r.task /= t
      BY <1>0, <2>2 DEF StartContainer, Awaited
    <3> HIDE DEF sent
    <3> QED
      BY <1>0, <2>2, <3>1, <3>2 DEF StartContainer, ReportsBringID, TypeOK
  <2>3. CASE Begin(t) \/ PrepareFails(t)
    <3>1. container[t] = "none"
      BY <1>0, <2>3 DEF Begin, PrepareFails, ContainerFollows, BeforeContainer
    <3>2. container' = container /\ \E s : SendReport(t, s, FALSE)
      BY <2>3 DEF Begin, PrepareFails
    <3> QED
      BY <3>1, <3>2, SentBringsID
  <2>4. CASE StartFails(t) \/ WaitReturns(t) \/ WaitFails(t)
    <3>1. container' = container /\ \E s : SendReport(t, s, TRUE)
      BY <2>4 DEF StartFails, WaitReturns, WaitFails
    <3> QED
      BY <3>1, SentBringsID
  <2>5. CASE \/ RunningReported(t) \/ PullImage(t) \/ ContainerReported(t)
             \/ ExitReported(t) \/ FailureReported(t)
    BY <1>1, <2>5 DEF RunningReported, PullImage, ContainerReported,
                      ExitReported, FailureReported
  <2> QED
    BY <1>9, <2>1, <2>2, <2>3, <2>4, <2>5 DEF ExecuteTask
<1>10. CASE UNCHANGED vars
  BY <1>1, <1>10 DEF vars
<1> QED
  BY <1>2, <1>3, <1>4, <1>5, <1>6, <1>7, <1>8, <1>9, <1>10 DEF Next

(* With no call lost or late, the store keeps the container ID of a task   *)
(* but for a liveness callback: an update of the executor that would erase *)
(* it reports a time before the container, and the executor waits for the  *)
(* answer to each report, so none of these arrives behind the one that     *)
(* brought the ID.                                                         *)
THEOREM ContainerIDStays ==
  Unreliable = FALSE => (Spec => ContainerIDKept)
<1> SUFFICES ASSUME Unreliable = FALSE PROVE Spec => ContainerIDKept
  OBVIOUS
<1>1. Init => ReportsBringID
  BY DEF Init, ReportsBringID
<1>2. InStep /\ ReportsBringID /\ [Next]_vars => ReportsBringID'
  BY ReportsBringIDStep
<1>3. ASSUME InStep, ReportsBringID, [Next]_vars, NEW t \in Tasks,
             containerID[t]
      PROVE  containerID'[t] \/ status'[t] = "deleted" \/ CallbackReported(t)
  <2>0. TypeOK /\ container[t] /= "none"
    BY <1>3 DEF InStep, Inv, ContainerIDIsReal
  <2>1. CASE UNCHANGED containerID
    BY <1>3, <2>1
  <2>2. ASSUME NEW u \in Tasks, DeleteTask(u)
        PROVE  containerID'[t] \/ status'[t] = "deleted"
    BY <1>3, <2>0, <2>2 DEF DeleteTask, TypeOK
  <2>3. ASSUME NEW r \in reports, UpdateTaskStatus(r)
        PROVE  containerID'[t] \/ status'[t] = "deleted" \/ CallbackReported(t)
    <3>1. CASE r.task = t /\ r.from = "executor"
      <4>1. r.containerID
        BY <1>3, <2>0, <3>1 DEF ReportsBringID
      <4> QED
        BY <1>3, <2>0, <2>3, <3>1, <4>1 DEF UpdateTaskStatus, TypeOK
    <3>2. CASE r.task = t /\ r.from = "health"
      BY <2>3, <3>2 DEF UpdateTaskStatus, CallbackReported
    <3>3. CASE r.task /= t
      BY <1>3, <2>0, <2>3, <3>3 DEF UpdateTaskStatus, TypeOK
    <3> QED
      BY <2>0, <3>1, <3>2, <3>3 DEF TypeOK, Report
  <2> QED
    BY <1>3, <2>1, <2>2, <2>3, WhoWritesContainerID
<1>4. InStep /\ ReportsBringID /\ [Next]_vars =>
        [\A t \in Tasks : containerID[t] =>
           containerID'[t] \/ status'[t] = "deleted" \/ CallbackReported(t)]_vars
  BY <1>3
<1> QED
  BY <1>1, <1>2, <1>4, AlwaysInStep, PTL DEF Spec, ContainerIDKept
-----------------------------------------------------------------------------
(* The last word of an executor is its last: it sends nothing afterwards.  *)
LEMMA ExecutorHasTold ==
  ASSUME Unreliable = FALSE, TypeOK, NEW t \in Tasks, ExecuteTask(t),
         NEW x \in Tasks, Told(x)
  PROVE  Told(x)'
<1> USE DEF GoTo
<1>1. CASE x /= t
  <2>1. pc'[x] = pc[x] /\ (reports' = reports \/ \E s, c : SendReport(t, s, c))
    BY <1>1 DEF TypeOK, ExecuteTask, Begin, RunningReported, PullImage, CreateContainer,
       PrepareFails, StartContainer, StartFails, ContainerReported, WaitReturns,
       WaitFails, ExitReported, RemoveContainer, FailureReported
  <2>2. Out(x)' <=> Out(x)
    BY <1>1, <2>1, SentIsOut DEF Out
  <2> QED
    BY <2>1, <2>2 DEF Told
<1>2. CASE x = t
  <2>1. ExitReported(t) \/ RemoveContainer(t) \/ FailureReported(t)
    BY <1>2 DEF Told, ExecuteTask, Begin, RunningReported, PullImage, CreateContainer,
       PrepareFails, StartContainer, StartFails, ContainerReported, WaitReturns, WaitFails
  <2> QED
    BY <1>2, <2>1 DEF Told, TypeOK, ExitReported, RemoveContainer, FailureReported
<1> QED
  BY <1>1, <1>2

LEMMA StaysTold ==
  ASSUME Unreliable = FALSE, InStep, [Next]_vars, NEW x \in Tasks, Told(x)
  PROVE  Told(x)'
<1> USE DEF masterVars, requestVars, dockerVars, healthVars, pruneVars
<1>0. TypeOK /\ TriggeredOnce(x)
  BY DEF InStep, Inv
<1>1. ASSUME UNCHANGED pc, reports' \subseteq reports PROVE Told(x)'
  BY <1>1 DEF Told, Out
<1>2. ASSUME NEW n \in Nodes,
             NodeAvailable(n) \/ NodeUnavailable(n) \/ WorkerEnds(n)
      PROVE  Told(x)'
  BY <1>1, <1>2 DEF NodeAvailable, NodeUnavailable, WorkerEnds
<1>3. ASSUME NEW t \in Tasks,
             CreateTask(t) \/ SchedulingFails(t) \/ AssignNode(t)
               \/ TriggerExecution(t) \/ LoseTrigger(t)
               \/ \E n \in Nodes : SelectNode(t, n)
      PROVE  Told(x)'
  BY <1>1, <1>3 DEF CreateTask, SchedulingFails, AssignNode, TriggerExecution,
                    LoseTrigger, SelectNode
<1>4. ASSUME NEW t \in Tasks, AcceptTask(t) PROVE Told(x)'
  <2>1. t /= x
    BY <1>0, <1>4 DEF AcceptTask, TriggeredOnce, Told
  <2> QED
    BY <1>0, <1>4, <2>1 DEF AcceptTask, Told, Out, TypeOK
<1>5. ASSUME NEW t \in Tasks, ExecuteTask(t) PROVE Told(x)'
  BY <1>0, <1>5, ExecutorHasTold
<1>6. ASSUME NEW t \in Tasks,
             \/ ProbeSucceeds(t) \/ ProbeFails(t) \/ DeleteTask(t)
             \/ \E code \in {"zero", "nonzero"} : ContainerExits(t, code)
      PROVE  Told(x)'
  BY <1>1, <1>6 DEF ProbeSucceeds, ProbeFails, DeleteTask, ContainerExits
<1>7. ASSUME NEW t \in Tasks, HandleUnhealthyContainer(t) PROVE Told(x)'
  BY <1>7 DEF HandleUnhealthyContainer, Told, Out
<1>8. ASSUME NEW r \in reports, UpdateTaskStatus(r) \/ LoseReport(r) PROVE Told(x)'
  BY <1>1, <1>8 DEF UpdateTaskStatus, LoseReport
<1>9. ASSUME NEW all \in BOOLEAN, PruneTasks(all) PROVE Told(x)'
  BY <1>1, <1>9 DEF PruneTasks
<1>10. CASE UNCHANGED vars
  BY <1>1, <1>10 DEF vars
<1> QED
  BY <1>2, <1>3, <1>4, <1>5, <1>6, <1>7, <1>8, <1>9, <1>10 DEF Next

(* What an update that is handled says of its executor.                    *)
LEMMA CompletedByLastWord ==
  ASSUME InStep, NEW r \in reports, UpdateTaskStatus(r), r.status = "completed"
  PROVE  Told(r.task)'
<1>1. r.from = "executor" /\ r.task \in Tasks
  BY DEF InStep, Inv, TypeOK, Report, ReportsInStep
<1>2. pc[r.task] = "reportExit" /\ pc' = pc
  BY <1>1 DEF InStep, ReportsInStep, Awaited, Terminal, UpdateTaskStatus
<1>3. ~Out(r.task)'
  BY <1>1 DEF InStep, ReportsInStep, Out, UpdateTaskStatus
<1> QED
  BY <1>2, <1>3 DEF Told

LEMMA CompletedIsToldStep ==
  ASSUME Unreliable = FALSE, InStep, CompletedIsTold, [Next]_vars
  PROVE  CompletedIsTold'
<1> SUFFICES ASSUME NEW x \in Tasks, status'[x] = "completed" PROVE Told(x)'
  BY DEF CompletedIsTold
<1>0. TypeOK
  BY DEF InStep, Inv
<1>1. CASE status[x] = "completed"
  BY <1>1, StaysTold DEF CompletedIsTold
<1>2. CASE status[x] /= "completed"
  <2>1. PICK r \in reports : UpdateTaskStatus(r)
    BY <1>0, <1>2, WhoWritesStatus DEF CreateTask, AssignNode, DeleteTask, TypeOK
  <2>2. r.task = x /\ r.status = "completed"
    BY <1>0, <1>2, <2>1 DEF UpdateTaskStatus, TypeOK
  <2> QED
    BY <2>1, <2>2, CompletedByLastWord
<1> QED
  BY <1>1, <1>2

(* With no call lost or late, the outcome of a task without a liveness     *)
(* probe stands until it is pruned, and with one only a callback and the   *)
(* container's own success replace it: an executor that has said           *)
(* "completed" says nothing more.                                          *)
THEOREM OutcomeIsLasting ==
  Unreliable = FALSE => (Spec => OutcomeStands)
<1> SUFFICES ASSUME Unreliable = FALSE PROVE Spec => OutcomeStands
  OBVIOUS
<1> DEFINE Replaced(t) == status[t] \in Terminal /\ status'[t] \notin {status[t], "deleted"}
           Allowed(t)  == t \in Probed /\ (CallbackReported(t)
                            \/ (status[t] = "failed" /\ exitCode[t] = "zero"))
<1>1. Init => CompletedIsTold
  BY DEF Init, CompletedIsTold
<1>2. InStep /\ CompletedIsTold /\ [Next]_vars => CompletedIsTold'
  BY CompletedIsToldStep
<1>3. ASSUME InStep, CompletedIsTold, [Next]_vars, NEW t \in Tasks, Replaced(t)
      PROVE  Allowed(t)
  <2>0. TypeOK
    BY <1>3 DEF InStep, Inv
  <2>1. PICK r \in reports : UpdateTaskStatus(r)
    BY <1>3, <2>0, WhoWritesStatus, AssignedFromPending
       DEF CreateTask, AssignNode, DeleteTask, TypeOK, Terminal
  <2>2. r.task = t /\ status[t] \in Stored /\ status'[t] = r.status
    BY <1>3, <2>0, <2>1 DEF UpdateTaskStatus, TypeOK
  <2>3. r.status \in Terminal /\ t \in Probed /\ r.from \in {"health", "executor"}
    BY <1>3, <2>0, <2>2, UpdateMovesOn DEF Terminal, TypeOK, Report
  <2>4. CASE r.from = "health"
    BY <2>1, <2>2, <2>3, <2>4 DEF UpdateTaskStatus, CallbackReported
  <2>5. CASE r.from = "executor"
    <3>1. Out(t) /\ pc[t] \in DOMAIN Awaited
      BY <1>3, <2>2, <2>5 DEF Out, InStep, ReportsInStep
    <3>2. status[t] = "failed" /\ r.status = "completed"
      BY <1>3, <2>2, <2>3, <3>1 DEF CompletedIsTold, Told, Awaited, Terminal
    <3> QED
      BY <1>3, <2>2, <2>3, <3>2 DEF InStep, Inv, ReportsAreTrue
  <2> QED
    BY <2>3, <2>4, <2>5
<1>4. InStep /\ CompletedIsTold /\ [Next]_vars =>
        [\A t \in Tasks :
           status[t] \in Terminal /\ status'[t] \notin {status[t], "deleted"} =>
             /\ t \in Probed
             /\ CallbackReported(t) \/ (status[t] = "failed" /\ exitCode[t] = "zero")]_vars
  BY <1>3
<1> QED
  BY <1>1, <1>2, <1>4, AlwaysInStep, PTL DEF Spec, OutcomeStands
=============================================================================
