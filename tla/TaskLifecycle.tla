--------------------------- MODULE TaskLifecycle ---------------------------
(***************************************************************************)
(* The life of a task, from POST /api/v1/tasks on the master to the        *)
(* removal of its container on a worker.                                   *)
(*                                                                         *)
(* Three kinds of process touch a task at the same time:                   *)
(*   - on the master, the request that created it (CreateTask,             *)
(*     scheduleTask, the goroutine triggerTaskExecution), the handler of   *)
(*     status updates and a prune request;                                 *)
(*   - on the worker, the goroutine that runs Agent.ExecuteTask and the    *)
(*     liveness checker with the callbacks it spawns;                      *)
(*   - the Docker daemon, whose containers exit when they please.          *)
(* Every store operation runs under the lock of InMemoryStore, so it is    *)
(* one step; everything between two of them may interleave.                *)
(***************************************************************************)
EXTENDS FiniteSets, Naturals

CONSTANTS Tasks,       \* task IDs; generateID never hands one out twice
          Nodes,       \* node IDs of registered workers
          NoNode,      \* the empty node ID
          Probed,      \* tasks created with a valid liveness probe
          BadProbe,    \* tasks whose probe the worker's validation rejects
          Unreliable   \* TRUE: calls may be lost or outlive the client's
                       \* timeout, and worker processes may end

ASSUME ConstantsAssumption ==
  /\ NoNode \notin Nodes
  /\ Probed \subseteq Tasks
  /\ BadProbe \subseteq Tasks
  /\ Probed \cap BadProbe = {}
  /\ Unreliable \in BOOLEAN

VARIABLES
  status,       \* master store: Task.Status, or "absent" / "deleted"
  nodeID,       \* master store: Task.NodeID
  containerID,  \* master store: is Task.ContainerID set (to its container)?
  available,    \* nodes that GetAvailableNodes would return
  request,      \* where the request that created the task stands
  target,       \* the copy of the selected node the request works with
  triggers,     \* execute calls on their way to a worker
  reports,      \* status updates on their way to the master
  alive,        \* workers whose process is running
  pc,           \* where the task's ExecuteTask goroutine stands
  container,    \* the task's container in the worker's Docker daemon
  exitCode,     \* how that container exited
  health,       \* the liveness checker's status
  callback,     \* is a handleUnhealthyContainer goroutine about to look
                \* the task up?
  pruneList,    \* tasks a prune request has listed and not yet deleted
  pruneAll      \* did that request ask for all=true?

masterVars  == <<status, nodeID, containerID>>
requestVars == <<request, target>>
dockerVars  == <<container, exitCode>>
healthVars  == <<health, callback>>
pruneVars   == <<pruneList, pruneAll>>

vars == <<masterVars, available, requestVars, triggers, reports, alive, pc,
          dockerVars, healthVars, pruneVars>>

Terminal == {"completed", "failed"}
Status   == {"absent", "pending", "scheduled", "running", "deleted"} \cup Terminal
Stored   == Status \ {"absent", "deleted"}

PC == {"none", "accepted", "reportRunning", "pull", "create", "start",
       "reportContainer", "wait", "reportExit", "remove", "reportFailed",
       "done", "dead"}

Report == [task : Tasks, from : {"executor", "health"},
           status : {"running", "completed", "failed"}, containerID : BOOLEAN]

TypeOK ==
  /\ status      \in [Tasks -> Status]
  /\ nodeID      \in [Tasks -> Nodes \cup {NoNode}]
  /\ containerID \in [Tasks -> BOOLEAN]
  /\ available   \in SUBSET Nodes
  /\ request     \in [Tasks -> {"none", "schedule", "assign", "trigger", "done"}]
  /\ target      \in [Tasks -> Nodes \cup {NoNode}]
  /\ triggers    \in SUBSET Tasks
  /\ reports     \in SUBSET Report
  /\ alive       \in SUBSET Nodes
  /\ pc          \in [Tasks -> PC]
  /\ container   \in [Tasks -> {"none", "created", "running", "exited", "removed"}]
  /\ exitCode    \in [Tasks -> {"none", "zero", "nonzero"}]
  /\ health      \in [Tasks -> {"unknown", "healthy", "unhealthy"}]
  /\ callback    \in [Tasks -> BOOLEAN]
  /\ pruneList   \in SUBSET Tasks
  /\ pruneAll    \in BOOLEAN

Init ==
  /\ status      = [t \in Tasks |-> "absent"]
  /\ nodeID      = [t \in Tasks |-> NoNode]
  /\ containerID = [t \in Tasks |-> FALSE]
  /\ available   = {}
  /\ request     = [t \in Tasks |-> "none"]
  /\ target      = [t \in Tasks |-> NoNode]
  /\ triggers    = {}
  /\ reports     = {}
  /\ alive       = Nodes
  /\ pc          = [t \in Tasks |-> "none"]
  /\ container   = [t \in Tasks |-> "none"]
  /\ exitCode    = [t \in Tasks |-> "none"]
  /\ health      = [t \in Tasks |-> "unknown"]
  /\ callback    = [t \in Tasks |-> FALSE]
  /\ pruneList   = {}
  /\ pruneAll    = FALSE

-----------------------------------------------------------------------------
(* Nodes come and go from the scheduler's point of view: registration and  *)
(* heartbeats, late ones included, make one available; deregistration,     *)
(* expiry and deletion make it unavailable, whatever the worker process is *)
(* doing. NodeRegistry says when.                                          *)

NodeAvailable(n) ==
  /\ n \notin available
  /\ available' = available \cup {n}
  /\ UNCHANGED <<masterVars, requestVars, triggers, reports, alive, pc,
                 dockerVars, healthVars, pruneVars>>

NodeUnavailable(n) ==
  /\ n \in available
  /\ available' = available \ {n}
  /\ UNCHANGED <<masterVars, requestVars, triggers, reports, alive, pc,
                 dockerVars, healthVars, pruneVars>>

-----------------------------------------------------------------------------
(* The request that creates a task. *)

CreateTask(t) ==
  /\ status[t] = "absent"
  /\ status'  = [status EXCEPT ![t] = "pending"]
  /\ request' = [request EXCEPT ![t] = "schedule"]
  /\ UNCHANGED <<nodeID, containerID, available, target, triggers, reports,
                 alive, pc, dockerVars, healthVars, pruneVars>>

(* Any available node can be the outcome: the list comes out of a Go map   *)
(* in random order and the round-robin counter only indexes it.            *)
SelectNode(t, n) ==
  /\ request[t] = "schedule"
  /\ status[t] \in Stored
  /\ n \in available
  /\ request' = [request EXCEPT ![t] = "assign"]
  /\ target'  = [target EXCEPT ![t] = n]
  /\ UNCHANGED <<masterVars, available, triggers, reports, alive, pc,
                 dockerVars, healthVars, pruneVars>>

(* No node, or the task is already gone: the request answers with a        *)
(* scheduling error and nothing will look at the task again.               *)
SchedulingFails(t) ==
  /\ request[t] = "schedule"
  /\ available = {} \/ status[t] \notin Stored
  /\ request' = [request EXCEPT ![t] = "done"]
  /\ UNCHANGED <<masterVars, available, target, triggers, reports, alive, pc,
                 dockerVars, healthVars, pruneVars>>

(* scheduleTask's UpdateTask, then "go triggerTaskExecution". The node may *)
(* have left the available ones since it was selected.                     *)
AssignNode(t) ==
  /\ request[t] = "assign"
  /\ IF status[t] \in Stored
       THEN /\ status'  = [status EXCEPT ![t] = "scheduled"]
            /\ nodeID'  = [nodeID EXCEPT ![t] = target[t]]
            /\ request' = [request EXCEPT ![t] = "trigger"]
       ELSE /\ request' = [request EXCEPT ![t] = "done"]
            /\ UNCHANGED <<status, nodeID>>
  /\ UNCHANGED <<containerID, available, target, triggers, reports, alive, pc,
                 dockerVars, healthVars, pruneVars>>

TriggerExecution(t) ==
  /\ request[t] = "trigger"
  /\ request'  = [request EXCEPT ![t] = "done"]
  /\ triggers' = IF status[t] \in Stored THEN triggers \cup {t} ELSE triggers
  /\ UNCHANGED <<masterVars, available, target, reports, alive, pc,
                 dockerVars, healthVars, pruneVars>>

(* The call fails or times out before the worker handles it. The master    *)
(* ignores the error and never calls again.                                *)
LoseTrigger(t) ==
  /\ Unreliable
  /\ t \in triggers
  /\ triggers' = triggers \ {t}
  /\ UNCHANGED <<masterVars, available, requestVars, reports, alive, pc,
                 dockerVars, healthVars, pruneVars>>

-----------------------------------------------------------------------------
(* Mutant: an upsert, no test that the task exists. *)
UpdateTaskStatusUpserts(r) ==
  /\ r \in reports
  /\ reports' = reports \ {r}
  /\ status'      = [status EXCEPT ![r.task] = r.status]
  /\ containerID' = [containerID EXCEPT ![r.task] = r.containerID]
  /\ UNCHANGED <<nodeID, available, requestVars, triggers, alive, pc,
                 dockerVars, healthVars, pruneVars>>

(* The master's handler of PUT /api/v1/tasks/:id/status. It overwrites the *)
(* status and the container ID of the stored task, whatever they are.      *)

UpdateTaskStatus(r) ==
  /\ r \in reports
  /\ reports' = reports \ {r}
  /\ IF status[r.task] \in Stored
       THEN /\ status'      = [status EXCEPT ![r.task] = r.status]
            /\ containerID' = [containerID EXCEPT ![r.task] = r.containerID]
       ELSE UNCHANGED <<status, containerID>>
  /\ UNCHANGED <<nodeID, available, requestVars, triggers, alive, pc,
                 dockerVars, healthVars, pruneVars>>

LoseReport(r) ==
  /\ Unreliable
  /\ r \in reports
  /\ reports' = reports \ {r}
  /\ UNCHANGED <<masterVars, available, requestVars, triggers, alive, pc,
                 dockerVars, healthVars, pruneVars>>

-----------------------------------------------------------------------------
(* Mutant: the execute call is delivered again by a retry. *)
AcceptTaskTwice(t) ==
  /\ t \in triggers
  /\ target[t] \in alive
  /\ pc' = IF t \in BadProbe THEN pc ELSE [pc EXCEPT ![t] = "accepted"]
  /\ UNCHANGED <<masterVars, available, requestVars, triggers, reports, alive,
                 dockerVars, healthVars, pruneVars>>

(* The worker. ExecuteTask handler: validate the probes, answer 202, go.   *)

AcceptTask(t) ==
  /\ t \in triggers
  /\ target[t] \in alive
  /\ triggers' = triggers \ {t}
  /\ pc' = IF t \in BadProbe THEN pc ELSE [pc EXCEPT ![t] = "accepted"]
  /\ UNCHANGED <<masterVars, available, requestVars, reports, alive,
                 dockerVars, healthVars, pruneVars>>

(* updateTaskStatus posts a report and blocks until the master answered or *)
(* the client's timeout fired; the report may then still be on its way.    *)
SendReport(t, s, c) ==
  reports' = reports \cup
    {[task |-> t, from |-> "executor", status |-> s, containerID |-> c]}

(* Mutant: reports are sent without waiting for the answer. *)
CallIsForgotten(t) == TRUE

CallReturns(t) ==
  Unreliable \/ \A r \in reports : r.task = t => r.from = "health"

GoTo(t, label) == pc' = [pc EXCEPT ![t] = label]

Begin(t) ==
  /\ pc[t] = "accepted"
  /\ SendReport(t, "running", FALSE)
  /\ GoTo(t, "reportRunning")
  /\ UNCHANGED dockerVars

RunningReported(t) ==
  /\ pc[t] = "reportRunning"
  /\ CallReturns(t)
  /\ GoTo(t, "pull")
  /\ UNCHANGED <<reports, dockerVars>>

PullImage(t) ==
  /\ pc[t] = "pull"
  /\ GoTo(t, "create")
  /\ UNCHANGED <<reports, dockerVars>>

CreateContainer(t) ==
  /\ pc[t] = "create"
  /\ container' = [container EXCEPT ![t] = "created"]
  /\ GoTo(t, "start")
  /\ UNCHANGED <<reports, exitCode>>

(* Mutants: the failure is returned but not reported; it is reported with  *)
(* a container ID although there is no container.                          *)
PrepareFailsSilently(t) ==
  /\ pc[t] \in {"pull", "create"}
  /\ GoTo(t, "done")
  /\ UNCHANGED <<reports, dockerVars>>

(* PullImage or CreateContainer returns an error. *)
PrepareFails(t) ==
  /\ pc[t] \in {"pull", "create"}
  /\ SendReport(t, "failed", FALSE)
  /\ GoTo(t, "reportFailed")
  /\ UNCHANGED dockerVars

StartContainer(t) ==
  /\ pc[t] = "start"
  /\ container' = [container EXCEPT ![t] = "running"]
  /\ SendReport(t, "running", TRUE)
  /\ GoTo(t, "reportContainer")
  /\ UNCHANGED exitCode

(* The created container stays behind. *)
StartFails(t) ==
  /\ pc[t] = "start"
  /\ SendReport(t, "failed", TRUE)
  /\ GoTo(t, "reportFailed")
  /\ UNCHANGED dockerVars

ContainerReported(t) ==
  /\ pc[t] = "reportContainer"
  /\ CallReturns(t)
  /\ GoTo(t, "wait")
  /\ UNCHANGED <<reports, dockerVars>>

(* Mutants: the exit code is ignored; the final report has no ID. *)
WaitIgnoresExitCode(t) ==
  /\ pc[t] = "wait"
  /\ container[t] = "exited"
  /\ SendReport(t, "completed", TRUE)
  /\ GoTo(t, "reportExit")
  /\ UNCHANGED dockerVars

WaitDropsContainerID(t) ==
  /\ pc[t] = "wait"
  /\ container[t] = "exited"
  /\ SendReport(t, IF exitCode[t] = "zero" THEN "completed" ELSE "failed", FALSE)
  /\ GoTo(t, "reportExit")
  /\ UNCHANGED dockerVars

WaitReturns(t) ==
  /\ pc[t] = "wait"
  /\ container[t] = "exited"
  /\ SendReport(t, IF exitCode[t] = "zero" THEN "completed" ELSE "failed", TRUE)
  /\ GoTo(t, "reportExit")
  /\ UNCHANGED dockerVars

(* WaitContainer fails: the 30 minutes of the execution's context are over *)
(* or Docker reports an error. The container is neither stopped nor        *)
(* removed.                                                                *)
WaitFails(t) ==
  /\ pc[t] = "wait"
  /\ SendReport(t, "failed", TRUE)
  /\ GoTo(t, "reportFailed")
  /\ UNCHANGED dockerVars

ExitReported(t) ==
  /\ pc[t] = "reportExit"
  /\ CallReturns(t)
  /\ GoTo(t, "remove")
  /\ UNCHANGED <<reports, dockerVars>>

(* RemoveContainer; an error is logged and the container stays. Returning  *)
(* stops the checker and forgets the task.                                 *)
RemoveContainer(t) ==
  /\ pc[t] = "remove"
  /\ \/ container' = [container EXCEPT ![t] = "removed"]
     \/ UNCHANGED container
  /\ GoTo(t, "done")
  /\ UNCHANGED <<reports, exitCode>>

FailureReported(t) ==
  /\ pc[t] = "reportFailed"
  /\ CallReturns(t)
  /\ GoTo(t, "done")
  /\ UNCHANGED <<reports, dockerVars>>

ExecuteTask(t) ==
  /\ \/ Begin(t) \/ RunningReported(t) \/ PullImage(t) \/ CreateContainer(t)
     \/ PrepareFails(t) \/ StartContainer(t) \/ StartFails(t)
     \/ ContainerReported(t) \/ WaitReturns(t) \/ WaitFails(t)
     \/ ExitReported(t) \/ RemoveContainer(t) \/ FailureReported(t)
  /\ UNCHANGED <<masterVars, available, requestVars, triggers, alive,
                 healthVars, pruneVars>>

(* runningTasks: the goroutine has entered ExecuteTask and not returned.   *)
Tracked(t) == pc[t] \notin {"none", "accepted", "done", "dead"}

(* The worker process ends: it crashes, or it exits when its shutdown      *)
(* deadline passed. Goroutines die with it, containers do not; the next    *)
(* process registers under a new node ID.                                  *)
WorkerEnds(n) ==
  /\ Unreliable
  /\ n \in alive
  /\ alive' = alive \ {n}
  /\ pc' = [t \in Tasks |-> IF target[t] = n /\ pc[t] \notin {"none", "done"}
                              THEN "dead" ELSE pc[t]]
  /\ callback' = [t \in Tasks |-> callback[t] /\ target[t] /= n]
  /\ UNCHANGED <<masterVars, available, requestVars, triggers, reports,
                 dockerVars, health, pruneVars>>

ContainerExits(t, code) ==
  /\ container[t] = "running"
  /\ container' = [container EXCEPT ![t] = "exited"]
  /\ exitCode'  = [exitCode EXCEPT ![t] = code]
  /\ UNCHANGED <<masterVars, available, requestVars, triggers, reports, alive,
                 pc, healthVars, pruneVars>>

-----------------------------------------------------------------------------
(* The liveness checker runs from the start of WaitContainer to the return *)
(* of ExecuteTask. Probe counts are abstracted to their thresholds.        *)

CheckerRuns(t) ==
  /\ t \in Probed
  /\ \/ pc[t] \in {"wait", "reportExit", "remove"}
     \/ pc[t] = "reportFailed" /\ container[t] \in {"running", "exited"}

ProbeSucceeds(t) ==
  /\ CheckerRuns(t)
  /\ container[t] = "running"
  /\ health[t] /= "healthy"
  /\ health' = [health EXCEPT ![t] = "healthy"]
  /\ UNCHANGED <<masterVars, available, requestVars, triggers, reports, alive,
                 pc, dockerVars, callback, pruneVars>>

(* Only the change from healthy to unhealthy spawns the callback.          *)
ProbeFails(t) ==
  /\ CheckerRuns(t)
  /\ health[t] /= "unhealthy"
  /\ health'   = [health EXCEPT ![t] = "unhealthy"]
  /\ callback' = [callback EXCEPT ![t] = @ \/ health[t] = "healthy"]
  /\ UNCHANGED <<masterVars, available, requestVars, triggers, reports, alive,
                 pc, dockerVars, pruneVars>>

(* The callback reports failure with the ContainerID of the worker's copy  *)
(* of the task, which nothing ever sets. It touches no container.          *)
HandleUnhealthyContainer(t) ==
  /\ callback[t]
  /\ callback' = [callback EXCEPT ![t] = FALSE]
  /\ reports'  = IF Tracked(t)
                   THEN reports \cup {[task |-> t, from |-> "health",
                                       status |-> "failed",
                                       containerID |-> FALSE]}
                   ELSE reports
  /\ UNCHANGED <<masterVars, available, requestVars, triggers, alive, pc,
                 dockerVars, health, pruneVars>>

-----------------------------------------------------------------------------
(* Mutant: everything that is neither pending nor running counts as        *)
(* finished.                                                               *)
PruneTasksTooEagerly(all) ==
  /\ pruneList = {}
  /\ pruneAll'  = all
  /\ pruneList' = {t \in Tasks : status[t] \in Stored /\
                     (all \/ status[t] \notin {"pending", "running"})}
  /\ pruneList' /= {}
  /\ UNCHANGED <<masterVars, available, requestVars, triggers, reports, alive,
                 pc, dockerVars, healthVars>>

(* POST /api/v1/prune lists the tasks once and deletes the listed ones one *)
(* by one. Bound: one prune request at a time.                             *)

PruneTasks(all) ==
  /\ pruneList = {}
  /\ pruneAll'  = all
  /\ pruneList' = {t \in Tasks : IF all THEN status[t] \in Stored
                                        ELSE status[t] \in Terminal}
  /\ pruneList' /= {}
  /\ UNCHANGED <<masterVars, available, requestVars, triggers, reports, alive,
                 pc, dockerVars, healthVars>>

DeleteTask(t) ==
  /\ t \in pruneList
  /\ pruneList'   = pruneList \ {t}
  /\ status'      = [status EXCEPT ![t] = "deleted"]
  /\ nodeID'      = [nodeID EXCEPT ![t] = NoNode]
  /\ containerID' = [containerID EXCEPT ![t] = FALSE]
  /\ UNCHANGED <<available, requestVars, triggers, reports, alive, pc,
                 dockerVars, healthVars, pruneAll>>

-----------------------------------------------------------------------------
Next ==
  \/ \E n \in Nodes : NodeAvailable(n) \/ NodeUnavailable(n) \/ WorkerEnds(n)
  \/ \E t \in Tasks :
       \/ CreateTask(t) \/ SchedulingFails(t) \/ AssignNode(t)
       \/ TriggerExecution(t) \/ LoseTrigger(t)
       \/ \E n \in Nodes : SelectNode(t, n)
       \/ AcceptTask(t) \/ ExecuteTask(t)
       \/ \E code \in {"zero", "nonzero"} : ContainerExits(t, code)
       \/ ProbeSucceeds(t) \/ ProbeFails(t) \/ HandleUnhealthyContainer(t)
       \/ DeleteTask(t)
  \/ \E r \in reports : UpdateTaskStatus(r) \/ LoseReport(r)
  \/ \E all \in BOOLEAN : PruneTasks(all)

Spec == Init /\ [][Next]_vars

(* Goroutines are scheduled, and calls that are not lost are handled. No   *)
(* fairness for clients, nodes, containers, probes, prunes and losses; a   *)
(* wait ends by its 30-minute context even if the container never exits.   *)
Fairness ==
  /\ \A t \in Tasks :
       /\ WF_vars(SchedulingFails(t) \/ AssignNode(t) \/ TriggerExecution(t)
                    \/ \E n \in Nodes : SelectNode(t, n))
       /\ WF_vars(AcceptTask(t))
       /\ WF_vars(DeleteTask(t))
       /\ WF_vars(ExecuteTask(t))
       /\ WF_vars(HandleUnhealthyContainer(t))
       /\ WF_vars(\E r \in reports : r.task = t /\ UpdateTaskStatus(r))

FairSpec == Spec /\ Fairness

-----------------------------------------------------------------------------
(* Properties that hold whatever is lost, delayed or killed. *)

(* A task the master shows as completed ran a container that exited with   *)
(* code 0: no lost, late or reordered status update, no probe callback and *)
(* no prune can make a task look successful that was not.                  *)
CompletedMeansExitedZero ==
  \A t \in Tasks : status[t] = "completed" => exitCode[t] = "zero"

(* A container ID in the store is that of a container that was created.    *)
ContainerIDIsReal ==
  \A t \in Tasks : containerID[t] => container[t] /= "none"

(* A status update or an assignment that arrives after the task was pruned *)
(* does not bring the task back.                                           *)
PrunedStaysPruned ==
  [][\A t \in Tasks : status[t] = "deleted" => status'[t] = "deleted"]_vars

-----------------------------------------------------------------------------
(* Properties of runs in which no call is lost or late and no worker dies. *)

Order == [absent |-> 0, pending |-> 1, scheduled |-> 2, running |-> 3,
          completed |-> 4, failed |-> 4, deleted |-> 5]

(* The status a client polls never goes back, liveness callbacks included. *)
StatusNeverGoesBack ==
  [][\A t \in Tasks : Order[status[t]] <= Order[status'[t]]]_vars

(* A prune that was not asked for all tasks deletes only finished ones,    *)
(* although it deletes from a list it took earlier.                        *)
PruneSparesUnfinishedTasks ==
  [][\A t \in Tasks : ~pruneAll /\ t \in pruneList /\ t \notin pruneList' =>
       status[t] \in Terminal \cup {"deleted"}]_vars

(* The master handles a liveness callback's report.                        *)
CallbackReported(t) == \E r \in reports \ reports' : r.task = t /\ r.from = "health"

(* Once the store has a task's container ID it keeps it until the task is  *)
(* pruned, so that log requests find the container. Only the report of a   *)
(* liveness callback, which never has an ID, erases it.                    *)
ContainerIDKept ==
  [][\A t \in Tasks : containerID[t] =>
       containerID'[t] \/ status'[t] = "deleted" \/ CallbackReported(t)]_vars

(* "Failed --> [*]: Task Terminal", "Completed --> [*]": the outcome a     *)
(* client has seen stands until the task is pruned, for every task without *)
(* a liveness probe. With one, only a callback takes a success away, and   *)
(* only the container's own success replaces what a callback has reported. *)
OutcomeStands ==
  [][\A t \in Tasks :
       status[t] \in Terminal /\ status'[t] \notin {status[t], "deleted"} =>
         /\ t \in Probed
         /\ CallbackReported(t) \/ (status[t] = "failed" /\ exitCode[t] = "zero")]_vars

Quiet(t) == ~callback[t] /\ \A r \in reports : r.task /= t

(* When the worker is through with a task and nothing about it is on its   *)
(* way, the master shows it finished, and without a liveness probe it      *)
(* shows the outcome its container had.                                    *)
SettledStatusIsTrue ==
  \A t \in Tasks :
    pc[t] = "done" /\ Quiet(t) /\ status[t] \in Stored =>
      /\ status[t] \in Terminal
      /\ container[t] = "removed" /\ t \notin Probed =>
           (status[t] = "completed" <=> exitCode[t] = "zero")

(* Without probes, the status follows the documented flow step by step,    *)
(* and a task given to a node finishes.                                    *)
Plain == Tasks \ (Probed \cup BadProbe)
plainStatus == [t \in Plain |-> status[t]]
Flow == INSTANCE TaskFlow WITH Tasks <- Plain, status <- plainStatus
ImplementsFlow == Flow!FairSpec

(* Every task the master shows as scheduled or running is in the end       *)
(* finished or pruned.                                                     *)
ScheduledTaskEnds ==
  \A t \in Tasks :
    status[t] \in {"scheduled", "running"} ~>
      status[t] \in Terminal \cup {"deleted"}

-----------------------------------------------------------------------------
(* The strengthenings that make the invariants above inductive. *)

BeforeContainer == {"none", "accepted", "reportRunning", "pull", "create"}
WithContainer   == {"reportContainer", "wait", "reportExit", "remove"}

(* The request is one pass: absent, then a request, then at most one       *)
(* trigger, then at most one execution.                                    *)
TriggeredOnce(t) ==
  /\ status[t] = "absent" => request[t] = "none"
  /\ request[t] /= "done" => t \notin triggers /\ pc[t] = "none"
  /\ t \in triggers => pc[t] = "none"

Assigned(t) ==
  /\ request[t] = "trigger" \/ t \in triggers \/ pc[t] /= "none"
  /\ status[t] \in Stored
  => nodeID[t] = target[t]

(* A goroutine's place says what its container can be. *)
ContainerFollows(t) ==
  /\ pc[t] \in BeforeContainer => container[t] = "none"
  /\ pc[t] = "start" => container[t] = "created"
  /\ pc[t] \in WithContainer => container[t] \in {"running", "exited"}
  /\ exitCode[t] /= "none" => container[t] \in {"exited", "removed"}
  /\ container[t] = "exited" => exitCode[t] /= "none"

(* What is on its way to the master is as true as what is stored there. *)
ReportsAreTrue ==
  \A r \in reports :
    /\ r.status = "completed" => exitCode[r.task] = "zero"
    /\ r.containerID => container[r.task] /= "none"

Inv ==
  /\ TypeOK
  /\ \A t \in Tasks : TriggeredOnce(t) /\ Assigned(t) /\ ContainerFollows(t)
  /\ ReportsAreTrue
  /\ CompletedMeansExitedZero
  /\ ContainerIDIsReal

(* Without losses the executor and the master move in step: the executor   *)
(* has a report out only while it waits for it, and the stored status is   *)
(* where the executor's place says.                                        *)
Awaited == [reportRunning |-> {"running"}, reportContainer |-> {"running"},
            reportExit |-> Terminal, reportFailed |-> {"failed"}]

Probing == {"wait", "reportExit", "remove", "reportFailed", "done"}

ReportsInStep ==
  \A r \in reports :
    /\ r.from = "health" =>
         r.status = "failed" /\ r.task \in Probed /\ pc[r.task] \in Probing
    /\ r.from = "executor" =>
         /\ pc[r.task] \in DOMAIN Awaited
         /\ r.status \in Awaited[pc[r.task]]
         /\ \A q \in reports : q.from = "executor" /\ q.task = r.task => q = r

(* A report of the task's executor is on its way. *)
Out(t) == \E r \in reports : r.task = t /\ r.from = "executor"

StatusInStep(t) ==
  /\ request[t] = "none" => status[t] = "absent"
  /\ t \in pruneList => status[t] /= "absent"
  /\ request[t] \in {"schedule", "assign"} => status[t] \in {"pending", "deleted"}
  /\ request[t] = "trigger" \/ t \in triggers \/ pc[t] = "accepted" =>
       status[t] \in {"scheduled", "deleted"}
  /\ pc[t] = "reportRunning" =>
       status[t] \in {IF Out(t) THEN "scheduled" ELSE "running", "deleted"}
  /\ pc[t] \in {"pull", "create", "start", "reportContainer"} =>
       status[t] \in {"running", "deleted"}
  /\ pc[t] \in Probing =>
       status[t] \in {"running", "deleted"} \cup Terminal
  /\ t \notin Probed /\ (pc[t] = "wait" \/ Out(t)) =>
       status[t] \in {"scheduled", "running", "deleted"}
  /\ callback[t] \/ health[t] /= "unknown" =>
       t \in Probed /\ pc[t] \in Probing
  /\ pc[t] /= "dead"

InStep == Inv /\ ReportsInStep /\ \A t \in Tasks : StatusInStep(t)

(* The master has handled the executor's last report.                      *)
Told(t) ==
  \/ pc[t] \in {"remove", "done"}
  \/ pc[t] \in {"reportExit", "reportFailed"} /\ ~Out(t)

(* From then on the status is final, and without a probe the outcome.      *)
Settles(t) ==
  /\ Told(t) => status[t] \in Terminal \cup {"deleted"}
  /\ Told(t) /\ t \notin Probed
       /\ (pc[t] \in {"reportExit", "remove"} \/ container[t] = "removed") =>
       status[t] = "deleted" \/ (status[t] = "completed" <=> exitCode[t] = "zero")
  /\ \A r \in reports : r.task = t /\ r.from = "executor" /\ pc[t] = "reportExit" =>
       (r.status = "completed" <=> exitCode[t] = "zero")
  /\ pc[t] \in {"reportExit", "remove"} => container[t] = "exited"
  /\ container[t] = "removed" => pc[t] = "done"

Settling == InStep /\ \A t \in Tasks : Settles(t)

(* What a prune of finished tasks has listed stays finished.               *)
OnlyFinishedListed ==
  ~pruneAll => \A t \in pruneList : status[t] \in Terminal \cup {"deleted"}

(* A report of the executor lacks the container ID only before there is a  *)
(* container.                                                              *)
ReportsBringID ==
  \A r \in reports :
    r.from = "executor" /\ ~r.containerID => container[r.task] = "none"

(* A task is shown as completed on its executor's last word only.          *)
CompletedIsTold == \A t \in Tasks : status[t] = "completed" => Told(t)
=============================================================================
