# Podling in TLA+

A model of Podling, a small container orchestrator: a master with a REST API
and a store, workers that run tasks and pods in Docker, and the calls between
them. The modules are translated from the Go sources under `src/`; `PROJECT.json`
maps every definition to the lines it stands for, and lists the runs, the
mutants that show each property can fail, the findings, the hazards and the
theorems.

## 1. Inventory

| Component | State | Operations | Interacts with |
|---|---|---|---|
| Tasks on the master (`api/handlers.go`, `maintenance.go`) | `Task.Status`, `NodeID`, `ContainerID` in the store | create, schedule, trigger, status update, prune | scheduler, store; HTTP to the worker, HTTP from it |
| Task executor on the worker (`agent/agent.go`, `agent/handlers.go`) | `runningTasks`, `healthCheckers`; the goroutine's place | execute, report, wait, remove, liveness callback | Docker; HTTP to the master |
| Pods on the master (`api/pod_handlers.go`) | `Pod.Status`, `NodeID`, annotations | create, schedule, trigger, status update, delete, prune | as tasks; delete calls the worker |
| Pod executor (`agent/pod_executor.go`) | `runningPods`, `PodExecution` (network, container IDs, cancel function) | network, pull, create, start, wait, clear, cleanup on request | Docker, health checkers |
| Node registry (`api/handlers.go`, `api/server.go`) | `Node.Status`, `LastHeartbeat` | register, heartbeat, deregister, expire, prune | scheduler reads what it stores |
| Heartbeats and shutdown (`agent/agent.go`, `cmd/worker`) | ticker, retry loop, `stopChan` | start, beat, retry, shut down | HTTP to the master |
| Scheduler (`scheduler/roundrobin.go`) | a counter | filter by resources, pick | list of available nodes |
| Services (`api/service_handlers.go`) | services in the store | create, update, delete, prune | allocator, endpoints |
| Cluster IP allocator (`services/endpoint_controller.go`) | `allocated`, `nextIP` (memory only) | allocate, release | controller's mutex |
| Endpoint controller (`services/endpoint_controller.go`) | mutex, ticker | sync every service | store |
| Store (`state/store.go`, `state/postgres.go`) | maps under one lock, or tables | one operation each | everything on the master |
| Health checker (`health/*.go`) | status, counts, `stopChan` | probe, callback, stop | executor |
| Resource quantities (`types/resources.go`) | none | parse, compare | scheduler |
| Docker client, CLI, start-up, migrations | none of their own | | |

What is hard, and what makes each component correct:

- *Tasks.* An executor, a probe callback, a creating request and a prune act on
  one task at once; every call may be lost or outlive its client. Correct means
  that the status follows the documented flow, settles on the container's
  outcome, and never claims success that was not.
- *Pods.* A delete works on the worker while the executor is between any two
  steps; creations may fail or be cancelled with something made, stops and
  removals may fail and are then only logged. Correct means that nothing is left
  in Docker but what it refused to remove, that nothing else runs of a forgotten
  pod, and that every execution ends.
- *Nodes.* A checker and a prune act on lists, heartbeats are late, lost and
  retried, either process may end. Correct means that silent nodes leave the
  scheduler's view in time and live ones stay in it or come back.
- *Services.* Requests, a prune and a periodic sync work with copies; the
  allocator forgets at a restart what a database keeps. Correct means distinct
  addresses, none lost, no endpoints without a service or of a dead pod.
- *Worker shutdown.* Counting, forced cleanup, deregistration and two closings
  of one channel, with calls still coming in. Correct means that the process
  ends, that a drained worker leaves nothing of what it had, and a timed-out one
  no container of a pod that ran at the signal, but what Docker refused to remove.
- *Scheduler, allocator, checker.* A modulus over lists that change, a bounded
  search that wraps around, two counters and their thresholds. Correct means
  turns, addresses that are free and no needless refusal, and a status that is
  the verdict on the probe results.
- *Store.* Two implementations of one interface, one under a lock, one of
  single SQL statements. Correct means that callers cannot tell them apart.

The hazards, each at its line, are in `PROJECT.json`.

## 2. Modules and how they fit

| Module | Models | Proofs | Run in |
|---|---|---|---|
| `TaskFlow` | the promise to a client about one task | | |
| `TaskLifecycle` | tasks on master and worker; implements `TaskFlow` | `TaskLifecycleProofs`, `TaskFlowProofs` | `MCTaskLifecycle` |
| `PodLifecycle` | one pod on master, worker and Docker | `PodLifecycleProofs` | `MCPodLifecycle` |
| `NodeRegistry` | nodes, heartbeats, expiry | `NodeRegistryProofs` | `MCNodeRegistry` |
| `ServiceRegistry` | services, addresses, endpoints | `ServiceRegistryProofs` | `MCServiceRegistry` |
| `WorkerShutdown` | the end of a worker process | `WorkerProofs` | `MCWorker` |
| `HealthChecker` | the liveness checker of one task | `WorkerProofs` | `MCWorker` |
| `Scheduler` | round robin over the available nodes | `MasterProofs` | `MCMaster` |
| `AddressPool`, `ClusterIPAllocator` | what the allocator promises; its search | `MasterProofs` | `MCMaster` |
| `StoreData`, `StateStore` | inputs and answers of the store; its interface | | `MCMaster` |
| `MemoryStore`, `PostgresStore`, `Stores` | the two implementations; the choice at start-up | `StoresProofs` | `MCMaster` |

`TaskFlow` is the promise to a client: statuses move
pending → scheduled → running → completed | failed, and a task given to a node
finishes.

`TaskLifecycle` is the implementation. `request` is the place of `CreateTask`,
`scheduleTask` and `triggerTaskExecution`; `triggers` and `reports` are HTTP
calls on their way; `pc` is the place of `ExecuteTask`'s goroutine, one value per
place between two calls; `container` and `exitCode` are Docker's; `health` and
`callback` the checker and the goroutine it spawns; `pruneList` a prune's copy of
the table. A store operation is one step because it holds the store's lock.
`Unreliable` lets calls be lost or handled after the client gave up, and worker
processes end. Node availability is free. Probe counts are abstracted to the
status change they cause, container IDs to whether one is set.

`ServiceRegistry` has services, addresses, endpoints, the allocator's table, the
create and delete requests' places, a prune-all's list and the sync's copies.
The controller's mutex is `syncing`: allocate and release wait for it, the
requests' store operations do not. `Persistent` chooses the store: PostgreSQL
keeps services over a restart, deletes endpoints with their service and may fail
the query for the pods (`ListPodsFails`), the map takes endpoints of anything.
Pods are what `buildEndpoints` reads of them.

`NodeRegistry` has the node table, the checker's and a prune's lists, and for
each worker process its main goroutine (`main`) and heartbeat goroutine (`beat`,
`tries`). A request is in `calls` from the moment it is sent; its caller waits or
is gone. Time is `Tick`; ages are kept only while a node is online, because only
then are they read. `reliable` is a choice of the environment made once: calls
of these workers are never late, lost or given up.

`PodLifecycle` has one pod (pods share only tables): the create request, the
updates on their way, the place of `ExecutePod` and of its loop, `known` (the
recorded IDs), the context (`cancelled`), each delete in the master (`del`) and in
the worker (`cleanup`, `snapshot`), and Docker's resources: resource 0 is the
network, 1..N the containers. Making a resource and recording it are two steps; a
creation that fails may leave something nobody knows (`lost`). A stop or removal
may fail for whoever asked, with its context alive or over: the step goes on as
the code does, and the histories `refused` (by the executor) and `spared` (by a
delete's handler) keep what is left for that reason; the properties allow that
and no more. A stop is no step of its own: a container may end at any time, with
either code. IP addresses are left out, an update says "running" or another status.

`WorkerShutdown` has main (with `Shutdown` in it), the goroutine that polls the
two maps, the end of the context as `timeUp`, and for each task or pod the place
of its executor, the container it is preparing (`at`) and the state of its
containers: one of a task, `N` of a pod, created, recorded and started in order, so
that the signal and the timeout find pods of which some containers run and others
are not made. Calls are accepted until the HTTP server is down. `ClearContainer`
takes the pods' containers in the order of the loop of `cleanupRunningPods` and
reads a recorded ID when its turn comes; it does not stop the executor.
`cleanupRunningTasks` is no step, since the field it asks for is never set. Any
removal may fail and is only logged. `busy` and `running` (what the maps had and
which containers ran at the signal), `forced`, `abandoned`, `refused` and `spared` are
history. Left out: pods' networks, creations that fail with something made and a
`CleanupPod` that the master asks for, all of them in `PodLifecycle`.

`HealthChecker` has the goroutine of `Start`, `updateStatus`'s counters, the
executor's deferred functions and the spawned callbacks. A probe is its result,
and the ticker may have a tick ready at any time.

`Scheduler` keeps a list per handler between `GetAvailableNodes` and the choice,
which other handlers and node changes separate. Lists come in any order: the
store iterates over a map, the query orders by a column that never changes.

`ClusterIPAllocator` numbers the range from 0; the code's size 2^20 and 65536
tries are constants. `AddressPool` is what `ServiceRegistry` assumes of it, plus
when it may refuse.

`StoreData` keeps of a record the fields the stores treat differently: node and
health as nullable strings, restart policy, labels, annotations, slots, names.
`MemoryStore` does every call in one step (one lock); `PostgresStore` does every
SQL statement in one step, so add and update are two with other clients between
them, and `pending` is the second. Rows have NULL and JSON values, `Concat` is
`||`. `Stores` puts both under the variables a caller sees and maps them to
`StateStore` (`StoreSeen`, `FoundSeen`), whose only freedoms are named in its header. What is left out:
timestamps, columns that are copied only, and a statement that is executed
although its answer is lost.

Composition. Components meet in the statuses and rows they read. Each module
contains the environment of its component in full (any order, any delay), which
is stronger than what the others do: nodes come and go at any time in
`TaskLifecycle` and `Scheduler`, a store answers in any way `StateStore` allows.
`MCMaster` and `MCWorker` put parts that share no state beside each other and
let a behaviour exercise one of them, so that one run covers them without the
product of their states. The other `MC*` modules only name the sets of a `.cfg`.

### Plan

The modules are written: tasks, services, nodes, pods first; then worker shutdown,
allocator, scheduler, checker and store. Every safety property of a passing run is
proved (section 4). What could follow: a module for the parsing of resource quantities.

## 3. Runs

| Run | Shows | Bounds, and why they are enough |
|---|---|---|
| `TaskReliable` | executor and store in step; statuses settle truly and never go back; outcomes and container IDs stand but for a liveness callback; prunes spare the unfinished; refinement of `TaskFlow` with its fairness | two tasks, one probed, one not, on one node: tasks interact only through a prune's list, two make it mixed |
| `TaskUnreliable` | what holds when calls are lost or late and workers end; the proofs' invariant | one probed task; two nodes, so that one worker may end while the other goes on |
| `TaskLostWithWorker` | finding: a task dies with its worker or its call | one task |
| `ServicePostgres` | distinct addresses, none lost, endpoints with their service; the proofs' invariant | three services for two addresses (the pool runs out and addresses are reused), two deletes that may meet on one service |
| `ServiceMemory` | a pod that is over leaves the endpoints, with prunes and restarts | one service, one pod: the sync treats each pair alone |
| `ServiceDuplicateIP` | finding: a restarted allocator gives out a used address | two services |
| `NodeTable` | silent nodes expire in time, live ones stay online, prunes spare them, pruned ones stay away, dead ones go offline, live ones come back; the proofs' invariant | one worker (nodes are independent rows) with the real ratios: tick 15 s, heartbeat 30 s, timeout 90 s, check 30 s, five attempts |
| `PodRuns` | success is true, an ended pod has left nothing but what Docker would not remove, nothing else runs of an untracked one, only a callback takes the status back, executions end; the inductive invariant | two containers (the second fails while the first runs; one is refused, the other removed), one delete |
| `MasterParts` | both stores are the interface, endpoints keep their service; scheduler takes turns; the allocator's search is a pool | two clients and two IDs with one name (every race of two two-statement calls); three nodes, one with a slot or without, two handlers; 7 addresses and 4 tries, so the search wraps and gives up early |
| `PostgresDropsAnnotations` | finding: annotations merged into a nil map are lost | as `MasterParts`, pods without a map |
| `WorkerParts` | the checker's status is the verdict, one callback per outage, it ends; the shutdown ends, drains clean and clears pods, whatever Docker refuses; the inductive invariants | seven results, thresholds default (1 and 3) and 2: an outage, a recovery and a second outage fit; one task and one pod of two containers anywhere in their execution, so that the pod may be between its containers. Pods do not interact; the order in which several are cleared is left to the proof |
| `ShutdownLeavesContainers` | finding: a timed-out shutdown leaves the containers of tasks | as `WorkerParts` |

Bounds in the modules: one prune at a time (`TaskLifecycle`, `NodeRegistry`,
`ServiceRegistry`), one liveness callback per pod, ages not told apart beyond
`AgeCap`, `MaxProbes` results of a checker (later probes change nothing). Deadlock
checking is off only where work runs out: a lost or finished task, a pod that is
over, a checker that ended, a process that is gone. `BadProbe` (a probe the worker
rejects) is empty in the runs, since such a task only stays scheduled; the
theorems hold for any.

Symmetry is used where no liveness is checked and the symmetric values are
interchangeable (clients, IDs with one name, handlers, the two equal nodes).

### Fairness

Goroutines are scheduled, so every step that code takes by itself is weakly fair:
the handlers of calls under way, the executors, the node checker, the sync. In
`TaskLifecycle` a wait ends by the 30-minute context, in `PodLifecycle` the context
expires (`ContextExpires`); no container has to exit. In `NodeRegistry` a heartbeat
that is sent again and again is at some time handled (strong fairness), which is
what makes "comes back" meaningful under loss. The master does not restart for
ever. Clients, crashes, losses, prunes, probes and Docker errors are never fair.
`HealthChecker` is strongly fair to leaving: a `select` that finds `stopChan` closed
again and again picks among the ready cases at random and takes that one at some
time; a probe returns because it has a timeout or a context. In `WorkerShutdown`
only the timer and main are fair; nothing is assumed of the executors.

## 4. Proofs

Every theorem is for all values of the constants that satisfy the named
assumptions, and comes from an inductive invariant. `Inv`, `InStep` and `AddressInv`
are invariants of the runs as well and contain the type invariants of their
modules; so is `AllInv`, which is `CheckerInv` and `ShutdownInv` together. `Settling`,
`UpdatesInOrder`, `SchedulerInv`, `StoresInv` and `AnnotationsAreObjects` only
strengthen invariants that are. `AllTypesOK` of `MCMaster` is the type invariant of
its parts.

The assumptions on constants: work is a task or a pod, not both; positive numbers
of containers and tries; a range of more than one address; finitely many nodes
(`SchedulerAssumption`); a heartbeat interval within the timeout; the markers
`None`, `Nil` and `Null` are no data (`StoreAssumption`, `NullAssumption`); calls carry the
types of the Go structs (`CallsAssumption`). `NullAssumption` also says that `""` is
a string, which TLC knows and the provers do not.

- `TaskLifecycleProofs`: `TypeOK`; then `Inv`, which adds to it that a request
  triggers once and is executed once, where an assignment can be, what a
  goroutine's place says of its container, and that reports on their way are as
  true as the store. `CompletedMeansExitedZero` is not inductive without the
  last. `PrunedStaysPruned` follows from who writes a status.
- `TaskFlowProofs` (assumes `Unreliable = FALSE`): `InStep` ties the stored status
  to the executor's place and to the report that is out; from it
  `StatusNeverGoesBack`, and `RefinesFlow`: every step maps to a step of
  `TaskFlow` or a stutter, for tasks without probes.
  `SettledStatusIsTrue` needs beside it that a task whose executor has told the
  master its outcome (`Told`) is shown finished, and, without a probe, as what its
  container's exit code says; so is the report while it is on its way (`Settles`).
  `PruneSparesUnfinishedTasks`: what a prune has listed was finished then
  (`OnlyFinishedListed`) and a finished status stays. `ContainerIDKept`: a report of
  the executor without an ID was sent before there was a container
  (`ReportsBringID`), hence before the one that brought the ID was stored, and only
  a callback erases it. `OutcomeStands`: an executor says nothing after its last
  word (`StaysTold`) and a task is completed on that word alone
  (`CompletedIsTold`), so only a callback, and the container's own success after
  one, replace an outcome.
- `ServiceRegistryProofs`: `AddressInv` says every address has at most one
  holder, a service, its creating request or a deleter past the deletion.
  `DistinctClusterIPs` needs `~Persistent \/ ~MayRestart`, `AddressesAccounted`
  in addition `~MayPruneAll`; the conditions are exactly what the findings
  violate. `EndpointsBelongToAService` needs `Persistent`.
- `NodeRegistryProofs`: `Base` (types, a process registers once and deregisters
  last, lists name nodes) gives `PrunedNodeStaysAway`; `Inv` adds that no age
  exceeds the timeout by more than the checker's timer, that a reliable node is
  no older than its heartbeat timer, and that no list names a live node. From
  it `StaleNodeIsOffline`, `LiveWorkerIsOnline`, `PruneSparesLiveWorkers`, unless a
  restart with a database resets the checker's ticker.
- `PodLifecycleProofs`: `Inv` says that what Docker has of the pod is recorded by
  the step after the one that makes it, in the order of the loop
  (`KnownResources`, `LoopOrder`); that the verdict is given once, is true, and is
  reported when all is cleared (`VerdictIsTrue`, `ReportsAreTrue`); that a cleanup
  which has cancelled the pod misses nothing that runs or that a start already
  sent will make run, and that nothing runs after it but what Docker would not
  remove for it (`CleanupSeesAll`, `UntrackedPodStaysStopped`). One lemma per part: what is known needs the order of
  the loop, the verdict needs what is known, the rest follows. Even `TypeOK` needs
  `VerdictIsTrue`: the executor reports its verdict unseen. `PodFollowsFlow` comes
  from `UpdatesInOrder`: without late calls the executor waits for each update, so
  one of its own is under way at a time, beside the callbacks', it is no older than
  what is stored, and none is sent before the create request is through.
- `WorkerProofs`, the shutdown: `ShutdownInv` says that an executor makes its
  containers in their order and leaves its map only when each is removed or was
  refused, unless it was abandoned (`InOrder`); that a container that ran at the
  signal is past its start for good, and its execution one that was in the maps
  then or is over (`Past`); that main's place says what it has seen of the maps
  (`MainFollows`); and that after a timeout each such container of a pod has still
  to get its turn, or is removed, or was refused (`TurnsTaken`). From it
  `DrainIsClean` and `RunningPodsAreCleared`, for pods of any number of containers.
  `WorkerInvariance` is for both parts side by side.
- `WorkerProofs`, the checker: `StatusIsVerdict` and `OneReportPerOutage` speak of
  the whole history of results, the code has two counters. `CheckerInv` adds that
  each counter is the length of the run of equal results the history ends with
  (`CountersMeasureRuns`); then the verdict on one more result is the old one unless
  a counter meets its threshold (`VerdictAppend`), and the history has one more
  outage exactly when the callback is spawned (`OutagesAppend`).
- `MasterProofs`: the loops of `filterByResources` and `Allocate` are recursive
  functions. `Recursion` proves that such a function exists, `Induction` what holds
  of all its values (as a set of numbers with 0 and successors, since an induction
  theorem over formulas is out of the prover's reach). So `Suitable` keeps of a list
  the nodes that accept the request, in its order and each once (`SuitableIsLoop`,
  `SuitableType`), and `Candidates` the addresses from `nextIP` on, wrapping, without the
  network's (`Walk`, `CandidatesAre`). `TakesTurns` follows with `SchedulerInv`: the
  choices of a round are the consecutive places of their list, modulo its length,
  up to the counter. `AllocatorIsPool` shows each step of the walk to be a step of
  `AddressPool`: no candidate is free only if as many addresses are in use as one
  request looks at.
- `StoresProofs`, the interface: `StoresImplementInterface` says that each step of
  either store is a step of `StateStore` or one that callers do not see. A call of
  the memory store is the call. In PostgreSQL a single statement is the call, the
  first statement of an add is unseen, that of an update is the step `Find`, and
  the second is the call, on whatever row there is by then; a statement that fails
  is an error the interface allows. The core is that reading commutes with
  writing: what is read of an updated row is the update of what was read of it,
  although an empty string may be NULL or "" in the table. For annotations this
  fails when the column is JSON null, so the theorem has the hypothesis
  `PodsComeWithMap`, under which the column is always an object
  (`AnnotationsAreObjects`). The handlers do not guarantee the hypothesis; what
  happens without it is the finding of `PostgresDropsAnnotations`, and
  `MapsAreMerged` proves that run's property under it. `MemoryImplementsInterface`
  has no hypothesis.
- `StoresProofs`, the tables: endpoints belong to a service at every statement,
  because the second statement of an update never removes or brings back a row and
  what an add writes is a service (`ServiceTables`, `ServiceWrites`).

Only model-checked: the liveness properties (`GonePodLeavesEndpoints`,
`DeadNodeGoesOffline`, `LiveNodeComesBack`, `ExecutionEnds`, `CheckerEnds`,
`ShutdownEnds`, and the fairness part of the refinement of `TaskFlow`), because the
prover has no ENABLED. No module uses a RECURSIVE operator.

## 5. Findings and observations

Findings, each with a violating run: tasks are lost with their worker or call; an
address in use is given out again after a restart; PostgreSQL drops the
annotations merged into a pod that had none; a timed-out shutdown leaves the
containers of tasks running.

Seen while modelling, without a run:

- the callback of a liveness probe may overwrite a final task status, although
  `docs/ARCHITECTURE.md:472-473` draws it as terminal, and erases the container ID
  (`agent/agent.go:506`); it sets a pod back to scheduled, also one that is over
  (`agent/pod_executor.go:260`). `OutcomeStands`, `ContainerIDKept` and
  `PodFollowsFlow` name these steps as the only ones that do so;
- a status update that outlives its client's timeout may replace the newer ones
  that came after it (`TaskUnreliable` has such behaviours);
- with the in-memory store a sync may store endpoints of a service that has just
  been deleted, and nothing removes them;
- a worker whose node was deleted or forgotten in a restart never registers
  again, though `docs/ARCHITECTURE.md:121-125` shows "(re-register)";
- a task or pod that finds no node stays pending; nothing looks at it again
  (`docs/ARCHITECTURE.md:468` draws "Pending --> Failed: No Available Nodes (timeout)");
- a pod deleted between the trigger's read and the worker's tracking is removed
  from the store and then run, for up to its 30 minutes;
- prune-all never returns cluster IPs to the allocator;
- a stop or removal that Docker refuses is logged and forgotten: the task, the pod
  or the shutdown goes on, the pod is reported as over and untracked, and the
  container or network stays for good (`agent/pod_executor.go:408-421`,
  `agent/agent.go:173-178`, `474-476`, `691-708`). That includes a `CleanupPod` whose
  30 seconds end before it is through; while the executor is at work it asks
  again, but a shutdown no longer waits for it;
- a container that a cleanup has stopped may exit with code 0 and then counts as a
  success, so a deleted or cancelled pod may be reported as succeeded;
- the forced cleanup of a shutdown does not cancel a pod's executor: containers it
  starts after their turn are left running when the process ends;
- a heartbeat handled after the deregistration shows a stopped worker's node
  online until it expires; the checker may expire a node that has just come
  back, until its next heartbeat;
- a master that restarts with a database starts its check interval anew, so a
  node may stay stale one interval longer for each restart;
- nothing writes a node's `RunningTasks` or `Used` after its registration, so nodes
  are overcommitted without limit; a node below one core or one GiB has no slot and
  is never chosen;
- the list of nodes comes in map order, so that turns are taken only while the
  order happens to stay (`TakesTurns` is about one list);
- `Stop`, deferred in the worker's main, closes a channel `Shutdown` has closed:
  every graceful shutdown ends in a panic, after everything else is done;
- `UpdatePod` of the in-memory store writes into an annotations map that copies
  handed out earlier share, a data race (`state/store.go:105` says "thread-safe");
- in PostgreSQL a pod without a restart policy makes `ListPodsByLabels` fail, so that
  its services keep stale endpoints; two adds of one ID give the second client an
  error that is not the one for an existing row;
- a container that never was healthy is never reported unhealthy.

## 6. Not modelled

- The CLI and the HTTP framework: stateless; the CLI's requests are the client
  actions of the modules.
- The Docker client: a wrapper; what its calls may do is in the executors' modules.
- Parsing and formatting of CPU and memory quantities: pure functions of text.
  Amounts are numbers in `Scheduler`.
- What a probe does (HTTP, TCP, exec): it succeeds or fails. An unknown probe
  type is a checker that never changes its status.
- Logs, read-only requests, validation that rejects before any state changes,
  start-up, migrations, connection handling of the database.
- `NodeResources.Allocate` and `Release`: only tests call them.
