--------------------------- MODULE WorkerShutdown ---------------------------
(***************************************************************************)
(* The end of a worker process: the signal, Agent.Shutdown with the        *)
(* goroutine that polls the maps, the forced cleanup, the deregistration,  *)
(* the end of the HTTP server and of main, with the executors at work all  *)
(* the while and execute calls accepted until the server is down.          *)
(*                                                                         *)
(* A task has one container, a pod has N, created and started in order. The *)
(* network of a pod and the delete requests are in PodLifecycle, the       *)
(* heartbeats in NodeRegistry. Docker may fail to remove what it is asked  *)
(* to remove: that is logged, whoever asked goes on, and the histories     *)
(* refused and spared remember it. A create that fails makes nothing here, *)
(* and no delete request comes in during the shutdown.                     *)
(***************************************************************************)
EXTENDS Naturals, FiniteSets

CONSTANTS Tasks, Pods,
          N             \* containers of a pod

ASSUME WorkAssumption == Tasks \cap Pods = {} /\ N \in Nat \ {0}

VARIABLES main,       \* where main, and Shutdown in it, are
          poller,     \* the goroutine of Shutdown
          timeUp,     \* is the context of the shutdown over
          toClear,    \* containers cleanupRunningPods has still to look at
          executor,   \* task or pod -> where its goroutine is
          at,         \* task or pod -> the container it is preparing
          container,  \* task or pod -> its containers in Docker
          busy,       \* history: the tasks and pods tracked at the signal
          running,    \* history: the containers that ran at the signal
          forced,     \* history: the shutdown timed out
          abandoned,  \* history: tasks whose start or wait failed
          refused,    \* history: what is left that an executor tried to remove
          spared      \* history: what is left that the forced cleanup tried to
mainVars     == <<main, poller, timeUp, toClear, busy, running, forced>>
pastVars     == <<abandoned, refused, spared>>
executorVars == <<executor, at, container, pastVars>>
shutdownVars == <<mainVars, executorVars>>

Work     == Tasks \cup Pods
Parts(w) == IF w \in Pods THEN 1..N ELSE {1}

ShutdownInit ==
  /\ main = "serving" /\ poller = "none" /\ timeUp = FALSE /\ toClear = {}
  /\ executor  = [w \in Work |-> "none"]
  /\ at        = [w \in Work |-> 1]
  /\ container = [w \in Work |-> [k \in 1..N |-> "none"]]
  /\ busy = {} /\ running = {} /\ forced = FALSE
  /\ abandoned = {} /\ refused = {} /\ spared = {}

(* The keys of runningTasks and runningPods. *)
Tracked == {w \in Work : executor[w] \notin {"none", "accepted", "over"}}

-----------------------------------------------------------------------------
(* ExecuteTask and ExecutePod. They end with the process.                  *)
Step(w, from, to) ==
  /\ main /= "gone"
  /\ executor[w] = from
  /\ executor' = [executor EXCEPT ![w] = to]
  /\ UNCHANGED mainVars

Becomes(w, k, state) == container' = [container EXCEPT ![w][k] = state]

(* The handlers: the server is up until main has shut it down. *)
Accept(w) ==
  /\ main \notin {"exiting", "gone"}
  /\ Step(w, "none", "accepted")
  /\ UNCHANGED <<at, container, pastVars>>

Track(w) ==
  /\ Step(w, "accepted", "preparing")
  /\ UNCHANGED <<at, container, pastVars>>

(* ExecutePod cleans up after a failure, ExecuteTask does not.             *)
AfterFailure(w) == IF w \in Pods THEN "cleaning" ELSE "ending"

(* A pull, a network or a create that failed.                              *)
PreparationFails(w) ==
  /\ Step(w, "preparing", AfterFailure(w))
  /\ UNCHANGED <<at, container, pastVars>>

(* ExecutePod puts the ID where cleanupRunningPods looks for it. *)
Create(w) ==
  /\ Step(w, "preparing", IF w \in Pods THEN "recording" ELSE "starting")
  /\ Becomes(w, at[w], "created")
  /\ UNCHANGED <<at, pastVars>>

Record(p) ==
  /\ Step(p, "recording", "starting")
  /\ UNCHANGED <<at, container, pastVars>>

Start(w) ==
  /\ container[w][at[w]] = "created"
  /\ Becomes(w, at[w], "running")
  /\ IF at[w] + 1 \in Parts(w)
     THEN Step(w, "starting", "preparing") /\ at' = [at EXCEPT ![w] = @ + 1]
     ELSE Step(w, "starting", "waiting") /\ UNCHANGED at
  /\ UNCHANGED pastVars

(* The start may have taken effect.                                        *)
StartFails(w) ==
  /\ Step(w, "starting", AfterFailure(w))
  /\ \/ UNCHANGED container
     \/ container[w][at[w]] = "created" /\ Becomes(w, at[w], "running")
  /\ abandoned' = abandoned \cup ({w} \cap Tasks)
  /\ UNCHANGED <<at, refused, spared>>

WaitFails(w) ==
  /\ Step(w, "waiting", AfterFailure(w))
  /\ abandoned' = abandoned \cup ({w} \cap Tasks)
  /\ UNCHANGED <<at, container, refused, spared>>

Exits(w, k) ==
  /\ container[w][k] = "running"
  /\ Becomes(w, k, "exited")
  /\ UNCHANGED <<mainVars, executor, at, pastVars>>

Wait(w) ==
  /\ \A k \in Parts(w) : container[w][k] \in {"exited", "removed"}
  /\ Step(w, "waiting", "cleaning")
  /\ UNCHANGED <<at, container, pastVars>>

(* Mutant: the execution is taken from the map first. *)
CleanUntracked(w, k) ==
  /\ \/ Step(w, "cleaning", "over") /\ UNCHANGED container
     \/ /\ main /= "gone" /\ executor[w] = "over"
        /\ container[w][k] \in {"created", "running", "exited"}
        /\ Becomes(w, k, "removed")
        /\ UNCHANGED <<mainVars, executor>>
  /\ UNCHANGED <<at, pastVars>>

(* A removal that works settles the failed ones before it. *)
Removed(w, k) ==
  /\ Becomes(w, k, "removed")
  /\ refused' = refused \ {<<w, k>>}
  /\ spared'  = spared \ {<<w, k>>}

(* A removal that fails is logged. *)
Clean(w, k) ==
  /\ container[w][k] \in {"created", "running", "exited"} /\ <<w, k>> \notin refused
  /\ Step(w, "cleaning", "cleaning")
  /\ \/ Removed(w, k)
     \/ refused' = refused \cup {<<w, k>>} /\ UNCHANGED <<container, spared>>
  /\ UNCHANGED <<at, abandoned>>

Disposed(w) ==
  \A k \in 1..N : container[w][k] \in {"none", "removed"} \/ <<w, k>> \in refused

(* The deferred delete from the map. *)
Untrack(w) ==
  /\ Step(w, "ending", "over") \/ (Disposed(w) /\ Step(w, "cleaning", "over"))
  /\ UNCHANGED <<at, container, pastVars>>

-----------------------------------------------------------------------------
(* main has the signal and calls Shutdown, which starts the poller.        *)
Signal ==
  /\ main = "serving"
  /\ main' = "draining" /\ poller' = "polling"
  /\ busy' = Tracked
  /\ running' = {x \in Work \X (1..N) : container[x[1]][x[2]] = "running"}
  /\ UNCHANGED <<timeUp, toClear, forced, executorVars>>

Timeout ==
  /\ main \notin {"serving", "gone"} /\ ~timeUp
  /\ timeUp' = TRUE
  /\ UNCHANGED <<main, poller, toClear, busy, running, forced, executorVars>>

(* Mutant: one of the maps is enough. *)
PollEither ==
  /\ poller = "polling"
  /\ Tracked \cap Tasks = {} \/ Tracked \cap Pods = {}
  /\ poller' = "done"
  /\ UNCHANGED <<main, timeUp, toClear, busy, running, forced, executorVars>>

(* Both maps are empty: the poller closes done. *)
Poll ==
  /\ poller = "polling"
  /\ Tracked = {}
  /\ poller' = "done"
  /\ UNCHANGED <<main, timeUp, toClear, busy, running, forced, executorVars>>

PollerLeaves ==
  /\ poller = "polling" /\ timeUp
  /\ poller' = "left"
  /\ UNCHANGED <<main, timeUp, toClear, busy, running, forced, executorVars>>

Drained ==
  /\ main = "draining" /\ poller = "done"
  /\ main' = "leaving"
  /\ UNCHANGED <<poller, timeUp, toClear, busy, running, forced, executorVars>>

(* Mutant: Shutdown waits for the poller alone. *)
TimedOutNever == FALSE /\ UNCHANGED shutdownVars

(* cleanupRunningTasks does nothing: no code sets the ContainerID of the   *)
(* worker's copy of a task. cleanupRunningPods takes the pods in the map.  *)
TimedOut ==
  /\ main = "draining" /\ timeUp
  /\ main' = "clearing" /\ forced' = TRUE
  /\ toClear' = (Tracked \cap Pods) \X (1..N)
  /\ UNCHANGED <<poller, timeUp, busy, running, executorVars>>

(* One pod after the other, and the containers of a pod in their order. *)
Turn(p, k) ==
  /\ main = "clearing" /\ <<p, k>> \in toClear
  /\ \A j \in 1..N : j < k => <<p, j>> \notin toClear
  /\ \A q \in Pods \ {p} : <<q, N>> \in toClear => <<q, 1>> \in toClear

(* The ID is read when the container's turn comes: one that is not made    *)
(* and recorded by then is passed over.                                    *)
Recorded(p, k) ==
  container[p][k] /= "none" /\ ~(executor[p] = "recording" /\ at[p] = k)

(* Mutant: the first failure ends the loops. *)
ClearContainerOrReturn(p, k) ==
  /\ Turn(p, k)
  /\ \/ /\ ~Recorded(p, k)
        /\ toClear' = toClear \ {<<p, k>>} /\ UNCHANGED <<container, pastVars>>
     \/ /\ Recorded(p, k) /\ Removed(p, k)
        /\ toClear' = toClear \ {<<p, k>>} /\ UNCHANGED abandoned
     \/ /\ Recorded(p, k) /\ spared' = spared \cup {<<p, k>>}
        /\ toClear' = {} /\ UNCHANGED <<container, abandoned, refused>>
  /\ UNCHANGED <<main, poller, timeUp, busy, running, forced, executor, at>>

(* A stop or removal that fails is logged. The executor is not stopped: it *)
(* goes on to create and start further containers.                         *)
ClearContainer(p, k) ==
  /\ Turn(p, k)
  /\ toClear' = toClear \ {<<p, k>>}
  /\ \/ ~Recorded(p, k) /\ UNCHANGED <<container, refused, spared>>
     \/ Recorded(p, k) /\ Removed(p, k)
     \/ /\ Recorded(p, k) /\ container[p][k] /= "removed"
        /\ spared' = spared \cup {<<p, k>>}
        /\ UNCHANGED <<container, refused>>
  /\ UNCHANGED <<main, poller, timeUp, busy, running, forced, executor, at, abandoned>>

Cleared ==
  /\ main = "clearing" /\ toClear = {}
  /\ main' = "leaving"
  /\ UNCHANGED <<poller, timeUp, toClear, busy, running, forced, executorVars>>

(* deregister, answered or not; stopChan and the Docker client are closed. *)
Deregister ==
  /\ main = "leaving"
  /\ main' = "closing"
  /\ UNCHANGED <<poller, timeUp, toClear, busy, running, forced, executorVars>>

(* e.Shutdown *)
ServerCloses ==
  /\ main = "closing"
  /\ main' = "exiting"
  /\ UNCHANGED <<poller, timeUp, toClear, busy, running, forced, executorVars>>

(* The deferred Stop closes stopChan again and panics: either way the      *)
(* process is over.                                                        *)
Exit ==
  /\ main = "exiting"
  /\ main' = "gone"
  /\ UNCHANGED <<poller, timeUp, toClear, busy, running, forced, executorVars>>

-----------------------------------------------------------------------------
Execute(w) ==
  \/ Accept(w) \/ Track(w) \/ PreparationFails(w) \/ Create(w) \/ Record(w)
  \/ Start(w) \/ StartFails(w) \/ WaitFails(w) \/ Wait(w)
  \/ (\E k \in Parts(w) : Exits(w, k) \/ Clean(w, k)) \/ Untrack(w)

Main ==
  \/ Drained \/ TimedOut \/ Cleared
  \/ \E p \in Pods, k \in 1..N : ClearContainer(p, k)
  \/ Deregister \/ ServerCloses \/ Exit

ShutdownNext ==
  \/ \E w \in Work : Execute(w)
  \/ Signal \/ Timeout \/ Poll \/ PollerLeaves \/ Main

(* The timer fires and main goes on; nothing is assumed of the executors.  *)
ShutdownFairness == WF_shutdownVars(Timeout) /\ WF_shutdownVars(Main)

ShutdownSpec == ShutdownInit /\ [][ShutdownNext]_shutdownVars /\ ShutdownFairness

-----------------------------------------------------------------------------
ShutdownTypeOK ==
  /\ main \in {"serving", "draining", "clearing", "leaving", "closing", "exiting", "gone"}
  /\ poller \in {"none", "polling", "done", "left"}
  /\ timeUp \in BOOLEAN /\ forced \in BOOLEAN
  /\ toClear \subseteq Pods \X (1..N)
  /\ busy \subseteq Work /\ abandoned \subseteq Tasks
  /\ running \cup refused \cup spared \subseteq Work \X (1..N)
  /\ executor \in [Work -> {"none", "accepted", "preparing", "recording", "starting",
                            "waiting", "cleaning", "ending", "over"}]
  /\ at \in [Work -> 1..N]
  /\ container \in [Work -> [1..N -> {"none", "created", "running", "exited", "removed"}]]

(* A worker that drained leaves nothing of the tasks and pods it had when  *)
(* the signal came, wherever they were and whatever they started since,    *)
(* but what Docker refused to remove and the containers of tasks whose     *)
(* start or wait failed.                                                   *)
DrainIsClean ==
  main \in {"leaving", "closing", "exiting", "gone"} /\ ~forced =>
    \A w \in busy \ abandoned : Disposed(w)

(* Nothing is left of a container, or what Docker refused to remove.       *)
Settled(w, k) == container[w][k] = "removed" \/ <<w, k>> \in refused \cup spared

(* Whether it drained or timed out, and wherever the executors are: of the *)
(* pods' containers that ran when the signal came none is left that Docker *)
(* did not refuse to remove. (Those that a pod starts after their turn in  *)
(* the forced cleanup may be left.)                                        *)
RunningPodsAreCleared ==
  main = "gone" =>
    \A p \in Pods, k \in 1..N :
      <<p, k>> \in running => Settled(p, k)

(* Of what ran when the signal came nothing is left but what Docker would  *)
(* not remove or the wait of a task gave up ("Handle graceful shutdown     *)
(* with task cleanup").                                                    *)
ShutdownCleansUp ==
  main = "gone" =>
    \A w \in Work \ abandoned, k \in 1..N :
      <<w, k>> \in running => Settled(w, k)

(* A worker that has the signal ends, whatever its executors do.           *)
ShutdownEnds == main = "draining" ~> main = "gone"

-----------------------------------------------------------------------------
(* The strengthening that makes the two invariants inductive. *)

AfterClearing == {"leaving", "closing", "exiting", "gone"}

(* The containers are made in their order, and an execution does not end   *)
(* before it has disposed of them.                                         *)
InOrder(w) ==
  /\ at[w] \in Parts(w)
  /\ \A k \in 1..N :
       /\ \/ executor[w] \in {"none", "accepted", "preparing"} /\ k >= at[w]
          \/ executor[w] \in {"recording", "starting"} /\ k > at[w]
          \/ k \notin Parts(w)
          => container[w][k] = "none"
       /\ executor[w] = "recording" /\ k = at[w] => container[w][k] = "created"
  /\ executor[w] \in {"none", "accepted"} => at[w] = 1
  /\ executor[w] \in {"ending", "over"} => w \in abandoned \/ Disposed(w)

(* What ran at the signal is past its start for good, and its execution is *)
(* one that Shutdown waits for or that has ended.                          *)
Past(w, k) ==
  /\ container[w][k] \in {"running", "exited", "removed"}
  /\ w \in busy \/ executor[w] = "over"

(* Where main is says what it has seen of the maps. *)
MainFollows ==
  /\ main = "serving" => busy = {} /\ running = {} /\ poller = "none"
  /\ main \in {"serving", "draining"} => ~forced /\ toClear = {}
  /\ main = "clearing" => forced
  /\ main \in AfterClearing => toClear = {} /\ (forced \/ poller = "done")
  /\ \A w \in busy : executor[w] \notin {"none", "accepted"}
  /\ poller = "done" => \A w \in busy : executor[w] = "over"

(* What the forced cleanup has been through.                               *)
TurnsTaken ==
  forced =>
    \A p \in Pods, k \in 1..N :
      <<p, k>> \in running /\ <<p, k>> \notin toClear => Settled(p, k)

ShutdownInv ==
  /\ ShutdownTypeOK
  /\ \A w \in Work : InOrder(w)
  /\ \A w \in Work, k \in 1..N : <<w, k>> \in running => Past(w, k)
  /\ MainFollows
  /\ TurnsTaken
=============================================================================
