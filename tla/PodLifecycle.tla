---------------------------- MODULE PodLifecycle ----------------------------
(***************************************************************************)
(* One pod from its creation to its end: the master's create, trigger,     *)
(* status and delete handlers, the worker's executor (pod_executor.go)     *)
(* with its Docker network and containers, liveness callbacks, and the     *)
(* cleanup a delete asks the worker for while the executor is at work.     *)
(* Pods share no state but the tables they are stored in, so one pod       *)
(* stands for all.                                                         *)
(*                                                                         *)
(* Docker is external: every call to it may fail, for a reason of its own  *)
(* or because the caller's context has ended. A failed stop or removal is  *)
(* logged and the caller goes on; refused and spared are history variables *)
(* that remember it. Stopping a container needs no step of its own: a      *)
(* container may end at any time, and then the stop was the reason or not. *)
(* Which IP the pod gets is left out: an update either says "running" or   *)
(* it does not.                                                            *)
(***************************************************************************)
EXTENDS Naturals

CONSTANTS N,         \* containers of the pod, created in the order 1..N
          Deleters   \* delete requests and prunes that may name the pod

ASSUME ContainersAssumption == N \in Nat \ {0}

Containers == 1..N
Network    == 0
Resources  == 0..N

VARIABLES
  reliable,   \* calls between master and worker are not late or lost
  probed,     \* containers have liveness probes
  status,     \* master store: Pod.Status, or "absent" / "deleted"
  request,    \* where the create request and its trigger goroutine stand
  updates,    \* status updates on their way to the master
  del,        \* where each delete request stands in the master
  exec,       \* where the worker's ExecutePod goroutine stands
  i,          \* the container createPodContainers is at
  tracked,    \* is the pod in the agent's runningPods?
  cancelled,  \* has the pod's context ended?
  known,      \* resources recorded in PodExecution
  verdict,    \* the outcome the executor will report
  waited,     \* what WaitContainer returned for each container
  alarmed,    \* has a liveness callback run?
  cleanup,    \* where the worker's handler of each delete stands
  snapshot,   \* resources that handler has still to remove
  resource,   \* Docker: the network and the containers
  exit,       \* Docker: how each container ended
  refused,    \* history: what is left that the executor tried to remove
  spared      \* history: containers left that a delete's handler tried to remove

masterVars  == <<status, request, del>>
cleanVars   == <<cleanup, snapshot>>
pastVars    == <<exit, refused, spared>>
dockerVars  == <<resource, pastVars>>
resultVars  == <<verdict, waited, alarmed>>
rigidVars   == <<reliable, probed>>

sysVars == <<masterVars, updates, exec, i, tracked, cancelled, known,
             resultVars, cleanVars, dockerVars>>
vars    == <<rigidVars, sysVars>>

Final  == {"succeeded", "failed"}
Stored == {"pending", "scheduled", "running"} \cup Final
Ended  == {"done", "lost"}

Update == [status : {"scheduled", "running"} \cup Final,
           by     : {"executor", "probe"},
           caller : {"waits", "gone"}]

TypeOK ==
  /\ {reliable, probed, tracked, cancelled, alarmed} \subseteq BOOLEAN
  /\ status   \in Stored \cup {"absent", "deleted"}
  /\ request  \in {"idle", "schedule", "trigger", "calling", "over"}
  /\ updates  \in SUBSET Update
  /\ del      \in [Deleters -> {"idle", "asking", "removing", "over"}]
  /\ exec     \in {"idle", "accepted", "network", "recordNetwork", "pulling",
                   "creating", "recording", "starting", "startSent",
                   "addressing", "waiting", "clearing", "reporting", "finishing"} \cup Ended
  /\ i        \in Containers
  /\ known    \in SUBSET Resources
  /\ verdict  \in {"none"} \cup Final
  /\ waited   \in [Containers -> {"no", "zero", "error"}]
  /\ cleanup  \in [Deleters -> {"idle", "sent", "stopped", "removing", "over"}]
  /\ snapshot \in [Deleters -> SUBSET Resources]
  /\ resource \in [Resources -> {"none", "lost", "created", "running", "exited", "gone"}]
  /\ exit     \in [Containers -> {"none", "zero", "nonzero"}]
  /\ refused  \in SUBSET Resources
  /\ spared   \in SUBSET Containers

Init ==
  /\ reliable  \in BOOLEAN
  /\ probed    \in BOOLEAN
  /\ status    = "absent"
  /\ request   = "idle"
  /\ updates   = {}
  /\ del       = [d \in Deleters |-> "idle"]
  /\ exec      = "idle"
  /\ i         = 1
  /\ tracked   = FALSE
  /\ cancelled = FALSE
  /\ known     = {}
  /\ verdict   = "none"
  /\ waited    = [c \in Containers |-> "no"]
  /\ alarmed   = FALSE
  /\ cleanup   = [d \in Deleters |-> "idle"]
  /\ snapshot  = [d \in Deleters |-> {}]
  /\ resource  = [r \in Resources |-> "none"]
  /\ exit      = [c \in Containers |-> "none"]
  /\ refused   = {}
  /\ spared    = {}

-----------------------------------------------------------------------------
(* Creation and the call to the worker.                                    *)

CreatePod ==
  /\ status = "absent"
  /\ status'  = "pending"
  /\ request' = "schedule"
  /\ UNCHANGED <<updates, del, exec, i, tracked, cancelled, known, resultVars,
                 cleanVars, dockerVars>>

(* No node fits, or the pod is gone: the request ends with an error.       *)
SchedulePodFails ==
  /\ request = "schedule"
  /\ request' = "over"
  /\ UNCHANGED <<status, updates, del, exec, i, tracked, cancelled, known,
                 resultVars, cleanVars, dockerVars>>

SchedulePod ==
  /\ request = "schedule"
  /\ status \in Stored
  /\ status'  = "scheduled"
  /\ request' = "trigger"
  /\ UNCHANGED <<updates, del, exec, i, tracked, cancelled, known, resultVars,
                 cleanVars, dockerVars>>

(* The goroutine reads the pod and sends what it read.                     *)
TriggerPodExecution ==
  /\ request = "trigger"
  /\ request' = IF status \in Stored THEN "calling" ELSE "over"
  /\ UNCHANGED <<status, updates, del, exec, i, tracked, cancelled, known,
                 resultVars, cleanVars, dockerVars>>

ExecuteCallLost ==
  /\ ~reliable \/ exec = "lost"
  /\ request = "calling"
  /\ request' = "over"
  /\ UNCHANGED <<status, updates, del, exec, i, tracked, cancelled, known,
                 resultVars, cleanVars, dockerVars>>

(* The worker's handler answers 202 and leaves the rest to a goroutine.    *)
AcceptPod ==
  /\ request = "calling"
  /\ exec = "idle"
  /\ request' = "over"
  /\ exec'    = "accepted"
  /\ UNCHANGED <<status, updates, del, i, tracked, cancelled, known, resultVars,
                 cleanVars, dockerVars>>

-----------------------------------------------------------------------------
(* Status updates. The sender waits until its update is handled or ten     *)
(* seconds have passed; an update it no longer waits for may come late.    *)

NewUpdate(s, by) == [status |-> s, by |-> by, caller |-> "waits"]
Gone(u)          == [u EXCEPT !.caller = "gone"]

(* Mutant: a report is sent off and nobody waits for the answer. *)
FreeAtOnce == TRUE

Free == \A u \in updates : u.by = "executor" => u.caller = "gone"

UpdatePodStatus(u) ==
  /\ u \in updates
  /\ updates' = updates \ {u}
  /\ status'  = IF status \in Stored THEN u.status ELSE status
  /\ UNCHANGED <<request, del, exec, i, tracked, cancelled, known, resultVars,
                 cleanVars, dockerVars>>

UpdateTimesOut(u) ==
  /\ ~reliable
  /\ u \in updates /\ u.caller = "waits"
  /\ updates' = (updates \ {u}) \cup {Gone(u)}
  /\ UNCHANGED <<masterVars, exec, i, tracked, cancelled, known, resultVars,
                 cleanVars, dockerVars>>

UpdateLost(u) ==
  /\ u \in updates /\ u.caller = "gone"
  /\ updates' = updates \ {u}
  /\ UNCHANGED <<masterVars, exec, i, tracked, cancelled, known, resultVars,
                 cleanVars, dockerVars>>

-----------------------------------------------------------------------------
(* The executor.                                                           *)

BeginPod ==
  /\ exec = "accepted"
  /\ tracked' = TRUE
  /\ updates' = updates \cup {NewUpdate("running", "executor")}
  /\ exec'    = "network"
  /\ UNCHANGED <<masterVars, i, cancelled, known, resultVars, cleanVars, dockerVars>>

(* A creation fails; Docker may have made the resource all the same, but   *)
(* nobody knows its ID.                                                    *)
NotCreated(r) == \E left \in {"none", "lost"} : resource' = [resource EXCEPT ![r] = left]

SetupPodNetwork ==
  /\ exec = "network" /\ Free
  /\ ~cancelled
  /\ resource' = [resource EXCEPT ![Network] = "created"]
  /\ exec'     = "recordNetwork"
  /\ UNCHANGED <<masterVars, updates, i, tracked, cancelled, known, resultVars,
                 cleanVars, pastVars>>

(* Nothing is cleaned up: nothing is known to exist.                       *)
SetupPodNetworkFails ==
  /\ exec = "network" /\ Free
  /\ NotCreated(Network)
  /\ verdict' = "failed"
  /\ exec'    = "reporting"
  /\ UNCHANGED <<masterVars, updates, i, tracked, cancelled, known, waited, alarmed,
                 cleanVars, pastVars>>

RecordNetwork ==
  /\ exec = "recordNetwork"
  /\ known' = known \cup {Network}
  /\ exec'  = "pulling"
  /\ UNCHANGED <<masterVars, updates, i, tracked, cancelled, resultVars, cleanVars,
                 dockerVars>>

(* Mutant: the error is reported and nothing is cleaned up. *)
FailUncleared ==
  /\ verdict' = "failed"
  /\ exec'    = "reporting"

Fail ==
  /\ verdict' = "failed"
  /\ exec'    = "clearing"

PullImages ==
  /\ exec = "pulling"
  /\ ~cancelled
  /\ exec' = "creating"
  /\ UNCHANGED <<masterVars, updates, i, tracked, cancelled, known, resultVars,
                 cleanVars, dockerVars>>

PullImagesFails ==
  /\ exec = "pulling"
  /\ Fail
  /\ UNCHANGED <<masterVars, updates, i, tracked, cancelled, known, waited, alarmed,
                 cleanVars, dockerVars>>

CreateContainer ==
  /\ exec = "creating"
  /\ ~cancelled
  /\ resource' = [resource EXCEPT ![i] = "created"]
  /\ exec'     = "recording"
  /\ UNCHANGED <<masterVars, updates, i, tracked, cancelled, known, resultVars,
                 cleanVars, pastVars>>

CreateContainerFails ==
  /\ exec = "creating"
  /\ NotCreated(i)
  /\ Fail
  /\ UNCHANGED <<masterVars, updates, i, tracked, cancelled, known, waited, alarmed,
                 cleanVars, pastVars>>

(* Mutant: the ID is not recorded before the start is tried. *)
RecordNothing ==
  /\ exec = "recording"
  /\ exec' = "starting"
  /\ UNCHANGED <<masterVars, updates, i, tracked, cancelled, known, resultVars,
                 cleanVars, dockerVars>>

RecordContainer ==
  /\ exec = "recording"
  /\ known' = known \cup {i}
  /\ exec'  = "starting"
  /\ UNCHANGED <<masterVars, updates, i, tracked, cancelled, resultVars, cleanVars,
                 dockerVars>>

SendStart ==
  /\ exec = "starting"
  /\ ~cancelled
  /\ exec' = "startSent"
  /\ UNCHANGED <<masterVars, updates, i, tracked, cancelled, known, resultVars,
                 cleanVars, dockerVars>>

StartContainer ==
  /\ exec = "startSent"
  /\ ~cancelled /\ resource[i] = "created"
  /\ resource' = [resource EXCEPT ![i] = "running"]
  /\ IF i < N THEN exec' = "creating" /\ i' = i + 1
              ELSE exec' = "addressing" /\ UNCHANGED i
  /\ UNCHANGED <<masterVars, updates, tracked, cancelled, known, resultVars, cleanVars,
                 pastVars>>

(* A call is not made when its context has ended; when it ends while the   *)
(* call is under way, the call may still take effect.                      *)
StartContainerFails ==
  /\ exec \in {"starting", "startSent"}
  /\ Fail
  /\ \/ UNCHANGED resource
     \/ /\ exec = "startSent" /\ cancelled /\ resource[i] = "created"
        /\ resource' = [resource EXCEPT ![i] = "running"]
  /\ UNCHANGED <<masterVars, updates, i, tracked, cancelled, known, waited, alarmed,
                 cleanVars, pastVars>>

(* Health checks are on from here; the IP, if there is one, goes with the  *)
(* second "running".                                                       *)
UpdatePodIP ==
  /\ exec = "addressing"
  /\ updates' = updates \cup {NewUpdate("running", "executor")}
  /\ exec'    = "waiting"
  /\ UNCHANGED <<masterVars, i, tracked, cancelled, known, resultVars, cleanVars,
                 dockerVars>>

(* Mutants: an ended context is no error; the wait does not end with it. *)
WaitContainerKeepsQuiet(c) ==
  /\ exec = "waiting" /\ Free
  /\ waited[c] = "no"
  /\ \/ /\ resource[c] = "exited"
        /\ waited' = [waited EXCEPT ![c] = IF exit[c] = "zero" THEN "zero" ELSE "error"]
     \/ cancelled /\ waited' = [waited EXCEPT ![c] = "zero"]
  /\ UNCHANGED <<masterVars, updates, exec, i, tracked, cancelled, known, verdict,
                 alarmed, cleanVars, dockerVars>>

WaitContainerForEver(c) ==
  /\ exec = "waiting" /\ Free
  /\ waited[c] = "no"
  /\ resource[c] = "exited"
  /\ waited' = [waited EXCEPT ![c] = IF exit[c] = "zero" THEN "zero" ELSE "error"]
  /\ UNCHANGED <<masterVars, updates, exec, i, tracked, cancelled, known, verdict,
                 alarmed, cleanVars, dockerVars>>

(* A non-zero exit code counts as an error.                                *)
WaitContainer(c) ==
  /\ exec = "waiting" /\ Free
  /\ waited[c] = "no"
  /\ \/ /\ resource[c] = "exited"
        /\ waited' = [waited EXCEPT ![c] = IF exit[c] = "zero" THEN "zero" ELSE "error"]
     \/ cancelled /\ waited' = [waited EXCEPT ![c] = "error"]
  /\ UNCHANGED <<masterVars, updates, exec, i, tracked, cancelled, known, verdict,
                 alarmed, cleanVars, dockerVars>>

(* Docker reports an error although the container may be running.          *)
WaitContainerFails(c) ==
  /\ exec = "waiting" /\ Free
  /\ waited[c] = "no"
  /\ waited' = [waited EXCEPT ![c] = "error"]
  /\ UNCHANGED <<masterVars, updates, exec, i, tracked, cancelled, known, verdict,
                 alarmed, cleanVars, dockerVars>>

(* All waits have returned; the health checkers are stopped.               *)
EndWaits ==
  /\ exec = "waiting"
  /\ \A c \in Containers : waited[c] /= "no"
  /\ verdict' = IF \A c \in Containers : waited[c] = "zero" THEN "succeeded" ELSE "failed"
  /\ exec'    = "clearing"
  /\ UNCHANGED <<masterVars, updates, i, tracked, cancelled, known, waited, alarmed,
                 cleanVars, dockerVars>>

(* cleanupPodResources of the executor, which nothing interrupts.          *)
(* A removal that works settles the failed ones before it.                 *)
Removed(r) ==
  /\ resource' = [resource EXCEPT ![r] = "gone"]
  /\ refused'  = refused \ {r}
  /\ spared'   = spared \ {r}

ClearContainer(c) ==
  /\ exec = "clearing"
  /\ c \in known /\ resource[c] /= "gone" /\ c \notin refused
  /\ \/ Removed(c)
     \/ refused' = refused \cup {c} /\ UNCHANGED <<resource, spared>>
  /\ UNCHANGED <<masterVars, updates, exec, i, tracked, cancelled, known, resultVars,
                 cleanVars, exit>>

(* Docker never removes a network with a running container in it.          *)
NetworkRemoved ==
  /\ \A c \in Containers : resource[c] /= "running"
  /\ Removed(Network)

ClearNetwork ==
  /\ exec = "clearing"
  /\ \A c \in known \ {Network} : resource[c] = "gone" \/ c \in refused
  /\ IF Network \in known /\ resource[Network] /= "gone"
     THEN \/ NetworkRemoved
          \/ refused' = refused \cup {Network} /\ UNCHANGED <<resource, spared>>
     ELSE UNCHANGED <<resource, refused, spared>>
  /\ exec' = "reporting"
  /\ UNCHANGED <<masterVars, updates, i, tracked, cancelled, known, resultVars,
                 cleanVars, exit>>

FinalizePodStatus ==
  /\ exec = "reporting"
  /\ updates' = updates \cup {NewUpdate(verdict, "executor")}
  /\ exec'    = "finishing"
  /\ UNCHANGED <<masterVars, i, tracked, cancelled, known, resultVars, cleanVars,
                 dockerVars>>

EndPod ==
  /\ exec = "finishing" /\ Free
  /\ tracked'   = FALSE
  /\ cancelled' = TRUE
  /\ exec'      = "done"
  /\ UNCHANGED <<masterVars, updates, i, known, resultVars, cleanVars, dockerVars>>

(* The 30 minutes the handler gave the pod are over.                       *)
ContextExpires ==
  /\ exec \notin {"idle"} \cup Ended
  /\ ~cancelled
  /\ cancelled' = TRUE
  /\ UNCHANGED <<masterVars, updates, exec, i, tracked, known, resultVars, cleanVars,
                 dockerVars>>

(* onUnhealthy, in a goroutine of its own, posts the status of the copy    *)
(* the master sent, and nothing ever changes that. Also an answer after    *)
(* the checkers were stopped counts. Bound: once per pod.                  *)
OnUnhealthy ==
  /\ probed /\ ~alarmed
  /\ exec /= "lost"
  /\ exec \in {"addressing", "waiting"} \/ \A c \in Containers : waited[c] /= "no"
  /\ alarmed' = TRUE
  /\ updates' = updates \cup {NewUpdate("scheduled", "probe")}
  /\ UNCHANGED <<masterVars, exec, i, tracked, cancelled, known, verdict, waited,
                 cleanVars, dockerVars>>

-----------------------------------------------------------------------------
(* DELETE /api/v1/pods/:id, and the prunes, which do the same to each pod  *)
(* they listed. The worker is asked if the copy of the pod names a node    *)
(* and is not over.                                                        *)

DeletePod(d) ==
  /\ del[d] = "idle"
  /\ status \in Stored
  /\ LET asks == status \in {"scheduled", "running"}
     IN /\ del'     = [del EXCEPT ![d] = IF asks THEN "asking" ELSE "removing"]
        /\ cleanup' = [cleanup EXCEPT ![d] = IF asks THEN "sent" ELSE "over"]
  /\ UNCHANGED <<status, request, updates, exec, i, tracked, cancelled, known,
                 resultVars, snapshot, dockerVars>>

(* The node is not stored any more, the call fails, or 30 seconds pass;    *)
(* a warning is logged.                                                    *)
NotifyWorkerFails(d) ==
  /\ del[d] = "asking"
  /\ del' = [del EXCEPT ![d] = "removing"]
  /\ UNCHANGED <<status, request, updates, exec, i, tracked, cancelled, known,
                 resultVars, cleanVars, dockerVars>>

DeleteFromStore(d) ==
  /\ del[d] = "removing"
  /\ del'    = [del EXCEPT ![d] = "over"]
  /\ status' = IF status \in Stored THEN "deleted" ELSE status
  /\ UNCHANGED <<request, updates, exec, i, tracked, cancelled, known, resultVars,
                 cleanVars, dockerVars>>

(* The worker's handler answers, if the master still waits.                *)
Answers(d) ==
  /\ cleanup' = [cleanup EXCEPT ![d] = "over"]
  /\ del'     = [del EXCEPT ![d] = IF @ = "asking" THEN "removing" ELSE @]

CleanupCallLost(d) ==
  /\ cleanup[d] = "sent" /\ del[d] /= "asking"
  /\ cleanup' = [cleanup EXCEPT ![d] = "over"]
  /\ UNCHANGED <<masterVars, updates, exec, i, tracked, cancelled, known, resultVars,
                 snapshot, dockerVars>>

CleanupPodUnknown(d) ==
  /\ cleanup[d] = "sent"
  /\ ~tracked
  /\ Answers(d)
  /\ UNCHANGED <<status, request, updates, exec, i, tracked, cancelled, known,
                 resultVars, snapshot, dockerVars>>

(* Mutant: the pod's context is left alone. *)
CleanupPodKeepsContext(d) ==
  /\ cleanup[d] = "sent"
  /\ tracked
  /\ cleanup' = [cleanup EXCEPT ![d] = "stopped"]
  /\ UNCHANGED <<masterVars, updates, exec, i, tracked, cancelled, known, resultVars,
                 snapshot, dockerVars>>

(* Nothing can come between the look-up and the cancellation that would    *)
(* not do as well before the look-up.                                      *)
CleanupPod(d) ==
  /\ cleanup[d] = "sent"
  /\ tracked
  /\ cancelled' = TRUE
  /\ cleanup'   = [cleanup EXCEPT ![d] = "stopped"]
  /\ UNCHANGED <<masterVars, updates, exec, i, tracked, known, resultVars,
                 snapshot, dockerVars>>

TakeSnapshot(d) ==
  /\ cleanup[d] = "stopped"
  /\ snapshot' = [snapshot EXCEPT ![d] = known]
  /\ cleanup'  = [cleanup EXCEPT ![d] = "removing"]
  /\ UNCHANGED <<masterVars, updates, exec, i, tracked, cancelled, known, resultVars,
                 dockerVars>>

(* A failed removal is logged and the handler goes on. When its 30 seconds *)
(* are over, or the master has hung up, all that are left fail.            *)
RemoveContainer(d, c) ==
  /\ cleanup[d] = "removing"
  /\ c \in snapshot[d]
  /\ snapshot' = [snapshot EXCEPT ![d] = @ \ {c}]
  /\ \/ Removed(c)
     \/ spared' = spared \cup {c} /\ UNCHANGED <<resource, refused>>
  /\ UNCHANGED <<masterVars, updates, exec, i, tracked, cancelled, known, resultVars,
                 cleanup, exit>>

RemoveNetwork(d) ==
  /\ cleanup[d] = "removing"
  /\ snapshot[d] = {Network}
  /\ snapshot' = [snapshot EXCEPT ![d] = {}]
  /\ NetworkRemoved \/ UNCHANGED <<resource, refused, spared>>
  /\ UNCHANGED <<masterVars, updates, exec, i, tracked, cancelled, known, resultVars,
                 cleanup, exit>>

UntrackPod(d) ==
  /\ cleanup[d] = "removing"
  /\ snapshot[d] = {}
  /\ tracked' = FALSE
  /\ Answers(d)
  /\ UNCHANGED <<status, request, updates, exec, i, cancelled, known, resultVars,
                 snapshot, dockerVars>>

-----------------------------------------------------------------------------
(* Docker, and the end of the worker process.                              *)

(* By itself, or because somebody had it stopped: with either code.        *)
ContainerExits(c) ==
  /\ resource[c] = "running"
  /\ resource' = [resource EXCEPT ![c] = "exited"]
  /\ \E code \in {"zero", "nonzero"} : exit' = [exit EXCEPT ![c] = code]
  /\ UNCHANGED <<masterVars, updates, exec, i, tracked, cancelled, known, resultVars,
                 cleanVars, refused, spared>>

WorkerEnds ==
  /\ exec \notin Ended
  /\ exec'     = "lost"
  /\ tracked'  = FALSE
  /\ updates'  = {Gone(u) : u \in updates}
  /\ snapshot' = [d \in Deleters |-> {}]
  /\ cleanup'  = [d \in Deleters |-> IF cleanup[d] = "idle" THEN "idle" ELSE "over"]
  /\ del'      = [d \in Deleters |-> IF del[d] = "asking" THEN "removing" ELSE del[d]]
  /\ UNCHANGED <<status, request, i, cancelled, known, resultVars, dockerVars>>

-----------------------------------------------------------------------------
Request == CreatePod \/ SchedulePodFails \/ SchedulePod \/ TriggerPodExecution
           \/ ExecuteCallLost \/ AcceptPod

Execute ==
  \/ BeginPod
  \/ SetupPodNetwork \/ SetupPodNetworkFails \/ RecordNetwork
  \/ PullImages \/ PullImagesFails
  \/ CreateContainer \/ CreateContainerFails \/ RecordContainer
  \/ SendStart \/ StartContainer \/ StartContainerFails
  \/ UpdatePodIP
  \/ \E c \in Containers : WaitContainer(c)
  \/ EndWaits
  \/ \E c \in Containers : ClearContainer(c)
  \/ ClearNetwork
  \/ FinalizePodStatus \/ EndPod

Report(u) == UpdatePodStatus(u) \/ UpdateTimesOut(u) \/ UpdateLost(u)

Delete(d) ==
  \/ DeletePod(d) \/ NotifyWorkerFails(d) \/ DeleteFromStore(d)
  \/ CleanupCallLost(d) \/ CleanupPodUnknown(d)
  \/ CleanupPod(d) \/ TakeSnapshot(d)
  \/ \E c \in Containers : RemoveContainer(d, c)
  \/ RemoveNetwork(d) \/ UntrackPod(d)

Step ==
  \/ Request
  \/ Execute \/ ContextExpires \/ OnUnhealthy
  \/ \E c \in Containers : WaitContainerFails(c) \/ ContainerExits(c)
  \/ \E u \in updates : Report(u)
  \/ \E d \in Deleters : Delete(d)
  \/ WorkerEnds

Next == Step /\ UNCHANGED rigidVars

Spec == Init /\ [][Next]_vars

(* Goroutines are scheduled, Docker answers, an update is handled or times *)
(* out, and the pod's 30 minutes pass. No fairness for requests, for       *)
(* containers that end by themselves, or for Docker errors.                *)
Fairness ==
  /\ WF_sysVars(Execute)
  /\ WF_sysVars(ContextExpires)
  /\ WF_sysVars(\E u \in updates : Report(u))

FairSpec == Spec /\ Fairness

-----------------------------------------------------------------------------
Cleared == \A r \in Resources : resource[r] \in {"none", "lost", "gone"} \/ r \in refused

(* "succeeded: All containers exited with code 0": whatever is deleted,    *)
(* cancelled, refused or late, the master never shows a pod as succeeded   *)
(* whose containers did not all end with code 0. (A container that was     *)
(* stopped may have ended with 0, too.)                                    *)
SucceededMeansAllExitedZero ==
  status = "succeeded" => \A c \in Containers : exit[c] = "zero"

(* When the executor has ended, and when the master shows the pod as over, *)
(* nothing of it is left in Docker but what Docker never told it about or  *)
(* would not remove when the executor asked: the executor asks for all of  *)
(* it, also when a cleanup interferes at any point.                        *)
FinishedPodIsCleared ==
  exec = "done" \/ status \in Final => Cleared

(* Shutdown of a worker and later deletes look only at runningPods. A pod  *)
(* that is no longer there has no running container but those that Docker  *)
(* would not remove for the handler that took it out, or, once the         *)
(* executor has ended, for the executor.                                   *)
UntrackedPodIsStopped ==
  ~tracked /\ exec \notin {"idle", "accepted", "lost"} =>
    \A c \in Containers :
      resource[c] = "running" => c \in spared \/ (exec = "done" /\ c \in refused)

(* Every pod a worker accepts is over at some time, however long its       *)
(* containers would run and whatever is cancelled or times out.            *)
ExecutionEnds == exec = "accepted" ~> exec \in Ended

(* With no call late or lost the status moves on only, "pending ->         *)
(* scheduled -> running -> succeeded/failed": whatever the executor and    *)
(* the requests do, nothing but the update of a liveness callback, which   *)
(* says "scheduled" from anywhere, takes it back.                          *)
Rank == [absent |-> 0, pending |-> 1, scheduled |-> 2, running |-> 3,
         succeeded |-> 4, failed |-> 4, deleted |-> 5]

CallbackReported == \E u \in updates \ updates' : u.by = "probe"

PodFollowsFlow == [][reliable => Rank[status] <= Rank[status'] \/ CallbackReported]_vars

-----------------------------------------------------------------------------
(* The strengthening that makes the invariants above inductive. *)

Early  == {"idle", "accepted", "network", "recordNetwork", "pulling"}
InLoop == {"creating", "recording", "starting", "startSent"}

Exists(r) == resource[r] \in {"created", "running", "exited"}

(* What exists is recorded, or is about to be by the executor.             *)
KnownResources ==
  /\ \A r \in Resources :
       Exists(r) => \/ r \in known
                    \/ exec = "recordNetwork" /\ r = Network
                    \/ exec = "recording" /\ r = i
                    \/ exec = "lost"
  /\ \A c \in Containers : resource[c] \in {"running", "exited"} => c \in known
  /\ \A d \in Deleters : snapshot[d] \subseteq known

(* The loop is at container i, and those after it are untouched.           *)
LoopOrder ==
  /\ exec \in {"idle", "accepted", "network"} => known = {} /\ resource[Network] = "none"
  /\ exec \in Early => i = 1
  /\ exec \in Early \cup InLoop =>
       \A c \in Containers :
         /\ c > i => c \notin known /\ resource[c] = "none"
         /\ c = i /\ exec \notin {"starting", "startSent"} => c \notin known
         /\ c = i /\ exec \in Early \cup {"creating"} => resource[c] = "none"

(* The verdict stands when the waits are over, and it is true.             *)
VerdictIsTrue ==
  /\ exec \in Early \cup InLoop \cup {"addressing"} => \A c \in Containers : waited[c] = "no"
  /\ exec \in Early \cup InLoop \cup {"addressing", "waiting"} => verdict = "none"
  /\ exec \in {"clearing", "reporting", "finishing", "done"} => verdict \in Final
  /\ exec \in {"reporting", "finishing", "done"} => Cleared
  /\ verdict = "succeeded" => \A c \in Containers : waited[c] = "zero"
  /\ \A c \in Containers :
       waited[c] = "zero" => exit[c] = "zero" /\ resource[c] \in {"exited", "gone"}

(* So is what is on its way to the master and what the master stores.      *)
ReportsAreTrue ==
  /\ \A u \in updates : u.status \in Final => u.status = verdict /\ Cleared
  /\ status \in Final => status = verdict /\ Cleared

(* A handler that has cancelled the pod misses no container that runs, or  *)
(* that a start already sent will make run.                                *)
MayRun(c) == resource[c] = "running" \/ (exec = "startSent" /\ c = i /\ resource[c] = "created")

CleanupSeesAll ==
  \A d \in Deleters :
    /\ cleanup[d] \in {"stopped", "removing"} => cancelled
    /\ cleanup[d] = "removing" =>
         \A c \in Containers : MayRun(c) => c \in snapshot[d] \cup spared

UntrackedPodStaysStopped ==
  ~tracked /\ exec \notin {"idle", "accepted", "lost"} =>
    /\ cancelled
    /\ \A c \in Containers : MayRun(c) => c \in spared \/ (exec = "done" /\ c \in refused)

Inv ==
  /\ TypeOK
  /\ KnownResources
  /\ LoopOrder
  /\ VerdictIsTrue
  /\ ReportsAreTrue
  /\ CleanupSeesAll
  /\ UntrackedPodStaysStopped

(* Without late calls the executor waits for each update it sends, and     *)
(* starts only when the create request is through: there is one update of  *)
(* its own at most, and it brings nothing older than what is stored.       *)
Own == {u \in updates : u.by = "executor"}

RequestComesFirst ==
  /\ request = "idle" <=> status = "absent"
  /\ request = "schedule" => status \in {"pending", "deleted"}
  /\ request /= "over" => exec \in {"idle", "lost"} /\ updates = {}

OneUpdateAtATime ==
  /\ \A u \in updates : u.by = "probe" => u.status = "scheduled"
  /\ \A u, v \in Own : u = v
  /\ \A u \in Own :
       /\ exec \in {"network", "waiting", "finishing", "lost"}
       /\ exec /= "lost" => u.caller = "waits"
       /\ exec = "waiting" => \A c \in Containers : waited[c] = "no"
       /\ u.status = "running" \/ u.status \in Final
       /\ status \in Final => u.status \in Final

UpdatesInOrder == reliable => RequestComesFirst /\ OneUpdateAtATime
=============================================================================
