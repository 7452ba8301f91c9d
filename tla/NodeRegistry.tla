---------------------------- MODULE NodeRegistry ----------------------------
(***************************************************************************)
(* The master's table of nodes and what keeps it true: registration,       *)
(* heartbeats, deregistration, the expiration checker and prunes on the    *)
(* master; the heartbeat goroutine and the shutdown of each worker process *)
(* on the other side. A worker process registers once, so a node and its   *)
(* process are one element of Workers; the next process is another one.    *)
(*                                                                         *)
(* Time is discrete. A request is on its way from the moment the worker    *)
(* sends it to the moment the master's handler runs; the worker may have   *)
(* given up, or ended, in between.                                         *)
(***************************************************************************)
EXTENDS Naturals, FiniteSets

CONSTANTS Workers,            \* worker processes, and the nodes they register
          HeartbeatInterval,  \* -heartbeat-interval, in ticks
          HeartbeatTimeout,   \* the 90 seconds after which a node is stale
          CheckInterval,      \* the checker's 30 seconds
          MaxRetries,         \* attempts of sendHeartbeatWithRetry
          Persistent,         \* TRUE: PostgresStore, FALSE: InMemoryStore
          Restarts            \* TRUE: the master may restart

ASSUME ConstantsAssumption ==
  /\ HeartbeatInterval \in Nat \ {0}
  /\ HeartbeatTimeout  \in Nat \ {0}
  /\ CheckInterval     \in Nat \ {0}
  /\ MaxRetries        \in Nat \ {0}
  /\ HeartbeatInterval <= HeartbeatTimeout
  /\ {Persistent, Restarts} \subseteq BOOLEAN

VARIABLES
  reliable,    \* workers whose calls are never late, lost or given up: a
               \* choice of the environment, made once
  node,        \* master store: Node.Status, or "absent" / "deleted"
  age,         \* ticks since Node.LastHeartbeat while it is online, else 0
  checkTimer,  \* ticks since the checker's ticker fired
  checkDue,    \* has it fired and the check not begun?
  stale,       \* nodes the check found stale and has not updated yet
  pruneList,   \* nodes a prune has listed and not yet deleted
  pruneAll,    \* was that prune asked for all?
  calls,       \* requests on their way to the master
  main,        \* where the worker's main goroutine stands
  beat,        \* where its heartbeat goroutine stands
  tries,       \* attempts made for the current heartbeat, 0 if there is none
  beatTimer,   \* ticks since the heartbeat ticker fired
  beatDue      \* has it fired and the goroutine not looked?

storeVars  == <<node, age>>
checkVars  == <<checkTimer, checkDue, stale>>
pruneVars  == <<pruneList, pruneAll>>
tickVars   == <<beatTimer, beatDue>>
loopVars   == <<beat, tries>>

sysVars == <<storeVars, checkVars, pruneVars, calls, main, loopVars, tickVars>>
vars    == <<reliable, sysVars>>

Stored == {"online", "offline"}
Alive  == {"registering", "up", "draining", "leaving", "stopped"}

(* Bound: ages are not told apart beyond this. *)
AgeCap == HeartbeatTimeout + CheckInterval + 1

Call == [worker : Workers, kind : {"register", "heartbeat", "deregister"},
         caller : {"waits", "gone"}]

TypeOK ==
  /\ reliable   \in SUBSET Workers
  /\ node       \in [Workers -> {"absent", "deleted"} \cup Stored]
  /\ age        \in [Workers -> 0..AgeCap]
  /\ checkTimer \in 0..(CheckInterval - 1)
  /\ checkDue   \in BOOLEAN
  /\ stale      \in SUBSET Workers
  /\ pruneList  \in SUBSET Workers
  /\ pruneAll   \in BOOLEAN
  /\ calls      \in SUBSET Call
  /\ main       \in [Workers -> {"off", "down"} \cup Alive]
  /\ beat       \in [Workers -> {"idle", "sent", "backoff"}]
  /\ tries      \in [Workers -> 0..MaxRetries]
  /\ beatTimer  \in [Workers -> 0..(HeartbeatInterval - 1)]
  /\ beatDue    \in [Workers -> BOOLEAN]

Init ==
  /\ reliable   \in SUBSET Workers
  /\ node       = [w \in Workers |-> "absent"]
  /\ age        = [w \in Workers |-> 0]
  /\ checkTimer = 0
  /\ checkDue   = FALSE
  /\ stale      = {}
  /\ pruneList  = {}
  /\ pruneAll   = FALSE
  /\ calls      = {}
  /\ main       = [w \in Workers |-> "off"]
  /\ beat       = [w \in Workers |-> "idle"]
  /\ tries      = [w \in Workers |-> 0]
  /\ beatTimer  = [w \in Workers |-> 0]
  /\ beatDue    = [w \in Workers |-> FALSE]

-----------------------------------------------------------------------------
(* Requests. *)

Request(w, kind, caller) == [worker |-> w, kind |-> kind, caller |-> caller]

Sent(w, kind) == calls \cup {Request(w, kind, "waits")}

(* Nobody waits for the answers of these requests any more. *)
Abandoned(lost) == (calls \ lost) \cup {Request(c.worker, c.kind, "gone") : c \in lost}

(* An attempt of these workers has failed: each sleeps and tries again, or *)
(* gives up until its ticker fires.                                        *)
Fail(ws) ==
  LET again(w) == tries[w] < MaxRetries
  IN /\ beat'  = [w \in Workers |-> IF w \notin ws THEN beat[w]
                                    ELSE IF again(w) THEN "backoff" ELSE "idle"]
     /\ tries' = [w \in Workers |-> IF w \in ws /\ ~again(w) THEN 0 ELSE tries[w]]

(* The heartbeat of a worker was answered with 200. *)
Succeed(w) ==
  /\ beat'  = [beat EXCEPT ![w] = "idle"]
  /\ tries' = [tries EXCEPT ![w] = 0]

-----------------------------------------------------------------------------
(* The worker. *)

StartWorker(w) ==
  /\ main[w] = "off"
  /\ main'  = [main EXCEPT ![w] = "registering"]
  /\ calls' = Sent(w, "register")
  /\ UNCHANGED <<storeVars, checkVars, pruneVars, loopVars, tickVars>>

(* The ticker's channel holds one tick; stopping the ticker leaves it in.  *)
SendHeartbeat(w) ==
  /\ main[w] \in Alive
  /\ beat[w] = "idle"
  /\ beatDue[w]
  /\ beatDue' = [beatDue EXCEPT ![w] = FALSE]
  /\ beat'    = [beat EXCEPT ![w] = "sent"]
  /\ tries'   = [tries EXCEPT ![w] = 1]
  /\ calls'   = Sent(w, "heartbeat")
  /\ UNCHANGED <<storeVars, checkVars, pruneVars, main, beatTimer>>

(* The backoff of 1, 2, 4 or 8 seconds is over. *)
RetryHeartbeat(w) ==
  /\ main[w] \in Alive
  /\ beat[w] = "backoff"
  /\ beat'  = [beat EXCEPT ![w] = "sent"]
  /\ tries' = [tries EXCEPT ![w] = @ + 1]
  /\ calls' = Sent(w, "heartbeat")
  /\ UNCHANGED <<storeVars, checkVars, pruneVars, main, tickVars>>

(* The client's timeout fires, or the connection breaks before or after    *)
(* the master handled the request.                                         *)
HeartbeatTimesOut(w) ==
  /\ w \notin reliable
  /\ Request(w, "heartbeat", "waits") \in calls
  /\ calls' = Abandoned({Request(w, "heartbeat", "waits")})
  /\ Fail({w})
  /\ UNCHANGED <<storeVars, checkVars, pruneVars, main, tickVars>>

(* Shutdown stops the ticker, waits for tasks and pods, deregisters, and   *)
(* closes stopChan; main then shuts the HTTP server down and returns. The  *)
(* heartbeat goroutine runs on until it looks at stopChan or main returns. *)
BeginShutdown(w) ==
  /\ main[w] = "up"
  /\ main' = [main EXCEPT ![w] = "draining"]
  /\ UNCHANGED <<storeVars, checkVars, pruneVars, calls, loopVars, tickVars>>

Deregister(w) ==
  /\ main[w] = "draining"
  /\ main'  = [main EXCEPT ![w] = "leaving"]
  /\ calls' = Sent(w, "deregister")
  /\ UNCHANGED <<storeVars, checkVars, pruneVars, loopVars, tickVars>>

(* The process is gone, and with it all its goroutines.                    *)
Ends(w) ==
  /\ main'    = [main EXCEPT ![w] = "down"]
  /\ beat'    = [beat EXCEPT ![w] = "idle"]
  /\ tries'   = [tries EXCEPT ![w] = 0]
  /\ beatDue' = [beatDue EXCEPT ![w] = FALSE]
  /\ calls'   = Abandoned({c \in calls : c.worker = w})
  /\ UNCHANGED beatTimer

(* A failed registration is fatal, a failed deregistration is logged.      *)
RegisterTimesOut(w) ==
  /\ w \notin reliable
  /\ main[w] = "registering"
  /\ Ends(w)
  /\ UNCHANGED <<storeVars, checkVars, pruneVars>>

DeregisterTimesOut(w) ==
  /\ w \notin reliable
  /\ Request(w, "deregister", "waits") \in calls
  /\ calls' = Abandoned({Request(w, "deregister", "waits")})
  /\ main'  = [main EXCEPT ![w] = "stopped"]
  /\ UNCHANGED <<storeVars, checkVars, pruneVars, loopVars, tickVars>>

Exit(w) ==
  /\ main[w] = "stopped"
  /\ Ends(w)
  /\ UNCHANGED <<storeVars, checkVars, pruneVars>>

Crash(w) ==
  /\ main[w] \in Alive \ {"stopped"}
  /\ Ends(w)
  /\ UNCHANGED <<storeVars, checkVars, pruneVars>>

-----------------------------------------------------------------------------
(* The master's handlers. The answer to a request that is not late reaches *)
(* its goroutine in the same step: nothing can come between.               *)

RegisterNode(c) ==
  /\ c \in calls /\ c.kind = "register"
  /\ calls' = calls \ {c}
  /\ node'  = [node EXCEPT ![c.worker] = "online"]
  /\ age'   = [age EXCEPT ![c.worker] = 0]
  /\ main'  = IF c.caller = "gone" THEN main ELSE [main EXCEPT ![c.worker] = "up"]
  /\ UNCHANGED <<checkVars, pruneVars, loopVars, tickVars>>

Answer(c, known) ==
  IF c.caller = "gone" THEN UNCHANGED loopVars
            ELSE IF known THEN Succeed(c.worker) ELSE Fail({c.worker})

(* Mutants: LastHeartbeat is not refreshed; a node that expired stays      *)
(* offline; an unknown node is added.                                      *)
NodeHeartbeatKeepsTime(c) ==
  LET known == node[c.worker] \in Stored
  IN /\ c \in calls /\ c.kind = "heartbeat"
     /\ calls' = calls \ {c}
     /\ node'  = IF known THEN [node EXCEPT ![c.worker] = "online"] ELSE node
     /\ Answer(c, known)
     /\ UNCHANGED <<age, checkVars, pruneVars, main, tickVars>>

NodeHeartbeatKeepsStatus(c) ==
  LET known == node[c.worker] \in Stored
  IN /\ c \in calls /\ c.kind = "heartbeat"
     /\ calls' = calls \ {c}
     /\ age'   = IF known THEN [age EXCEPT ![c.worker] = 0] ELSE age
     /\ Answer(c, known)
     /\ UNCHANGED <<node, checkVars, pruneVars, main, tickVars>>

NodeHeartbeatUpserts(c) ==
  /\ c \in calls /\ c.kind = "heartbeat"
  /\ calls' = calls \ {c}
  /\ node'  = [node EXCEPT ![c.worker] = "online"]
  /\ age'   = [age EXCEPT ![c.worker] = 0]
  /\ Answer(c, TRUE)
  /\ UNCHANGED <<checkVars, pruneVars, main, tickVars>>

(* A node that is not stored is answered with 404, which the worker treats *)
(* as any other failure.                                                   *)
NodeHeartbeat(c) ==
  LET known == node[c.worker] \in Stored
  IN /\ c \in calls /\ c.kind = "heartbeat"
     /\ calls' = calls \ {c}
     /\ node'  = IF known THEN [node EXCEPT ![c.worker] = "online"] ELSE node
     /\ age'   = IF known THEN [age EXCEPT ![c.worker] = 0] ELSE age
     /\ Answer(c, known)
     /\ UNCHANGED <<checkVars, pruneVars, main, tickVars>>

NodeDeregister(c) ==
  /\ c \in calls /\ c.kind = "deregister"
  /\ calls' = calls \ {c}
  /\ node'  = [node EXCEPT ![c.worker] = IF @ \in Stored THEN "offline" ELSE @]
  /\ age'   = [age EXCEPT ![c.worker] = 0]
  /\ main'  = IF c.caller = "gone" THEN main ELSE [main EXCEPT ![c.worker] = "stopped"]
  /\ UNCHANGED <<checkVars, pruneVars, loopVars, tickVars>>

LoseCall(c) ==
  /\ c \in calls /\ c.caller = "gone"
  /\ c.worker \notin reliable
  /\ calls' = calls \ {c}
  /\ UNCHANGED <<storeVars, checkVars, pruneVars, main, loopVars, tickVars>>

-----------------------------------------------------------------------------
(* The expiration checker lists the nodes once and updates the stale ones  *)
(* one by one, by ID, without looking again.                               *)

(* Mutants: one more interval must pass; a stale node is looked for at one *)
(* moment only.                                                            *)
ExpiredLater(w)    == node[w] = "online" /\ age[w] > HeartbeatTimeout + CheckInterval
ExpiredOnTheDot(w) == node[w] = "online" /\ age[w] = HeartbeatTimeout + 1

Expired(w) == node[w] = "online" /\ age[w] > HeartbeatTimeout

CheckNodes ==
  /\ checkDue
  /\ checkDue' = FALSE
  /\ stale'    = {w \in Workers : Expired(w)}
  /\ UNCHANGED <<storeVars, checkTimer, pruneVars, calls, main, loopVars, tickVars>>

ExpireNode(w) ==
  /\ w \in stale
  /\ stale' = stale \ {w}
  /\ node'  = [node EXCEPT ![w] = IF @ \in Stored THEN "offline" ELSE @]
  /\ age'   = [age EXCEPT ![w] = 0]
  /\ UNCHANGED <<checkTimer, checkDue, pruneVars, calls, main, loopVars, tickVars>>

-----------------------------------------------------------------------------
(* Mutant: the status is not looked at. *)
PruneNodesOfAnyStatus(all) ==
  /\ pruneList = {}
  /\ pruneAll'  = all
  /\ pruneList' = {w \in Workers : node[w] \in Stored}
  /\ pruneList' /= {}
  /\ UNCHANGED <<storeVars, checkVars, calls, main, loopVars, tickVars>>

(* POST /api/v1/prune, the part about nodes. Bound: one at a time.         *)
PruneNodes(all) ==
  /\ pruneList = {}
  /\ pruneAll'  = all
  /\ pruneList' = {w \in Workers : IF all THEN node[w] \in Stored
                                          ELSE node[w] = "offline"}
  /\ pruneList' /= {}
  /\ UNCHANGED <<storeVars, checkVars, calls, main, loopVars, tickVars>>

DeleteNode(w) ==
  /\ w \in pruneList
  /\ pruneList' = pruneList \ {w}
  /\ node'      = [node EXCEPT ![w] = "deleted"]
  /\ age'       = [age EXCEPT ![w] = 0]
  /\ pruneAll'  = (pruneAll /\ pruneList' /= {})
  /\ UNCHANGED <<checkVars, calls, main, loopVars, tickVars>>

-----------------------------------------------------------------------------
(* The master process restarts. Requests on their way fail; the memory     *)
(* store starts empty, the database keeps the nodes.                       *)
MasterRestarts ==
  /\ Restarts
  /\ node'  = [w \in Workers |-> IF node[w] \in Stored /\ ~Persistent
                                   THEN "deleted" ELSE node[w]]
  /\ calls' = {}
  /\ main'  = [w \in Workers |-> CASE main[w] = "registering" -> "down"
                                   [] main[w] = "leaving"     -> "stopped"
                                   [] OTHER                   -> main[w]]
  /\ Fail({w \in Workers : beat[w] = "sent"})
  /\ checkTimer' = 0
  /\ checkDue'   = FALSE
  /\ stale'      = {}
  /\ pruneList'  = {}
  /\ age' = [w \in Workers |-> IF Persistent THEN age[w] ELSE 0]
  /\ pruneAll'   = FALSE
  /\ UNCHANGED tickVars

-----------------------------------------------------------------------------
(* Time passes. A check that is due is made, and made completely, within   *)
(* the tick, and so are the calls and the heartbeats of reliable workers.  *)

Settled(w) == /\ beat[w] = "idle" /\ ~beatDue[w]
              /\ \A c \in calls : c.worker /= w

Punctual ==
  /\ ~checkDue
  /\ stale = {}
  /\ \A w \in reliable : Settled(w)

Fires(timer, interval) == timer + 1 = interval
After(timer, interval) == IF Fires(timer, interval) THEN 0 ELSE timer + 1

Tick ==
  /\ Punctual
  /\ age' = [w \in Workers |-> IF node[w] = "online" /\ age[w] < AgeCap
                                 THEN age[w] + 1 ELSE age[w]]
  /\ checkDue'   = Fires(checkTimer, CheckInterval)
  /\ checkTimer' = After(checkTimer, CheckInterval)
  /\ beatDue'    = [w \in Workers |->
       beatDue[w] \/ (main[w] = "up" /\ Fires(beatTimer[w], HeartbeatInterval))]
  /\ beatTimer'  = [w \in Workers |->
       IF main[w] = "up" THEN After(beatTimer[w], HeartbeatInterval) ELSE 0]
  /\ UNCHANGED <<node, stale, pruneVars, calls, main, loopVars>>

-----------------------------------------------------------------------------
Handle(c) == RegisterNode(c) \/ NodeHeartbeat(c) \/ NodeDeregister(c)

Step ==
  \/ \E w \in Workers :
       \/ StartWorker(w) \/ SendHeartbeat(w) \/ RetryHeartbeat(w)
       \/ HeartbeatTimesOut(w) \/ BeginShutdown(w) \/ Deregister(w)
       \/ RegisterTimesOut(w) \/ DeregisterTimesOut(w) \/ Exit(w) \/ Crash(w)
       \/ ExpireNode(w) \/ DeleteNode(w)
  \/ \E c \in calls : Handle(c) \/ LoseCall(c)
  \/ CheckNodes
  \/ \E all \in BOOLEAN : PruneNodes(all)
  \/ MasterRestarts
  \/ Tick

Next == Step /\ UNCHANGED reliable

Spec == Init /\ [][Next]_vars

(* Goroutines are scheduled, time passes, requests end one way or the      *)
(* other, and a heartbeat that is sent again and again is in the end       *)
(* handled. The master does not restart for ever. No fairness for starts,  *)
(* shutdowns, crashes and prunes.                                          *)
Fairness ==
  /\ WF_sysVars(Tick)
  /\ WF_sysVars(CheckNodes)
  /\ \A w \in Workers :
       /\ WF_sysVars(SendHeartbeat(w) \/ RetryHeartbeat(w))
       /\ WF_sysVars(Deregister(w) \/ Exit(w))
       /\ WF_sysVars(ExpireNode(w))
       /\ WF_sysVars(DeleteNode(w))
       /\ WF_sysVars(\E c \in calls : c.worker = w /\ (Handle(c) \/ LoseCall(c)))
       /\ SF_sysVars(\E c \in calls : c.worker = w /\ NodeHeartbeat(c))
  /\ <>[][~MasterRestarts]_sysVars

FairSpec == Spec /\ Fairness

-----------------------------------------------------------------------------
(* The scheduler asks only for the stored status (GetAvailableNodes), so a *)
(* node whose worker fell silent is handed out until a check expires it.   *)
(* While the master stays up that is at most one check interval after the  *)
(* timeout, whatever heartbeats are late and whatever is pruned.           *)
StaleNodeIsOffline ==
  \A w \in Workers :
    node[w] = "online" => age[w] <= HeartbeatTimeout + CheckInterval

(* A worker that is up and whose calls are reliable is never shown         *)
(* offline: not by the checker's stale list, not by a deregistration.      *)
LiveWorkerIsOnline ==
  \A w \in reliable : main[w] = "up" => node[w] \in {"online", "deleted"}

(* A prune that was not asked for all nodes deletes no node whose worker   *)
(* is up and has reliable calls, although it works from a list.            *)
PruneSparesLiveWorkers ==
  [][\A w \in reliable : ~pruneAll /\ w \in pruneList /\ w \notin pruneList' =>
       main[w] /= "up"]_vars

(* No late registration, heartbeat or expiry brings a pruned node back.    *)
PrunedNodeStaysAway ==
  [][\A w \in Workers : node[w] = "deleted" => node'[w] = "deleted"]_vars

(* When a worker process has ended, by crash or by shutdown, its node in   *)
(* the end stays away from the scheduler, late heartbeats included.        *)
DeadNodeGoesOffline ==
  \A w \in Workers : main[w] = "down" ~> [](node[w] /= "online")

(* A worker that stays up and known to the master is shown online again    *)
(* and again, however often its heartbeats are lost and its node expires.  *)
LiveNodeComesBack ==
  \A w \in Workers :
    <>[](main[w] = "up" /\ node[w] /= "deleted") => []<>(node[w] = "online")

-----------------------------------------------------------------------------
(* The strengthening that makes the invariants above inductive. *)

(* A process registers once, before anything else it does.                 *)
RegistersOnce ==
  /\ \A c \in calls : c.kind = "register" =>
       /\ node[c.worker] = "absent"
       /\ main[c.worker] = IF c.caller = "gone" THEN "down" ELSE "registering"
       /\ \A d \in calls : d.kind = "register" /\ d.worker = c.worker => d = c
  /\ \A w \in Workers :
       /\ main[w] \in {"off", "registering"} => node[w] = "absent"
       /\ main[w] = "up" => node[w] /= "absent"

DeregistersLast ==
  \A c \in calls : c.kind = "deregister" =>
    main[c.worker] \in IF c.caller = "gone" THEN {"stopped", "down"} ELSE {"leaving"}

(* No node waits longer for the check than the interval. *)
ChecksInTime ==
  \A w \in Workers : node[w] = "online" =>
    age[w] <= HeartbeatTimeout +
                IF checkDue \/ w \in stale THEN CheckInterval ELSE checkTimer

(* A reliable worker's node is as old as its heartbeat timer says, and one *)
(* interval when the next heartbeat is under way.                          *)
BeatsInTime ==
  \A w \in reliable : main[w] = "up" /\ node[w] = "online" =>
    /\ age[w] <= HeartbeatInterval
    /\ Settled(w) => age[w] <= beatTimer[w]

(* So no list, once taken, names the node of a live worker. *)
ListsSpareLiveWorkers ==
  \A w \in reliable :
    w \in stale \/ (w \in pruneList /\ ~pruneAll) =>
      main[w] \notin {"off", "registering", "up"}

RetriesLeft == \A w \in Workers : beat[w] = "backoff" => tries[w] < MaxRetries

ListsAreOfNodes ==
  \A w \in Workers : w \in stale \cup pruneList => node[w] /= "absent"

Base == TypeOK /\ RegistersOnce /\ DeregistersLast /\ RetriesLeft /\ ListsAreOfNodes

Inv ==
  /\ Base
  /\ ChecksInTime
  /\ BeatsInTime
  /\ ListsSpareLiveWorkers
  /\ LiveWorkerIsOnline
=============================================================================
