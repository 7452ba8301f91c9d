-------------------------- MODULE ServiceRegistry --------------------------
(***************************************************************************)
(* Services, their cluster IPs and their endpoints on the master.          *)
(*                                                                         *)
(* Requests that create, update, delete and prune services run beside the  *)
(* endpoint controller's periodic sync. Each store operation and each      *)
(* allocator operation is one step; a whole sync holds the controller's    *)
(* mutex, so AllocateClusterIP and ReleaseClusterIP wait for its end,      *)
(* while the requests' store operations do not. Services live in the store *)
(* (memory or PostgreSQL); the allocator's table lives in memory only.     *)
(***************************************************************************)
EXTENDS FiniteSets, Naturals

CONSTANTS Services,    \* service IDs; each is created at most once
          IPs,         \* the allocator's pool
          NoIP,        \* the empty ClusterIP
          Pods,        \* pod IDs; each runs at most once
          Deleters,    \* concurrent delete requests
          NoService,   \* the value of a deleter that has no service
          NoSelector,  \* an update may empty a selector
          NoEndpoints, \* no entry in the endpoints map
          Persistent,  \* TRUE: PostgresStore; FALSE: InMemoryStore
          MayRestart,  \* may the master process restart?
          MayPruneAll  \* may a client prune with all=true?

ASSUME ServiceAssumption ==
  /\ NoIP \notin IPs
  /\ NoService \notin Services
  /\ {Persistent, MayRestart, MayPruneAll} \subseteq BOOLEAN

VARIABLES
  service,     \* store: "none", "stored" or "deleted"
  clusterIP,   \* store: Service.ClusterIP
  selects,     \* store: the pods Service.Selector matches
  endpoints,   \* store: the service's Endpoints, by readiness
  pods,        \* store: what buildEndpoints reads of a pod
  allocated,   \* ClusterIPAllocator.allocated
  creating,    \* where the service's create request stands
  deleting,    \* where each delete request stands
  pruneList,   \* services a prune-all request listed and has not deleted
  pruned,      \* service whose endpoints that request deletes next
  syncing,     \* does syncAllEndpoints hold the controller's mutex?
  syncList,    \* copies of the services it has still to handle
  syncPods     \* the service it handles, with the endpoints it built

storeVars == <<service, clusterIP, selects, endpoints>>
pruneVars == <<pruneList, pruned>>
syncVars  == <<syncing, syncList, syncPods>>
vars == <<storeVars, pods, allocated, creating, deleting, pruneVars, syncVars>>

Selector == (SUBSET Pods) \cup {NoSelector}
Idle     == [pc |-> "idle", service |-> NoService, ip |-> NoIP]
Built    == [ready : SUBSET Pods, notReady : SUBSET Pods]
Copy     == [service : Services, selects : Selector]
Nothing  == [service |-> NoService, built |-> NoEndpoints]
PodState == {"pending", "running", "ready", "gone"}

TypeOK ==
  /\ service   \in [Services -> {"none", "stored", "deleted"}]
  /\ clusterIP \in [Services -> IPs \cup {NoIP}]
  /\ selects   \in [Services -> Selector]
  /\ endpoints \in [Services -> Built \cup {NoEndpoints}]
  /\ pods      \in [Pods -> PodState]
  /\ allocated \in SUBSET IPs
  /\ creating  \in [Services -> {"none", "allocated", "release", "done"}]
  /\ deleting  \in [Deleters -> [pc : {"idle", "read", "unlink", "release"},
                                 service : Services \cup {NoService},
                                 ip : IPs \cup {NoIP}]]
  /\ pruneList \in SUBSET Services
  /\ pruned    \in Services \cup {NoService}
  /\ syncing   \in BOOLEAN
  /\ syncList  \in SUBSET Copy
  /\ syncPods  \in [service : Services \cup {NoService}, built : Built \cup {NoEndpoints}]

Init ==
  /\ service   = [s \in Services |-> "none"]
  /\ clusterIP = [s \in Services |-> NoIP]
  /\ selects   = [s \in Services |-> {}]
  /\ endpoints = [s \in Services |-> NoEndpoints]
  /\ pods      = [p \in Pods |-> "pending"]
  /\ allocated = {}
  /\ creating  = [s \in Services |-> "none"]
  /\ deleting  = [d \in Deleters |-> Idle]
  /\ pruneList = {}
  /\ pruned    = NoService
  /\ syncing   = FALSE
  /\ syncList  = {}
  /\ syncPods  = Nothing

-----------------------------------------------------------------------------
(* CreateService. Services of another type than ClusterIP get no address.  *)
(* The request's selector matches some set of pods.                        *)
AllocateClusterIP(s, ip) ==
  /\ creating[s] = "none"
  /\ ~syncing
  /\ ip \in IPs \ allocated
  /\ allocated' = allocated \cup {ip}
  /\ clusterIP' = [clusterIP EXCEPT ![s] = ip]
  /\ creating'  = [creating EXCEPT ![s] = "allocated"]
  /\ UNCHANGED <<service, selects, endpoints, pods, deleting, pruneVars, syncVars>>

CreateWithoutIP(s, sel) ==
  /\ creating[s] = "none"
  /\ creating' = [creating EXCEPT ![s] = "done"]
  /\ service'  = [service EXCEPT ![s] = "stored"]
  /\ selects'  = [selects EXCEPT ![s] = sel]
  /\ UNCHANGED <<clusterIP, endpoints, pods, allocated, deleting, pruneVars, syncVars>>

AddService(s, sel) ==
  /\ creating[s] = "allocated"
  /\ creating' = [creating EXCEPT ![s] = "done"]
  /\ service'  = [service EXCEPT ![s] = "stored"]
  /\ selects'  = [selects EXCEPT ![s] = sel]
  /\ UNCHANGED <<clusterIP, endpoints, pods, allocated, deleting, pruneVars, syncVars>>

(* Mutant: the address of the refused service is not released. *)
AddServiceFailsSilently(s) ==
  /\ Persistent
  /\ creating[s] = "allocated"
  /\ creating'  = [creating EXCEPT ![s] = "done"]
  /\ clusterIP' = [clusterIP EXCEPT ![s] = NoIP]
  /\ UNCHANGED <<service, selects, endpoints, pods, allocated, deleting,
                 pruneVars, syncVars>>

(* Only the database can refuse: IDs are fresh. *)
AddServiceFails(s) ==
  /\ Persistent
  /\ creating[s] = "allocated"
  /\ creating' = [creating EXCEPT ![s] = "release"]
  /\ UNCHANGED <<storeVars, pods, allocated, deleting, pruneVars, syncVars>>

ReleaseUnused(s) ==
  /\ creating[s] = "release"
  /\ ~syncing
  /\ creating'  = [creating EXCEPT ![s] = "done"]
  /\ allocated' = allocated \ {clusterIP[s]}
  /\ clusterIP' = [clusterIP EXCEPT ![s] = NoIP]
  /\ UNCHANGED <<service, selects, endpoints, pods, deleting, pruneVars, syncVars>>

UpdateService(s, sel) ==
  /\ service[s] = "stored"
  /\ selects' = [selects EXCEPT ![s] = sel]
  /\ UNCHANGED <<service, clusterIP, endpoints, pods, allocated, creating,
                 deleting, pruneVars, syncVars>>

-----------------------------------------------------------------------------
(* The store's DeleteService; PostgreSQL's foreign key takes the endpoints *)
(* along. The IP goes with the service.                                    *)
RemoveFromStore(s) ==
  /\ service'   = [service EXCEPT ![s] = "deleted"]
  /\ clusterIP' = [clusterIP EXCEPT ![s] = NoIP]
  /\ endpoints' = IF Persistent THEN [endpoints EXCEPT ![s] = NoEndpoints]
                                ELSE endpoints

(* DELETE /services/:id works with the copy of the service it read first.  *)
GetService(d, s) ==
  /\ deleting[d].pc = "idle"
  /\ service[s] = "stored"
  /\ deleting' = [deleting EXCEPT ![d] =
                    [pc |-> "read", service |-> s, ip |-> clusterIP[s]]]
  /\ UNCHANGED <<storeVars, pods, allocated, creating, pruneVars, syncVars>>

(* Mutant: a delete that finds nothing left goes on as if it had deleted.  *)
DeleteServiceTwice(d) ==
  /\ deleting[d].pc = "read"
  /\ RemoveFromStore(deleting[d].service)
  /\ deleting' = [deleting EXCEPT ![d].pc = "unlink"]
  /\ UNCHANGED <<selects, pods, allocated, creating, pruneVars, syncVars>>

(* Whoever comes second finds no service and answers with an error.        *)
DeleteService(d) ==
  /\ deleting[d].pc = "read"
  /\ IF service[deleting[d].service] = "stored"
       THEN /\ RemoveFromStore(deleting[d].service)
            /\ deleting' = [deleting EXCEPT ![d].pc = "unlink"]
       ELSE /\ deleting' = [deleting EXCEPT ![d] = Idle]
            /\ UNCHANGED <<service, clusterIP, endpoints>>
  /\ UNCHANGED <<selects, pods, allocated, creating, pruneVars, syncVars>>

(* Mutant: the address is released here and once more afterwards. *)
DeleteEndpointsReleases(d) ==
  /\ deleting[d].pc = "unlink"
  /\ endpoints' = [endpoints EXCEPT ![deleting[d].service] = NoEndpoints]
  /\ deleting'  = [deleting EXCEPT ![d].pc = "release"]
  /\ allocated' = allocated \ {deleting[d].ip}
  /\ UNCHANGED <<service, clusterIP, selects, pods, creating, pruneVars, syncVars>>

DeleteEndpoints(d) ==
  /\ deleting[d].pc = "unlink"
  /\ endpoints' = [endpoints EXCEPT ![deleting[d].service] = NoEndpoints]
  /\ deleting'  = IF deleting[d].ip = NoIP
                    THEN [deleting EXCEPT ![d] = Idle]
                    ELSE [deleting EXCEPT ![d].pc = "release"]
  /\ UNCHANGED <<service, clusterIP, selects, pods, allocated, creating,
                 pruneVars, syncVars>>

ReleaseClusterIP(d) ==
  /\ deleting[d].pc = "release"
  /\ ~syncing
  /\ allocated' = allocated \ {deleting[d].ip}
  /\ deleting'  = [deleting EXCEPT ![d] = Idle]
  /\ UNCHANGED <<storeVars, pods, creating, pruneVars, syncVars>>

-----------------------------------------------------------------------------
(* pruneAll: list, then delete each service and its endpoints. Nothing     *)
(* releases the addresses. Bound: one prune at a time.                     *)

PruneAll ==
  /\ MayPruneAll
  /\ pruneList = {} /\ pruned = NoService
  /\ pruneList' = {s \in Services : service[s] = "stored"}
  /\ UNCHANGED <<storeVars, pods, allocated, creating, deleting, pruned, syncVars>>

PruneService(s) ==
  /\ s \in pruneList /\ pruned = NoService
  /\ pruneList' = pruneList \ {s}
  /\ IF service[s] = "stored"
       THEN RemoveFromStore(s) /\ pruned' = s
       ELSE UNCHANGED <<service, clusterIP, endpoints, pruned>>
  /\ UNCHANGED <<selects, pods, allocated, creating, deleting, syncVars>>

PruneEndpoints ==
  /\ pruned /= NoService
  /\ endpoints' = [endpoints EXCEPT ![pruned] = NoEndpoints]
  /\ pruned' = NoService
  /\ UNCHANGED <<service, clusterIP, selects, pods, allocated, creating,
                 deleting, pruneList, syncVars>>

-----------------------------------------------------------------------------
(* The endpoint controller. *)

(* syncAllEndpoints takes the mutex and lists the services. *)
SyncBegins ==
  /\ ~syncing
  /\ syncing'  = TRUE
  /\ syncList' = {[service |-> s, selects |-> selects[s]] :
                    s \in {u \in Services : service[u] = "stored"}}
  /\ UNCHANGED <<storeVars, pods, allocated, creating, deleting, pruneVars, syncPods>>

(* Mutant: the status of a pod that is not ready is not looked at. *)
BuildTakesAll(sel) == [ready    |-> {p \in sel : pods[p] = "ready"},
                       notReady |-> {p \in sel : pods[p] /= "ready"}]

Build(sel) == [ready    |-> {p \in sel : pods[p] = "ready"},
               notReady |-> {p \in sel : pods[p] = "running"}]

(* syncServiceEndpoints, up to its ListPodsByLabels and buildEndpoints. A  *)
(* service with an empty selector, which UpdateService accepts though      *)
(* CreateService does not, is skipped and keeps the endpoints it had.      *)
ListPods(copy) ==
  /\ copy \in syncList
  /\ syncPods = Nothing
  /\ syncList' = syncList \ {copy}
  /\ syncPods' = IF copy.selects = NoSelector
                   THEN Nothing
                   ELSE [service |-> copy.service, built |-> Build(copy.selects)]
  /\ UNCHANGED <<storeVars, pods, allocated, creating, deleting, pruneVars, syncing>>

(* PostgreSQL fails the query, for instance for a selected pod that was    *)
(* created without a restart policy (see PostgresStore): the error is      *)
(* logged and the service keeps the endpoints it had.                      *)
ListPodsFails(copy) ==
  /\ Persistent
  /\ copy \in syncList /\ copy.selects /= NoSelector
  /\ syncPods = Nothing
  /\ syncList' = syncList \ {copy}
  /\ UNCHANGED <<storeVars, pods, allocated, creating, deleting, pruneVars, syncing, syncPods>>

(* Mutant: the schema has no foreign key. *)
SetEndpointsUnchecked ==
  /\ syncPods /= Nothing
  /\ endpoints' = [endpoints EXCEPT ![syncPods.service] = syncPods.built]
  /\ syncPods' = Nothing
  /\ UNCHANGED <<service, clusterIP, selects, pods, allocated, creating,
                 deleting, pruneVars, syncing, syncList>>

(* The map takes any service ID; PostgreSQL's foreign key refuses one that *)
(* is gone, and the controller logs the error.                             *)
SetEndpoints ==
  /\ syncPods /= Nothing
  /\ endpoints' = IF Persistent /\ service[syncPods.service] /= "stored"
                    THEN endpoints
                    ELSE [endpoints EXCEPT ![syncPods.service] = syncPods.built]
  /\ syncPods' = Nothing
  /\ UNCHANGED <<service, clusterIP, selects, pods, allocated, creating,
                 deleting, pruneVars, syncing, syncList>>

SyncEnds ==
  /\ syncing /\ syncList = {} /\ syncPods = Nothing
  /\ syncing' = FALSE
  /\ UNCHANGED <<storeVars, pods, allocated, creating, deleting, pruneVars,
                 syncList, syncPods>>

-----------------------------------------------------------------------------
(* What the workers report of the pods: running with an IP, ready, over.   *)
PodChanges(p, to) ==
  /\ pods[p] /= to /\ to /= "pending" /\ pods[p] /= "gone"
  /\ pods' = [pods EXCEPT ![p] = to]
  /\ UNCHANGED <<storeVars, allocated, creating, deleting, pruneVars, syncVars>>

(* The process restarts: requests, sync and allocator are lost, and what   *)
(* the store keeps depends on the store.                                   *)
MasterRestarts ==
  /\ MayRestart
  /\ creating'  = [s \in Services |-> IF creating[s] = "none" THEN "none" ELSE "done"]
  /\ deleting'  = [d \in Deleters |-> Idle]
  /\ allocated' = {}
  /\ pruneList' = {} /\ pruned' = NoService
  /\ syncing' = FALSE /\ syncList' = {} /\ syncPods' = Nothing
  /\ IF Persistent
       THEN /\ clusterIP' = [s \in Services |-> IF service[s] = "stored"
                                                  THEN clusterIP[s] ELSE NoIP]
            /\ UNCHANGED <<service, selects, endpoints, pods>>
       ELSE /\ service'   = [s \in Services |-> IF service[s] = "none"
                                                  THEN "none" ELSE "deleted"]
            /\ clusterIP' = [s \in Services |-> NoIP]
            /\ endpoints' = [s \in Services |-> NoEndpoints]
            /\ pods'      = [p \in Pods |-> IF pods[p] = "pending"
                                              THEN "pending" ELSE "gone"]
            /\ UNCHANGED selects

-----------------------------------------------------------------------------
Sync ==
  \/ SyncBegins \/ SetEndpoints \/ SyncEnds
  \/ \E copy \in syncList : ListPods(copy) \/ ListPodsFails(copy)

Next ==
  \/ \E s \in Services :
       \/ \E ip \in IPs : AllocateClusterIP(s, ip)
       \/ \E sel \in SUBSET Pods : CreateWithoutIP(s, sel) \/ AddService(s, sel)
       \/ \E sel \in Selector : UpdateService(s, sel)
       \/ AddServiceFails(s) \/ ReleaseUnused(s) \/ PruneService(s)
       \/ \E d \in Deleters : GetService(d, s)
  \/ \E d \in Deleters : DeleteService(d) \/ DeleteEndpoints(d) \/ ReleaseClusterIP(d)
  \/ PruneAll \/ PruneEndpoints
  \/ Sync
  \/ \E p \in Pods, to \in PodState : PodChanges(p, to)
  \/ MasterRestarts

Spec == Init /\ [][Next]_vars

(* The controller's ticker fires for ever and a sync runs to its end,      *)
(* unless a restart cuts it short; the master does not restart for ever.   *)
FairSpec == Spec /\ WF_vars(Sync) /\ <>[][~MasterRestarts]_vars

-----------------------------------------------------------------------------
(* No two services answer at the same cluster IP, whatever creations,      *)
(* deletions, prunes and syncs overlap.                                    *)
DistinctClusterIPs ==
  \A s, u \in Services :
    /\ s /= u
    /\ service[s] = "stored" /\ service[u] = "stored"
    /\ clusterIP[s] = clusterIP[u]
    => clusterIP[s] = NoIP

(* Who has an address: a service or the request creating it, and a delete  *)
(* request between the deletion and the release.                           *)
Held == ({clusterIP[s] : s \in Services} \ {NoIP})
          \cup {deleting[d].ip : d \in {e \in Deleters :
                                   deleting[e].pc \in {"unlink", "release"}}}

(* The allocator has exactly the addresses somebody holds: none is free    *)
(* while in use, none is lost from the pool when its service is gone.      *)
AddressesAccounted == allocated = Held \ {NoIP}

(* Endpoints in the store belong to a service in the store, also when the  *)
(* service is deleted between a sync's list and its write.                 *)
EndpointsBelongToAService ==
  \A s \in Services : endpoints[s] /= NoEndpoints => service[s] = "stored"

(* A pod that is over disappears from the endpoints of every service with  *)
(* a selector, though a sync works with copies of services and pods.       *)
GonePodLeavesEndpoints ==
  \A s \in Services, p \in Pods :
    pods[p] = "gone" ~>
      \/ service[s] /= "stored" \/ selects[s] = NoSelector
      \/ endpoints[s] = NoEndpoints
      \/ p \notin endpoints[s].ready \cup endpoints[s].notReady

-----------------------------------------------------------------------------
(* The inductive strengthening: every address has at most one holder.      *)

Deleted(d) == deleting[d].pc \in {"unlink", "release"}

OnePass(s) ==
  /\ creating[s] = "none" => service[s] = "none" /\ clusterIP[s] = NoIP
  /\ creating[s] \in {"allocated", "release"} =>
       service[s] = "none" /\ clusterIP[s] /= NoIP
  /\ service[s] = "deleted" => clusterIP[s] = NoIP

(* A delete request still has its service, and the address it read is the  *)
(* service's as long as the service is stored.                             *)
DeleterKnows(d) ==
  /\ deleting[d].pc /= "idle" =>
       /\ deleting[d].service \in Services
       /\ service[deleting[d].service] \in {"stored", "deleted"}
  /\ deleting[d].pc = "read" /\ service[deleting[d].service] = "stored" =>
       deleting[d].ip = clusterIP[deleting[d].service]
  /\ deleting[d].pc = "release" => deleting[d].ip /= NoIP

OneHolder ==
  /\ \A s, u \in Services : s /= u /\ clusterIP[s] /= NoIP =>
       clusterIP[s] /= clusterIP[u]
  /\ \A d \in Deleters, s \in Services :
       Deleted(d) /\ deleting[d].ip /= NoIP => clusterIP[s] /= deleting[d].ip
  /\ \A d, e \in Deleters :
       d /= e /\ Deleted(d) /\ Deleted(e) /\ deleting[d].ip /= NoIP =>
         deleting[d].ip /= deleting[e].ip

HeldIsAllocated ==
  /\ \A s \in Services : clusterIP[s] /= NoIP => clusterIP[s] \in allocated
  /\ \A d \in Deleters :
       Deleted(d) /\ deleting[d].ip /= NoIP => deleting[d].ip \in allocated

AllocatedIsHeld ==
  \A ip \in allocated :
    \/ \E s \in Services : clusterIP[s] = ip
    \/ \E d \in Deleters : Deleted(d) /\ deleting[d].ip = ip

AddressInv ==
  /\ TypeOK
  /\ \A s \in Services : OnePass(s)
  /\ \A d \in Deleters : DeleterKnows(d)
  /\ OneHolder
  /\ HeldIsAllocated
=============================================================================
