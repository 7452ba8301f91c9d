------------------------------- MODULE Stores -------------------------------
(***************************************************************************)
(* The master's store: initStore chooses one of the two implementations    *)
(* when the process starts, and every handler and the two background loops *)
(* call it. One choice is used at a time, so the variables hold the maps   *)
(* of InMemoryStore or the rows of PostgresStore.                          *)
(***************************************************************************)
EXTENDS StoreData

CONSTANT Null   \* SQL NULL

VARIABLES tasks, pods, nodes, services, endpoints, pending, answer,
          backend   \* the store the master was started with
vars == <<tasks, pods, nodes, services, endpoints, pending, answer, backend>>

Memory   == INSTANCE MemoryStore
Postgres == INSTANCE PostgresStore

ASSUME NullAssumption ==
  /\ "" \in STRING /\ Null \notin STRING
  /\ None \notin Postgres!TaskRows /\ None \notin Postgres!PodRows

(* initStore *)
Init == Postgres!Init /\ backend \in {"memory", "postgres"}

Next ==
  /\ \/ backend = "memory" /\ Memory!Next /\ UNCHANGED pending
     \/ backend = "postgres" /\ Postgres!Next
  /\ UNCHANGED backend

Spec == Init /\ [][Next]_vars

-----------------------------------------------------------------------------
PendingInserts == [stmt : {"insert task"}, id : IDs, arg : {Postgres!TaskRow(t) : t \in NewTasks}]
             \cup [stmt : {"insert node"}, id : IDs, arg : NewNodes]
             \cup [stmt : {"insert pod"}, id : IDs, arg : {Postgres!PodRow(p) : p \in NewPods}]
             \cup [stmt : {"insert service"}, id : IDs, arg : Selectors]
PendingUpdates == [stmt : {"update task"}, id : IDs, arg : TaskUpdates]
             \cup [stmt : {"update node"}, id : IDs, arg : NodeUpdates]
             \cup [stmt : {"update pod"}, id : IDs, arg : PodUpdates]
             \cup [stmt : {"update service"}, id : IDs, arg : Selectors]

TaskTable == IF backend = "memory" THEN TaskRecord ELSE Postgres!TaskRows
PodTable  == IF backend = "memory" THEN PodRecord ELSE Postgres!PodRows

TypeOK ==
  /\ backend   \in {"memory", "postgres"}
  /\ tasks     \in [IDs -> {None} \cup TaskTable]
  /\ pods      \in [IDs -> {None} \cup PodTable]
  /\ nodes     \in [IDs -> {None} \cup NodeRecord]
  /\ services  \in [IDs -> Selectors \cup {None}]
  /\ endpoints \in [IDs -> Subsets \cup {None}]
  /\ pending   \in [Clients -> {Postgres!Idle} \cup PendingInserts \cup PendingUpdates]

-----------------------------------------------------------------------------
(* The pods as a caller sees them, and the row a client's UPDATE is for,   *)
(* which its first statement has found.                                    *)
TasksSeen == IF backend = "memory" THEN tasks ELSE Postgres!TasksRead
PodsSeen  == IF backend = "memory" THEN Memory!PodsShown ELSE Postgres!PodsRead

TableOf(stmt) == CASE stmt = "update task"    -> "tasks"
                   [] stmt = "update pod"     -> "pods"
                   [] stmt = "update node"    -> "nodes"
                   [] stmt = "update service" -> "services"
                   [] OTHER                   -> "none"

FoundRow(c) ==
  IF TableOf(pending[c].stmt) = "none" THEN None
  ELSE <<TableOf(pending[c].stmt), pending[c].id>>

StoreSeen == [tasks |-> TasksSeen, nodes |-> nodes, pods |-> PodsSeen,
              services |-> services, endpoints |-> endpoints]
FoundSeen == [c \in Clients |-> FoundRow(c)]

Abstract == INSTANCE StateStore WITH store <- StoreSeen, found <- FoundSeen

(* Whichever store is used, and however the statements of several clients  *)
(* interleave in PostgreSQL, every call changes the tables and is answered *)
(* as one step of the interface would (provided that pods are created with *)
(* an annotations map: see AnnotationsAreMerged).                          *)
ImplementsStateStore == Abstract!Spec

(* With PostgreSQL the endpoints in the store are those of services in the *)
(* store, whoever writes endpoints while the service is deleted.           *)
EndpointsHaveService ==
  backend = "postgres" =>
    \A id \in IDs : endpoints[id] /= None => services[id] /= None

(* An UpdatePod that is answered "ok" while the pod is there leaves it     *)
(* with the annotations it had and those of the update.                    *)
AnnotationsAreMerged ==
  [][\A c \in Clients :
       LET p == pending[c] IN
       /\ p.stmt = "update pod" /\ pods[p.id] /= None
       /\ pending'[c] = Postgres!Idle /\ answer'.err = "ok"
       => PodsSeen'[p.id].annotations
            = PodsSeen[p.id].annotations \cup Shown(p.arg.annotations)]_vars

-----------------------------------------------------------------------------
(* The strengthening of EndpointsHaveService: what a client is about to    *)
(* write to the services is a service.                                     *)
ServiceWrites ==
  \A c \in Clients :
    pending[c].stmt \in {"insert service", "update service"} =>
      pending[c].arg \in Selectors

ServiceTables ==
  /\ DOMAIN pending = Clients
  /\ DOMAIN services = IDs /\ DOMAIN endpoints = IDs
  /\ ServiceWrites
  /\ \A id \in IDs : endpoints[id] /= None => services[id] /= None

StoresInv == backend = "postgres" => ServiceTables

(* The memory store leaves no statement for later. When pods come with an  *)
(* annotations map, the column is always a JSON object.                    *)
OnlyPostgresWaits == backend = "memory" => \A c \in Clients : pending[c] = Postgres!Idle

PodsComeWithMap == \A p \in NewPods : p.annotations /= Nil

AnnotationsAreObjects ==
  backend = "postgres" =>
    /\ \A id \in IDs : pods[id] /= None => pods[id].annotations.json = "object"
    /\ \A c \in Clients :
         pending[c].stmt = "insert pod" => pending[c].arg.annotations.json = "object"

StoresTypeInv == TypeOK /\ OnlyPostgresWaits
=============================================================================
