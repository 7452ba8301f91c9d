------------------------------ MODULE MCMaster ------------------------------
(***************************************************************************)
(* What the handlers of the master call: the store, the scheduler and the  *)
(* allocator of cluster addresses, on small instances. None of them calls  *)
(* another, and no call of the store touches two tables, but for services  *)
(* and their endpoints: a behaviour exercises one of them, chosen at the   *)
(* start, so that their states do not multiply.                            *)
(***************************************************************************)
EXTENDS Stores, Scheduler, ClusterIPAllocator, TLC

CONSTANTS c1, c2, c3, i1, i2, k1, k2, l1, e1, e2, h1, h2, n1, n2, n3

TwoClients   == {c1, c2}
ThreeClients == {c1, c2, c3}
TwoIDs       == {i1, i2}

(* As CreateTask stores it; what UpdateTaskStatus and scheduleTask set.    *)
MCNewTasks    == {[status |-> "pending", nodeID |-> "", healthStatus |-> ""]}
MCTaskUpdates == {[status |-> "scheduled", nodeID |-> "n"], [nodeID |-> ""],
                  [healthStatus |-> "healthy"]}

MCNewNodes    == {[status |-> "online", runningTasks |-> 0, maxSlots |-> s] : s \in {0, 1}}
MCNodeUpdates == {[status |-> s] : s \in {"online", "offline"}}

Pod(policy, a) == [status |-> "pending", restartPolicy |-> policy,
                   labels |-> {l1}, annotations |-> a]
PodsWithMap    == {Pod("", {}), Pod("Always", {k1})}
PodsWithoutMap == {Pod("Always", Nil)}
MCPodUpdates   == {[fields |-> [status |-> "running"],   annotations |-> {k2}],
                   [fields |-> [status |-> "succeeded"], annotations |-> Nil]}

MCKeys        == {k1, k2, l1}
OneSelector   == {{l1}}
TwoSelectors  == {{l1}, {}}
TwoSubsets    == {e1, e2}
SameName      == [id \in TwoIDs |-> [name |-> "web", namespace |-> "default"]]

TwoHandlers  == {h1, h2}
ThreeNodes   == {n1, n2, n3}
(* No request (a task), one that each node can take, one that one cannot.  *)
MCRequests   == {[cpu |-> c, memory |-> m] : c \in {0}, m \in {0, 1}}
                  \cup {[cpu |-> 3, memory |-> 1]}
(* A slot is <<2, 2>>. The small node n1 has one slot or none.             *)
MCCapacities ==
  {[n \in ThreeNodes |-> [cpu |-> IF n = n1 THEN c ELSE 4, memory |-> 2]] : c \in {1, 2}}

Symmetry == Permutations(TwoClients) \cup Permutations(TwoIDs)
              \cup Permutations(TwoHandlers) \cup Permutations({n2, n3})

VARIABLE focus   \* what is under study
mcvars == <<vars, schedulerVars, allocatorVars, focus>>

MCInit ==
  /\ Init /\ SchedulerInit /\ AllocatorInit
  /\ focus \in {"tasks", "pods", "nodes", "services", "scheduler", "addresses"}
  /\ focus \in {"scheduler", "addresses"} => backend = "memory"
  /\ focus /= "scheduler" => capacity = CHOOSE c \in Capacities : TRUE

MemoryCalls(c) ==
  \/ focus = "tasks"    /\ Memory!TaskCalls(c)
  \/ focus = "pods"     /\ Memory!PodCalls(c)
  \/ focus = "nodes"    /\ Memory!NodeCalls(c)
  \/ focus = "services" /\ Memory!ServiceCalls(c)

PostgresCalls(c) ==
  \/ focus = "tasks"    /\ Postgres!TaskCalls(c)
  \/ focus = "pods"     /\ Postgres!PodCalls(c)
  \/ focus = "nodes"    /\ Postgres!NodeCalls(c)
  \/ focus = "services" /\ Postgres!ServiceCalls(c)
  \/ Postgres!StatementFails(c)

StoreCalls ==
  /\ \E c \in Clients :
       \/ backend = "memory" /\ MemoryCalls(c) /\ UNCHANGED pending
       \/ backend = "postgres" /\ PostgresCalls(c)
  /\ UNCHANGED backend

MCNext ==
  /\ \/ /\ focus \in {"tasks", "pods", "nodes", "services"}
        /\ StoreCalls
        /\ UNCHANGED <<schedulerVars, allocatorVars>>
     \/ focus = "scheduler" /\ SchedulerNext /\ UNCHANGED <<vars, allocatorVars>>
     \/ focus = "addresses" /\ AllocatorNext /\ UNCHANGED <<vars, schedulerVars>>
  /\ UNCHANGED focus

MCSpec == MCInit /\ [][MCNext]_mcvars

(* Store, scheduler and allocator keep their types; among them: the index  *)
(* of RoundRobin stays below the number of nodes although it is reduced by *)
(* the length of lists that change.                                        *)
AllTypesOK == TypeOK /\ SchedulerTypeOK /\ AllocatorTypeOK
=============================================================================
