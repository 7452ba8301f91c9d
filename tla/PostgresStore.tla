---------------------------- MODULE PostgresStore ----------------------------
(***************************************************************************)
(* PostgresStore: every SQL statement is a step, and what Add and Update   *)
(* do takes two of them (SELECT EXISTS, then INSERT or UPDATE) without a   *)
(* transaction, so that the statements of other clients come in between.   *)
(*                                                                         *)
(* The variables are tables of rows. A row differs from the Go value: an   *)
(* empty string is written as NULL by Add and as it is by Update, and the  *)
(* annotations are a JSON value, which the merge of UpdatePod treats by    *)
(* PostgreSQL's rules for ||.                                              *)
(***************************************************************************)
EXTENDS StoreData

CONSTANT Null   \* SQL NULL

VARIABLES tasks, pods, nodes, services, endpoints,
          pending,   \* the second statement a client has still to execute
          answer     \* the last answer
tables == <<tasks, pods, nodes, services, endpoints>>
vars   == <<tables, pending, answer>>

Idle == [stmt |-> "none", id |-> None, arg |-> None]

-----------------------------------------------------------------------------
(* Rows and values. *)

Column   == {Null} \cup STRING
JSONB    == [json : {"null", "object", "array"}, keys : SUBSET Keys]
TaskRows == [status : STRING, nodeID : Column, healthStatus : Column]
PodRows  == [status : STRING, restartPolicy : Column, labels : SUBSET Keys,
             annotations : JSONB]

NullString(s) == IF s = "" THEN Null ELSE s
String(col)   == IF col = Null THEN "" ELSE col

TaskRow(task) == [task EXCEPT !.nodeID = NullString(@), !.healthStatus = NullString(@)]

(* What a scan reads back. *)
TaskOf(row) == [row EXCEPT !.nodeID = String(@), !.healthStatus = String(@)]
TasksRead   == [id \in IDs |-> IF tasks[id] = None THEN None ELSE TaskOf(tasks[id])]

(* A nil map is marshalled to the JSON value null, which is not SQL NULL.  *)
JSON(annotations) == [json |-> IF annotations = Nil THEN "null" ELSE "object",
                      keys |-> Shown(annotations)]
EmptyObject       == JSON({})

PodRow(pod) == [pod EXCEPT !.annotations   = JSON(@),
                           !.restartPolicy = NullString(@)]

(* null and arrays are read as no annotations. *)
PodOf(row) == [row EXCEPT
                 !.annotations   = IF @.json = "object" THEN @.keys ELSE {},
                 !.restartPolicy = String(@)]
PodsRead == [id \in IDs |-> IF pods[id] = None THEN None ELSE PodOf(pods[id])]

(* jsonb || jsonb: objects are united; any other operand is made an array. *)
Concat(j, k) ==
  IF j.json = "object" /\ k.json = "object"
    THEN [json |-> "object", keys |-> j.keys \cup k.keys]
    ELSE [json |-> "array",  keys |-> j.keys \cup k.keys]

(* Mutant: the update's annotations replace the column. *)
MergedReplaces(col, a) == IF a = Nil THEN col ELSE JSON(a)

(* The expression of UpdatePod: an array becomes {} first, null does not.  *)
Merged(col, a) ==
  IF a = Nil THEN col
  ELSE Concat(IF col.json = "array" THEN EmptyObject ELSE col, JSON(a))

-----------------------------------------------------------------------------
Init ==
  /\ tasks     = [id \in IDs |-> None]
  /\ pods      = [id \in IDs |-> None]
  /\ nodes     = [id \in IDs |-> None]
  /\ services  = [id \in IDs |-> None]
  /\ endpoints = [id \in IDs |-> None]
  /\ pending   = [c \in Clients |-> Idle]
  /\ answer    = Answer(None, "ok", {})

(* A call of one statement that reads. *)
Returns(c, ans) ==
  /\ pending[c] = Idle
  /\ answer' = ans
  /\ UNCHANGED <<tables, pending>>

Refuses(c, err) == Returns(c, Answer(c, err, {}))

(* The first statement found what it should; stmt is the second.           *)
GoesOn(c, stmt, id, arg) ==
  /\ pending[c] = Idle
  /\ pending' = [pending EXCEPT ![c] = [stmt |-> stmt, id |-> id, arg |-> arg]]
  /\ UNCHANGED <<tables, answer>>

(* The last statement of a call that writes is done.                       *)
Done(c, err) ==
  /\ pending' = [pending EXCEPT ![c] = Idle]
  /\ answer'  = Answer(c, err, {})

(* INSERT refuses a key that is there by now; the error is not the one for *)
(* an existing row.                                                        *)
Insert(c, table, stmt, to) ==
  LET p == pending[c] IN
  /\ p.stmt = stmt
  /\ IF table[p.id] = None THEN to = [table EXCEPT ![p.id] = p.arg] /\ Done(c, "ok")
                           ELSE to = table /\ Done(c, "error")

(* DELETE that affected no row reports that there was none.                *)
Remove(c, table, id, to) ==
  /\ pending[c] = Idle
  /\ Done(c, IF table[id] = None THEN "not found" ELSE "ok")
  /\ to = [table EXCEPT ![id] = None]

(* A statement fails (connection lost, context over): nothing is written.  *)
StatementFails(c) == Done(c, "error") /\ UNCHANGED tables

-----------------------------------------------------------------------------
AddTask(c, id, task) ==
  IF tasks[id] /= None THEN Refuses(c, "exists")
                       ELSE GoesOn(c, "insert task", id, TaskRow(task))

InsertTask(c) ==
  /\ Insert(c, tasks, "insert task", tasks')
  /\ UNCHANGED <<pods, nodes, services, endpoints>>

GetTask(c, id) == Returns(c, Found(c, TasksRead, id))

UpdateTask(c, id, u) ==
  IF tasks[id] = None THEN Refuses(c, "not found")
                      ELSE GoesOn(c, "update task", id, u)

(* The UPDATE of a row that is gone affects nothing and is no error.       *)
SetTask(c) ==
  LET p == pending[c] IN
  /\ p.stmt = "update task"
  /\ tasks' = IF tasks[p.id] = None THEN tasks
              ELSE [tasks EXCEPT ![p.id] = Overwrite(@, p.arg)]
  /\ Done(c, "ok")
  /\ UNCHANGED <<pods, nodes, services, endpoints>>

ListTasks(c) == Returns(c, Answer(c, "ok", AllRows(TasksRead)))

DeleteTask(c, id) ==
  /\ Remove(c, tasks, id, tasks')
  /\ UNCHANGED <<pods, nodes, services, endpoints>>

-----------------------------------------------------------------------------
AddPod(c, id, pod) ==
  IF pods[id] /= None THEN Refuses(c, "exists")
                      ELSE GoesOn(c, "insert pod", id, PodRow(pod))

InsertPod(c) ==
  /\ Insert(c, pods, "insert pod", pods')
  /\ UNCHANGED <<tasks, nodes, services, endpoints>>

GetPod(c, id) == Returns(c, Found(c, PodsRead, id))

UpdatePod(c, id, u) ==
  IF pods[id] = None THEN Refuses(c, "not found")
                     ELSE GoesOn(c, "update pod", id, u)

UpdatedRow(row, u) ==
  [Overwrite(row, u.fields) EXCEPT !.annotations = Merged(@, u.annotations)]

SetPod(c) ==
  LET p == pending[c] IN
  /\ p.stmt = "update pod"
  /\ pods' = IF pods[p.id] = None THEN pods
             ELSE [pods EXCEPT ![p.id] = UpdatedRow(@, p.arg)]
  /\ Done(c, "ok")
  /\ UNCHANGED <<tasks, nodes, services, endpoints>>

ListPods(c) == Returns(c, Answer(c, "ok", AllRows(PodsRead)))

DeletePod(c, id) ==
  /\ Remove(c, pods, id, pods')
  /\ UNCHANGED <<tasks, nodes, services, endpoints>>

(* restart_policy is scanned into a string, which NULL cannot be: one such *)
(* pod among the matches fails the call.                                   *)
ListPodsByLabels(c, labels) ==
  LET match == {id \in IDs : pods[id] /= None /\ labels \subseteq pods[id].labels}
  IN  IF \E id \in match : pods[id].restartPolicy = Null
        THEN Refuses(c, "error")
        ELSE Returns(c, Answer(c, "ok", Rows(PodsRead, LAMBDA id : id \in match)))

-----------------------------------------------------------------------------
AddNode(c, id, node) ==
  IF nodes[id] /= None THEN Refuses(c, "exists")
                       ELSE GoesOn(c, "insert node", id, node)

InsertNode(c) ==
  /\ Insert(c, nodes, "insert node", nodes')
  /\ UNCHANGED <<tasks, pods, services, endpoints>>

GetNode(c, id) == Returns(c, Found(c, nodes, id))

UpdateNode(c, id, u) ==
  IF nodes[id] = None THEN Refuses(c, "not found")
                      ELSE GoesOn(c, "update node", id, u)

SetNode(c) ==
  LET p == pending[c] IN
  /\ p.stmt = "update node"
  /\ nodes' = IF nodes[p.id] = None THEN nodes
              ELSE [nodes EXCEPT ![p.id] = Overwrite(@, p.arg)]
  /\ Done(c, "ok")
  /\ UNCHANGED <<tasks, pods, services, endpoints>>

ListNodes(c) == Returns(c, Answer(c, "ok", AllRows(nodes)))

DeleteNode(c, id) ==
  /\ Remove(c, nodes, id, nodes')
  /\ UNCHANGED <<tasks, pods, services, endpoints>>

(* Online, and with a slot left. *)
GetAvailableNodes(c) ==
  Returns(c, Answer(c, "ok",
    Rows(nodes, LAMBDA id : /\ nodes[id].status = "online"
                            /\ nodes[id].runningTasks < nodes[id].maxSlots)))

-----------------------------------------------------------------------------
AddService(c, id, selector) ==
  IF services[id] /= None THEN Refuses(c, "exists")
                          ELSE GoesOn(c, "insert service", id, selector)

InsertService(c) ==
  /\ Insert(c, services, "insert service", services')
  /\ UNCHANGED <<tasks, pods, nodes, endpoints>>

GetService(c, id) == Returns(c, Found(c, services, id))

(* The first row the query happens to return. *)
ByName(c, table, name, namespace) ==
  LET match == {id \in IDs : /\ table[id] /= None
                             /\ Ident[id] = [name |-> name, namespace |-> namespace]}
  IN  \/ match = {} /\ Refuses(c, "not found")
      \/ \E id \in match : Returns(c, Found(c, table, id))

GetServiceByName(c, name, namespace) == ByName(c, services, name, namespace)

(* Its first statement is GetService. *)
UpdateService(c, id, selector) ==
  IF services[id] = None THEN Refuses(c, "not found")
                         ELSE GoesOn(c, "update service", id, selector)

SetService(c) ==
  LET p == pending[c] IN
  /\ p.stmt = "update service"
  /\ services' = IF services[p.id] = None THEN services
                 ELSE [services EXCEPT ![p.id] = p.arg]
  /\ Done(c, "ok")
  /\ UNCHANGED <<tasks, pods, nodes, endpoints>>

(* Nil stands for the empty namespace: the services of all of them. *)
ListServices(c, namespace) ==
  Returns(c, Answer(c, "ok", Rows(services,
                                  LAMBDA id : namespace \in {Nil, Ident[id].namespace})))

(* Mutant: the table has no ON DELETE CASCADE. *)
DeleteServiceKeeps(c, id) ==
  /\ Remove(c, services, id, services')
  /\ UNCHANGED <<tasks, pods, nodes, endpoints>>

(* The foreign key takes the endpoints along. *)
DeleteService(c, id) ==
  /\ Remove(c, services, id, services')
  /\ endpoints' = [endpoints EXCEPT ![id] = IF services[id] = None THEN @ ELSE None]
  /\ UNCHANGED <<tasks, pods, nodes>>

(* An upsert; the foreign key refuses a service that is not there.         *)
SetEndpoints(c, id, subsets) ==
  /\ pending[c] = Idle
  /\ IF services[id] = None
       THEN Done(c, "error") /\ UNCHANGED endpoints
       ELSE Done(c, "ok") /\ endpoints' = [endpoints EXCEPT ![id] = subsets]
  /\ UNCHANGED <<tasks, pods, nodes, services>>

GetEndpoints(c, id) == Returns(c, Found(c, endpoints, id))

GetEndpointsByServiceName(c, name, namespace) == ByName(c, endpoints, name, namespace)

DeleteEndpoints(c, id) ==
  /\ Remove(c, endpoints, id, endpoints')
  /\ UNCHANGED <<tasks, pods, nodes, services>>

-----------------------------------------------------------------------------
TaskCalls(c) ==
  \/ ListTasks(c) \/ InsertTask(c) \/ SetTask(c)
  \/ \E id \in IDs :
       \/ GetTask(c, id) \/ DeleteTask(c, id)
       \/ \E task \in NewTasks : AddTask(c, id, task)
       \/ \E u \in TaskUpdates : UpdateTask(c, id, u)

PodCalls(c) ==
  \/ ListPods(c) \/ InsertPod(c) \/ SetPod(c)
  \/ \E labels \in Selectors : ListPodsByLabels(c, labels)
  \/ \E id \in IDs :
       \/ GetPod(c, id) \/ DeletePod(c, id)
       \/ \E pod \in NewPods : AddPod(c, id, pod)
       \/ \E u \in PodUpdates : UpdatePod(c, id, u)

NodeCalls(c) ==
  \/ ListNodes(c) \/ GetAvailableNodes(c) \/ InsertNode(c) \/ SetNode(c)
  \/ \E id \in IDs :
       \/ GetNode(c, id) \/ DeleteNode(c, id)
       \/ \E node \in NewNodes : AddNode(c, id, node)
       \/ \E u \in NodeUpdates : UpdateNode(c, id, u)

ServiceCalls(c) ==
  \/ InsertService(c) \/ SetService(c)
  \/ \E ns \in Namespaces \cup {Nil} : ListServices(c, ns)
  \/ \E n \in Names, ns \in Namespaces :
       GetServiceByName(c, n, ns) \/ GetEndpointsByServiceName(c, n, ns)
  \/ \E id \in IDs :
       \/ GetService(c, id) \/ DeleteService(c, id)
       \/ GetEndpoints(c, id) \/ DeleteEndpoints(c, id)
       \/ \E sel \in Selectors : AddService(c, id, sel) \/ UpdateService(c, id, sel)
       \/ \E s \in Subsets : SetEndpoints(c, id, s)

Next ==
  \E c \in Clients :
    TaskCalls(c) \/ PodCalls(c) \/ NodeCalls(c) \/ ServiceCalls(c) \/ StatementFails(c)

Spec == Init /\ [][Next]_vars
=============================================================================
