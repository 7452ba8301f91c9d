----------------------------- MODULE MemoryStore -----------------------------
(***************************************************************************)
(* InMemoryStore: five maps under one mutex, so that every call is a step. *)
(* A map without an entry for an ID is None there.                         *)
(***************************************************************************)
EXTENDS StoreData

VARIABLES tasks, pods, nodes, services, endpoints,
          answer   \* the last answer
maps == <<tasks, pods, nodes, services, endpoints>>
vars == <<maps, answer>>

(* NewInMemoryStore *)
Init ==
  /\ tasks     = [id \in IDs |-> None]
  /\ pods      = [id \in IDs |-> None]
  /\ nodes     = [id \in IDs |-> None]
  /\ services  = [id \in IDs |-> None]
  /\ endpoints = [id \in IDs |-> None]
  /\ answer    = Answer(None, "ok", {})

Refuses(c, err) == answer' = Answer(c, err, {}) /\ UNCHANGED maps
Returns(ans)    == answer' = ans /\ UNCHANGED maps
Done(c)         == answer' = Answer(c, "ok", {})

-----------------------------------------------------------------------------
AddTask(c, id, task) ==
  \/ tasks[id] /= None /\ Refuses(c, "exists")
  \/ /\ tasks[id] = None
     /\ tasks' = [tasks EXCEPT ![id] = task]
     /\ Done(c)
     /\ UNCHANGED <<pods, nodes, services, endpoints>>

GetTask(c, id) == Returns(Found(c, tasks, id))

UpdateTask(c, id, u) ==
  \/ tasks[id] = None /\ Refuses(c, "not found")
  \/ /\ tasks[id] /= None
     /\ tasks' = [tasks EXCEPT ![id] = Overwrite(@, u)]
     /\ Done(c)
     /\ UNCHANGED <<pods, nodes, services, endpoints>>

ListTasks(c) == Returns(Answer(c, "ok", AllRows(tasks)))

DeleteTask(c, id) ==
  \/ tasks[id] = None /\ Refuses(c, "not found")
  \/ /\ tasks[id] /= None
     /\ tasks' = [tasks EXCEPT ![id] = None]
     /\ Done(c)
     /\ UNCHANGED <<pods, nodes, services, endpoints>>

-----------------------------------------------------------------------------
AddPod(c, id, pod) ==
  \/ pods[id] /= None /\ Refuses(c, "exists")
  \/ /\ pods[id] = None
     /\ pods' = [pods EXCEPT ![id] = pod]
     /\ Done(c)
     /\ UNCHANGED <<tasks, nodes, services, endpoints>>

(* What a reader sees of the pods. *)
PodsShown == [id \in IDs |->
  IF pods[id] = None THEN None ELSE [pods[id] EXCEPT !.annotations = Shown(@)]]

GetPod(c, id) == Returns(Found(c, PodsShown, id))

(* Annotations are merged, into a new map if the pod has none. *)
Merge(pod, a) ==
  IF a = Nil THEN pod ELSE [pod EXCEPT !.annotations = Shown(@) \cup a]

UpdatePod(c, id, u) ==
  \/ pods[id] = None /\ Refuses(c, "not found")
  \/ /\ pods[id] /= None
     /\ pods' = [pods EXCEPT ![id] = Merge(Overwrite(@, u.fields), u.annotations)]
     /\ Done(c)
     /\ UNCHANGED <<tasks, nodes, services, endpoints>>

ListPods(c) == Returns(Answer(c, "ok", AllRows(PodsShown)))

DeletePod(c, id) ==
  \/ pods[id] = None /\ Refuses(c, "not found")
  \/ /\ pods[id] /= None
     /\ pods' = [pods EXCEPT ![id] = None]
     /\ Done(c)
     /\ UNCHANGED <<tasks, nodes, services, endpoints>>

ListPodsByLabels(c, labels) ==
  Returns(Answer(c, "ok", Rows(PodsShown, LAMBDA id : labels \subseteq pods[id].labels)))

-----------------------------------------------------------------------------
AddNode(c, id, node) ==
  \/ nodes[id] /= None /\ Refuses(c, "exists")
  \/ /\ nodes[id] = None
     /\ nodes' = [nodes EXCEPT ![id] = node]
     /\ Done(c)
     /\ UNCHANGED <<tasks, pods, services, endpoints>>

GetNode(c, id) == Returns(Found(c, nodes, id))

UpdateNode(c, id, u) ==
  \/ nodes[id] = None /\ Refuses(c, "not found")
  \/ /\ nodes[id] /= None
     /\ nodes' = [nodes EXCEPT ![id] = Overwrite(@, u)]
     /\ Done(c)
     /\ UNCHANGED <<tasks, pods, services, endpoints>>

ListNodes(c) == Returns(Answer(c, "ok", AllRows(nodes)))

DeleteNode(c, id) ==
  \/ nodes[id] = None /\ Refuses(c, "not found")
  \/ /\ nodes[id] /= None
     /\ nodes' = [nodes EXCEPT ![id] = None]
     /\ Done(c)
     /\ UNCHANGED <<tasks, pods, services, endpoints>>

(* Online is enough. *)
GetAvailableNodes(c) ==
  Returns(Answer(c, "ok", Rows(nodes, LAMBDA id : nodes[id].status = "online")))

-----------------------------------------------------------------------------
AddService(c, id, selector) ==
  \/ services[id] /= None /\ Refuses(c, "exists")
  \/ /\ services[id] = None
     /\ services' = [services EXCEPT ![id] = selector]
     /\ Done(c)
     /\ UNCHANGED <<tasks, pods, nodes, endpoints>>

GetService(c, id) == Returns(Found(c, services, id))

(* The first match in the map's random order. *)
ByName(c, table, name, namespace) ==
  LET match == {id \in IDs : /\ table[id] /= None
                             /\ Ident[id] = [name |-> name, namespace |-> namespace]}
  IN  \/ match = {} /\ Refuses(c, "not found")
      \/ \E id \in match : Returns(Found(c, table, id))

GetServiceByName(c, name, namespace) == ByName(c, services, name, namespace)

UpdateService(c, id, selector) ==
  \/ services[id] = None /\ Refuses(c, "not found")
  \/ /\ services[id] /= None
     /\ services' = [services EXCEPT ![id] = selector]
     /\ Done(c)
     /\ UNCHANGED <<tasks, pods, nodes, endpoints>>

(* Nil stands for the empty namespace: the services of all of them. *)
ListServices(c, namespace) ==
  Returns(Answer(c, "ok", Rows(services,
                               LAMBDA id : namespace \in {Nil, Ident[id].namespace})))

DeleteService(c, id) ==
  \/ services[id] = None /\ Refuses(c, "not found")
  \/ /\ services[id] /= None
     /\ services' = [services EXCEPT ![id] = None]
     /\ Done(c)
     /\ UNCHANGED <<tasks, pods, nodes, endpoints>>

SetEndpoints(c, id, subsets) ==
  /\ endpoints' = [endpoints EXCEPT ![id] = subsets]
  /\ Done(c)
  /\ UNCHANGED <<tasks, pods, nodes, services>>

GetEndpoints(c, id) == Returns(Found(c, endpoints, id))

GetEndpointsByServiceName(c, name, namespace) == ByName(c, endpoints, name, namespace)

DeleteEndpoints(c, id) ==
  \/ endpoints[id] = None /\ Refuses(c, "not found")
  \/ /\ endpoints[id] /= None
     /\ endpoints' = [endpoints EXCEPT ![id] = None]
     /\ Done(c)
     /\ UNCHANGED <<tasks, pods, nodes, services>>

-----------------------------------------------------------------------------
TaskCalls(c) ==
  \/ ListTasks(c)
  \/ \E id \in IDs :
       \/ GetTask(c, id) \/ DeleteTask(c, id)
       \/ \E task \in NewTasks : AddTask(c, id, task)
       \/ \E u \in TaskUpdates : UpdateTask(c, id, u)

PodCalls(c) ==
  \/ ListPods(c)
  \/ \E labels \in Selectors : ListPodsByLabels(c, labels)
  \/ \E id \in IDs :
       \/ GetPod(c, id) \/ DeletePod(c, id)
       \/ \E pod \in NewPods : AddPod(c, id, pod)
       \/ \E u \in PodUpdates : UpdatePod(c, id, u)

NodeCalls(c) ==
  \/ ListNodes(c) \/ GetAvailableNodes(c)
  \/ \E id \in IDs :
       \/ GetNode(c, id) \/ DeleteNode(c, id)
       \/ \E node \in NewNodes : AddNode(c, id, node)
       \/ \E u \in NodeUpdates : UpdateNode(c, id, u)

ServiceCalls(c) ==
  \/ \E ns \in Namespaces \cup {Nil} : ListServices(c, ns)
  \/ \E n \in Names, ns \in Namespaces :
       GetServiceByName(c, n, ns) \/ GetEndpointsByServiceName(c, n, ns)
  \/ \E id \in IDs :
       \/ GetService(c, id) \/ DeleteService(c, id)
       \/ GetEndpoints(c, id) \/ DeleteEndpoints(c, id)
       \/ \E sel \in Selectors : AddService(c, id, sel) \/ UpdateService(c, id, sel)
       \/ \E s \in Subsets : SetEndpoints(c, id, s)

Next == \E c \in Clients : TaskCalls(c) \/ PodCalls(c) \/ NodeCalls(c) \/ ServiceCalls(c)

Spec == Init /\ [][Next]_vars
=============================================================================
