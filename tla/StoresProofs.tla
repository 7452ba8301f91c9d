---------------------------- MODULE StoresProofs ----------------------------
(***************************************************************************)
(* Proofs about the stores, for any number of clients and rows, whatever   *)
(* the order of the statements and whichever of them fail.                 *)
(*                                                                         *)
(* PostgreSQL's foreign key keeps endpoints and services together. A       *)
(* statement that writes services writes what its first statement has      *)
(* prepared (ServiceWrites).                                               *)
(*                                                                         *)
(* Tables and prepared statements keep their types (StoresTypeInv).        *)
(*                                                                         *)
(* Every statement of either store is a step of the interface or one that  *)
(* callers do not see: an INSERT prepared is unseen, an UPDATE prepared is *)
(* the step Find, the statement that ends a call is the call. To read a    *)
(* row after PostgreSQL's update is to update what was read of it; for the *)
(* annotations of pods this holds as long as the column is a JSON object   *)
(* (AnnotationsAreObjects), which it is if pods come with a map.           *)
(***************************************************************************)
EXTENDS Stores, TLAPS

(* A statement that writes neither services nor endpoints, nor prepares to.*)
LEMMA OtherStatement ==
  ASSUME ServiceTables, UNCHANGED <<services, endpoints>>, NEW c, NEW next,
         next.stmt \notin {"insert service", "update service"},
         pending' = pending \/ pending' = [pending EXCEPT ![c] = next]
  PROVE  ServiceTables'
BY DEF ServiceTables, ServiceWrites

LEMMA ReadsKeepTables ==
  ASSUME ServiceTables, NEW c, NEW ans, Postgres!Returns(c, ans)
  PROVE  ServiceTables'
BY DEF Postgres!Returns, Postgres!tables, ServiceTables, ServiceWrites

LEMMA RefusalsKeepTables ==
  ASSUME ServiceTables, NEW c, NEW err, Postgres!Refuses(c, err)
  PROVE  ServiceTables'
BY ReadsKeepTables DEF Postgres!Refuses

LEMMA FirstStatement ==
  ASSUME ServiceTables, NEW c, NEW stmt, NEW id, NEW arg, Postgres!GoesOn(c, stmt, id, arg),
         stmt \in {"insert service", "update service"} => arg \in Selectors
  PROVE  ServiceTables'
<1> DEFINE next == [stmt |-> stmt, id |-> id, arg |-> arg]
<1>1. /\ next.stmt = stmt /\ next.arg = arg
      /\ pending' = [pending EXCEPT ![c] = next] /\ UNCHANGED <<services, endpoints>>
  BY DEF Postgres!GoesOn, Postgres!tables
<1> HIDE DEF next
<1> QED
  BY <1>1 DEF ServiceTables, ServiceWrites

(* The end of a call that wrote tasks, pods or nodes, or nothing.          *)
LEMMA LastStatement ==
  ASSUME ServiceTables, NEW c, NEW err, Postgres!Done(c, err),
         UNCHANGED <<services, endpoints>>
  PROVE  ServiceTables'
<1>1. Postgres!Idle.stmt \notin {"insert service", "update service"}
  BY DEF Postgres!Idle
<1> QED
  BY <1>1, OtherStatement DEF Postgres!Done

(* The end of a call that wrote services or endpoints.                     *)
LEMMA ServiceStatement ==
  ASSUME ServiceTables, NEW c, NEW err, Postgres!Done(c, err),
         DOMAIN services' = IDs, DOMAIN endpoints' = IDs,
         \A id \in IDs : endpoints'[id] /= None => services'[id] /= None
  PROVE  ServiceTables'
<1>1. Postgres!Idle.stmt \notin {"insert service", "update service"}
  BY DEF Postgres!Idle
<1> QED
  BY <1>1 DEF Postgres!Done, ServiceTables, ServiceWrites

LEMMA TaskCallsKeepTables ==
  ASSUME ServiceTables, NEW c \in Clients, Postgres!TaskCalls(c)
  PROVE  ServiceTables'
<1>1. CASE Postgres!ListTasks(c)
  BY <1>1, ReadsKeepTables DEF Postgres!ListTasks
<1>2. CASE Postgres!InsertTask(c) \/ Postgres!SetTask(c)
  <2>1. (\E err : Postgres!Done(c, err)) /\ UNCHANGED <<services, endpoints>>
    BY <1>2 DEF Postgres!InsertTask, Postgres!Insert, Postgres!SetTask
  <2> QED
    BY <2>1, LastStatement
<1>3. ASSUME NEW id \in IDs, Postgres!GetTask(c, id) PROVE ServiceTables'
  BY <1>3, ReadsKeepTables DEF Postgres!GetTask
<1>4. ASSUME NEW id \in IDs, Postgres!DeleteTask(c, id) PROVE ServiceTables'
  <2>1. (\E err : Postgres!Done(c, err)) /\ UNCHANGED <<services, endpoints>>
    BY <1>4 DEF Postgres!DeleteTask, Postgres!Remove
  <2> QED
    BY <2>1, LastStatement
<1>5. ASSUME NEW id \in IDs, NEW task \in NewTasks, Postgres!AddTask(c, id, task)
      PROVE  ServiceTables'
  BY <1>5, RefusalsKeepTables, FirstStatement DEF Postgres!AddTask
<1>6. ASSUME NEW id \in IDs, NEW u \in TaskUpdates, Postgres!UpdateTask(c, id, u)
      PROVE  ServiceTables'
  BY <1>6, RefusalsKeepTables, FirstStatement DEF Postgres!UpdateTask
<1> QED
  BY <1>1, <1>2, <1>3, <1>4, <1>5, <1>6 DEF Postgres!TaskCalls

LEMMA PodCallsKeepTables ==
  ASSUME ServiceTables, NEW c \in Clients, Postgres!PodCalls(c)
  PROVE  ServiceTables'
<1>1. CASE Postgres!ListPods(c)
  BY <1>1, ReadsKeepTables DEF Postgres!ListPods
<1>2. CASE Postgres!InsertPod(c) \/ Postgres!SetPod(c)
  <2>1. (\E err : Postgres!Done(c, err)) /\ UNCHANGED <<services, endpoints>>
    BY <1>2 DEF Postgres!InsertPod, Postgres!Insert, Postgres!SetPod
  <2> QED
    BY <2>1, LastStatement
<1>3. ASSUME NEW labels \in Selectors, Postgres!ListPodsByLabels(c, labels)
      PROVE  ServiceTables'
  <2>1. Postgres!Refuses(c, "error") \/ \E ans : Postgres!Returns(c, ans)
    BY <1>3 DEF Postgres!ListPodsByLabels
  <2> QED
    BY <2>1, ReadsKeepTables, RefusalsKeepTables
<1>4. ASSUME NEW id \in IDs, Postgres!GetPod(c, id) PROVE ServiceTables'
  BY <1>4, ReadsKeepTables DEF Postgres!GetPod
<1>5. ASSUME NEW id \in IDs, Postgres!DeletePod(c, id) PROVE ServiceTables'
  <2>1. (\E err : Postgres!Done(c, err)) /\ UNCHANGED <<services, endpoints>>
    BY <1>5 DEF Postgres!DeletePod, Postgres!Remove
  <2> QED
    BY <2>1, LastStatement
<1>6. ASSUME NEW id \in IDs, NEW pod \in NewPods, Postgres!AddPod(c, id, pod)
      PROVE  ServiceTables'
  BY <1>6, RefusalsKeepTables, FirstStatement DEF Postgres!AddPod
<1>7. ASSUME NEW id \in IDs, NEW u \in PodUpdates, Postgres!UpdatePod(c, id, u)
      PROVE  ServiceTables'
  BY <1>7, RefusalsKeepTables, FirstStatement DEF Postgres!UpdatePod
<1> QED
  BY <1>1, <1>2, <1>3, <1>4, <1>5, <1>6, <1>7 DEF Postgres!PodCalls

LEMMA NodeCallsKeepTables ==
  ASSUME ServiceTables, NEW c \in Clients, Postgres!NodeCalls(c)
  PROVE  ServiceTables'
<1>1. CASE Postgres!ListNodes(c)
  BY <1>1, ReadsKeepTables DEF Postgres!ListNodes
<1>2. CASE Postgres!GetAvailableNodes(c)
  BY <1>2, ReadsKeepTables DEF Postgres!GetAvailableNodes
<1>3. CASE Postgres!InsertNode(c) \/ Postgres!SetNode(c)
  <2>1. (\E err : Postgres!Done(c, err)) /\ UNCHANGED <<services, endpoints>>
    BY <1>3 DEF Postgres!InsertNode, Postgres!Insert, Postgres!SetNode
  <2> QED
    BY <2>1, LastStatement
<1>4. ASSUME NEW id \in IDs, Postgres!GetNode(c, id) PROVE ServiceTables'
  BY <1>4, ReadsKeepTables DEF Postgres!GetNode
<1>5. ASSUME NEW id \in IDs, Postgres!DeleteNode(c, id) PROVE ServiceTables'
  <2>1. (\E err : Postgres!Done(c, err)) /\ UNCHANGED <<services, endpoints>>
    BY <1>5 DEF Postgres!DeleteNode, Postgres!Remove
  <2> QED
    BY <2>1, LastStatement
<1>6. ASSUME NEW id \in IDs, NEW node \in NewNodes, Postgres!AddNode(c, id, node)
      PROVE  ServiceTables'
  BY <1>6, RefusalsKeepTables, FirstStatement DEF Postgres!AddNode
<1>7. ASSUME NEW id \in IDs, NEW u \in NodeUpdates, Postgres!UpdateNode(c, id, u)
      PROVE  ServiceTables'
  BY <1>7, RefusalsKeepTables, FirstStatement DEF Postgres!UpdateNode
<1> QED
  BY <1>1, <1>2, <1>3, <1>4, <1>5, <1>6, <1>7 DEF Postgres!NodeCalls

(* Services are written by what was prepared, endpoints only for a service *)
(* that is there, and a service leaves together with its endpoints.        *)
LEMMA ServiceCallsKeepTables ==
  ASSUME ServiceTables, NEW c \in Clients, Postgres!ServiceCalls(c)
  PROVE  ServiceTables'
<1>0. /\ DOMAIN services = IDs /\ DOMAIN endpoints = IDs
      /\ \A id \in IDs : endpoints[id] /= None => services[id] /= None
  BY DEF ServiceTables
<1>1. CASE Postgres!InsertService(c) \/ Postgres!SetService(c)
  <2>1. pending[c].arg /= None
    BY <1>1, StoreAssumption
       DEF Postgres!InsertService, Postgres!Insert, Postgres!SetService,
           ServiceTables, ServiceWrites
  <2>2. services' = services \/ services' = [services EXCEPT ![pending[c].id] = pending[c].arg]
    BY <1>1 DEF Postgres!InsertService, Postgres!Insert, Postgres!SetService
  <2>3. (\E err : Postgres!Done(c, err)) /\ UNCHANGED endpoints
    BY <1>1 DEF Postgres!InsertService, Postgres!Insert, Postgres!SetService
  <2>4. DOMAIN services' = IDs /\ \A id \in IDs : services[id] /= None => services'[id] /= None
    BY <1>0, <2>1, <2>2
  <2> QED
    BY <1>0, <2>3, <2>4, ServiceStatement
<1>2. ASSUME NEW ns, Postgres!ListServices(c, ns) PROVE ServiceTables'
  BY <1>2, ReadsKeepTables DEF Postgres!ListServices
<1>3. ASSUME NEW n, NEW ns,
             Postgres!GetServiceByName(c, n, ns) \/ Postgres!GetEndpointsByServiceName(c, n, ns)
      PROVE  ServiceTables'
  <2>1. Postgres!Refuses(c, "not found") \/ \E ans : Postgres!Returns(c, ans)
    BY <1>3 DEF Postgres!GetServiceByName, Postgres!GetEndpointsByServiceName, Postgres!ByName
  <2> QED
    BY <2>1, ReadsKeepTables, RefusalsKeepTables
<1>4. ASSUME NEW id \in IDs, Postgres!GetService(c, id) \/ Postgres!GetEndpoints(c, id)
      PROVE  ServiceTables'
  BY <1>4, ReadsKeepTables DEF Postgres!GetService, Postgres!GetEndpoints
<1>5. ASSUME NEW id \in IDs, Postgres!DeleteService(c, id) PROVE ServiceTables'
  <2>1. \E err : Postgres!Done(c, err)
    BY <1>5 DEF Postgres!DeleteService, Postgres!Remove
  <2>2. /\ services' = [services EXCEPT ![id] = None]
        /\ endpoints' = [endpoints EXCEPT ![id] = IF services[id] = None THEN @ ELSE None]
    BY <1>5 DEF Postgres!DeleteService, Postgres!Remove
  <2>3. \A i \in IDs : endpoints'[i] /= None => services'[i] /= None
    BY <1>0, <2>2
  <2> QED
    BY <1>0, <2>1, <2>2, <2>3, ServiceStatement
<1>6. ASSUME NEW id \in IDs, Postgres!DeleteEndpoints(c, id) PROVE ServiceTables'
  <2>1. (\E err : Postgres!Done(c, err)) /\ UNCHANGED services
    BY <1>6 DEF Postgres!DeleteEndpoints, Postgres!Remove
  <2>2. endpoints' = [endpoints EXCEPT ![id] = None]
    BY <1>6 DEF Postgres!DeleteEndpoints, Postgres!Remove
  <2> QED
    BY <1>0, <2>1, <2>2, ServiceStatement
<1>7. ASSUME NEW id \in IDs, NEW sel \in Selectors,
             Postgres!AddService(c, id, sel) \/ Postgres!UpdateService(c, id, sel)
      PROVE  ServiceTables'
  BY <1>7, RefusalsKeepTables, FirstStatement DEF Postgres!AddService, Postgres!UpdateService
<1>8. ASSUME NEW id \in IDs, NEW s \in Subsets, Postgres!SetEndpoints(c, id, s)
      PROVE  ServiceTables'
  <2>1. (\E err : Postgres!Done(c, err)) /\ UNCHANGED services
    BY <1>8 DEF Postgres!SetEndpoints
  <2>2. \/ endpoints' = endpoints
        \/ services[id] /= None /\ endpoints' = [endpoints EXCEPT ![id] = s]
    BY <1>8 DEF Postgres!SetEndpoints
  <2> QED
    BY <1>0, <2>1, <2>2, ServiceStatement
<1> QED
  BY <1>1, <1>2, <1>3, <1>4, <1>5, <1>6, <1>7, <1>8 DEF Postgres!ServiceCalls

LEMMA StoresInvInit == Init => StoresInv
<1> SUFFICES ASSUME Init PROVE StoresInv
  OBVIOUS
<1>1. /\ services  = [id \in IDs |-> None]
      /\ endpoints = [id \in IDs |-> None]
      /\ pending   = [c \in Clients |-> Postgres!Idle]
  BY DEF Init, Postgres!Init
<1>2. Postgres!Idle.stmt = "none"
  BY DEF Postgres!Idle
<1>3. \A c \in Clients : pending[c].stmt = "none"
  BY <1>1, <1>2
<1> QED
  BY <1>1, <1>3 DEF StoresInv, ServiceTables, ServiceWrites

LEMMA StoresInvStep ==
  ASSUME StoresInv, [Next]_vars
  PROVE  StoresInv'
<1>1. CASE UNCHANGED vars
  BY <1>1 DEF vars, StoresInv, ServiceTables, ServiceWrites
<1>2. CASE backend /= "postgres" /\ UNCHANGED backend
  BY <1>2 DEF StoresInv
<1>3. CASE backend = "postgres" /\ Postgres!Next /\ UNCHANGED backend
  <2>0. ServiceTables
    BY <1>3 DEF StoresInv
  <2>1. ASSUME NEW c \in Clients, Postgres!StatementFails(c) PROVE ServiceTables'
    BY <2>0, <2>1, LastStatement DEF Postgres!StatementFails, Postgres!tables
  <2>2. ServiceTables'
    BY <1>3, <2>0, <2>1, TaskCallsKeepTables, PodCallsKeepTables, NodeCallsKeepTables,
       ServiceCallsKeepTables DEF Postgres!Next
  <2> QED
    BY <1>3, <2>2 DEF StoresInv
<1> QED
  BY <1>1, <1>2, <1>3 DEF Next

(* With PostgreSQL, for any number of clients, services and statements in  *)
(* any order, stored endpoints are those of a stored service.              *)
THEOREM EndpointsKeepTheirService == Spec => []EndpointsHaveService
<1>1. StoresInv /\ [Next]_vars => StoresInv'
  BY StoresInvStep
<1>2. ASSUME StoresInv PROVE EndpointsHaveService
  BY <1>2 DEF StoresInv, ServiceTables, EndpointsHaveService
<1>3. StoresInv => EndpointsHaveService
  BY <1>2
<1> QED
  BY <1>1, <1>3, StoresInvInit, PTL DEF Spec

-----------------------------------------------------------------------------
(* Rows and values: what the stores keep, and what a reader sees of it.     *)

LEMMA OverwriteTask ==
  ASSUME NEW C, STRING \subseteq C, NEW u \in TaskUpdates,
         NEW row \in [status : STRING, nodeID : C, healthStatus : C]
  PROVE  [f \in DOMAIN row |-> IF f \in DOMAIN u THEN u[f] ELSE row[f]]
           \in [status : STRING, nodeID : C, healthStatus : C]
BY CallsAssumption

LEMMA OverwriteNode ==
  ASSUME NEW u \in NodeUpdates, NEW row \in NodeRecord
  PROVE  [f \in DOMAIN row |-> IF f \in DOMAIN u THEN u[f] ELSE row[f]] \in NodeRecord
BY CallsAssumption DEF NodeRecord

LEMMA OverwritePod ==
  ASSUME NEW P, NEW A, NEW u \in PodUpdates,
         NEW row \in [status : STRING, restartPolicy : P, labels : SUBSET Keys,
                      annotations : A]
  PROVE  [f \in DOMAIN row |-> IF f \in DOMAIN u.fields THEN u.fields[f] ELSE row[f]]
           \in [status : STRING, restartPolicy : P, labels : SUBSET Keys, annotations : A]
BY CallsAssumption

LEMMA RowsOfTasks ==
  ASSUME NEW t \in TaskRecord
  PROVE  /\ Postgres!TaskRow(t) \in Postgres!TaskRows
         /\ Postgres!TaskOf(Postgres!TaskRow(t)) = t
BY NullAssumption DEF TaskRecord, Postgres!TaskRow, Postgres!TaskRows, Postgres!TaskOf,
   Postgres!NullString, Postgres!String, Postgres!Column

LEMMA RowsOfPods ==
  ASSUME NEW p \in PodRecord
  PROVE  Postgres!PodRow(p) \in Postgres!PodRows
BY NullAssumption DEF PodRecord, Annotations, Postgres!PodRow, Postgres!PodRows, 
   Postgres!NullString, Postgres!JSON, Postgres!JSONB, Postgres!Shown, Postgres!Column

(* Records of the same fields are equal.                                   *)
LEMMA SameTask ==
  ASSUME NEW x \in TaskRecord, NEW y \in TaskRecord,
         x.status = y.status, x.nodeID = y.nodeID, x.healthStatus = y.healthStatus
  PROVE  x = y
BY DEF TaskRecord

LEMMA SamePod ==
  ASSUME NEW x \in PodRecord, NEW y \in PodRecord, x.status = y.status,
         x.restartPolicy = y.restartPolicy, x.labels = y.labels,
         x.annotations = y.annotations
  PROVE  x = y
BY DEF PodRecord

LEMMA ReadColumn == \A col \in Postgres!Column : Postgres!String(col) \in STRING
BY NullAssumption DEF Postgres!Column, Postgres!String

LEMMA TaskOfRow ==
  ASSUME NEW row \in Postgres!TaskRows
  PROVE  LET t == Postgres!TaskOf(row)
         IN  /\ t \in TaskRecord /\ t.status = row.status
             /\ t.nodeID = Postgres!String(row.nodeID)
             /\ t.healthStatus = Postgres!String(row.healthStatus)
BY ReadColumn DEF Postgres!TaskRows, Postgres!TaskOf, TaskRecord

(* To read a row after an update is to update what was read of it.         *)
LEMMA UpdatedTask ==
  ASSUME NEW row \in Postgres!TaskRows, NEW u \in TaskUpdates
  PROVE  /\ Postgres!Overwrite(row, u) \in Postgres!TaskRows
         /\ Postgres!TaskOf(Postgres!Overwrite(row, u))
              = Abstract!Overwrite(Postgres!TaskOf(row), u)
<1> DEFINE new  == Postgres!Overwrite(row, u)
           read == Postgres!TaskOf(row)
           goal == Abstract!Overwrite(read, u)
<1>1. new \in Postgres!TaskRows
  BY OverwriteTask DEF Postgres!TaskRows, Postgres!Overwrite, Postgres!Column
<1>2. goal \in TaskRecord
  BY TaskOfRow, OverwriteTask DEF TaskRecord, Abstract!Overwrite
<1>3. \A f \in {"status", "nodeID", "healthStatus"} :
        /\ new[f]  = IF f \in DOMAIN u THEN u[f] ELSE row[f]
        /\ goal[f] = IF f \in DOMAIN u THEN u[f] ELSE read[f]
  <2>1. DOMAIN row = {"status", "nodeID", "healthStatus"} /\ DOMAIN read = DOMAIN row
    BY TaskOfRow DEF Postgres!TaskRows, TaskRecord
  <2> HIDE DEF read
  <2> QED
    BY <2>1 DEF Postgres!Overwrite, Abstract!Overwrite
<1>4. \A f \in DOMAIN u : Postgres!String(u[f]) = u[f]
  BY NullAssumption, CallsAssumption DEF Postgres!String
<1> HIDE DEF new, goal
<1>5. /\ Postgres!TaskOf(new) \in TaskRecord
      /\ Postgres!TaskOf(new).status = new.status
      /\ Postgres!TaskOf(new).nodeID = Postgres!String(new.nodeID)
      /\ Postgres!TaskOf(new).healthStatus = Postgres!String(new.healthStatus)
  BY <1>1, TaskOfRow
<1>6. /\ read.status = row.status /\ read.nodeID = Postgres!String(row.nodeID)
      /\ read.healthStatus = Postgres!String(row.healthStatus)
  BY TaskOfRow
<1> HIDE DEF read
<1>7. Postgres!TaskOf(new) = goal
  BY <1>2, <1>3, <1>4, <1>5, <1>6, SameTask
<1> QED
  BY <1>1, <1>7 DEF new, goal, read

LEMMA PodReadBack ==
  ASSUME NEW p \in PodRecord
  PROVE  Postgres!PodOf(Postgres!PodRow(p)) = [p EXCEPT !.annotations = Abstract!Shown(@)]
BY NullAssumption, StoreAssumption DEF PodRecord, Annotations, Postgres!PodRow, Postgres!PodOf,
   Postgres!NullString, Postgres!String, Postgres!JSON, Postgres!Shown, Abstract!Shown

LEMMA PodOfRow ==
  ASSUME NEW row \in Postgres!PodRows
  PROVE  LET p == Postgres!PodOf(row)
         IN  /\ p \in PodRecord /\ p.status = row.status /\ p.labels = row.labels
             /\ p.restartPolicy = Postgres!String(row.restartPolicy)
             /\ row.annotations.json = "object" => p.annotations = row.annotations.keys
<1> DEFINE a == IF row.annotations.json = "object" THEN row.annotations.keys ELSE {}
<1>1. a \in Annotations
  BY DEF Postgres!PodRows, Postgres!JSONB, Annotations
<1>2. Postgres!PodOf(row)
        = [row EXCEPT !.annotations = a, !.restartPolicy = Postgres!String(@)]
  BY DEF Postgres!PodOf
<1> HIDE DEF a
<1>3. LET p == Postgres!PodOf(row)
      IN  /\ p \in PodRecord /\ p.status = row.status /\ p.labels = row.labels
          /\ p.restartPolicy = Postgres!String(row.restartPolicy) /\ p.annotations = a
  BY <1>1, <1>2, ReadColumn DEF Postgres!PodRows, PodRecord
<1> QED
  BY <1>3 DEF a

(* The merge of annotations that are an object is the union.               *)
LEMMA MergedObjects ==
  ASSUME NEW j \in Postgres!JSONB, j.json = "object", NEW a \in Annotations
  PROVE  LET m == Postgres!Merged(j, a)
         IN  /\ m \in Postgres!JSONB /\ m.json = "object"
             /\ m.keys = j.keys \cup Abstract!Shown(a)
BY DEF Postgres!Merged, Postgres!Concat, Postgres!JSON, Postgres!JSONB, Postgres!Shown,
   Abstract!Shown, Annotations

LEMMA SetPodIsRow ==
  ASSUME NEW row \in Postgres!PodRows, NEW u \in PodUpdates
  PROVE  Postgres!UpdatedRow(row, u) \in Postgres!PodRows
<1> DEFINE over == Postgres!Overwrite(row, u.fields)
           a    == Postgres!Merged(over.annotations, u.annotations)
<1>1. over \in Postgres!PodRows /\ u.annotations \in Annotations
  BY OverwritePod, CallsAssumption DEF Postgres!PodRows, Postgres!Overwrite
<1> HIDE DEF over
<1>2. a \in Postgres!JSONB
  BY <1>1 DEF Postgres!PodRows, Postgres!Merged, Postgres!Concat, Postgres!EmptyObject,
              Postgres!JSON, Postgres!JSONB, Postgres!Shown, Annotations
<1> HIDE DEF a
<1>3. [over EXCEPT !.annotations = a] \in Postgres!PodRows
  BY <1>1, <1>2 DEF Postgres!PodRows
<1> QED
  BY <1>3 DEF over, a, Postgres!UpdatedRow

LEMMA UpdatedPod ==
  ASSUME NEW row \in Postgres!PodRows, row.annotations.json = "object",
         NEW u \in PodUpdates
  PROVE  LET new == Postgres!UpdatedRow(row, u)
         IN  /\ new \in Postgres!PodRows /\ new.annotations.json = "object"
             /\ Postgres!PodOf(new)
                  = [Abstract!Overwrite(Postgres!PodOf(row), u.fields) EXCEPT
                       !.annotations = @ \cup Abstract!Shown(u.annotations)]
<1> DEFINE over == Postgres!Overwrite(row, u.fields)
           a    == Postgres!Merged(row.annotations, u.annotations)
           new  == [over EXCEPT !.annotations = a]
           read == Postgres!PodOf(row)
           next == Abstract!Overwrite(read, u.fields)
           b    == read.annotations \cup Abstract!Shown(u.annotations)
           goal == [next EXCEPT !.annotations = b]
<1>0. /\ DOMAIN u.fields \subseteq {"status"} /\ u.annotations \in Annotations
      /\ \A f \in DOMAIN u.fields : u.fields[f] \in STRING
  BY CallsAssumption
<1>1. /\ over \in Postgres!PodRows
      /\ over.status = IF "status" \in DOMAIN u.fields THEN u.fields["status"] ELSE row.status
      /\ over.restartPolicy = row.restartPolicy /\ over.labels = row.labels
      /\ over.annotations = row.annotations
  BY <1>0, OverwritePod DEF Postgres!PodRows, Postgres!Overwrite
<1>2. /\ read \in PodRecord /\ read.status = row.status /\ read.labels = row.labels
      /\ read.restartPolicy = Postgres!String(row.restartPolicy)
      /\ read.annotations = row.annotations.keys
  BY PodOfRow
<1> HIDE DEF read
<1>3. /\ next \in PodRecord
      /\ next.status = IF "status" \in DOMAIN u.fields THEN u.fields["status"] ELSE read.status
      /\ next.restartPolicy = read.restartPolicy /\ next.labels = read.labels
      /\ next.annotations = read.annotations
  BY <1>0, <1>2, OverwritePod DEF PodRecord, Abstract!Overwrite
<1>4. row.annotations \in Postgres!JSONB /\ row.annotations.keys \in SUBSET Keys
  BY DEF Postgres!PodRows, Postgres!JSONB
<1>5. a \in Postgres!JSONB /\ a.json = "object" /\ a.keys = b
  BY <1>0, <1>2, <1>4, MergedObjects
<1>6. b \in Annotations
  BY <1>0, <1>2, <1>4 DEF Abstract!Shown, Annotations
<1> HIDE DEF over, next, a, b
<1>7. /\ new \in Postgres!PodRows /\ new.annotations = a /\ new.status = over.status
      /\ new.restartPolicy = over.restartPolicy /\ new.labels = over.labels
  BY <1>1, <1>5 DEF Postgres!PodRows
<1>8. /\ goal \in PodRecord /\ goal.annotations = b /\ goal.status = next.status
      /\ goal.restartPolicy = next.restartPolicy /\ goal.labels = next.labels
  BY <1>3, <1>6 DEF PodRecord
<1> HIDE DEF new, goal
<1>9. LET p == Postgres!PodOf(new)
      IN  /\ p \in PodRecord /\ p.status = new.status /\ p.labels = new.labels
          /\ p.restartPolicy = Postgres!String(new.restartPolicy)
          /\ p.annotations = new.annotations.keys
  BY <1>5, <1>7, PodOfRow
<1>10. Postgres!PodOf(new) = goal
  BY <1>1, <1>2, <1>3, <1>5, <1>7, <1>8, <1>9, SamePod
<1>11. /\ new = Postgres!UpdatedRow(row, u)
       /\ goal = [Abstract!Overwrite(Postgres!PodOf(row), u.fields) EXCEPT
                    !.annotations = @ \cup Abstract!Shown(u.annotations)]
  <2>1. over.annotations = row.annotations /\ next.annotations = read.annotations
    BY <1>1, <1>3
  <2> QED
    BY <2>1 DEF new, goal, over, next, a, b, read, Postgres!UpdatedRow
<1> QED
  BY <1>5, <1>7, <1>10, <1>11

-----------------------------------------------------------------------------
(* Types: PostgreSQL, statement by statement. *)

TablesTyped ==
  /\ tasks     \in [IDs -> {None} \cup TaskTable]
  /\ pods      \in [IDs -> {None} \cup PodTable]
  /\ nodes     \in [IDs -> {None} \cup NodeRecord]
  /\ services  \in [IDs -> Selectors \cup {None}]
  /\ endpoints \in [IDs -> Subsets \cup {None}]

LEMMA ReadsKeepTypes ==
  ASSUME TypeOK, UNCHANGED backend, NEW c, NEW ans, Postgres!Returns(c, ans)
  PROVE  TypeOK'
BY DEF Postgres!Returns, Postgres!tables, TypeOK, TaskTable, PodTable

LEMMA RefusalsKeepTypes ==
  ASSUME TypeOK, UNCHANGED backend, NEW c, NEW err, Postgres!Refuses(c, err)
  PROVE  TypeOK'
BY ReadsKeepTypes DEF Postgres!Refuses

LEMMA FirstKeepsTypes ==
  ASSUME TypeOK, UNCHANGED backend, NEW c, NEW stmt, NEW id, NEW arg,
         Postgres!GoesOn(c, stmt, id, arg),
         [stmt |-> stmt, id |-> id, arg |-> arg] \in PendingInserts \cup PendingUpdates
  PROVE  TypeOK'
<1> DEFINE next == [stmt |-> stmt, id |-> id, arg |-> arg]
           Statements == {Postgres!Idle} \cup PendingInserts \cup PendingUpdates
<1>1. UNCHANGED <<tasks, pods, nodes, services, endpoints>>
  BY DEF Postgres!GoesOn, Postgres!tables
<1>2. pending' = [pending EXCEPT ![c] = next]
  BY DEF Postgres!GoesOn
<1>3. next \in Statements /\ pending \in [Clients -> Statements]
  BY DEF TypeOK
<1> HIDE DEF next, Statements
<1>4. pending' \in [Clients -> Statements]
  BY <1>2, <1>3
<1> QED
  BY <1>1, <1>4 DEF TypeOK, TaskTable, PodTable, Statements

LEMMA LastKeepsTypes ==
  ASSUME TypeOK, UNCHANGED backend, NEW c, NEW err, Postgres!Done(c, err), TablesTyped'
  PROVE  TypeOK'
<1> DEFINE Statements == {Postgres!Idle} \cup PendingInserts \cup PendingUpdates
<1>1. Postgres!Idle \in Statements /\ pending \in [Clients -> Statements]
  BY DEF TypeOK
<1>2. pending' = [pending EXCEPT ![c] = Postgres!Idle]
  BY DEF Postgres!Done
<1> HIDE DEF Statements
<1>3. pending' \in [Clients -> Statements]
  BY <1>1, <1>2
<1> QED
  BY <1>3 DEF TypeOK, TablesTyped, Statements

(* What a client has still to execute fits the table.                      *)
LEMMA PendingFits ==
  ASSUME TypeOK, NEW c \in Clients
  PROVE  LET p == pending[c] IN
         /\ p.stmt = "insert task"    => /\ p.id \in IDs
                                         /\ \E t \in NewTasks : p.arg = Postgres!TaskRow(t)
         /\ p.stmt = "insert pod"     => /\ p.id \in IDs
                                         /\ \E q \in NewPods : p.arg = Postgres!PodRow(q)
         /\ p.stmt = "insert node"    => p.id \in IDs /\ p.arg \in NewNodes
         /\ p.stmt = "insert service" => p.id \in IDs /\ p.arg \in Selectors
         /\ p.stmt = "update task"    => p.id \in IDs /\ p.arg \in TaskUpdates
         /\ p.stmt = "update pod"     => p.id \in IDs /\ p.arg \in PodUpdates
         /\ p.stmt = "update node"    => p.id \in IDs /\ p.arg \in NodeUpdates
         /\ p.stmt = "update service" => p.id \in IDs /\ p.arg \in Selectors
<1>1. pending[c] \in {Postgres!Idle} \cup PendingInserts \cup PendingUpdates
  BY DEF TypeOK
<1>2. Postgres!Idle.stmt = "none"
  BY DEF Postgres!Idle
<1>3. CASE pending[c] = Postgres!Idle
  BY <1>2, <1>3
<1>4. CASE pending[c] \in PendingInserts
  BY <1>4 DEF PendingInserts
<1>5. CASE pending[c] \in PendingUpdates
  BY <1>5 DEF PendingUpdates
<1> QED
  BY <1>1, <1>3, <1>4, <1>5

LEMMA TaskCallsKeepTypes ==
  ASSUME TypeOK, backend = "postgres", UNCHANGED backend, NEW c \in Clients,
         Postgres!TaskCalls(c)
  PROVE  TypeOK'
<1>0. /\ tasks \in [IDs -> {None} \cup Postgres!TaskRows]
      /\ UNCHANGED <<pods, nodes, services, endpoints>>
           /\ tasks' \in [IDs -> {None} \cup Postgres!TaskRows] => TablesTyped'
  BY DEF TypeOK, TablesTyped, TaskTable, PodTable
<1>1. CASE Postgres!ListTasks(c)
  BY <1>1, ReadsKeepTypes DEF Postgres!ListTasks
<1>2. CASE Postgres!InsertTask(c)
  <2>1. pending[c].id \in IDs /\ pending[c].arg \in Postgres!TaskRows
    BY <1>2, PendingFits, RowsOfTasks, CallsAssumption
       DEF Postgres!InsertTask, Postgres!Insert
  <2>2. (\E err : Postgres!Done(c, err)) /\ TablesTyped'
    BY <1>0, <1>2, <2>1 DEF Postgres!InsertTask, Postgres!Insert
  <2> QED
    BY <2>2, LastKeepsTypes
<1>3. CASE Postgres!SetTask(c)
  <2>1. pending[c].id \in IDs /\ pending[c].arg \in TaskUpdates
    BY <1>3, PendingFits DEF Postgres!SetTask
  <2>2. tasks[pending[c].id] /= None =>
          Postgres!Overwrite(tasks[pending[c].id], pending[c].arg) \in Postgres!TaskRows
    BY <1>0, <2>1, UpdatedTask
  <2>3. Postgres!Done(c, "ok") /\ TablesTyped'
    BY <1>0, <1>3, <2>1, <2>2 DEF Postgres!SetTask
  <2> QED
    BY <2>3, LastKeepsTypes
<1>4. ASSUME NEW id \in IDs, Postgres!GetTask(c, id) PROVE TypeOK'
  BY <1>4, ReadsKeepTypes DEF Postgres!GetTask
<1>5. ASSUME NEW id \in IDs, Postgres!DeleteTask(c, id) PROVE TypeOK'
  <2>1. (\E err : Postgres!Done(c, err)) /\ TablesTyped'
    BY <1>0, <1>5 DEF Postgres!DeleteTask, Postgres!Remove
  <2> QED
    BY <2>1, LastKeepsTypes
<1>6. ASSUME NEW id \in IDs, NEW task \in NewTasks, Postgres!AddTask(c, id, task)
      PROVE  TypeOK'
  <2>1. [stmt |-> "insert task", id |-> id, arg |-> Postgres!TaskRow(task)] \in PendingInserts
    BY DEF PendingInserts
  <2> QED
    BY <1>6, <2>1, RefusalsKeepTypes, FirstKeepsTypes DEF Postgres!AddTask
<1>7. ASSUME NEW id \in IDs, NEW u \in TaskUpdates, Postgres!UpdateTask(c, id, u)
      PROVE  TypeOK'
  <2>1. [stmt |-> "update task", id |-> id, arg |-> u] \in PendingUpdates
    BY DEF PendingUpdates
  <2> QED
    BY <1>7, <2>1, RefusalsKeepTypes, FirstKeepsTypes DEF Postgres!UpdateTask
<1> QED
  BY <1>1, <1>2, <1>3, <1>4, <1>5, <1>6, <1>7 DEF Postgres!TaskCalls

LEMMA PodCallsKeepTypes ==
  ASSUME TypeOK, backend = "postgres", UNCHANGED backend, NEW c \in Clients,
         Postgres!PodCalls(c)
  PROVE  TypeOK'
<1>0. /\ pods \in [IDs -> {None} \cup Postgres!PodRows]
      /\ UNCHANGED <<tasks, nodes, services, endpoints>>
           /\ pods' \in [IDs -> {None} \cup Postgres!PodRows] => TablesTyped'
  BY DEF TypeOK, TablesTyped, TaskTable, PodTable
<1>1. CASE Postgres!ListPods(c)
  BY <1>1, ReadsKeepTypes DEF Postgres!ListPods
<1>2. CASE Postgres!InsertPod(c)
  <2>1. pending[c].id \in IDs /\ pending[c].arg \in Postgres!PodRows
    BY <1>2, PendingFits, RowsOfPods, CallsAssumption
       DEF Postgres!InsertPod, Postgres!Insert
  <2>2. (\E err : Postgres!Done(c, err)) /\ TablesTyped'
    BY <1>0, <1>2, <2>1 DEF Postgres!InsertPod, Postgres!Insert
  <2> QED
    BY <2>2, LastKeepsTypes
<1>3. CASE Postgres!SetPod(c)
  <2>1. pending[c].id \in IDs /\ pending[c].arg \in PodUpdates
    BY <1>3, PendingFits DEF Postgres!SetPod
  <2>2. pods[pending[c].id] /= None =>
          Postgres!UpdatedRow(pods[pending[c].id], pending[c].arg) \in Postgres!PodRows
    BY <1>0, <2>1, SetPodIsRow
  <2>3. Postgres!Done(c, "ok") /\ TablesTyped'
    BY <1>0, <1>3, <2>1, <2>2 DEF Postgres!SetPod
  <2> QED
    BY <2>3, LastKeepsTypes
<1>4. ASSUME NEW labels \in Selectors, Postgres!ListPodsByLabels(c, labels)
      PROVE  TypeOK'
  <2>1. Postgres!Refuses(c, "error") \/ \E ans : Postgres!Returns(c, ans)
    BY <1>4 DEF Postgres!ListPodsByLabels
  <2> QED
    BY <2>1, ReadsKeepTypes, RefusalsKeepTypes
<1>5. ASSUME NEW id \in IDs, Postgres!GetPod(c, id) PROVE TypeOK'
  BY <1>5, ReadsKeepTypes DEF Postgres!GetPod
<1>6. ASSUME NEW id \in IDs, Postgres!DeletePod(c, id) PROVE TypeOK'
  <2>1. (\E err : Postgres!Done(c, err)) /\ TablesTyped'
    BY <1>0, <1>6 DEF Postgres!DeletePod, Postgres!Remove
  <2> QED
    BY <2>1, LastKeepsTypes
<1>7. ASSUME NEW id \in IDs, NEW pod \in NewPods, Postgres!AddPod(c, id, pod)
      PROVE  TypeOK'
  <2>1. [stmt |-> "insert pod", id |-> id, arg |-> Postgres!PodRow(pod)] \in PendingInserts
    BY DEF PendingInserts
  <2> QED
    BY <1>7, <2>1, RefusalsKeepTypes, FirstKeepsTypes DEF Postgres!AddPod
<1>8. ASSUME NEW id \in IDs, NEW u \in PodUpdates, Postgres!UpdatePod(c, id, u)
      PROVE  TypeOK'
  <2>1. [stmt |-> "update pod", id |-> id, arg |-> u] \in PendingUpdates
    BY DEF PendingUpdates
  <2> QED
    BY <1>8, <2>1, RefusalsKeepTypes, FirstKeepsTypes DEF Postgres!UpdatePod
<1> QED
  BY <1>1, <1>2, <1>3, <1>4, <1>5, <1>6, <1>7, <1>8 DEF Postgres!PodCalls

LEMMA NodeCallsKeepTypes ==
  ASSUME TypeOK, backend = "postgres", UNCHANGED backend, NEW c \in Clients,
         Postgres!NodeCalls(c)
  PROVE  TypeOK'
<1>0. /\ nodes \in [IDs -> {None} \cup NodeRecord]
      /\ UNCHANGED <<tasks, pods, services, endpoints>>
           /\ nodes' \in [IDs -> {None} \cup NodeRecord] => TablesTyped'
  BY DEF TypeOK, TablesTyped, TaskTable, PodTable
<1>1. CASE Postgres!ListNodes(c) \/ Postgres!GetAvailableNodes(c)
  BY <1>1, ReadsKeepTypes DEF Postgres!ListNodes, Postgres!GetAvailableNodes
<1>2. CASE Postgres!InsertNode(c)
  <2>1. pending[c].id \in IDs /\ pending[c].arg \in NodeRecord
    BY <1>2, PendingFits, CallsAssumption DEF Postgres!InsertNode, Postgres!Insert
  <2>2. (\E err : Postgres!Done(c, err)) /\ TablesTyped'
    BY <1>0, <1>2, <2>1 DEF Postgres!InsertNode, Postgres!Insert
  <2> QED
    BY <2>2, LastKeepsTypes
<1>3. CASE Postgres!SetNode(c)
  <2>1. pending[c].id \in IDs /\ pending[c].arg \in NodeUpdates
    BY <1>3, PendingFits DEF Postgres!SetNode
  <2>2. nodes[pending[c].id] /= None =>
          Postgres!Overwrite(nodes[pending[c].id], pending[c].arg) \in NodeRecord
    BY <1>0, <2>1, OverwriteNode DEF Postgres!Overwrite
  <2>3. Postgres!Done(c, "ok") /\ TablesTyped'
    BY <1>0, <1>3, <2>1, <2>2 DEF Postgres!SetNode
  <2> QED
    BY <2>3, LastKeepsTypes
<1>4. ASSUME NEW id \in IDs, Postgres!GetNode(c, id) PROVE TypeOK'
  BY <1>4, ReadsKeepTypes DEF Postgres!GetNode
<1>5. ASSUME NEW id \in IDs, Postgres!DeleteNode(c, id) PROVE TypeOK'
  <2>1. (\E err : Postgres!Done(c, err)) /\ TablesTyped'
    BY <1>0, <1>5 DEF Postgres!DeleteNode, Postgres!Remove
  <2> QED
    BY <2>1, LastKeepsTypes
<1>6. ASSUME NEW id \in IDs, NEW node \in NewNodes, Postgres!AddNode(c, id, node)
      PROVE  TypeOK'
  <2>1. [stmt |-> "insert node", id |-> id, arg |-> node] \in PendingInserts
    BY DEF PendingInserts
  <2> QED
    BY <1>6, <2>1, RefusalsKeepTypes, FirstKeepsTypes DEF Postgres!AddNode
<1>7. ASSUME NEW id \in IDs, NEW u \in NodeUpdates, Postgres!UpdateNode(c, id, u)
      PROVE  TypeOK'
  <2>1. [stmt |-> "update node", id |-> id, arg |-> u] \in PendingUpdates
    BY DEF PendingUpdates
  <2> QED
    BY <1>7, <2>1, RefusalsKeepTypes, FirstKeepsTypes DEF Postgres!UpdateNode
<1> QED
  BY <1>1, <1>2, <1>3, <1>4, <1>5, <1>6, <1>7 DEF Postgres!NodeCalls

LEMMA ServiceCallsKeepTypes ==
  ASSUME TypeOK, backend = "postgres", UNCHANGED backend, NEW c \in Clients,
         Postgres!ServiceCalls(c)
  PROVE  TypeOK'
<1>0. /\ services \in [IDs -> Selectors \cup {None}]
      /\ endpoints \in [IDs -> Subsets \cup {None}]
      /\ UNCHANGED <<tasks, pods, nodes>>
           /\ services' \in [IDs -> Selectors \cup {None}]
           /\ endpoints' \in [IDs -> Subsets \cup {None}] => TablesTyped'
  BY DEF TypeOK, TablesTyped, TaskTable, PodTable
<1>1. CASE Postgres!InsertService(c)
  <2>1. pending[c].id \in IDs /\ pending[c].arg \in Selectors
    BY <1>1, PendingFits DEF Postgres!InsertService, Postgres!Insert
  <2>2. (\E err : Postgres!Done(c, err)) /\ TablesTyped'
    BY <1>0, <1>1, <2>1 DEF Postgres!InsertService, Postgres!Insert
  <2> QED
    BY <2>2, LastKeepsTypes
<1>2. CASE Postgres!SetService(c)
  <2>1. pending[c].id \in IDs /\ pending[c].arg \in Selectors
    BY <1>2, PendingFits DEF Postgres!SetService
  <2>2. Postgres!Done(c, "ok") /\ TablesTyped'
    BY <1>0, <1>2, <2>1 DEF Postgres!SetService
  <2> QED
    BY <2>2, LastKeepsTypes
<1>3. ASSUME NEW ns, Postgres!ListServices(c, ns) PROVE TypeOK'
  BY <1>3, ReadsKeepTypes DEF Postgres!ListServices
<1>4. ASSUME NEW n, NEW ns,
             Postgres!GetServiceByName(c, n, ns) \/ Postgres!GetEndpointsByServiceName(c, n, ns)
      PROVE  TypeOK'
  <2>1. Postgres!Refuses(c, "not found") \/ \E ans : Postgres!Returns(c, ans)
    BY <1>4 DEF Postgres!GetServiceByName, Postgres!GetEndpointsByServiceName, Postgres!ByName
  <2> QED
    BY <2>1, ReadsKeepTypes, RefusalsKeepTypes
<1>5. ASSUME NEW id \in IDs, Postgres!GetService(c, id) \/ Postgres!GetEndpoints(c, id)
      PROVE  TypeOK'
  BY <1>5, ReadsKeepTypes DEF Postgres!GetService, Postgres!GetEndpoints
<1>6. ASSUME NEW id \in IDs, Postgres!DeleteService(c, id) \/ Postgres!DeleteEndpoints(c, id)
      PROVE  TypeOK'
  <2>1. (\E err : Postgres!Done(c, err)) /\ TablesTyped'
    BY <1>0, <1>6 DEF Postgres!DeleteService, Postgres!DeleteEndpoints, Postgres!Remove
  <2> QED
    BY <2>1, LastKeepsTypes
<1>7. ASSUME NEW id \in IDs, NEW sel \in Selectors, Postgres!AddService(c, id, sel)
      PROVE  TypeOK'
  <2>1. [stmt |-> "insert service", id |-> id, arg |-> sel] \in PendingInserts
    BY DEF PendingInserts
  <2> QED
    BY <1>7, <2>1, RefusalsKeepTypes, FirstKeepsTypes DEF Postgres!AddService
<1>8. ASSUME NEW id \in IDs, NEW sel \in Selectors, Postgres!UpdateService(c, id, sel)
      PROVE  TypeOK'
  <2>1. [stmt |-> "update service", id |-> id, arg |-> sel] \in PendingUpdates
    BY DEF PendingUpdates
  <2> QED
    BY <1>8, <2>1, RefusalsKeepTypes, FirstKeepsTypes DEF Postgres!UpdateService
<1>9. ASSUME NEW id \in IDs, NEW s \in Subsets, Postgres!SetEndpoints(c, id, s)
      PROVE  TypeOK'
  <2>1. (\E err : Postgres!Done(c, err)) /\ TablesTyped'
    BY <1>0, <1>9 DEF Postgres!SetEndpoints
  <2> QED
    BY <2>1, LastKeepsTypes
<1> QED
  BY <1>1, <1>2, <1>3, <1>4, <1>5, <1>6, <1>7, <1>8, <1>9 DEF Postgres!ServiceCalls

LEMMA PostgresKeepsTypes ==
  ASSUME TypeOK, backend = "postgres", UNCHANGED backend, NEW c \in Clients,
         \/ Postgres!TaskCalls(c) \/ Postgres!PodCalls(c) \/ Postgres!NodeCalls(c)
         \/ Postgres!ServiceCalls(c) \/ Postgres!StatementFails(c)
  PROVE  TypeOK'
<1>1. CASE Postgres!StatementFails(c)
  <2>1. Postgres!Done(c, "error") /\ TablesTyped'
    BY <1>1 DEF Postgres!StatementFails, Postgres!tables, TypeOK, TablesTyped, TaskTable,
                PodTable
  <2> QED
    BY <2>1, LastKeepsTypes
<1> QED
  BY <1>1, TaskCallsKeepTypes, PodCallsKeepTypes, NodeCallsKeepTypes, ServiceCallsKeepTypes

-----------------------------------------------------------------------------
(* Types: the memory store, call by call. *)

LEMMA ShownPod ==
  ASSUME NEW p \in PodRecord
  PROVE  LET q == [p EXCEPT !.annotations = Memory!Shown(@)]
         IN  /\ q \in PodRecord /\ q.status = p.status /\ q.labels = p.labels
             /\ q.restartPolicy = p.restartPolicy
             /\ q.annotations = Memory!Shown(p.annotations)
             /\ q.annotations \in SUBSET Keys
BY DEF PodRecord, Annotations, Memory!Shown

(* Merging shows the union to the reader.                                  *)
LEMMA MergedPod ==
  ASSUME NEW row \in PodRecord, NEW u \in PodUpdates
  PROVE  LET new == Memory!Merge(Memory!Overwrite(row, u.fields), u.annotations)
             old == [row EXCEPT !.annotations = Memory!Shown(@)]
         IN  /\ new \in PodRecord
             /\ [new EXCEPT !.annotations = Memory!Shown(@)]
                  = [Abstract!Overwrite(old, u.fields) EXCEPT
                       !.annotations = @ \cup Abstract!Shown(u.annotations)]
<1> DEFINE over == Memory!Overwrite(row, u.fields)
           a    == Memory!Shown(over.annotations)
           new  == Memory!Merge(over, u.annotations)
           old  == [row EXCEPT !.annotations = Memory!Shown(@)]
           next == Abstract!Overwrite(old, u.fields)
           b    == old.annotations \cup Abstract!Shown(u.annotations)
           goal == [next EXCEPT !.annotations = b]
           seen == [new EXCEPT !.annotations = Memory!Shown(@)]
<1>0. /\ DOMAIN u.fields \subseteq {"status"} /\ u.annotations \in Annotations
      /\ \A f \in DOMAIN u.fields : u.fields[f] \in STRING
  BY CallsAssumption
<1>1. /\ over \in PodRecord
      /\ over.status = IF "status" \in DOMAIN u.fields THEN u.fields["status"] ELSE row.status
      /\ over.restartPolicy = row.restartPolicy /\ over.labels = row.labels
      /\ over.annotations = row.annotations
  BY <1>0, OverwritePod DEF PodRecord, Memory!Overwrite
<1>2. /\ old \in PodRecord /\ old.status = row.status /\ old.labels = row.labels
      /\ old.restartPolicy = row.restartPolicy
      /\ old.annotations = Memory!Shown(row.annotations)
      /\ old.annotations \in SUBSET Keys
  BY ShownPod
<1> HIDE DEF old
<1>3. /\ next \in PodRecord
      /\ next.status = IF "status" \in DOMAIN u.fields THEN u.fields["status"] ELSE old.status
      /\ next.restartPolicy = old.restartPolicy /\ next.labels = old.labels
      /\ next.annotations = old.annotations
  BY <1>0, <1>2, OverwritePod DEF PodRecord, Abstract!Overwrite
<1> HIDE DEF over, next
<1>4. /\ new \in PodRecord /\ new.status = over.status /\ new.labels = over.labels
      /\ new.restartPolicy = over.restartPolicy
      /\ new.annotations = IF u.annotations = Nil THEN over.annotations
                                                  ELSE a \cup u.annotations
  <2>1. a \in SUBSET Keys
    BY <1>1, <1>2
  <2>2. CASE u.annotations = Nil
    BY <1>1, <2>2 DEF Memory!Merge
  <2>3. CASE u.annotations /= Nil
    <3>1. a \cup u.annotations \in Annotations
      BY <1>0, <2>1, <2>3 DEF Annotations
    <3>2. new = [over EXCEPT !.annotations = a \cup u.annotations]
      BY <2>3 DEF Memory!Merge
    <3> HIDE DEF a, new
    <3>3. DOMAIN over = {"status", "restartPolicy", "labels", "annotations"}
      BY <1>1 DEF PodRecord
    <3> QED
      BY <1>1, <2>3, <3>1, <3>2, <3>3 DEF PodRecord
  <2> QED
    BY <2>2, <2>3
<1>5. Memory!Shown(new.annotations) = b
  <2>1. CASE u.annotations = Nil
    BY <1>1, <1>2, <1>4, <2>1 DEF Abstract!Shown
  <2>2. CASE u.annotations /= Nil
    <3>1. new.annotations = b
      BY <1>1, <1>2, <1>4, <2>2 DEF Abstract!Shown
    <3>2. new.annotations \in SUBSET Keys
      BY <1>0, <1>2, <2>2, <3>1 DEF Annotations, Abstract!Shown
    <3>3. new.annotations /= Nil
      BY <3>2, StoreAssumption
    <3> HIDE DEF b, new
    <3> QED
      BY <3>1, <3>3 DEF Memory!Shown
  <2> QED
    BY <2>1, <2>2
<1>6. b \in Annotations
  BY <1>0, <1>2 DEF Annotations, Abstract!Shown
<1> HIDE DEF new, a, b
<1>7. /\ seen \in PodRecord /\ seen.status = new.status /\ seen.labels = new.labels
      /\ seen.restartPolicy = new.restartPolicy /\ seen.annotations = b
  BY <1>4, <1>5, ShownPod
<1>8. /\ goal \in PodRecord /\ goal.annotations = b /\ goal.status = next.status
      /\ goal.restartPolicy = next.restartPolicy /\ goal.labels = next.labels
  BY <1>3, <1>6 DEF PodRecord
<1> HIDE DEF seen, goal
<1>9. seen = goal
  BY <1>1, <1>2, <1>3, <1>4, <1>7, <1>8, SamePod
<1>10. goal = [Abstract!Overwrite([row EXCEPT !.annotations = Memory!Shown(@)], u.fields)
                EXCEPT !.annotations = @ \cup Abstract!Shown(u.annotations)]
  BY <1>3 DEF goal, b, next, old
<1> QED
  BY <1>4, <1>9, <1>10 DEF new, over, seen

LEMMA WritesKeepTypes ==
  ASSUME TypeOK, UNCHANGED <<backend, pending>>, TablesTyped'
  PROVE  TypeOK'
BY DEF TypeOK, TablesTyped

LEMMA MemoryReadsKeepTypes ==
  ASSUME TypeOK, UNCHANGED <<backend, pending>>,
         \/ \E ans : Memory!Returns(ans)
         \/ \E c, err : Memory!Refuses(c, err)
  PROVE  TypeOK'
BY DEF Memory!Returns, Memory!Refuses, Memory!maps, TypeOK, TaskTable, PodTable

LEMMA MemoryTaskTypes ==
  ASSUME TypeOK, backend = "memory", UNCHANGED <<backend, pending>>,
         NEW c \in Clients, Memory!TaskCalls(c)
  PROVE  TypeOK'
<1>0. /\ tasks \in [IDs -> {None} \cup TaskRecord]
      /\ UNCHANGED <<pods, nodes, services, endpoints>>
           /\ tasks' \in [IDs -> {None} \cup TaskRecord] => TypeOK'
  BY WritesKeepTypes DEF TypeOK, TablesTyped, TaskTable, PodTable
<1>1. CASE Memory!ListTasks(c)
  BY <1>1, MemoryReadsKeepTypes DEF Memory!ListTasks
<1>2. ASSUME NEW id \in IDs, Memory!GetTask(c, id) PROVE TypeOK'
  BY <1>2, MemoryReadsKeepTypes DEF Memory!GetTask
<1>3. ASSUME NEW id \in IDs, Memory!DeleteTask(c, id) PROVE TypeOK'
  BY <1>0, <1>3, MemoryReadsKeepTypes DEF Memory!DeleteTask
<1>4. ASSUME NEW id \in IDs, NEW task \in NewTasks, Memory!AddTask(c, id, task)
      PROVE  TypeOK'
  BY <1>0, <1>4, MemoryReadsKeepTypes, CallsAssumption DEF Memory!AddTask
<1>5. ASSUME NEW id \in IDs, NEW u \in TaskUpdates, Memory!UpdateTask(c, id, u)
      PROVE  TypeOK'
  <2>1. tasks[id] /= None => Memory!Overwrite(tasks[id], u) \in TaskRecord
    BY <1>0, OverwriteTask DEF TaskRecord, Memory!Overwrite
  <2> QED
    BY <1>0, <1>5, <2>1, MemoryReadsKeepTypes DEF Memory!UpdateTask
<1> QED
  BY <1>1, <1>2, <1>3, <1>4, <1>5 DEF Memory!TaskCalls

LEMMA MemoryPodTypes ==
  ASSUME TypeOK, backend = "memory", UNCHANGED <<backend, pending>>,
         NEW c \in Clients, Memory!PodCalls(c)
  PROVE  TypeOK'
<1>0. /\ pods \in [IDs -> {None} \cup PodRecord]
      /\ UNCHANGED <<tasks, nodes, services, endpoints>>
           /\ pods' \in [IDs -> {None} \cup PodRecord] => TypeOK'
  BY WritesKeepTypes DEF TypeOK, TablesTyped, TaskTable, PodTable
<1>1. CASE Memory!ListPods(c)
  BY <1>1, MemoryReadsKeepTypes DEF Memory!ListPods
<1>2. ASSUME NEW labels, Memory!ListPodsByLabels(c, labels) PROVE TypeOK'
  BY <1>2, MemoryReadsKeepTypes DEF Memory!ListPodsByLabels
<1>3. ASSUME NEW id \in IDs, Memory!GetPod(c, id) PROVE TypeOK'
  BY <1>3, MemoryReadsKeepTypes DEF Memory!GetPod
<1>4. ASSUME NEW id \in IDs, Memory!DeletePod(c, id) PROVE TypeOK'
  BY <1>0, <1>4, MemoryReadsKeepTypes DEF Memory!DeletePod
<1>5. ASSUME NEW id \in IDs, NEW pod \in NewPods, Memory!AddPod(c, id, pod)
      PROVE  TypeOK'
  BY <1>0, <1>5, MemoryReadsKeepTypes, CallsAssumption DEF Memory!AddPod
<1>6. ASSUME NEW id \in IDs, NEW u \in PodUpdates, Memory!UpdatePod(c, id, u)
      PROVE  TypeOK'
  <2>1. pods[id] /= None =>
          Memory!Merge(Memory!Overwrite(pods[id], u.fields), u.annotations) \in PodRecord
    BY <1>0, MergedPod
  <2> QED
    BY <1>0, <1>6, <2>1, MemoryReadsKeepTypes DEF Memory!UpdatePod
<1> QED
  BY <1>1, <1>2, <1>3, <1>4, <1>5, <1>6 DEF Memory!PodCalls

LEMMA MemoryNodeTypes ==
  ASSUME TypeOK, backend = "memory", UNCHANGED <<backend, pending>>,
         NEW c \in Clients, Memory!NodeCalls(c)
  PROVE  TypeOK'
<1>0. /\ nodes \in [IDs -> {None} \cup NodeRecord]
      /\ UNCHANGED <<tasks, pods, services, endpoints>>
           /\ nodes' \in [IDs -> {None} \cup NodeRecord] => TypeOK'
  BY WritesKeepTypes DEF TypeOK, TablesTyped, TaskTable, PodTable
<1>1. CASE Memory!ListNodes(c) \/ Memory!GetAvailableNodes(c)
  BY <1>1, MemoryReadsKeepTypes DEF Memory!ListNodes, Memory!GetAvailableNodes
<1>2. ASSUME NEW id \in IDs, Memory!GetNode(c, id) PROVE TypeOK'
  BY <1>2, MemoryReadsKeepTypes DEF Memory!GetNode
<1>3. ASSUME NEW id \in IDs, Memory!DeleteNode(c, id) PROVE TypeOK'
  BY <1>0, <1>3, MemoryReadsKeepTypes DEF Memory!DeleteNode
<1>4. ASSUME NEW id \in IDs, NEW node \in NewNodes, Memory!AddNode(c, id, node)
      PROVE  TypeOK'
  BY <1>0, <1>4, MemoryReadsKeepTypes, CallsAssumption DEF Memory!AddNode
<1>5. ASSUME NEW id \in IDs, NEW u \in NodeUpdates, Memory!UpdateNode(c, id, u)
      PROVE  TypeOK'
  <2>1. nodes[id] /= None => Memory!Overwrite(nodes[id], u) \in NodeRecord
    BY <1>0, OverwriteNode DEF Memory!Overwrite
  <2> QED
    BY <1>0, <1>5, <2>1, MemoryReadsKeepTypes DEF Memory!UpdateNode
<1> QED
  BY <1>1, <1>2, <1>3, <1>4, <1>5 DEF Memory!NodeCalls

LEMMA MemoryServiceTypes ==
  ASSUME TypeOK, backend = "memory", UNCHANGED <<backend, pending>>,
         NEW c \in Clients, Memory!ServiceCalls(c)
  PROVE  TypeOK'
<1>0. /\ services \in [IDs -> Selectors \cup {None}]
      /\ endpoints \in [IDs -> Subsets \cup {None}]
      /\ UNCHANGED <<tasks, pods, nodes>>
           /\ services' \in [IDs -> Selectors \cup {None}]
           /\ endpoints' \in [IDs -> Subsets \cup {None}] => TypeOK'
  BY WritesKeepTypes DEF TypeOK, TablesTyped, TaskTable, PodTable
<1>1. ASSUME NEW ns, Memory!ListServices(c, ns) PROVE TypeOK'
  BY <1>1, MemoryReadsKeepTypes DEF Memory!ListServices
<1>2. ASSUME NEW n, NEW ns,
             Memory!GetServiceByName(c, n, ns) \/ Memory!GetEndpointsByServiceName(c, n, ns)
      PROVE  TypeOK'
  BY <1>2, MemoryReadsKeepTypes
     DEF Memory!GetServiceByName, Memory!GetEndpointsByServiceName, Memory!ByName
<1>3. ASSUME NEW id \in IDs, Memory!GetService(c, id) \/ Memory!GetEndpoints(c, id)
      PROVE  TypeOK'
  BY <1>3, MemoryReadsKeepTypes DEF Memory!GetService, Memory!GetEndpoints
<1>4. ASSUME NEW id \in IDs, Memory!DeleteService(c, id) \/ Memory!DeleteEndpoints(c, id)
      PROVE  TypeOK'
  BY <1>0, <1>4, MemoryReadsKeepTypes DEF Memory!DeleteService, Memory!DeleteEndpoints
<1>5. ASSUME NEW id \in IDs, NEW sel \in Selectors,
             Memory!AddService(c, id, sel) \/ Memory!UpdateService(c, id, sel)
      PROVE  TypeOK'
  BY <1>0, <1>5, MemoryReadsKeepTypes DEF Memory!AddService, Memory!UpdateService
<1>6. ASSUME NEW id \in IDs, NEW s \in Subsets, Memory!SetEndpoints(c, id, s)
      PROVE  TypeOK'
  BY <1>0, <1>6 DEF Memory!SetEndpoints
<1> QED
  BY <1>1, <1>2, <1>3, <1>4, <1>5, <1>6 DEF Memory!ServiceCalls

LEMMA MemoryKeepsTypes ==
  ASSUME TypeOK, backend = "memory", UNCHANGED <<backend, pending>>, NEW c \in Clients,
         \/ Memory!TaskCalls(c) \/ Memory!PodCalls(c)
         \/ Memory!NodeCalls(c) \/ Memory!ServiceCalls(c)
  PROVE  TypeOK'
BY MemoryTaskTypes, MemoryPodTypes, MemoryNodeTypes, MemoryServiceTypes

LEMMA StoresTypeInit == Init => StoresTypeInv
<1> SUFFICES ASSUME Init PROVE StoresTypeInv
  OBVIOUS
<1>1. TablesTyped
  BY DEF Init, Postgres!Init, TablesTyped
<1>2. backend \in {"memory", "postgres"} /\ pending = [c \in Clients |-> Postgres!Idle]
  BY DEF Init, Postgres!Init
<1> QED
  BY <1>1, <1>2 DEF StoresTypeInv, TypeOK, TablesTyped, OnlyPostgresWaits

LEMMA StoresTypeStep ==
  ASSUME StoresTypeInv, [Next]_vars
  PROVE  StoresTypeInv'
<1>0. TypeOK /\ backend \in {"memory", "postgres"}
  BY DEF StoresTypeInv, TypeOK
<1>1. CASE UNCHANGED vars
  BY <1>1 DEF vars, StoresTypeInv, TypeOK, TaskTable, PodTable, OnlyPostgresWaits
<1>2. CASE backend = "memory" /\ Memory!Next /\ UNCHANGED <<backend, pending>>
  <2>1. TypeOK'
    BY <1>0, <1>2, MemoryKeepsTypes DEF Memory!Next
  <2> QED
    BY <1>2, <2>1 DEF StoresTypeInv, OnlyPostgresWaits
<1>3. CASE backend = "postgres" /\ Postgres!Next /\ UNCHANGED backend
  <2>1. TypeOK'
    BY <1>0, <1>3, PostgresKeepsTypes DEF Postgres!Next
  <2> QED
    BY <1>3, <2>1 DEF StoresTypeInv, OnlyPostgresWaits
<1> QED
  BY <1>1, <1>2, <1>3 DEF Next

(* For any clients, rows and calls: both stores hold rows of the types that *)
(* the scans expect, what a client has still to execute fits its table,    *)
(* and the store in memory leaves nothing for a second statement.          *)
THEOREM StoresTypeCorrect == Spec => []StoresTypeInv
BY StoresTypeInit, StoresTypeStep, PTL DEF Spec

-----------------------------------------------------------------------------
(* What the steps of the interface are made of. *)

LEMMA SameAnswers ==
  /\ \A c, err, rows : /\ Memory!Answer(c, err, rows) = Abstract!Answer(c, err, rows)
                       /\ Postgres!Answer(c, err, rows) = Abstract!Answer(c, err, rows)
  /\ \A c, table, id : /\ Memory!Found(c, table, id) = Abstract!Found(c, table, id)
                       /\ Postgres!Found(c, table, id) = Abstract!Found(c, table, id)
<1>1. \A c, err, rows : /\ Memory!Answer(c, err, rows) = Abstract!Answer(c, err, rows)
                        /\ Postgres!Answer(c, err, rows) = Abstract!Answer(c, err, rows)
  BY DEF Memory!Answer, Postgres!Answer, Abstract!Answer
<1>2. \A c, table, id : Memory!Found(c, table, id) = Abstract!Found(c, table, id)
  BY <1>1 DEF Memory!Found, Abstract!Found, Memory!Row, Abstract!Row, Memory!Rows, Abstract!Rows
<1>3. \A c, table, id : Postgres!Found(c, table, id) = Abstract!Found(c, table, id)
  BY <1>1 DEF Postgres!Found, Abstract!Found, Postgres!Row, Abstract!Row,
              Postgres!Rows, Abstract!Rows
<1> QED
  BY <1>1, <1>2, <1>3

LEMMA NotFound ==
  ASSUME NEW c, NEW table, NEW id, table[id] = None
  PROVE  Abstract!Found(c, table, id) = Abstract!Answer(c, "not found", {})
BY DEF Abstract!Found

LEMMA SeenTables ==
  /\ StoreSeen["tasks"] = TasksSeen /\ StoreSeen["nodes"] = nodes
  /\ StoreSeen["pods"] = PodsSeen   /\ StoreSeen["services"] = services
  /\ StoreSeen["endpoints"] = endpoints
BY DEF StoreSeen

(* A client that has nothing left to execute has found no row.             *)
LEMMA Forgets ==
  ASSUME TypeOK, NEW c \in Clients,
         \/ pending[c] = Postgres!Idle /\ UNCHANGED pending
         \/ pending' = [pending EXCEPT ![c] = Postgres!Idle]
  PROVE  Abstract!Forget(c)
<1>1. pending' = [pending EXCEPT ![c] = Postgres!Idle]
  BY DEF TypeOK
<1>2. DOMAIN pending = Clients
  BY DEF TypeOK
<1>3. FoundRow(c)' = None
  <2>1. pending'[c].stmt = "none"
    BY <1>1, <1>2 DEF Postgres!Idle
  <2> QED
    BY <2>1 DEF FoundRow, TableOf
<1>4. \A d \in Clients \ {c} : FoundRow(d)' = FoundRow(d)
  BY <1>1, <1>2 DEF FoundRow
<1> QED
  BY <1>3, <1>4 DEF Abstract!Forget, FoundSeen

LEMMA SeenUnchanged ==
  ASSUME UNCHANGED <<tasks, pods, nodes, services, endpoints, backend>>
  PROVE  UNCHANGED StoreSeen
BY DEF StoreSeen, TasksSeen, PodsSeen, Postgres!TasksRead, Postgres!PodsRead, Memory!PodsShown

(* Calls that only read. *)
LEMMA MemoryRead ==
  ASSUME StoresTypeInv, backend = "memory", UNCHANGED <<backend, pending>>,
         NEW c \in Clients, NEW ans, Memory!Returns(ans)
  PROVE  Abstract!Read(c, ans)
BY Forgets, SeenUnchanged DEF StoresTypeInv, OnlyPostgresWaits, Memory!Returns, Memory!maps,
   Abstract!Read

LEMMA PostgresRead ==
  ASSUME StoresTypeInv, UNCHANGED backend,
         NEW c \in Clients, NEW ans, Postgres!Returns(c, ans)
  PROVE  Abstract!Read(c, ans)
BY Forgets, SeenUnchanged DEF StoresTypeInv, Postgres!Returns, Postgres!tables, Abstract!Read

-----------------------------------------------------------------------------
(* What counts as a call of the interface. *)
LEMMA FailIsCall ==
  ASSUME NEW c \in Clients, Abstract!Read(c, Abstract!Answer(c, "error", {}))
  PROVE  Abstract!Call
BY DEF Abstract!Call, Abstract!Fail, Abstract!Read

LEMMA GetIsCall ==
  ASSUME NEW c \in Clients, NEW t \in Abstract!Tables, NEW id \in IDs,
         Abstract!Read(c, Abstract!Found(c, StoreSeen[t], id))
  PROVE  Abstract!Call
BY DEF Abstract!Call, Abstract!AnyTable, Abstract!Get

LEMMA NotFoundIsCall ==
  ASSUME NEW c \in Clients, NEW t \in Abstract!Tables, NEW id \in IDs,
         StoreSeen[t][id] = None, Abstract!Read(c, Abstract!Answer(c, "not found", {}))
  PROVE  Abstract!Call
BY GetIsCall, NotFound

LEMMA FindIsCall ==
  ASSUME NEW c \in Clients, NEW t \in Abstract!Tables, NEW id \in IDs, Abstract!Find(c, t, id)
  PROVE  Abstract!Call
BY DEF Abstract!Call, Abstract!AnyTable

LEMMA DeleteIsCall ==
  ASSUME NEW c \in Clients, NEW t \in Abstract!Tables, NEW id \in IDs, Abstract!Delete(c, t, id)
  PROVE  Abstract!Call
BY DEF Abstract!Call, Abstract!AnyTable

LEMMA ListIsCall ==
  ASSUME NEW c \in Clients, NEW t \in {"tasks", "nodes", "pods", "services"},
         Abstract!Read(c, Abstract!Answer(c, "ok", {<<id, StoreSeen[t][id]>> :
           id \in {i \in IDs : StoreSeen[t][i] /= None}}))
  PROVE  Abstract!Call
<1>1. Abstract!List(c, t, LAMBDA id : TRUE)
  BY DEF Abstract!List, Abstract!Rows
<1> QED
  BY <1>1 DEF Abstract!Call

LEMMA ByNameIsCall ==
  ASSUME NEW c \in Clients, NEW t \in {"services", "endpoints"},
         NEW n \in Names, NEW ns \in Namespaces, Abstract!GetByName(c, t, n, ns), IDs /= {}
  PROVE  Abstract!Call
BY DEF Abstract!Call, Abstract!AnyTable, Names, Namespaces, Abstract!Names, Abstract!Namespaces

LEMMA CallRefines == Abstract!Call => [Abstract!Next]_(Abstract!vars)
BY DEF Abstract!Next

LEMMA SeenAlone ==
  ASSUME UNCHANGED backend
  PROVE  /\ UNCHANGED tasks => UNCHANGED TasksSeen
         /\ UNCHANGED pods => UNCHANGED PodsSeen
BY DEF TasksSeen, PodsSeen, Postgres!TasksRead, Postgres!PodsRead, Memory!PodsShown

LEMMA TaskChange ==
  ASSUME UNCHANGED backend, NEW id, NEW row, TasksSeen' = [TasksSeen EXCEPT ![id] = row],
         UNCHANGED <<pods, nodes, services, endpoints>>
  PROVE  StoreSeen' = [StoreSeen EXCEPT !["tasks"][id] = row]
BY SeenAlone DEF StoreSeen

LEMMA PodChange ==
  ASSUME UNCHANGED backend, NEW id, NEW row, PodsSeen' = [PodsSeen EXCEPT ![id] = row],
         UNCHANGED <<tasks, nodes, services, endpoints>>
  PROVE  StoreSeen' = [StoreSeen EXCEPT !["pods"][id] = row]
BY SeenAlone DEF StoreSeen

LEMMA NodeChange ==
  ASSUME UNCHANGED backend, NEW id, NEW row, nodes' = [nodes EXCEPT ![id] = row],
         UNCHANGED <<tasks, pods, services, endpoints>>
  PROVE  StoreSeen' = [StoreSeen EXCEPT !["nodes"][id] = row]
BY SeenAlone DEF StoreSeen

LEMMA ServiceChange ==
  ASSUME UNCHANGED backend, NEW id, NEW row, services' = [services EXCEPT ![id] = row],
         UNCHANGED <<tasks, pods, nodes, endpoints>>
  PROVE  StoreSeen' = [StoreSeen EXCEPT !["services"][id] = row]
BY SeenAlone DEF StoreSeen

LEMMA EndpointsChange ==
  ASSUME UNCHANGED backend, NEW id, NEW row, endpoints' = [endpoints EXCEPT ![id] = row],
         UNCHANGED <<tasks, pods, nodes, services>>
  PROVE  StoreSeen' = [StoreSeen EXCEPT !["endpoints"][id] = row]
BY SeenAlone DEF StoreSeen

LEMMA Adds ==
  ASSUME NEW c \in Clients, NEW t \in Abstract!Tables, NEW id \in IDs, NEW row,
         StoreSeen[t][id] = None, StoreSeen' = [StoreSeen EXCEPT ![t][id] = row],
         answer' = Abstract!Answer(c, "ok", {}), Abstract!Forget(c)
  PROVE  Abstract!Add(c, t, id, row)
BY DEF Abstract!Add

LEMMA Exists ==
  ASSUME NEW c \in Clients, NEW t \in Abstract!Tables, NEW id \in IDs, NEW row,
         StoreSeen[t][id] /= None, Abstract!Read(c, Abstract!Answer(c, "exists", {}))
  PROVE  Abstract!Add(c, t, id, row)
BY DEF Abstract!Add, Abstract!Read

LEMMA Updates ==
  ASSUME NEW c \in Clients, NEW t \in Abstract!Tables, NEW id \in IDs, NEW row,
         \/ StoreSeen[t][id] /= None /\ StoreSeen' = [StoreSeen EXCEPT ![t][id] = row]
         \/ StoreSeen[t][id] = None /\ UNCHANGED StoreSeen /\ FoundSeen[c] = <<t, id>>,
         answer' = Abstract!Answer(c, "ok", {}), Abstract!Forget(c)
  PROVE  Abstract!Update(c, t, id, row)
BY DEF Abstract!Update

LEMMA Deletes ==
  ASSUME NEW c \in Clients, NEW t \in Abstract!Tables, NEW id \in IDs,
         StoreSeen[t][id] /= None,
         \/ StoreSeen' = [StoreSeen EXCEPT ![t][id] = None]
         \/ /\ t = "services"
            /\ StoreSeen' = [StoreSeen EXCEPT !["services"][id] = None,
                                              !["endpoints"][id] = None],
         answer' = Abstract!Answer(c, "ok", {}), Abstract!Forget(c)
  PROVE  Abstract!Call
<1>1. Abstract!Delete(c, t, id)
  BY DEF Abstract!Delete
<1> QED
  BY <1>1, DeleteIsCall

LEMMA WritesAreCalls ==
  ASSUME NEW c \in Clients, NEW id \in IDs,
         \/ \E task \in NewTasks : Abstract!Add(c, "tasks", id, task)
         \/ \E node \in NewNodes : Abstract!Add(c, "nodes", id, node)
         \/ \E pod \in NewPods :
              Abstract!Add(c, "pods", id, [pod EXCEPT !.annotations = Abstract!Shown(@)])
         \/ \E sel \in Selectors : Abstract!Add(c, "services", id, sel)
         \/ \E u \in TaskUpdates :
              Abstract!Update(c, "tasks", id, Abstract!Overwrite(StoreSeen["tasks"][id], u))
         \/ \E u \in NodeUpdates :
              Abstract!Update(c, "nodes", id, Abstract!Overwrite(StoreSeen["nodes"][id], u))
         \/ \E u \in PodUpdates :
              Abstract!Update(c, "pods", id,
                [Abstract!Overwrite(StoreSeen["pods"][id], u.fields) EXCEPT
                   !.annotations = @ \cup Abstract!Shown(u.annotations)])
         \/ \E sel \in Selectors : Abstract!Update(c, "services", id, sel)
         \/ \E s \in Subsets : Abstract!SetEndpoints(c, id, s)
  PROVE  Abstract!Call
BY DEF Abstract!Call

(* The memory store: a call, a step. *)
LEMMA MemoryStep ==
  ASSUME StoresTypeInv, backend = "memory", UNCHANGED <<backend, pending>>,
         NEW c \in Clients
  PROVE  /\ Abstract!Forget(c)
         /\ TasksSeen = tasks /\ PodsSeen = Memory!PodsShown
         /\ TasksSeen' = tasks'
         /\ Memory!Done(c) => answer' = Abstract!Answer(c, "ok", {})
         /\ \A err : Memory!Refuses(c, err) => Abstract!Read(c, Abstract!Answer(c, err, {}))
         /\ \A ans : Memory!Returns(ans) => Abstract!Read(c, ans)
<1>1. Abstract!Forget(c)
  BY Forgets DEF StoresTypeInv, OnlyPostgresWaits
<1>2. TasksSeen = tasks /\ PodsSeen = Memory!PodsShown /\ TasksSeen' = tasks'
  BY DEF TasksSeen, PodsSeen
<1>3. Memory!Done(c) => answer' = Abstract!Answer(c, "ok", {})
  BY SameAnswers DEF Memory!Done
<1>4. \A ans : Memory!Returns(ans) => Abstract!Read(c, ans)
  BY MemoryRead
<1>5. \A err : Memory!Refuses(c, err) => Abstract!Read(c, Abstract!Answer(c, err, {}))
  BY <1>4, SameAnswers DEF Memory!Refuses, Memory!Returns
<1> QED
  BY <1>1, <1>2, <1>3, <1>4, <1>5

LEMMA MemoryTaskCalls ==
  ASSUME StoresTypeInv, backend = "memory", UNCHANGED <<backend, pending>>,
         NEW c \in Clients, Memory!TaskCalls(c)
  PROVE  Abstract!Call
<1>0. "tasks" \in Abstract!Tables /\ StoreSeen["tasks"] = tasks
      /\ tasks \in [IDs -> {None} \cup TaskRecord]
  BY MemoryStep, SeenTables DEF Abstract!Tables, StoresTypeInv, TypeOK, TaskTable
<1> DEFINE New(id, row) ==
      /\ tasks' = [tasks EXCEPT ![id] = row] /\ UNCHANGED <<pods, nodes, services, endpoints>>
<1>a. ASSUME NEW id, NEW row, New(id, row)
      PROVE  StoreSeen' = [StoreSeen EXCEPT !["tasks"][id] = row]
  <2>1. UNCHANGED backend /\ TasksSeen' = [TasksSeen EXCEPT ![id] = row]
    BY <1>a, MemoryStep
  <2> QED
    BY <1>a, <2>1, TaskChange
<1>1. CASE Memory!ListTasks(c)
  <2>1. Memory!Returns(Abstract!Answer(c, "ok", {<<id, tasks[id]>> :
           id \in {i \in IDs : tasks[i] /= None}}))
    BY <1>1, SameAnswers DEF Memory!ListTasks, Memory!AllRows, Memory!Rows
  <2> QED
    BY <1>0, <2>1, MemoryStep, ListIsCall
<1>2. ASSUME NEW id \in IDs, Memory!GetTask(c, id) PROVE Abstract!Call
  BY <1>0, <1>2, MemoryStep, SameAnswers, GetIsCall DEF Memory!GetTask
<1>3. ASSUME NEW id \in IDs, Memory!DeleteTask(c, id) PROVE Abstract!Call
  <2>1. CASE tasks[id] = None
    BY <1>0, <1>3, <2>1, MemoryStep, NotFoundIsCall DEF Memory!DeleteTask
  <2>2. CASE tasks[id] /= None
    <3>1. StoreSeen' = [StoreSeen EXCEPT !["tasks"][id] = None]
      BY <1>3, <1>a, <2>2 DEF Memory!DeleteTask
    <3>2. answer' = Abstract!Answer(c, "ok", {}) /\ Abstract!Forget(c)
      BY <1>3, <2>2, MemoryStep DEF Memory!DeleteTask
    <3> QED
      BY <1>0, <2>2, <3>1, <3>2, Deletes
  <2> QED
    BY <2>1, <2>2
<1>4. ASSUME NEW id \in IDs, NEW task \in NewTasks, Memory!AddTask(c, id, task)
      PROVE  Abstract!Call
  <2>1. CASE tasks[id] = None
    <3>1. StoreSeen' = [StoreSeen EXCEPT !["tasks"][id] = task]
      BY <1>4, <1>a, <2>1 DEF Memory!AddTask
    <3>2. answer' = Abstract!Answer(c, "ok", {}) /\ Abstract!Forget(c)
      BY <1>4, <2>1, MemoryStep DEF Memory!AddTask
    <3> QED
      BY <1>0, <2>1, <3>1, <3>2, Adds, WritesAreCalls
  <2>2. CASE tasks[id] /= None
    BY <1>0, <1>4, <2>2, MemoryStep, Exists, WritesAreCalls DEF Memory!AddTask
  <2> QED
    BY <2>1, <2>2
<1>5. ASSUME NEW id \in IDs, NEW u \in TaskUpdates, Memory!UpdateTask(c, id, u)
      PROVE  Abstract!Call
  <2>1. CASE tasks[id] = None
    BY <1>0, <1>5, <2>1, MemoryStep, NotFoundIsCall DEF Memory!UpdateTask
  <2>2. CASE tasks[id] /= None
    <3>1. Memory!Overwrite(tasks[id], u) = Abstract!Overwrite(StoreSeen["tasks"][id], u)
      BY <1>0 DEF Memory!Overwrite, Abstract!Overwrite
    <3>2. StoreSeen' = [StoreSeen EXCEPT !["tasks"][id]
                          = Abstract!Overwrite(StoreSeen["tasks"][id], u)]
      BY <1>5, <1>a, <2>2, <3>1 DEF Memory!UpdateTask
    <3>3. answer' = Abstract!Answer(c, "ok", {}) /\ Abstract!Forget(c)
      BY <1>5, <2>2, MemoryStep DEF Memory!UpdateTask
    <3> QED
      BY <1>0, <2>2, <3>2, <3>3, Updates, WritesAreCalls
  <2> QED
    BY <2>1, <2>2
<1> QED
  BY <1>1, <1>2, <1>3, <1>4, <1>5 DEF Memory!TaskCalls

LEMMA SelectIsCall ==
  ASSUME NEW c \in Clients, NEW labels \in Selectors,
         Abstract!Read(c, Abstract!Answer(c, "ok", {<<id, PodsSeen[id]>> :
           id \in {i \in IDs : PodsSeen[i] /= None /\ labels \subseteq PodsSeen[i].labels}}))
  PROVE  Abstract!Call
<1>1. Abstract!List(c, "pods", LAMBDA id : Abstract!Selected(id, labels))
  BY SeenTables DEF Abstract!List, Abstract!Rows, Abstract!Selected
<1> QED
  BY <1>1 DEF Abstract!Call

LEMMA InNamespaceIsCall ==
  ASSUME NEW c \in Clients, NEW ns \in Namespaces \cup {Nil},
         Abstract!Read(c, Abstract!Answer(c, "ok", {<<id, services[id]>> :
           id \in {i \in IDs : services[i] /= None /\ ns \in {Nil, Ident[i].namespace}}}))
  PROVE  Abstract!Call
<1>1. CASE ns = Nil
  <2>1. {i \in IDs : services[i] /= None /\ ns \in {Nil, Ident[i].namespace}}
          = {i \in IDs : services[i] /= None}
    BY <1>1
  <2> QED
    BY <2>1, SeenTables, ListIsCall
<1>2. CASE ns /= Nil
  <2>1. {i \in IDs : services[i] /= None /\ ns \in {Nil, Ident[i].namespace}}
          = {i \in IDs : services[i] /= None /\ Ident[i].namespace = ns}
    BY <1>2
  <2>2. Abstract!List(c, "services", LAMBDA id : Ident[id].namespace = ns)
    BY <2>1, SeenTables DEF Abstract!List, Abstract!Rows
  <2>3. ns \in Abstract!Namespaces
    BY <1>2 DEF Namespaces, Abstract!Namespaces
  <2> QED
    BY <2>2, <2>3 DEF Abstract!Call
<1> QED
  BY <1>1, <1>2

LEMMA AvailableIsCall ==
  ASSUME NEW c \in Clients,
         \/ Abstract!Read(c, Abstract!Answer(c, "ok", {<<id, nodes[id]>> :
              id \in {i \in IDs : nodes[i] /= None /\ nodes[i].status = "online"}}))
         \/ Abstract!Read(c, Abstract!Answer(c, "ok", {<<id, nodes[id]>> :
              id \in {i \in IDs : /\ nodes[i] /= None
                                  /\ nodes[i].status = "online"
                                  /\ nodes[i].runningTasks < nodes[i].maxSlots}}))
  PROVE  Abstract!Call
<1>1. Abstract!Available(c)
  BY SeenTables DEF Abstract!Available, Abstract!List, Abstract!Rows, Abstract!Online,
                    Abstract!HasSlot
<1> QED
  BY <1>1 DEF Abstract!Call

LEMMA MemoryPodRows ==
  ASSUME backend = "memory", UNCHANGED backend, NEW id \in IDs, NEW row,
         pods' = [pods EXCEPT ![id] = row], DOMAIN pods = IDs
  PROVE  PodsSeen' = [PodsSeen EXCEPT ![id] = 
           IF row = None THEN None ELSE [row EXCEPT !.annotations = Memory!Shown(@)]]
BY DEF PodsSeen, Memory!PodsShown

LEMMA MemoryPodCalls ==
  ASSUME StoresTypeInv, backend = "memory", UNCHANGED <<backend, pending>>,
         NEW c \in Clients, Memory!PodCalls(c)
  PROVE  Abstract!Call
<1>0. /\ "pods" \in Abstract!Tables /\ StoreSeen["pods"] = PodsSeen
      /\ PodsSeen = Memory!PodsShown
      /\ pods \in [IDs -> {None} \cup PodRecord]
      /\ None \notin PodRecord
  BY MemoryStep, SeenTables, StoreAssumption DEF Abstract!Tables, StoresTypeInv, TypeOK, PodTable
<1>b. ASSUME NEW id \in IDs
      PROVE  /\ PodsSeen[id] = None <=> pods[id] = None
             /\ pods[id] /= None =>
                  /\ PodsSeen[id] = [pods[id] EXCEPT !.annotations = Memory!Shown(@)]
                  /\ PodsSeen[id].labels = pods[id].labels
  BY <1>0, ShownPod DEF Memory!PodsShown
<1> DEFINE New(id, row) ==
      /\ pods' = [pods EXCEPT ![id] = row] /\ UNCHANGED <<tasks, nodes, services, endpoints>>
<1>a. ASSUME NEW id \in IDs, NEW row, New(id, row)
      PROVE  StoreSeen' = [StoreSeen EXCEPT !["pods"][id] =
               IF row = None THEN None ELSE [row EXCEPT !.annotations = Memory!Shown(@)]]
  <2> DEFINE seen == IF row = None THEN None ELSE [row EXCEPT !.annotations = Memory!Shown(@)]
  <2>1. UNCHANGED backend /\ PodsSeen' = [PodsSeen EXCEPT ![id] = seen]
    BY <1>0, <1>a, MemoryPodRows
  <2> HIDE DEF seen
  <2>2. StoreSeen' = [StoreSeen EXCEPT !["pods"][id] = seen]
    BY <1>a, <2>1, PodChange
  <2> QED
    BY <2>2 DEF seen
<1>1. CASE Memory!ListPods(c)
  <2>1. Memory!Returns(Abstract!Answer(c, "ok", {<<id, PodsSeen[id]>> :
           id \in {i \in IDs : PodsSeen[i] /= None}}))
    BY <1>0, <1>1, SameAnswers DEF Memory!ListPods, Memory!AllRows, Memory!Rows
  <2> QED
    BY <1>0, <2>1, MemoryStep, ListIsCall
<1>2. ASSUME NEW labels \in Selectors, Memory!ListPodsByLabels(c, labels)
      PROVE  Abstract!Call
  <2>1. Memory!Returns(Abstract!Answer(c, "ok", {<<id, PodsSeen[id]>> :
           id \in {i \in IDs : PodsSeen[i] /= None /\ labels \subseteq pods[i].labels}}))
    BY <1>0, <1>2, SameAnswers DEF Memory!ListPodsByLabels, Memory!Rows
  <2>2. {i \in IDs : PodsSeen[i] /= None /\ labels \subseteq pods[i].labels}
          = {i \in IDs : PodsSeen[i] /= None /\ labels \subseteq PodsSeen[i].labels}
    BY <1>b
  <2> QED
    BY <2>1, <2>2, MemoryStep, SelectIsCall
<1>3. ASSUME NEW id \in IDs, Memory!GetPod(c, id) PROVE Abstract!Call
  BY <1>0, <1>3, MemoryStep, SameAnswers, GetIsCall DEF Memory!GetPod
<1>4. ASSUME NEW id \in IDs, Memory!DeletePod(c, id) PROVE Abstract!Call
  <2>1. CASE pods[id] = None
    BY <1>0, <1>b, <1>4, <2>1, MemoryStep, NotFoundIsCall DEF Memory!DeletePod
  <2>2. CASE pods[id] /= None
    <3>1. StoreSeen' = [StoreSeen EXCEPT !["pods"][id] = None]
      BY <1>4, <1>a, <2>2 DEF Memory!DeletePod
    <3>2. answer' = Abstract!Answer(c, "ok", {}) /\ Abstract!Forget(c)
      BY <1>4, <2>2, MemoryStep DEF Memory!DeletePod
    <3> QED
      <4>1. "pods" \in Abstract!Tables /\ StoreSeen["pods"][id] /= None
        BY <1>0, <1>b, <2>2
      <4> QED
        BY <3>1, <3>2, <4>1, Deletes, Zenon
  <2> QED
    BY <2>1, <2>2
<1>5. ASSUME NEW id \in IDs, NEW pod \in NewPods, Memory!AddPod(c, id, pod)
      PROVE  Abstract!Call
  <2> DEFINE row == [pod EXCEPT !.annotations = Abstract!Shown(@)]
  <2>1. CASE pods[id] = None
    <3>1. pod /= None /\ row = [pod EXCEPT !.annotations = Memory!Shown(@)]
      BY <1>0, CallsAssumption DEF Memory!Shown, Abstract!Shown
    <3>2. StoreSeen' = [StoreSeen EXCEPT !["pods"][id] = row]
      BY <1>5, <1>a, <2>1, <3>1 DEF Memory!AddPod
    <3>3. answer' = Abstract!Answer(c, "ok", {}) /\ Abstract!Forget(c)
      BY <1>5, <2>1, MemoryStep DEF Memory!AddPod
    <3>4. Abstract!Add(c, "pods", id, row)
      BY <1>0, <1>b, <2>1, <3>2, <3>3, Adds
    <3> QED
      BY <3>4, WritesAreCalls
  <2>2. CASE pods[id] /= None
    <3>1. Abstract!Add(c, "pods", id, row)
      BY <1>0, <1>b, <1>5, <2>2, MemoryStep, Exists DEF Memory!AddPod
    <3> QED
      BY <3>1, WritesAreCalls
  <2> QED
    BY <2>1, <2>2
<1>6. ASSUME NEW id \in IDs, NEW u \in PodUpdates, Memory!UpdatePod(c, id, u)
      PROVE  Abstract!Call
  <2> DEFINE new == Memory!Merge(Memory!Overwrite(pods[id], u.fields), u.annotations)
             row == [Abstract!Overwrite(StoreSeen["pods"][id], u.fields) EXCEPT
                       !.annotations = @ \cup Abstract!Shown(u.annotations)]
  <2>1. CASE pods[id] = None
    BY <1>0, <1>b, <1>6, <2>1, MemoryStep, NotFoundIsCall DEF Memory!UpdatePod
  <2>2. CASE pods[id] /= None
    <3>1. new \in PodRecord /\ [new EXCEPT !.annotations = Memory!Shown(@)] = row
      <4>1. StoreSeen["pods"][id] = [pods[id] EXCEPT !.annotations = Memory!Shown(@)]
        BY <1>0, <1>b, <2>2
      <4>2. pods[id] \in PodRecord
        BY <1>0, <2>2
      <4> QED
        BY <4>1, <4>2, MergedPod, Zenon
    <3>2. pods' = [pods EXCEPT ![id] = new] /\ UNCHANGED <<tasks, nodes, services, endpoints>>
      BY <1>6, <2>2 DEF Memory!UpdatePod
    <3> HIDE DEF new, row
    <3>3. new /= None
      BY <1>0, <3>1
    <3>4. StoreSeen' = [StoreSeen EXCEPT !["pods"][id] = row]
      BY <1>a, <3>1, <3>2, <3>3
    <3>5. answer' = Abstract!Answer(c, "ok", {}) /\ Abstract!Forget(c)
      BY <1>6, <2>2, MemoryStep DEF Memory!UpdatePod
    <3>6. Abstract!Update(c, "pods", id, row)
      BY <1>0, <1>b, <2>2, <3>4, <3>5, Updates
    <3> QED
      BY <3>6, WritesAreCalls DEF row
  <2> QED
    BY <2>1, <2>2
<1> QED
  BY <1>1, <1>2, <1>3, <1>4, <1>5, <1>6 DEF Memory!PodCalls

LEMMA MemoryNodeCalls ==
  ASSUME StoresTypeInv, backend = "memory", UNCHANGED <<backend, pending>>,
         NEW c \in Clients, Memory!NodeCalls(c)
  PROVE  Abstract!Call
<1>0. /\ "nodes" \in Abstract!Tables /\ StoreSeen["nodes"] = nodes
      /\ nodes \in [IDs -> {None} \cup NodeRecord]
  BY SeenTables DEF Abstract!Tables, StoresTypeInv, TypeOK
<1>1. CASE Memory!ListNodes(c)
  <2>1. Memory!Returns(Abstract!Answer(c, "ok", {<<id, nodes[id]>> :
           id \in {i \in IDs : nodes[i] /= None}}))
    BY <1>1, SameAnswers DEF Memory!ListNodes, Memory!AllRows, Memory!Rows
  <2> QED
    BY <1>0, <2>1, MemoryStep, ListIsCall
<1>2. CASE Memory!GetAvailableNodes(c)
  <2>1. Memory!Returns(Abstract!Answer(c, "ok", {<<id, nodes[id]>> :
           id \in {i \in IDs : nodes[i] /= None /\ nodes[i].status = "online"}}))
    BY <1>2, SameAnswers DEF Memory!GetAvailableNodes, Memory!Rows
  <2> QED
    BY <2>1, MemoryStep, AvailableIsCall
<1>3. ASSUME NEW id \in IDs, Memory!GetNode(c, id) PROVE Abstract!Call
  BY <1>0, <1>3, MemoryStep, SameAnswers, GetIsCall DEF Memory!GetNode
<1>4. ASSUME NEW id \in IDs, Memory!DeleteNode(c, id) PROVE Abstract!Call
  <2>1. CASE nodes[id] = None
    BY <1>0, <1>4, <2>1, MemoryStep, NotFoundIsCall DEF Memory!DeleteNode
  <2>2. CASE nodes[id] /= None
    <3>1. StoreSeen' = [StoreSeen EXCEPT !["nodes"][id] = None]
      BY <1>4, <2>2, NodeChange DEF Memory!DeleteNode
    <3>2. answer' = Abstract!Answer(c, "ok", {}) /\ Abstract!Forget(c)
      BY <1>4, <2>2, MemoryStep DEF Memory!DeleteNode
    <3> QED
      BY <1>0, <2>2, <3>1, <3>2, Deletes
  <2> QED
    BY <2>1, <2>2
<1>5. ASSUME NEW id \in IDs, NEW node \in NewNodes, Memory!AddNode(c, id, node)
      PROVE  Abstract!Call
  <2>1. CASE nodes[id] = None
    <3>1. StoreSeen' = [StoreSeen EXCEPT !["nodes"][id] = node]
      BY <1>5, <2>1, NodeChange DEF Memory!AddNode
    <3>2. answer' = Abstract!Answer(c, "ok", {}) /\ Abstract!Forget(c)
      BY <1>5, <2>1, MemoryStep DEF Memory!AddNode
    <3> QED
      BY <1>0, <2>1, <3>1, <3>2, Adds, WritesAreCalls
  <2>2. CASE nodes[id] /= None
    BY <1>0, <1>5, <2>2, MemoryStep, Exists, WritesAreCalls DEF Memory!AddNode
  <2> QED
    BY <2>1, <2>2
<1>6. ASSUME NEW id \in IDs, NEW u \in NodeUpdates, Memory!UpdateNode(c, id, u)
      PROVE  Abstract!Call
  <2>1. CASE nodes[id] = None
    BY <1>0, <1>6, <2>1, MemoryStep, NotFoundIsCall DEF Memory!UpdateNode
  <2>2. CASE nodes[id] /= None
    <3> DEFINE row == Abstract!Overwrite(StoreSeen["nodes"][id], u)
    <3>1. Memory!Overwrite(nodes[id], u) = row
      BY <1>0 DEF Memory!Overwrite, Abstract!Overwrite
    <3>2. nodes' = [nodes EXCEPT ![id] = row] /\ UNCHANGED <<tasks, pods, services, endpoints>>
      BY <1>6, <2>2, <3>1 DEF Memory!UpdateNode
    <3> HIDE DEF row
    <3>3. StoreSeen' = [StoreSeen EXCEPT !["nodes"][id] = row]
      BY <3>2, NodeChange
    <3>4. answer' = Abstract!Answer(c, "ok", {}) /\ Abstract!Forget(c)
      BY <1>6, <2>2, MemoryStep DEF Memory!UpdateNode
    <3>5. Abstract!Update(c, "nodes", id, row)
      BY <1>0, <2>2, <3>3, <3>4, Updates
    <3> QED
      BY <3>5, WritesAreCalls DEF row
  <2> QED
    BY <2>1, <2>2
<1> QED
  BY <1>1, <1>2, <1>3, <1>4, <1>5, <1>6 DEF Memory!NodeCalls

(* A lookup by name finds one of the rows that have it, or none. *)
LEMMA NamedIsCall ==
  ASSUME NEW c \in Clients, NEW t \in {"services", "endpoints"},
         NEW n \in Names, NEW ns \in Namespaces,
         LET match == {id \in IDs : /\ StoreSeen[t][id] /= None
                                    /\ Ident[id] = [name |-> n, namespace |-> ns]}
         IN  \/ match = {} /\ Abstract!Read(c, Abstract!Answer(c, "not found", {}))
             \/ \E id \in match : Abstract!Read(c, Abstract!Found(c, StoreSeen[t], id))
  PROVE  Abstract!Call
<1>1. Abstract!GetByName(c, t, n, ns)
  BY DEF Abstract!GetByName, Abstract!Get
<1>2. IDs /= {}
  BY DEF Names
<1> QED
  BY <1>1, <1>2, ByNameIsCall

LEMMA MemoryServiceCalls ==
  ASSUME StoresTypeInv, backend = "memory", UNCHANGED <<backend, pending>>,
         NEW c \in Clients, Memory!ServiceCalls(c)
  PROVE  Abstract!Call
<1>0. /\ {"services", "endpoints"} \subseteq Abstract!Tables
      /\ StoreSeen["services"] = services /\ StoreSeen["endpoints"] = endpoints
  BY SeenTables DEF Abstract!Tables
<1>1. ASSUME NEW ns \in Namespaces \cup {Nil}, Memory!ListServices(c, ns)
      PROVE  Abstract!Call
  <2>1. Memory!Returns(Abstract!Answer(c, "ok", {<<id, services[id]>> :
           id \in {i \in IDs : services[i] /= None /\ ns \in {Nil, Ident[i].namespace}}}))
    BY <1>1, SameAnswers DEF Memory!ListServices, Memory!Rows
  <2> QED
    BY <2>1, MemoryStep, InNamespaceIsCall
<1>2. ASSUME NEW n \in Names, NEW ns \in Namespaces,
             Memory!GetServiceByName(c, n, ns) \/ Memory!GetEndpointsByServiceName(c, n, ns)
      PROVE  Abstract!Call
  <2>1. ASSUME NEW t \in {"services", "endpoints"}, Memory!ByName(c, StoreSeen[t], n, ns)
        PROVE  Abstract!Call
    BY <2>1, MemoryStep, SameAnswers, NamedIsCall DEF Memory!ByName
  <2> QED
    BY <1>0, <1>2, <2>1 DEF Memory!GetServiceByName, Memory!GetEndpointsByServiceName
<1>3. ASSUME NEW id \in IDs, Memory!GetService(c, id) \/ Memory!GetEndpoints(c, id)
      PROVE  Abstract!Call
  BY <1>0, <1>3, MemoryStep, SameAnswers, GetIsCall DEF Memory!GetService, Memory!GetEndpoints
<1>4. ASSUME NEW id \in IDs, Memory!DeleteService(c, id) PROVE Abstract!Call
  <2>1. CASE services[id] = None
    BY <1>0, <1>4, <2>1, MemoryStep, NotFoundIsCall DEF Memory!DeleteService
  <2>2. CASE services[id] /= None
    <3>1. StoreSeen' = [StoreSeen EXCEPT !["services"][id] = None]
      BY <1>4, <2>2, ServiceChange DEF Memory!DeleteService
    <3>2. answer' = Abstract!Answer(c, "ok", {}) /\ Abstract!Forget(c)
      BY <1>4, <2>2, MemoryStep DEF Memory!DeleteService
    <3> QED
      BY <1>0, <2>2, <3>1, <3>2, Deletes
  <2> QED
    BY <2>1, <2>2
<1>5. ASSUME NEW id \in IDs, Memory!DeleteEndpoints(c, id) PROVE Abstract!Call
  <2>1. CASE endpoints[id] = None
    BY <1>0, <1>5, <2>1, MemoryStep, NotFoundIsCall DEF Memory!DeleteEndpoints
  <2>2. CASE endpoints[id] /= None
    <3>1. StoreSeen' = [StoreSeen EXCEPT !["endpoints"][id] = None]
      BY <1>5, <2>2, EndpointsChange DEF Memory!DeleteEndpoints
    <3>2. answer' = Abstract!Answer(c, "ok", {}) /\ Abstract!Forget(c)
      BY <1>5, <2>2, MemoryStep DEF Memory!DeleteEndpoints
    <3> QED
      BY <1>0, <2>2, <3>1, <3>2, Deletes
  <2> QED
    BY <2>1, <2>2
<1>6. ASSUME NEW id \in IDs, NEW sel \in Selectors, Memory!AddService(c, id, sel)
      PROVE  Abstract!Call
  <2>1. CASE services[id] = None
    <3>1. StoreSeen' = [StoreSeen EXCEPT !["services"][id] = sel]
      BY <1>6, <2>1, ServiceChange DEF Memory!AddService
    <3>2. answer' = Abstract!Answer(c, "ok", {}) /\ Abstract!Forget(c)
      BY <1>6, <2>1, MemoryStep DEF Memory!AddService
    <3> QED
      BY <1>0, <2>1, <3>1, <3>2, Adds, WritesAreCalls
  <2>2. CASE services[id] /= None
    BY <1>0, <1>6, <2>2, MemoryStep, Exists, WritesAreCalls DEF Memory!AddService
  <2> QED
    BY <2>1, <2>2
<1>7. ASSUME NEW id \in IDs, NEW sel \in Selectors, Memory!UpdateService(c, id, sel)
      PROVE  Abstract!Call
  <2>1. CASE services[id] = None
    BY <1>0, <1>7, <2>1, MemoryStep, NotFoundIsCall DEF Memory!UpdateService
  <2>2. CASE services[id] /= None
    <3>1. StoreSeen' = [StoreSeen EXCEPT !["services"][id] = sel]
      BY <1>7, <2>2, ServiceChange DEF Memory!UpdateService
    <3>2. answer' = Abstract!Answer(c, "ok", {}) /\ Abstract!Forget(c)
      BY <1>7, <2>2, MemoryStep DEF Memory!UpdateService
    <3> QED
      BY <1>0, <2>2, <3>1, <3>2, Updates, WritesAreCalls
  <2> QED
    BY <2>1, <2>2
<1>8. ASSUME NEW id \in IDs, NEW s \in Subsets, Memory!SetEndpoints(c, id, s)
      PROVE  Abstract!Call
  <2>1. StoreSeen' = [StoreSeen EXCEPT !["endpoints"][id] = s]
    BY <1>8, EndpointsChange DEF Memory!SetEndpoints
  <2>2. answer' = Abstract!Answer(c, "ok", {}) /\ Abstract!Forget(c)
    BY <1>8, MemoryStep DEF Memory!SetEndpoints
  <2>3. Abstract!SetEndpoints(c, id, s)
    BY <2>1, <2>2 DEF Abstract!SetEndpoints
  <2> QED
    BY <2>3, WritesAreCalls
<1>9. Memory!Names = Names /\ Memory!Namespaces = Namespaces
  BY DEF Names, Namespaces, Memory!Names, Memory!Namespaces
<1> QED
  BY <1>1, <1>2, <1>3, <1>4, <1>5, <1>6, <1>7, <1>8, <1>9 DEF Memory!ServiceCalls

-----------------------------------------------------------------------------
(* PostgreSQL: a statement, a step or a stutter. *)

LEMMA SeenPostgres ==
  ASSUME backend = "postgres", UNCHANGED backend
  PROVE  /\ TasksSeen = Postgres!TasksRead /\ TasksSeen' = Postgres!TasksRead'
         /\ PodsSeen = Postgres!PodsRead   /\ PodsSeen' = Postgres!PodsRead'
BY DEF TasksSeen, PodsSeen

LEMMA PostgresStep ==
  ASSUME StoresTypeInv, UNCHANGED backend, NEW c \in Clients
  PROVE  /\ \A ans : Postgres!Returns(c, ans) => Abstract!Read(c, ans)
         /\ \A err : Postgres!Refuses(c, err) => Abstract!Read(c, Abstract!Answer(c, err, {}))
         /\ \A err : Postgres!Done(c, err) =>
              answer' = Abstract!Answer(c, err, {}) /\ Abstract!Forget(c)
<1>1. \A ans : Postgres!Returns(c, ans) => Abstract!Read(c, ans)
  BY PostgresRead
<1>2. \A err : Postgres!Refuses(c, err) => Abstract!Read(c, Abstract!Answer(c, err, {}))
  BY <1>1, SameAnswers DEF Postgres!Refuses
<1>3. ASSUME NEW err, Postgres!Done(c, err)
      PROVE  answer' = Abstract!Answer(c, err, {}) /\ Abstract!Forget(c)
  <2>1. Abstract!Forget(c)
    BY <1>3, Forgets DEF StoresTypeInv, Postgres!Done
  <2> QED
    BY <1>3, <2>1, SameAnswers DEF Postgres!Done
<1> QED
  BY <1>1, <1>2, <1>3

LEMMA IdleIsNone == Postgres!Idle.stmt = "none"
BY DEF Postgres!Idle

(* An INSERT is prepared unseen; an UPDATE that is prepared has found its  *)
(* row.                                                                    *)
LEMMA PreparesInsert ==
  ASSUME StoresTypeInv, UNCHANGED backend, NEW c \in Clients,
         NEW stmt \in {"insert task", "insert pod", "insert node", "insert service"},
         NEW id, NEW arg, Postgres!GoesOn(c, stmt, id, arg)
  PROVE  UNCHANGED Abstract!vars
<1> DEFINE next == [stmt |-> stmt, id |-> id, arg |-> arg]
<1>0. pending[c].stmt = "none"
  <2>1. pending[c] = Postgres!Idle
    BY DEF Postgres!GoesOn
  <2> QED
    BY <2>1, IdleIsNone
<1>1. /\ DOMAIN pending = Clients
      /\ pending' = [pending EXCEPT ![c] = next] /\ next.stmt = stmt
      /\ UNCHANGED StoreSeen /\ UNCHANGED answer
  BY SeenUnchanged DEF StoresTypeInv, TypeOK, Postgres!GoesOn, Postgres!tables
<1> HIDE DEF next
<1>2. FoundRow(c) = None
  BY <1>0 DEF FoundRow, TableOf
<1>3. FoundRow(c)' = None
  <2>1. pending'[c].stmt = stmt
    BY <1>1
  <2> QED
    BY <2>1 DEF FoundRow, TableOf
<1>4. \A d \in Clients \ {c} : FoundRow(d)' = FoundRow(d)
  BY <1>1 DEF FoundRow
<1>5. UNCHANGED FoundSeen
  BY <1>2, <1>3, <1>4 DEF FoundSeen
<1> QED
  BY <1>1, <1>5 DEF Abstract!vars

LEMMA PreparesUpdate ==
  ASSUME StoresTypeInv, UNCHANGED backend, NEW c \in Clients,
         NEW stmt, NEW t \in Abstract!Tables, t = TableOf(stmt), t /= "none",
         NEW id \in IDs, NEW arg,
         StoreSeen[t][id] /= None, Postgres!GoesOn(c, stmt, id, arg)
  PROVE  Abstract!Call
<1> DEFINE next == [stmt |-> stmt, id |-> id, arg |-> arg]
<1>1. /\ DOMAIN pending = Clients
      /\ pending' = [pending EXCEPT ![c] = next] /\ next.stmt = stmt /\ next.id = id
      /\ UNCHANGED StoreSeen /\ UNCHANGED answer
  BY SeenUnchanged DEF StoresTypeInv, TypeOK, Postgres!GoesOn, Postgres!tables
<1> HIDE DEF next
<1>2. FoundRow(c)' = <<t, id>>
  <2>1. pending'[c].stmt = stmt /\ pending'[c].id = id
    BY <1>1
  <2> QED
    BY <2>1 DEF FoundRow, TableOf
<1>3. \A d \in Clients \ {c} : FoundRow(d)' = FoundRow(d)
  BY <1>1 DEF FoundRow
<1>4. FoundSeen' = [FoundSeen EXCEPT ![c] = <<t, id>>]
  BY <1>2, <1>3 DEF FoundSeen
<1>5. Abstract!Find(c, t, id)
  BY <1>1, <1>4 DEF Abstract!Find
<1> QED
  BY <1>5, FindIsCall

LEMMA RowFound ==
  ASSUME NEW c \in Clients, TableOf(pending[c].stmt) /= "none"
  PROVE  FoundSeen[c] = <<TableOf(pending[c].stmt), pending[c].id>>
BY DEF FoundSeen, FoundRow

(* What a statement does to a table that readers see as it is, by its kind.*)
LEMMA PostgresFails ==
  ASSUME StoresTypeInv, UNCHANGED backend, NEW c \in Clients,
         Postgres!Done(c, "error"), UNCHANGED <<tasks, pods, nodes, services, endpoints>>
  PROVE  Abstract!Call
<1>1. UNCHANGED StoreSeen
  BY SeenUnchanged
<1> QED
  BY <1>1, PostgresStep, FailIsCall DEF Abstract!Read

LEMMA PostgresNotFound ==
  ASSUME StoresTypeInv, UNCHANGED backend, NEW c \in Clients,
         NEW t \in Abstract!Tables, NEW id \in IDs, StoreSeen[t][id] = None,
         \/ Postgres!Refuses(c, "not found")
         \/ Postgres!Done(c, "not found") /\ UNCHANGED <<tasks, pods, nodes, services, endpoints>>
  PROVE  Abstract!Call
<1>1. Abstract!Read(c, Abstract!Answer(c, "not found", {}))
  BY PostgresStep, SeenUnchanged DEF Abstract!Read
<1> QED
  BY <1>1, NotFoundIsCall

LEMMA SeenTask ==
  ASSUME StoresTypeInv, backend = "postgres", UNCHANGED backend, NEW id \in IDs
  PROVE  /\ TasksSeen[id] = None <=> tasks[id] = None
         /\ tasks[id] /= None => /\ tasks[id] \in Postgres!TaskRows
                                 /\ TasksSeen[id] = Postgres!TaskOf(tasks[id])
         /\ \A row : tasks' = [tasks EXCEPT ![id] = row] =>
              TasksSeen' = [TasksSeen EXCEPT ![id] =
                              IF row = None THEN None ELSE Postgres!TaskOf(row)]
<1>1. tasks \in [IDs -> {None} \cup Postgres!TaskRows]
  BY DEF StoresTypeInv, TypeOK, TaskTable
<1>2. TasksSeen[id] = IF tasks[id] = None THEN None ELSE Postgres!TaskOf(tasks[id])
  BY SeenPostgres DEF Postgres!TasksRead
<1>3. tasks[id] /= None => Postgres!TaskOf(tasks[id]) \in TaskRecord
  BY <1>1, TaskOfRow
<1>4. ASSUME NEW row, tasks' = [tasks EXCEPT ![id] = row]
      PROVE  TasksSeen' = [TasksSeen EXCEPT ![id] =
                             IF row = None THEN None ELSE Postgres!TaskOf(row)]
  BY <1>1, <1>4, SeenPostgres DEF Postgres!TasksRead
<1> QED
  BY <1>1, <1>2, <1>3, <1>4, StoreAssumption

LEMMA PostgresTaskCalls ==
  ASSUME StoresTypeInv, backend = "postgres", UNCHANGED backend,
         NEW c \in Clients, Postgres!TaskCalls(c)
  PROVE  Abstract!Call \/ UNCHANGED Abstract!vars
<1>0. /\ "tasks" \in Abstract!Tables /\ StoreSeen["tasks"] = TasksSeen
      /\ TasksSeen = Postgres!TasksRead /\ TypeOK
      /\ tasks \in [IDs -> {None} \cup Postgres!TaskRows]
  BY SeenPostgres, SeenTables DEF Abstract!Tables, StoresTypeInv, TypeOK, TaskTable
<1> DEFINE New(id, row) ==
      /\ tasks' = [tasks EXCEPT ![id] = row] /\ UNCHANGED <<pods, nodes, services, endpoints>>
<1>a. ASSUME NEW id \in IDs, NEW row, New(id, row)
      PROVE  StoreSeen' = [StoreSeen EXCEPT !["tasks"][id] =
                             IF row = None THEN None ELSE Postgres!TaskOf(row)]
  <2> DEFINE seen == IF row = None THEN None ELSE Postgres!TaskOf(row)
  <2>1. TasksSeen' = [TasksSeen EXCEPT ![id] = seen]
    BY <1>a, SeenTask
  <2> HIDE DEF seen
  <2>2. StoreSeen' = [StoreSeen EXCEPT !["tasks"][id] = seen]
    BY <1>a, <2>1, TaskChange
  <2> QED
    BY <2>2 DEF seen
<1>1. CASE Postgres!ListTasks(c)
  <2>1. Postgres!Returns(c, Abstract!Answer(c, "ok", {<<id, TasksSeen[id]>> :
           id \in {i \in IDs : TasksSeen[i] /= None}}))
    BY <1>0, <1>1, SameAnswers DEF Postgres!ListTasks, Postgres!AllRows, Postgres!Rows
  <2> QED
    BY <1>0, <2>1, PostgresStep, ListIsCall
<1>2. CASE Postgres!InsertTask(c)
  <2> DEFINE id == pending[c].id
  <2>1. id \in IDs
    BY <1>0, <1>2, PendingFits DEF Postgres!InsertTask, Postgres!Insert
  <2>2. PICK task \in NewTasks : pending[c].arg = Postgres!TaskRow(task)
    BY <1>0, <1>2, PendingFits DEF Postgres!InsertTask, Postgres!Insert
  <2> DEFINE row == Postgres!TaskRow(task)
  <2>3. row /= None /\ Postgres!TaskOf(row) = task
    BY RowsOfTasks, CallsAssumption, NullAssumption
  <2>4. \/ tasks[id] = None /\ New(id, row) /\ Postgres!Done(c, "ok")
        \/ UNCHANGED <<tasks, pods, nodes, services, endpoints>> /\ Postgres!Done(c, "error")
    BY <1>2, <2>2 DEF Postgres!InsertTask, Postgres!Insert
  <2> HIDE DEF id, row
  <2>5. CASE tasks[id] = None /\ New(id, row) /\ Postgres!Done(c, "ok")
    <3>1. StoreSeen' = [StoreSeen EXCEPT !["tasks"][id] = task] /\ StoreSeen["tasks"][id] = None
      BY <1>0, <1>a, <2>1, <2>3, <2>5, SeenTask
    <3>2. answer' = Abstract!Answer(c, "ok", {}) /\ Abstract!Forget(c)
      BY <2>5, PostgresStep
    <3> QED
      BY <1>0, <2>1, <3>1, <3>2, Adds, WritesAreCalls
  <2> QED
    BY <2>4, <2>5, PostgresFails
<1>3. CASE Postgres!SetTask(c)
  <2> DEFINE id  == pending[c].id
             u   == pending[c].arg
             row == Abstract!Overwrite(StoreSeen["tasks"][id], u)
  <2>1. id \in IDs /\ u \in TaskUpdates /\ pending[c].stmt = "update task"
    BY <1>0, <1>3, PendingFits DEF Postgres!SetTask
  <2>2. Postgres!Done(c, "ok") /\ UNCHANGED <<pods, nodes, services, endpoints>>
    BY <1>3 DEF Postgres!SetTask
  <2>3. tasks' = IF tasks[id] = None THEN tasks
                 ELSE [tasks EXCEPT ![id] = Postgres!Overwrite(tasks[id], u)]
    BY <1>3 DEF Postgres!SetTask
  <2>4. FoundSeen[c] = <<"tasks", id>>
    BY <2>1, RowFound DEF TableOf
  <2> HIDE DEF id, u
  <2>5. answer' = Abstract!Answer(c, "ok", {}) /\ Abstract!Forget(c)
    BY <2>2, PostgresStep
  <2>6. CASE tasks[id] = None
    <3>1. UNCHANGED StoreSeen /\ StoreSeen["tasks"][id] = None
      BY <1>0, <2>1, <2>2, <2>3, <2>6, SeenUnchanged, SeenTask
    <3>2. Abstract!Update(c, "tasks", id, row)
      BY <1>0, <2>1, <2>4, <2>5, <3>1, Updates
    <3> QED
      BY <2>1, <3>2, WritesAreCalls
  <2>7. CASE tasks[id] /= None
    <3>1. tasks[id] \in Postgres!TaskRows /\ StoreSeen["tasks"][id] = Postgres!TaskOf(tasks[id])
          /\ StoreSeen["tasks"][id] /= None
      BY <1>0, <2>1, <2>7, SeenTask
    <3>2. /\ Postgres!Overwrite(tasks[id], u) \in Postgres!TaskRows
          /\ Postgres!TaskOf(Postgres!Overwrite(tasks[id], u)) = row
      BY <2>1, <3>1, UpdatedTask
    <3>3. New(id, Postgres!Overwrite(tasks[id], u))
      BY <2>2, <2>3, <2>7
    <3>4. StoreSeen' = [StoreSeen EXCEPT !["tasks"][id] = row]
      BY <1>a, <2>1, <3>2, <3>3, NullAssumption
    <3> HIDE DEF row
    <3>5. Abstract!Update(c, "tasks", id, row)
      BY <1>0, <2>1, <2>5, <3>1, <3>4, Updates
    <3> QED
      BY <2>1, <3>5, WritesAreCalls DEF row
  <2> QED
    BY <2>6, <2>7
<1>4. ASSUME NEW id \in IDs, Postgres!GetTask(c, id) PROVE Abstract!Call
  BY <1>0, <1>4, PostgresStep, SameAnswers, GetIsCall DEF Postgres!GetTask
<1>5. ASSUME NEW id \in IDs, Postgres!DeleteTask(c, id) PROVE Abstract!Call
  <2>1. CASE tasks[id] = None
    <3>1. Postgres!Done(c, "not found") /\ UNCHANGED <<tasks, pods, nodes, services, endpoints>>
      BY <1>0, <1>5, <2>1 DEF Postgres!DeleteTask, Postgres!Remove
    <3>2. StoreSeen["tasks"][id] = None
      BY <1>0, <2>1, SeenTask
    <3> QED
      BY <1>0, <3>1, <3>2, PostgresNotFound
  <2>2. CASE tasks[id] /= None
    <3>1. Postgres!Done(c, "ok") /\ New(id, None)
      BY <1>5, <2>2 DEF Postgres!DeleteTask, Postgres!Remove
    <3>2. StoreSeen' = [StoreSeen EXCEPT !["tasks"][id] = None]
      BY <1>a, <3>1
    <3>3. answer' = Abstract!Answer(c, "ok", {}) /\ Abstract!Forget(c)
      BY <3>1, PostgresStep
    <3>4. StoreSeen["tasks"][id] /= None
      BY <1>0, <2>2, SeenTask
    <3> QED
      BY <1>0, <3>2, <3>3, <3>4, Deletes
  <2> QED
    BY <2>1, <2>2
<1>6. ASSUME NEW id \in IDs, NEW task \in NewTasks, Postgres!AddTask(c, id, task)
      PROVE  Abstract!Call \/ UNCHANGED Abstract!vars
  <2>1. CASE tasks[id] = None
    BY <1>6, <2>1, PreparesInsert DEF Postgres!AddTask
  <2>2. CASE tasks[id] /= None
    <3>1. Abstract!Read(c, Abstract!Answer(c, "exists", {})) /\ StoreSeen["tasks"][id] /= None
      BY <1>0, <1>6, <2>2, PostgresStep, SeenTask DEF Postgres!AddTask
    <3> QED
      BY <1>0, <3>1, Exists, WritesAreCalls
  <2> QED
    BY <2>1, <2>2
<1>7. ASSUME NEW id \in IDs, NEW u \in TaskUpdates, Postgres!UpdateTask(c, id, u)
      PROVE  Abstract!Call
  <2>1. CASE tasks[id] = None
    <3>1. Postgres!Refuses(c, "not found") /\ StoreSeen["tasks"][id] = None
      BY <1>0, <1>7, <2>1, SeenTask DEF Postgres!UpdateTask
    <3> QED
      BY <1>0, <3>1, PostgresNotFound
  <2>2. CASE tasks[id] /= None
    <3>1. Postgres!GoesOn(c, "update task", id, u) /\ StoreSeen["tasks"][id] /= None
      BY <1>0, <1>7, <2>2, SeenTask DEF Postgres!UpdateTask
    <3>2. TableOf("update task") = "tasks"
      BY DEF TableOf
    <3> QED
      BY <1>0, <3>1, <3>2, PreparesUpdate
  <2> QED
    BY <2>1, <2>2
<1> QED
  BY <1>1, <1>2, <1>3, <1>4, <1>5, <1>6, <1>7 DEF Postgres!TaskCalls

LEMMA SeenPod ==
  ASSUME StoresTypeInv, backend = "postgres", UNCHANGED backend, NEW id \in IDs
  PROVE  /\ PodsSeen[id] = None <=> pods[id] = None
         /\ pods[id] /= None => /\ pods[id] \in Postgres!PodRows
                                /\ PodsSeen[id] = Postgres!PodOf(pods[id])
                                /\ PodsSeen[id].labels = pods[id].labels
         /\ \A row : pods' = [pods EXCEPT ![id] = row] =>
              PodsSeen' = [PodsSeen EXCEPT ![id] =
                             IF row = None THEN None ELSE Postgres!PodOf(row)]
<1>1. pods \in [IDs -> {None} \cup Postgres!PodRows]
  BY DEF StoresTypeInv, TypeOK, PodTable
<1>2. PodsSeen[id] = IF pods[id] = None THEN None ELSE Postgres!PodOf(pods[id])
  BY SeenPostgres DEF Postgres!PodsRead
<1>3. pods[id] /= None => /\ Postgres!PodOf(pods[id]) \in PodRecord
                          /\ Postgres!PodOf(pods[id]).labels = pods[id].labels
  BY <1>1, PodOfRow
<1>4. ASSUME NEW row, pods' = [pods EXCEPT ![id] = row]
      PROVE  PodsSeen' = [PodsSeen EXCEPT ![id] =
                            IF row = None THEN None ELSE Postgres!PodOf(row)]
  BY <1>1, <1>4, SeenPostgres DEF Postgres!PodsRead
<1> QED
  BY <1>1, <1>2, <1>3, <1>4, StoreAssumption

LEMMA PostgresPodCalls ==
  ASSUME StoresTypeInv, AnnotationsAreObjects, backend = "postgres", UNCHANGED backend,
         NEW c \in Clients, Postgres!PodCalls(c)
  PROVE  Abstract!Call \/ UNCHANGED Abstract!vars
<1>0. /\ "pods" \in Abstract!Tables /\ StoreSeen["pods"] = PodsSeen
      /\ PodsSeen = Postgres!PodsRead /\ TypeOK
      /\ pods \in [IDs -> {None} \cup Postgres!PodRows]
  BY SeenPostgres, SeenTables DEF Abstract!Tables, StoresTypeInv, TypeOK, PodTable
<1> DEFINE New(id, row) ==
      /\ pods' = [pods EXCEPT ![id] = row] /\ UNCHANGED <<tasks, nodes, services, endpoints>>
<1>a. ASSUME NEW id \in IDs, NEW row, New(id, row)
      PROVE  StoreSeen' = [StoreSeen EXCEPT !["pods"][id] =
                             IF row = None THEN None ELSE Postgres!PodOf(row)]
  <2> DEFINE seen == IF row = None THEN None ELSE Postgres!PodOf(row)
  <2>1. PodsSeen' = [PodsSeen EXCEPT ![id] = seen]
    BY <1>a, SeenPod
  <2> HIDE DEF seen
  <2>2. StoreSeen' = [StoreSeen EXCEPT !["pods"][id] = seen]
    BY <1>a, <2>1, PodChange
  <2> QED
    BY <2>2 DEF seen
<1>1. CASE Postgres!ListPods(c)
  <2>1. Postgres!Returns(c, Abstract!Answer(c, "ok", {<<id, PodsSeen[id]>> :
           id \in {i \in IDs : PodsSeen[i] /= None}}))
    BY <1>0, <1>1, SameAnswers DEF Postgres!ListPods, Postgres!AllRows, Postgres!Rows
  <2> QED
    BY <1>0, <2>1, PostgresStep, ListIsCall
<1>2. CASE Postgres!InsertPod(c)
  <2> DEFINE id == pending[c].id
  <2>1. id \in IDs
    BY <1>0, <1>2, PendingFits DEF Postgres!InsertPod, Postgres!Insert
  <2>2. PICK pod \in NewPods : pending[c].arg = Postgres!PodRow(pod)
    BY <1>0, <1>2, PendingFits DEF Postgres!InsertPod, Postgres!Insert
  <2> DEFINE row  == Postgres!PodRow(pod)
             seen == [pod EXCEPT !.annotations = Abstract!Shown(@)]
  <2>3. pod \in PodRecord
    BY CallsAssumption
  <2>4. row /= None /\ Postgres!PodOf(row) = seen
    BY <2>3, RowsOfPods, PodReadBack, NullAssumption
  <2>5. \/ pods[id] = None /\ New(id, row) /\ Postgres!Done(c, "ok")
        \/ UNCHANGED <<tasks, pods, nodes, services, endpoints>> /\ Postgres!Done(c, "error")
    BY <1>2, <2>2 DEF Postgres!InsertPod, Postgres!Insert
  <2> HIDE DEF id, row, seen
  <2>6. CASE pods[id] = None /\ New(id, row) /\ Postgres!Done(c, "ok")
    <3>1. StoreSeen' = [StoreSeen EXCEPT !["pods"][id] = seen] /\ StoreSeen["pods"][id] = None
      BY <1>0, <1>a, <2>1, <2>4, <2>6, SeenPod
    <3>2. answer' = Abstract!Answer(c, "ok", {}) /\ Abstract!Forget(c)
      BY <2>6, PostgresStep
    <3>3. Abstract!Add(c, "pods", id, seen)
      BY <1>0, <2>1, <3>1, <3>2, Adds
    <3> QED
      BY <2>1, <3>3, WritesAreCalls DEF seen
  <2> QED
    BY <2>5, <2>6, PostgresFails
<1>3. CASE Postgres!SetPod(c)
  <2> DEFINE id  == pending[c].id
             u   == pending[c].arg
             row == [Abstract!Overwrite(StoreSeen["pods"][id], u.fields) EXCEPT
                       !.annotations = @ \cup Abstract!Shown(u.annotations)]
  <2>1. id \in IDs /\ u \in PodUpdates /\ pending[c].stmt = "update pod"
    BY <1>0, <1>3, PendingFits DEF Postgres!SetPod
  <2>2. Postgres!Done(c, "ok") /\ UNCHANGED <<tasks, nodes, services, endpoints>>
    BY <1>3 DEF Postgres!SetPod
  <2>3. pods' = IF pods[id] = None THEN pods
                ELSE [pods EXCEPT ![id] = Postgres!UpdatedRow(pods[id], u)]
    BY <1>3 DEF Postgres!SetPod
  <2>4. FoundSeen[c] = <<"pods", id>>
    BY <2>1, RowFound DEF TableOf
  <2> HIDE DEF id, u
  <2>5. answer' = Abstract!Answer(c, "ok", {}) /\ Abstract!Forget(c)
    BY <2>2, PostgresStep
  <2>6. CASE pods[id] = None
    <3>1. UNCHANGED StoreSeen /\ StoreSeen["pods"][id] = None
      BY <1>0, <2>1, <2>2, <2>3, <2>6, SeenUnchanged, SeenPod
    <3> HIDE DEF row
    <3>2. Abstract!Update(c, "pods", id, row)
      BY <1>0, <2>1, <2>4, <2>5, <3>1, Updates
    <3> QED
      BY <2>1, <3>2, WritesAreCalls DEF row
  <2>7. CASE pods[id] /= None
    <3>1. /\ pods[id] \in Postgres!PodRows /\ StoreSeen["pods"][id] = Postgres!PodOf(pods[id])
          /\ StoreSeen["pods"][id] /= None /\ pods[id].annotations.json = "object"
      BY <1>0, <2>1, <2>7, SeenPod DEF AnnotationsAreObjects
    <3> DEFINE new == Postgres!UpdatedRow(pods[id], u)
    <3>2. new \in Postgres!PodRows /\ Postgres!PodOf(new) = row
      BY <2>1, <3>1, UpdatedPod, Zenon
    <3>3. New(id, new)
      BY <2>2, <2>3, <2>7
    <3> HIDE DEF new, row
    <3>4. StoreSeen' = [StoreSeen EXCEPT !["pods"][id] = row]
      BY <1>a, <2>1, <3>2, <3>3, NullAssumption
    <3>5. Abstract!Update(c, "pods", id, row)
      BY <1>0, <2>1, <2>5, <3>1, <3>4, Updates
    <3> QED
      BY <2>1, <3>5, WritesAreCalls DEF row
  <2> QED
    BY <2>6, <2>7
<1>4. ASSUME NEW labels \in Selectors, Postgres!ListPodsByLabels(c, labels)
      PROVE  Abstract!Call
  <2> DEFINE match == {id \in IDs : pods[id] /= None /\ labels \subseteq pods[id].labels}
  <2>1. CASE Postgres!Refuses(c, "error")
    BY <2>1, PostgresStep, FailIsCall
  <2>2. CASE Postgres!Returns(c, Postgres!Answer(c, "ok", 
               Postgres!Rows(PodsSeen, LAMBDA id : id \in match)))
    <3>1. Postgres!Returns(c, Abstract!Answer(c, "ok", {<<id, PodsSeen[id]>> :
             id \in {i \in IDs : PodsSeen[i] /= None /\ i \in match}}))
      BY <2>2, SameAnswers DEF Postgres!Rows
    <3>2. {i \in IDs : PodsSeen[i] /= None /\ i \in match}
            = {i \in IDs : PodsSeen[i] /= None /\ labels \subseteq PodsSeen[i].labels}
      BY SeenPod
    <3> QED
      BY <3>1, <3>2, PostgresStep, SelectIsCall
  <2> QED
    BY <1>0, <1>4, <2>1, <2>2 DEF Postgres!ListPodsByLabels
<1>5. ASSUME NEW id \in IDs, Postgres!GetPod(c, id) PROVE Abstract!Call
  BY <1>0, <1>5, PostgresStep, SameAnswers, GetIsCall DEF Postgres!GetPod
<1>6. ASSUME NEW id \in IDs, Postgres!DeletePod(c, id) PROVE Abstract!Call
  <2>1. CASE pods[id] = None
    <3>1. Postgres!Done(c, "not found") /\ UNCHANGED <<tasks, pods, nodes, services, endpoints>>
      BY <1>0, <1>6, <2>1 DEF Postgres!DeletePod, Postgres!Remove
    <3>2. StoreSeen["pods"][id] = None
      BY <1>0, <2>1, SeenPod
    <3> QED
      BY <1>0, <3>1, <3>2, PostgresNotFound
  <2>2. CASE pods[id] /= None
    <3>1. Postgres!Done(c, "ok") /\ New(id, None)
      BY <1>6, <2>2 DEF Postgres!DeletePod, Postgres!Remove
    <3>2. StoreSeen' = [StoreSeen EXCEPT !["pods"][id] = None]
      BY <1>a, <3>1
    <3>3. answer' = Abstract!Answer(c, "ok", {}) /\ Abstract!Forget(c)
      BY <3>1, PostgresStep
    <3>4. StoreSeen["pods"][id] /= None
      BY <1>0, <2>2, SeenPod
    <3> QED
      BY <1>0, <3>2, <3>3, <3>4, Deletes
  <2> QED
    BY <2>1, <2>2
<1>7. ASSUME NEW id \in IDs, NEW pod \in NewPods, Postgres!AddPod(c, id, pod)
      PROVE  Abstract!Call \/ UNCHANGED Abstract!vars
  <2>1. CASE pods[id] = None
    BY <1>7, <2>1, PreparesInsert DEF Postgres!AddPod
  <2>2. CASE pods[id] /= None
    <3> DEFINE seen == [pod EXCEPT !.annotations = Abstract!Shown(@)]
    <3>1. Abstract!Read(c, Abstract!Answer(c, "exists", {})) /\ StoreSeen["pods"][id] /= None
      BY <1>0, <1>7, <2>2, PostgresStep, SeenPod DEF Postgres!AddPod
    <3> HIDE DEF seen
    <3>2. Abstract!Add(c, "pods", id, seen)
      BY <1>0, <3>1, Exists
    <3> QED
      BY <3>2, WritesAreCalls DEF seen
  <2> QED
    BY <2>1, <2>2
<1>8. ASSUME NEW id \in IDs, NEW u \in PodUpdates, Postgres!UpdatePod(c, id, u)
      PROVE  Abstract!Call
  <2>1. CASE pods[id] = None
    <3>1. Postgres!Refuses(c, "not found") /\ StoreSeen["pods"][id] = None
      BY <1>0, <1>8, <2>1, SeenPod DEF Postgres!UpdatePod
    <3> QED
      BY <1>0, <3>1, PostgresNotFound
  <2>2. CASE pods[id] /= None
    <3>1. Postgres!GoesOn(c, "update pod", id, u) /\ StoreSeen["pods"][id] /= None
      BY <1>0, <1>8, <2>2, SeenPod DEF Postgres!UpdatePod
    <3>2. TableOf("update pod") = "pods"
      BY DEF TableOf
    <3> QED
      BY <1>0, <3>1, <3>2, PreparesUpdate
  <2> QED
    BY <2>1, <2>2
<1> QED
  BY <1>1, <1>2, <1>3, <1>4, <1>5, <1>6, <1>7, <1>8 DEF Postgres!PodCalls

LEMMA PostgresNodeCalls ==
  ASSUME StoresTypeInv, backend = "postgres", UNCHANGED backend,
         NEW c \in Clients, Postgres!NodeCalls(c)
  PROVE  Abstract!Call \/ UNCHANGED Abstract!vars
<1>0. /\ "nodes" \in Abstract!Tables /\ StoreSeen["nodes"] = nodes
      /\ TypeOK /\ nodes \in [IDs -> {None} \cup NodeRecord]
  BY SeenTables DEF Abstract!Tables, StoresTypeInv, TypeOK
<1>1. CASE Postgres!ListNodes(c)
  <2>1. Postgres!Returns(c, Abstract!Answer(c, "ok", {<<id, nodes[id]>> :
           id \in {i \in IDs : nodes[i] /= None}}))
    BY <1>1, SameAnswers DEF Postgres!ListNodes, Postgres!AllRows, Postgres!Rows
  <2> QED
    BY <1>0, <2>1, PostgresStep, ListIsCall
<1>2. CASE Postgres!GetAvailableNodes(c)
  <2>1. Postgres!Returns(c, Abstract!Answer(c, "ok", {<<id, nodes[id]>> :
           id \in {i \in IDs : /\ nodes[i] /= None
                               /\ nodes[i].status = "online"
                               /\ nodes[i].runningTasks < nodes[i].maxSlots}}))
    BY <1>2, SameAnswers DEF Postgres!GetAvailableNodes, Postgres!Rows
  <2> QED
    BY <2>1, PostgresStep, AvailableIsCall
<1>3. CASE Postgres!InsertNode(c)
  <2> DEFINE id  == pending[c].id
             row == pending[c].arg
  <2>1. id \in IDs /\ row \in NewNodes
    BY <1>0, <1>3, PendingFits DEF Postgres!InsertNode, Postgres!Insert
  <2>2. /\ UNCHANGED <<tasks, pods, services, endpoints>>
        /\ \/ nodes[id] = None /\ nodes' = [nodes EXCEPT ![id] = row] /\ Postgres!Done(c, "ok")
           \/ UNCHANGED nodes /\ Postgres!Done(c, "error")
    BY <1>3 DEF Postgres!InsertNode, Postgres!Insert
  <2> HIDE DEF id, row
  <2>3. CASE nodes[id] = None /\ nodes' = [nodes EXCEPT ![id] = row] /\ Postgres!Done(c, "ok")
    <3>1. StoreSeen' = [StoreSeen EXCEPT !["nodes"][id] = row]
      BY <2>2, <2>3, NodeChange
    <3>2. answer' = Abstract!Answer(c, "ok", {}) /\ Abstract!Forget(c)
      BY <2>3, PostgresStep
    <3> QED
      BY <1>0, <2>1, <2>3, <3>1, <3>2, Adds, WritesAreCalls
  <2> QED
    BY <2>2, <2>3, PostgresFails
<1>4. CASE Postgres!SetNode(c)
  <2> DEFINE id  == pending[c].id
             u   == pending[c].arg
             row == Abstract!Overwrite(StoreSeen["nodes"][id], u)
  <2>1. id \in IDs /\ u \in NodeUpdates /\ pending[c].stmt = "update node"
    BY <1>0, <1>4, PendingFits DEF Postgres!SetNode
  <2>2. Postgres!Done(c, "ok") /\ UNCHANGED <<tasks, pods, services, endpoints>>
    BY <1>4 DEF Postgres!SetNode
  <2>3. nodes' = IF nodes[id] = None THEN nodes
                 ELSE [nodes EXCEPT ![id] = Postgres!Overwrite(nodes[id], u)]
    BY <1>4 DEF Postgres!SetNode
  <2>4. FoundSeen[c] = <<"nodes", id>>
    BY <2>1, RowFound DEF TableOf
  <2>5. Postgres!Overwrite(nodes[id], u) = row
    BY <1>0 DEF Postgres!Overwrite, Abstract!Overwrite
  <2> HIDE DEF id, u, row
  <2>6. answer' = Abstract!Answer(c, "ok", {}) /\ Abstract!Forget(c)
    BY <2>2, PostgresStep
  <2>7. CASE nodes[id] = None
    <3>1. UNCHANGED StoreSeen
      BY <2>2, <2>3, <2>7, SeenUnchanged
    <3>2. Abstract!Update(c, "nodes", id, row)
      BY <1>0, <2>1, <2>4, <2>6, <2>7, <3>1, Updates
    <3> QED
      BY <2>1, <3>2, WritesAreCalls DEF row
  <2>8. CASE nodes[id] /= None
    <3>1. StoreSeen' = [StoreSeen EXCEPT !["nodes"][id] = row]
      BY <2>2, <2>3, <2>5, <2>8, NodeChange
    <3>2. Abstract!Update(c, "nodes", id, row)
      BY <1>0, <2>1, <2>6, <2>8, <3>1, Updates
    <3> QED
      BY <2>1, <3>2, WritesAreCalls DEF row
  <2> QED
    BY <2>7, <2>8
<1>5. ASSUME NEW id \in IDs, Postgres!GetNode(c, id) PROVE Abstract!Call
  BY <1>0, <1>5, PostgresStep, SameAnswers, GetIsCall DEF Postgres!GetNode
<1>6. ASSUME NEW id \in IDs, Postgres!DeleteNode(c, id) PROVE Abstract!Call
  <2>1. CASE nodes[id] = None
    <3>1. Postgres!Done(c, "not found") /\ UNCHANGED <<tasks, pods, nodes, services, endpoints>>
      BY <1>0, <1>6, <2>1 DEF Postgres!DeleteNode, Postgres!Remove
    <3> QED
      BY <1>0, <2>1, <3>1, PostgresNotFound
  <2>2. CASE nodes[id] /= None
    <3>1. /\ Postgres!Done(c, "ok") /\ nodes' = [nodes EXCEPT ![id] = None]
          /\ UNCHANGED <<tasks, pods, services, endpoints>>
      BY <1>6, <2>2 DEF Postgres!DeleteNode, Postgres!Remove
    <3>2. StoreSeen' = [StoreSeen EXCEPT !["nodes"][id] = None]
      BY <3>1, NodeChange
    <3>3. answer' = Abstract!Answer(c, "ok", {}) /\ Abstract!Forget(c)
      BY <3>1, PostgresStep
    <3> QED
      BY <1>0, <2>2, <3>2, <3>3, Deletes
  <2> QED
    BY <2>1, <2>2
<1>7. ASSUME NEW id \in IDs, NEW node \in NewNodes, Postgres!AddNode(c, id, node)
      PROVE  Abstract!Call \/ UNCHANGED Abstract!vars
  <2>1. CASE nodes[id] = None
    BY <1>7, <2>1, PreparesInsert DEF Postgres!AddNode
  <2>2. CASE nodes[id] /= None
    BY <1>0, <1>7, <2>2, PostgresStep, Exists, WritesAreCalls DEF Postgres!AddNode
  <2> QED
    BY <2>1, <2>2
<1>8. ASSUME NEW id \in IDs, NEW u \in NodeUpdates, Postgres!UpdateNode(c, id, u)
      PROVE  Abstract!Call
  <2>1. CASE nodes[id] = None
    BY <1>0, <1>8, <2>1, PostgresNotFound DEF Postgres!UpdateNode
  <2>2. CASE nodes[id] /= None
    <3>1. Postgres!GoesOn(c, "update node", id, u)
      BY <1>8, <2>2 DEF Postgres!UpdateNode
    <3>2. TableOf("update node") = "nodes"
      BY DEF TableOf
    <3> QED
      BY <1>0, <2>2, <3>1, <3>2, PreparesUpdate
  <2> QED
    BY <2>1, <2>2
<1> QED
  BY <1>1, <1>2, <1>3, <1>4, <1>5, <1>6, <1>7, <1>8 DEF Postgres!NodeCalls

(* Deleting a service takes its endpoints along. *)
LEMMA ServiceAndEndpointsChange ==
  ASSUME UNCHANGED backend, NEW id,
         services' = [services EXCEPT ![id] = None],
         endpoints' = [endpoints EXCEPT ![id] = None],
         UNCHANGED <<tasks, pods, nodes>>
  PROVE  StoreSeen' = [StoreSeen EXCEPT !["services"][id] = None, !["endpoints"][id] = None]
BY SeenAlone DEF StoreSeen

LEMMA PostgresServiceCalls ==
  ASSUME StoresTypeInv, backend = "postgres", UNCHANGED backend,
         NEW c \in Clients, Postgres!ServiceCalls(c)
  PROVE  Abstract!Call \/ UNCHANGED Abstract!vars
<1>0. /\ {"services", "endpoints"} \subseteq Abstract!Tables /\ TypeOK
      /\ StoreSeen["services"] = services /\ StoreSeen["endpoints"] = endpoints
      /\ services \in [IDs -> Selectors \cup {None}]
      /\ endpoints \in [IDs -> Subsets \cup {None}]
  BY SeenTables DEF Abstract!Tables, StoresTypeInv, TypeOK
<1>1. CASE Postgres!InsertService(c)
  <2> DEFINE id  == pending[c].id
             row == pending[c].arg
  <2>1. id \in IDs /\ row \in Selectors
    BY <1>0, <1>1, PendingFits DEF Postgres!InsertService, Postgres!Insert
  <2>2. /\ UNCHANGED <<tasks, pods, nodes, endpoints>>
        /\ \/ /\ services[id] = None /\ services' = [services EXCEPT ![id] = row]
              /\ Postgres!Done(c, "ok")
           \/ UNCHANGED services /\ Postgres!Done(c, "error")
    BY <1>1 DEF Postgres!InsertService, Postgres!Insert
  <2> HIDE DEF id, row
  <2>3. CASE /\ services[id] = None
             /\ services' = [services EXCEPT ![id] = row]
             /\ Postgres!Done(c, "ok")
    <3>1. StoreSeen' = [StoreSeen EXCEPT !["services"][id] = row]
      BY <2>2, <2>3, ServiceChange
    <3>2. answer' = Abstract!Answer(c, "ok", {}) /\ Abstract!Forget(c)
      BY <2>3, PostgresStep
    <3> QED
      BY <1>0, <2>1, <2>3, <3>1, <3>2, Adds, WritesAreCalls
  <2> QED
    BY <2>2, <2>3, PostgresFails
<1>2. CASE Postgres!SetService(c)
  <2> DEFINE id  == pending[c].id
             row == pending[c].arg
  <2>1. id \in IDs /\ row \in Selectors /\ pending[c].stmt = "update service"
    BY <1>0, <1>2, PendingFits DEF Postgres!SetService
  <2>2. Postgres!Done(c, "ok") /\ UNCHANGED <<tasks, pods, nodes, endpoints>>
    BY <1>2 DEF Postgres!SetService
  <2>3. services' = IF services[id] = None THEN services
                    ELSE [services EXCEPT ![id] = row]
    BY <1>2 DEF Postgres!SetService
  <2>4. FoundSeen[c] = <<"services", id>>
    BY <2>1, RowFound DEF TableOf
  <2> HIDE DEF id, row
  <2>5. answer' = Abstract!Answer(c, "ok", {}) /\ Abstract!Forget(c)
    BY <2>2, PostgresStep
  <2>6. CASE services[id] = None
    <3>1. UNCHANGED StoreSeen
      BY <2>2, <2>3, <2>6, SeenUnchanged
    <3>2. Abstract!Update(c, "services", id, row)
      BY <1>0, <2>1, <2>4, <2>5, <2>6, <3>1, Updates
    <3> QED
      BY <2>1, <3>2, WritesAreCalls
  <2>7. CASE services[id] /= None
    <3>1. StoreSeen' = [StoreSeen EXCEPT !["services"][id] = row]
      BY <2>2, <2>3, <2>7, ServiceChange
    <3>2. Abstract!Update(c, "services", id, row)
      BY <1>0, <2>1, <2>5, <2>7, <3>1, Updates
    <3> QED
      BY <2>1, <3>2, WritesAreCalls
  <2> QED
    BY <2>6, <2>7
<1>3. ASSUME NEW ns \in Namespaces \cup {Nil}, Postgres!ListServices(c, ns)
      PROVE  Abstract!Call
  <2>1. Postgres!Returns(c, Abstract!Answer(c, "ok", {<<id, services[id]>> :
           id \in {i \in IDs : services[i] /= None /\ ns \in {Nil, Ident[i].namespace}}}))
    BY <1>3, SameAnswers DEF Postgres!ListServices, Postgres!Rows
  <2> QED
    BY <2>1, PostgresStep, InNamespaceIsCall
<1>4. ASSUME NEW n \in Names, NEW ns \in Namespaces,
             Postgres!GetServiceByName(c, n, ns) \/ Postgres!GetEndpointsByServiceName(c, n, ns)
      PROVE  Abstract!Call
  <2>1. ASSUME NEW t \in {"services", "endpoints"}, Postgres!ByName(c, StoreSeen[t], n, ns)
        PROVE  Abstract!Call
    BY <2>1, PostgresStep, SameAnswers, NamedIsCall DEF Postgres!ByName
  <2> QED
    BY <1>0, <1>4, <2>1 DEF Postgres!GetServiceByName, Postgres!GetEndpointsByServiceName
<1>5. ASSUME NEW id \in IDs, Postgres!GetService(c, id) \/ Postgres!GetEndpoints(c, id)
      PROVE  Abstract!Call
  BY <1>0, <1>5, PostgresStep, SameAnswers, GetIsCall
     DEF Postgres!GetService, Postgres!GetEndpoints
<1>6. ASSUME NEW id \in IDs, Postgres!DeleteService(c, id) PROVE Abstract!Call
  <2>1. CASE services[id] = None
    <3>1. Postgres!Done(c, "not found") /\ UNCHANGED <<tasks, pods, nodes, services, endpoints>>
      BY <1>0, <1>6, <2>1 DEF Postgres!DeleteService, Postgres!Remove
    <3> QED
      BY <1>0, <2>1, <3>1, PostgresNotFound
  <2>2. CASE services[id] /= None
    <3>1. /\ Postgres!Done(c, "ok") /\ services' = [services EXCEPT ![id] = None]
          /\ endpoints' = [endpoints EXCEPT ![id] = None]
          /\ UNCHANGED <<tasks, pods, nodes>>
      BY <1>6, <2>2 DEF Postgres!DeleteService, Postgres!Remove
    <3>2. StoreSeen' = [StoreSeen EXCEPT !["services"][id] = None, !["endpoints"][id] = None]
      BY <3>1, ServiceAndEndpointsChange
    <3>3. answer' = Abstract!Answer(c, "ok", {}) /\ Abstract!Forget(c)
      BY <3>1, PostgresStep
    <3> QED
      BY <1>0, <2>2, <3>2, <3>3, Deletes
  <2> QED
    BY <2>1, <2>2
<1>7. ASSUME NEW id \in IDs, Postgres!DeleteEndpoints(c, id) PROVE Abstract!Call
  <2>1. CASE endpoints[id] = None
    <3>1. Postgres!Done(c, "not found") /\ UNCHANGED <<tasks, pods, nodes, services, endpoints>>
      BY <1>0, <1>7, <2>1 DEF Postgres!DeleteEndpoints, Postgres!Remove
    <3> QED
      BY <1>0, <2>1, <3>1, PostgresNotFound
  <2>2. CASE endpoints[id] /= None
    <3>1. /\ Postgres!Done(c, "ok") /\ endpoints' = [endpoints EXCEPT ![id] = None]
          /\ UNCHANGED <<tasks, pods, nodes, services>>
      BY <1>7, <2>2 DEF Postgres!DeleteEndpoints, Postgres!Remove
    <3>2. StoreSeen' = [StoreSeen EXCEPT !["endpoints"][id] = None]
      BY <3>1, EndpointsChange
    <3>3. answer' = Abstract!Answer(c, "ok", {}) /\ Abstract!Forget(c)
      BY <3>1, PostgresStep
    <3> QED
      BY <1>0, <2>2, <3>2, <3>3, Deletes
  <2> QED
    BY <2>1, <2>2
<1>8. ASSUME NEW id \in IDs, NEW sel \in Selectors, Postgres!AddService(c, id, sel)
      PROVE  Abstract!Call \/ UNCHANGED Abstract!vars
  <2>1. CASE services[id] = None
    BY <1>8, <2>1, PreparesInsert DEF Postgres!AddService
  <2>2. CASE services[id] /= None
    BY <1>0, <1>8, <2>2, PostgresStep, Exists, WritesAreCalls DEF Postgres!AddService
  <2> QED
    BY <2>1, <2>2
<1>9. ASSUME NEW id \in IDs, NEW sel \in Selectors, Postgres!UpdateService(c, id, sel)
      PROVE  Abstract!Call
  <2>1. CASE services[id] = None
    BY <1>0, <1>9, <2>1, PostgresNotFound DEF Postgres!UpdateService
  <2>2. CASE services[id] /= None
    <3>1. Postgres!GoesOn(c, "update service", id, sel)
      BY <1>9, <2>2 DEF Postgres!UpdateService
    <3>2. TableOf("update service") = "services"
      BY DEF TableOf
    <3> QED
      BY <1>0, <2>2, <3>1, <3>2, PreparesUpdate
  <2> QED
    BY <2>1, <2>2
<1>10. ASSUME NEW id \in IDs, NEW s \in Subsets, Postgres!SetEndpoints(c, id, s)
      PROVE  Abstract!Call
  <2>1. CASE services[id] = None
    <3>1. Postgres!Done(c, "error") /\ UNCHANGED <<tasks, pods, nodes, services, endpoints>>
      BY <1>10, <2>1 DEF Postgres!SetEndpoints
    <3> QED
      BY <3>1, PostgresFails
  <2>2. CASE services[id] /= None
    <3>1. /\ Postgres!Done(c, "ok") /\ endpoints' = [endpoints EXCEPT ![id] = s]
          /\ UNCHANGED <<tasks, pods, nodes, services>>
      BY <1>10, <2>2 DEF Postgres!SetEndpoints
    <3>2. StoreSeen' = [StoreSeen EXCEPT !["endpoints"][id] = s]
      BY <3>1, EndpointsChange
    <3>3. Abstract!SetEndpoints(c, id, s)
      BY <3>1, <3>2, PostgresStep DEF Abstract!SetEndpoints
    <3> QED
      BY <3>3, WritesAreCalls
  <2> QED
    BY <2>1, <2>2
<1>11. Postgres!Names = Names /\ Postgres!Namespaces = Namespaces
  BY DEF Names, Namespaces, Postgres!Names, Postgres!Namespaces
<1> QED
  BY <1>1, <1>2, <1>3, <1>4, <1>5, <1>6, <1>7, <1>8, <1>9, <1>10, <1>11
     DEF Postgres!ServiceCalls

-----------------------------------------------------------------------------
(* Pods that come with a map keep an object in the column. *)
LEMMA ObjectsInit == Init => AnnotationsAreObjects
<1> SUFFICES ASSUME Init PROVE AnnotationsAreObjects
  OBVIOUS
<1>1. /\ \A id \in IDs : pods[id] = None
      /\ \A c \in Clients : pending[c].stmt = "none"
  BY IdleIsNone DEF Init, Postgres!Init
<1> QED
  BY <1>1 DEF AnnotationsAreObjects

LEMMA RowOfMap ==
  ASSUME NEW p \in PodRecord, p.annotations /= Nil
  PROVE  Postgres!PodRow(p).annotations.json = "object"
BY DEF PodRecord, Postgres!PodRow, Postgres!JSON

(* A statement that prepares no pod, and leaves the pods.                  *)
LEMMA ObjectsStay ==
  ASSUME AnnotationsAreObjects, StoresTypeInv, backend = "postgres", UNCHANGED <<pods, backend>>,
         \A c \in Clients : pending'[c] = pending[c] \/ pending'[c].stmt /= "insert pod"
  PROVE  AnnotationsAreObjects'
BY DEF AnnotationsAreObjects

LEMMA PreparesNoPod ==
  ASSUME StoresTypeInv, NEW c \in Clients,
         \/ \E ans : Postgres!Returns(c, ans)
         \/ \E err : Postgres!Refuses(c, err) \/ Postgres!Done(c, err)
         \/ \E stmt, id, arg : stmt /= "insert pod" /\ Postgres!GoesOn(c, stmt, id, arg)
  PROVE  \A d \in Clients : pending'[d] = pending[d] \/ pending'[d].stmt /= "insert pod"
<1>0. DOMAIN pending = Clients
  BY DEF StoresTypeInv, TypeOK
<1>1. CASE UNCHANGED pending
  BY <1>1
<1>2. CASE pending' = [pending EXCEPT ![c] = Postgres!Idle]
  BY <1>0, <1>2, IdleIsNone
<1>3. ASSUME NEW stmt, NEW id, NEW arg, stmt /= "insert pod", Postgres!GoesOn(c, stmt, id, arg)
      PROVE  \A d \in Clients : pending'[d] = pending[d] \/ pending'[d].stmt /= "insert pod"
  <2> DEFINE next == [stmt |-> stmt, id |-> id, arg |-> arg]
  <2>1. pending' = [pending EXCEPT ![c] = next] /\ next.stmt = stmt
    BY <1>3 DEF Postgres!GoesOn
  <2> HIDE DEF next
  <2> QED
    BY <1>0, <1>3, <2>1
<1> QED
  BY <1>1, <1>2, <1>3 DEF Postgres!Returns, Postgres!Refuses, Postgres!Done

LEMMA OtherCallsLeavePods ==
  ASSUME StoresTypeInv, NEW c \in Clients,
         \/ Postgres!TaskCalls(c) \/ Postgres!NodeCalls(c) \/ Postgres!ServiceCalls(c)
         \/ Postgres!StatementFails(c)
  PROVE  /\ UNCHANGED pods
         /\ \A d \in Clients : pending'[d] = pending[d] \/ pending'[d].stmt /= "insert pod"
<1> DEFINE quiet == \/ \E ans : Postgres!Returns(c, ans)
                    \/ \E err : Postgres!Refuses(c, err)
                    \/ \E err : Postgres!Done(c, err) /\ UNCHANGED pods
                    \/ \E stmt, id, arg : stmt /= "insert pod" /\ Postgres!GoesOn(c, stmt, id, arg)
<1>1. CASE Postgres!TaskCalls(c)
  <2>1. quiet
    BY <1>1 DEF Postgres!TaskCalls, Postgres!ListTasks, Postgres!InsertTask, Postgres!SetTask,
       Postgres!GetTask, Postgres!DeleteTask, Postgres!AddTask, Postgres!UpdateTask,
       Postgres!Insert, Postgres!Remove
  <2> QED
    BY <2>1, PreparesNoPod DEF Postgres!Returns, Postgres!Refuses, Postgres!GoesOn, Postgres!tables
<1>2. CASE Postgres!NodeCalls(c)
  <2>1. quiet
    BY <1>2 DEF Postgres!NodeCalls, Postgres!ListNodes, Postgres!GetAvailableNodes,
       Postgres!InsertNode, Postgres!SetNode, Postgres!GetNode, Postgres!DeleteNode,
       Postgres!AddNode, Postgres!UpdateNode, Postgres!Insert, Postgres!Remove
  <2> QED
    BY <2>1, PreparesNoPod DEF Postgres!Returns, Postgres!Refuses, Postgres!GoesOn, Postgres!tables
<1>3. CASE Postgres!ServiceCalls(c)
  <2>1. quiet
    BY <1>3 DEF Postgres!ServiceCalls, Postgres!ListServices, Postgres!GetServiceByName,
       Postgres!GetEndpointsByServiceName, Postgres!ByName, Postgres!GetService,
       Postgres!InsertService, Postgres!SetService, Postgres!DeleteService,
       Postgres!GetEndpoints, Postgres!DeleteEndpoints, Postgres!SetEndpoints,
       Postgres!AddService, Postgres!UpdateService, Postgres!Insert, Postgres!Remove
  <2> QED
    BY <2>1, PreparesNoPod DEF Postgres!Returns, Postgres!Refuses, Postgres!GoesOn, Postgres!tables
<1>4. CASE Postgres!StatementFails(c)
  BY <1>4, PreparesNoPod DEF Postgres!StatementFails, Postgres!tables
<1> QED
  BY <1>1, <1>2, <1>3, <1>4

LEMMA PodCallsKeepObjects ==
  ASSUME PodsComeWithMap, StoresTypeInv, AnnotationsAreObjects, backend = "postgres",
         UNCHANGED backend, NEW c \in Clients, Postgres!PodCalls(c)
  PROVE  AnnotationsAreObjects'
<1>0. /\ TypeOK /\ pods \in [IDs -> {None} \cup Postgres!PodRows] /\ DOMAIN pending = Clients
      /\ \A id \in IDs : pods[id] /= None => pods[id].annotations.json = "object"
      /\ \A d \in Clients : pending[d].stmt = "insert pod" =>
                             pending[d].arg.annotations.json = "object"
  BY DEF StoresTypeInv, TypeOK, PodTable, AnnotationsAreObjects
<1>a. ASSUME \/ \E ans : Postgres!Returns(c, ans)
             \/ \E err : Postgres!Refuses(c, err)
             \/ \E stmt, id, arg : stmt /= "insert pod" /\ Postgres!GoesOn(c, stmt, id, arg)
      PROVE  AnnotationsAreObjects'
  BY <1>a, PreparesNoPod, ObjectsStay
     DEF Postgres!Returns, Postgres!Refuses, Postgres!GoesOn, Postgres!tables
<1>b. ASSUME NEW err, Postgres!Done(c, err),
             \A id \in IDs : pods'[id] /= None => pods'[id].annotations.json = "object"
      PROVE  AnnotationsAreObjects'
  BY <1>0, <1>b, PreparesNoPod DEF AnnotationsAreObjects, Postgres!Done
<1>1. CASE Postgres!ListPods(c)
  BY <1>1, <1>a DEF Postgres!ListPods
<1>2. CASE Postgres!InsertPod(c)
  <2>1. \A id \in IDs : pods'[id] /= None => pods'[id].annotations.json = "object"
    BY <1>0, <1>2 DEF Postgres!InsertPod, Postgres!Insert
  <2> QED
    BY <1>2, <1>b, <2>1 DEF Postgres!InsertPod, Postgres!Insert
<1>3. CASE Postgres!SetPod(c)
  <2>1. pending[c].id \in IDs /\ pending[c].arg \in PodUpdates
    BY <1>0, <1>3, PendingFits DEF Postgres!SetPod
  <2>2. pods[pending[c].id] /= None =>
          Postgres!UpdatedRow(pods[pending[c].id], pending[c].arg).annotations.json = "object"
    BY <1>0, <2>1, UpdatedPod
  <2>3. \A id \in IDs : pods'[id] /= None => pods'[id].annotations.json = "object"
    BY <1>0, <1>3, <2>1, <2>2 DEF Postgres!SetPod
  <2> QED
    BY <1>3, <1>b, <2>3 DEF Postgres!SetPod
<1>4. ASSUME NEW labels, Postgres!ListPodsByLabels(c, labels) PROVE AnnotationsAreObjects'
  <2>1. Postgres!Refuses(c, "error") \/ \E ans : Postgres!Returns(c, ans)
    BY <1>4 DEF Postgres!ListPodsByLabels
  <2> QED
    BY <1>a, <2>1
<1>5. ASSUME NEW id \in IDs, Postgres!GetPod(c, id) PROVE AnnotationsAreObjects'
  BY <1>5, <1>a DEF Postgres!GetPod
<1>6. ASSUME NEW id \in IDs, Postgres!DeletePod(c, id) PROVE AnnotationsAreObjects'
  <2>1. \A i \in IDs : pods'[i] /= None => pods'[i].annotations.json = "object"
    BY <1>0, <1>6 DEF Postgres!DeletePod, Postgres!Remove
  <2> QED
    BY <1>6, <1>b, <2>1 DEF Postgres!DeletePod, Postgres!Remove
<1>7. ASSUME NEW id \in IDs, NEW pod \in NewPods, Postgres!AddPod(c, id, pod)
      PROVE  AnnotationsAreObjects'
  <2> DEFINE next == [stmt |-> "insert pod", id |-> id, arg |-> Postgres!PodRow(pod)]
  <2>1. next.arg.annotations.json = "object"
    BY RowOfMap, CallsAssumption DEF PodsComeWithMap
  <2>2. CASE pods[id] = None
    <3>1. UNCHANGED pods /\ pending' = [pending EXCEPT ![c] = next]
      BY <1>7, <2>2 DEF Postgres!AddPod, Postgres!GoesOn, Postgres!tables
    <3> HIDE DEF next
    <3> QED
      BY <1>0, <2>1, <3>1 DEF AnnotationsAreObjects
  <2>3. CASE pods[id] /= None
    BY <1>7, <1>a, <2>3 DEF Postgres!AddPod
  <2> QED
    BY <2>2, <2>3
<1>8. ASSUME NEW id \in IDs, NEW u \in PodUpdates, Postgres!UpdatePod(c, id, u)
      PROVE  AnnotationsAreObjects'
  BY <1>8, <1>a DEF Postgres!UpdatePod
<1> QED
  BY <1>1, <1>2, <1>3, <1>4, <1>5, <1>6, <1>7, <1>8 DEF Postgres!PodCalls

LEMMA ObjectsStep ==
  ASSUME PodsComeWithMap, StoresTypeInv, AnnotationsAreObjects, [Next]_vars
  PROVE  AnnotationsAreObjects'
<1>1. CASE UNCHANGED vars
  BY <1>1 DEF vars, AnnotationsAreObjects
<1>2. CASE backend = "memory" /\ UNCHANGED backend
  BY <1>2 DEF AnnotationsAreObjects
<1>3. CASE backend = "postgres" /\ Postgres!Next /\ UNCHANGED backend
  BY <1>3, OtherCallsLeavePods, ObjectsStay, PodCallsKeepObjects DEF Postgres!Next
<1> QED
  BY <1>1, <1>2, <1>3 DEF Next, StoresTypeInv, TypeOK

-----------------------------------------------------------------------------
(* Every statement of either store is a step of the interface. *)
LEMMA InitImplements == Init => Abstract!Init
<1> SUFFICES ASSUME Init PROVE Abstract!Init
  OBVIOUS
<1>1. /\ tasks = [id \in IDs |-> None] /\ pods = [id \in IDs |-> None]
      /\ nodes = [id \in IDs |-> None] /\ services = [id \in IDs |-> None]
      /\ endpoints = [id \in IDs |-> None]
      /\ pending = [c \in Clients |-> Postgres!Idle]
      /\ answer = Postgres!Answer(None, "ok", {})
  BY DEF Init, Postgres!Init
<1>2. TasksSeen = [id \in IDs |-> None] /\ PodsSeen = [id \in IDs |-> None]
  BY <1>1 DEF TasksSeen, PodsSeen, Postgres!TasksRead, Postgres!PodsRead, Memory!PodsShown
<1>3. StoreSeen = [t \in Abstract!Tables |-> [id \in IDs |-> None]]
  BY <1>1, <1>2 DEF StoreSeen, Abstract!Tables
<1>4. \A c \in Clients : FoundRow(c) = None
  BY <1>1, IdleIsNone DEF FoundRow, TableOf
<1>5. FoundSeen = [c \in Clients |-> None]
  BY <1>4 DEF FoundSeen
<1> QED
  BY <1>1, <1>3, <1>5, SameAnswers DEF Abstract!Init

LEMMA StepImplements ==
  ASSUME StoresTypeInv, AnnotationsAreObjects, [Next]_vars
  PROVE  [Abstract!Next]_(Abstract!vars)
<1>1. CASE UNCHANGED vars
  <2>1. UNCHANGED StoreSeen /\ UNCHANGED answer
    BY <1>1, SeenUnchanged DEF vars
  <2>2. UNCHANGED FoundSeen
    BY <1>1 DEF vars, FoundSeen, FoundRow
  <2> QED
    BY <2>1, <2>2 DEF Abstract!vars
<1>2. CASE backend = "memory" /\ Memory!Next /\ UNCHANGED <<backend, pending>>
  <2>1. Abstract!Call
    BY <1>2, MemoryTaskCalls, MemoryPodCalls, MemoryNodeCalls, MemoryServiceCalls
       DEF Memory!Next
  <2> QED
    BY <2>1, CallRefines
<1>3. CASE backend = "postgres" /\ Postgres!Next /\ UNCHANGED backend
  <2>1. ASSUME NEW c \in Clients, Postgres!StatementFails(c) PROVE Abstract!Call
    BY <1>3, <2>1, PostgresFails DEF Postgres!StatementFails, Postgres!tables
  <2>2. Abstract!Call \/ UNCHANGED Abstract!vars
    BY <1>3, <2>1, PostgresTaskCalls, PostgresPodCalls, PostgresNodeCalls, PostgresServiceCalls
       DEF Postgres!Next
  <2> QED
    BY <2>2, CallRefines
<1> QED
  BY <1>1, <1>2, <1>3 DEF Next

(* Callers cannot tell the stores apart: each step of either is a step of  *)
(* the interface StateStore or changes nothing they see, also when the     *)
(* statements of PostgreSQL calls interleave or fail. The hypothesis is    *)
(* that pods are added with an annotations map: the handlers do not ensure *)
(* it, and without it PostgreSQL drops what is merged (the run             *)
(* PostgresDropsAnnotations).                                              *)
THEOREM StoresImplementInterface == PodsComeWithMap => (Spec => ImplementsStateStore)
<1>1. PodsComeWithMap /\ StoresTypeInv /\ AnnotationsAreObjects /\ [Next]_vars
        => AnnotationsAreObjects'
  BY ObjectsStep
<1>2. StoresTypeInv /\ [Next]_vars => StoresTypeInv'
  BY StoresTypeStep
<1>3. StoresTypeInv /\ AnnotationsAreObjects /\ [Next]_vars => [Abstract!Next]_(Abstract!vars)
  BY StepImplements
<1> SUFFICES ASSUME PodsComeWithMap PROVE Spec => ImplementsStateStore
  OBVIOUS
<1>4. StoresTypeInv /\ AnnotationsAreObjects /\ [Next]_vars => AnnotationsAreObjects'
  BY <1>1
<1> QED
  BY <1>2, <1>3, <1>4, StoresTypeInit, ObjectsInit, InitImplements, PTL
     DEF Spec, ImplementsStateStore, Abstract!Spec

(* The in-memory store implements the interface whatever pods come with:   *)
(* every call is one step under its lock.                                  *)
THEOREM MemoryImplementsInterface == Spec /\ backend = "memory" => ImplementsStateStore
<1>1. StoresTypeInv /\ backend = "memory" /\ [Next]_vars
        => StoresTypeInv' /\ (backend = "memory")'
  BY StoresTypeStep DEF Next, vars
<1>2. StoresTypeInv /\ backend = "memory" => AnnotationsAreObjects
  BY DEF AnnotationsAreObjects
<1>3. StoresTypeInv /\ backend = "memory" /\ [Next]_vars => [Abstract!Next]_(Abstract!vars)
  BY <1>2, StepImplements
<1> QED
  BY <1>1, <1>3, StoresTypeInit, InitImplements, PTL
     DEF Spec, ImplementsStateStore, Abstract!Spec

(* A client that has an UPDATE of a pod to execute takes only two steps,   *)
(* and nobody else changes what it has to execute.                         *)
LEMMA OwnStatement ==
  ASSUME StoresTypeInv, backend = "postgres", NEW c \in Clients, NEW d \in Clients,
         \/ Postgres!TaskCalls(d) \/ Postgres!PodCalls(d) \/ Postgres!NodeCalls(d)
         \/ Postgres!ServiceCalls(d) \/ Postgres!StatementFails(d),
         pending[c].stmt = "update pod", pending'[c] = Postgres!Idle, answer'.err = "ok"
  PROVE  c = d /\ Postgres!SetPod(c)
<1>0. pending[c] /= Postgres!Idle /\ pending'[c] /= pending[c] /\ DOMAIN pending = Clients
  BY IdleIsNone DEF StoresTypeInv, TypeOK
<1> DEFINE ByOther == \/ pending' = pending
                      \/ \E next : pending' = [pending EXCEPT ![d] = next]
           Begins  == \/ \E ans : Postgres!Returns(d, ans)
                      \/ \E err : Postgres!Refuses(d, err)
                      \/ \E stmt, id, arg : Postgres!GoesOn(d, stmt, id, arg)
                      \/ pending[d] = Postgres!Idle /\ \E err : Postgres!Done(d, err)
           Ends    == /\ \E err : Postgres!Done(d, err)
                      /\ pending[d].stmt \in {"insert task", "insert pod", "insert node",
                           "insert service", "update task", "update node", "update service"}
<1>1. Begins \/ Ends \/ Postgres!SetPod(d) \/ Postgres!StatementFails(d)
  <2>1. CASE Postgres!TaskCalls(d)
    BY <2>1 DEF Postgres!TaskCalls, Postgres!ListTasks, Postgres!InsertTask, Postgres!SetTask,
       Postgres!GetTask, Postgres!DeleteTask, Postgres!AddTask, Postgres!UpdateTask,
       Postgres!Insert, Postgres!Remove
  <2>2. CASE Postgres!NodeCalls(d)
    BY <2>2 DEF Postgres!NodeCalls, Postgres!ListNodes, Postgres!GetAvailableNodes,
       Postgres!InsertNode, Postgres!SetNode, Postgres!GetNode, Postgres!DeleteNode,
       Postgres!AddNode, Postgres!UpdateNode, Postgres!Insert, Postgres!Remove
  <2>3. CASE Postgres!ServiceCalls(d)
    BY <2>3 DEF Postgres!ServiceCalls, Postgres!ListServices, Postgres!GetServiceByName,
       Postgres!GetEndpointsByServiceName, Postgres!ByName, Postgres!GetService,
       Postgres!InsertService, Postgres!SetService, Postgres!DeleteService,
       Postgres!GetEndpoints, Postgres!DeleteEndpoints, Postgres!SetEndpoints,
       Postgres!AddService, Postgres!UpdateService, Postgres!Insert, Postgres!Remove
  <2>4. CASE Postgres!PodCalls(d)
    BY <2>4 DEF Postgres!PodCalls, Postgres!ListPods, Postgres!InsertPod,
       Postgres!ListPodsByLabels, Postgres!GetPod, Postgres!DeletePod, Postgres!AddPod,
       Postgres!UpdatePod, Postgres!Insert, Postgres!Remove
  <2> QED
    BY <2>1, <2>2, <2>3, <2>4
<1>2. Begins \/ Ends \/ Postgres!SetPod(d) \/ Postgres!StatementFails(d) => ByOther
  BY DEF Postgres!Returns, Postgres!Refuses, Postgres!GoesOn, Postgres!Done, Postgres!SetPod,
         Postgres!StatementFails
<1>3. c = d
  <2> HIDE DEF Begins, Ends
  <2>1. ByOther
    BY <1>1, <1>2
  <2> QED
    BY <1>0, <2>1
<1>4. ~Begins
  BY <1>0, <1>3 DEF Postgres!Returns, Postgres!Refuses, Postgres!GoesOn
<1>5. ~Ends
  BY <1>3
<1>6. ~Postgres!StatementFails(d)
  <2>1. Postgres!StatementFails(d) => answer' = Postgres!Answer(d, "error", {})
    BY DEF Postgres!StatementFails, Postgres!Done
  <2>2. Postgres!Answer(d, "error", {}).err = "error"
    BY DEF Postgres!Answer
  <2> QED
    BY <2>1, <2>2
<1> QED
  BY <1>1, <1>3, <1>4, <1>5, <1>6

(* The union, when the column is an object. *)
LEMMA MergeStep ==
  ASSUME StoresTypeInv, AnnotationsAreObjects, [Next]_vars, NEW c \in Clients,
         pending[c].stmt = "update pod", pods[pending[c].id] /= None,
         pending'[c] = Postgres!Idle, answer'.err = "ok"
  PROVE  PodsSeen'[pending[c].id].annotations
           = PodsSeen[pending[c].id].annotations \cup Shown(pending[c].arg.annotations)
<1>1. backend = "postgres" /\ UNCHANGED backend
  BY IdleIsNone DEF StoresTypeInv, TypeOK, OnlyPostgresWaits, Next, vars
<1>2. Postgres!SetPod(c)
  BY <1>1, IdleIsNone, OwnStatement DEF Next, Postgres!Next, vars
<1> DEFINE id  == pending[c].id
           u   == pending[c].arg
           new == Postgres!UpdatedRow(pods[id], u)
<1>3. id \in IDs /\ u \in PodUpdates
  BY PendingFits DEF StoresTypeInv
<1>4. /\ pods[id] \in Postgres!PodRows /\ PodsSeen[id] = Postgres!PodOf(pods[id])
      /\ pods[id].annotations.json = "object"
  BY <1>1, <1>3, SeenPod DEF AnnotationsAreObjects
<1>5. pods' = [pods EXCEPT ![id] = new]
  BY <1>2 DEF Postgres!SetPod
<1>6. /\ new \in Postgres!PodRows /\ Postgres!PodOf(new).annotations = new.annotations.keys
      /\ Postgres!PodOf(pods[id]).annotations = pods[id].annotations.keys
  BY <1>3, <1>4, UpdatedPod, PodOfRow
<1>7. new.annotations.keys = pods[id].annotations.keys \cup Abstract!Shown(u.annotations)
  <2>1. Postgres!Overwrite(pods[id], u.fields) \in Postgres!PodRows
        /\ Postgres!Overwrite(pods[id], u.fields).annotations = pods[id].annotations
    BY <1>3, <1>4, OverwritePod, CallsAssumption DEF Postgres!PodRows, Postgres!Overwrite
  <2>2. new.annotations = Postgres!Merged(pods[id].annotations, u.annotations)
    BY <2>1 DEF Postgres!UpdatedRow, Postgres!PodRows
  <2>3. pods[id].annotations \in Postgres!JSONB /\ u.annotations \in Annotations
    BY <1>3, <1>4, CallsAssumption DEF Postgres!PodRows
  <2> QED
    BY <1>4, <2>2, <2>3, MergedObjects
<1>8. PodsSeen'[id] = Postgres!PodOf(new)
  <2> HIDE DEF id, new
  <2>1. PodsSeen' = [PodsSeen EXCEPT ![id] = Postgres!PodOf(new)]
    BY <1>1, <1>3, <1>5, <1>6, SeenPod, NullAssumption
  <2> QED
    BY <1>3, <2>1 DEF PodsSeen, Memory!PodsShown, Postgres!PodsRead
<1> QED
  BY <1>4, <1>6, <1>7, <1>8 DEF Shown, Abstract!Shown

(* A pod update that succeeds leaves the annotations the pod had and those *)
(* of the update, in either store, if every pod was added with a map.      *)
THEOREM MapsAreMerged == PodsComeWithMap => (Spec => AnnotationsAreMerged)
<1>1. StoresTypeInv /\ [Next]_vars => StoresTypeInv'
  BY StoresTypeStep
<1> SUFFICES ASSUME PodsComeWithMap PROVE Spec => AnnotationsAreMerged
  OBVIOUS
<1>2. StoresTypeInv /\ AnnotationsAreObjects /\ [Next]_vars => AnnotationsAreObjects'
  BY ObjectsStep
<1> DEFINE Merges == \A c \in Clients :
       LET p == pending[c] IN
       /\ p.stmt = "update pod" /\ pods[p.id] /= None
       /\ pending'[c] = Postgres!Idle /\ answer'.err = "ok"
       => PodsSeen'[p.id].annotations
            = PodsSeen[p.id].annotations \cup Shown(p.arg.annotations)
<1>3. StoresTypeInv /\ AnnotationsAreObjects /\ [Next]_vars => [Merges]_vars
  BY MergeStep
<1> QED
  BY <1>1, <1>2, <1>3, StoresTypeInit, ObjectsInit, PTL DEF Spec, AnnotationsAreMerged
=============================================================================
