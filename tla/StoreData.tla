------------------------------ MODULE StoreData ------------------------------
(***************************************************************************)
(* What the calls of the StateStore interface carry, and what they answer. *)
(*                                                                         *)
(* A task, node or pod is a record of the fields that the stores treat     *)
(* differently; of annotations and labels only the keys are told apart.    *)
(* The inputs are those the handlers produce: an update names at least one *)
(* field, a selector is not empty, a namespace has been filled in.         *)
(***************************************************************************)
EXTENDS Integers

CONSTANTS Clients,     \* goroutines of the master that call the store
          IDs,         \* keys of the tables
          None,        \* no such row
          Nil,         \* a nil map, or a nil field of an update
          NewTasks, TaskUpdates, NewNodes, NodeUpdates, NewPods, PodUpdates,
          Selectors,   \* label sets a service selects by
          Subsets,     \* contents of an Endpoints object
          Ident,       \* of each service ID, its name and namespace
          Keys         \* keys of annotations and labels

(* What the structs keep; an empty string is "".                           *)
Annotations == {Nil} \cup SUBSET Keys
TaskRecord  == [status : STRING, nodeID : STRING, healthStatus : STRING]
NodeRecord  == [status : STRING, runningTasks : Int, maxSlots : Int]
PodRecord   == [status : STRING, restartPolicy : STRING, labels : SUBSET Keys,
                annotations : Annotations]

ASSUME StoreAssumption ==
  /\ None \notin Selectors
  /\ None \notin TaskRecord /\ None \notin NodeRecord /\ None \notin PodRecord
  /\ \A keys \in SUBSET Keys : keys /= Nil
  /\ \A id \in IDs : Ident[id].namespace /= Nil

(* TaskUpdate and NodeUpdate name some fields; PodUpdate none that the     *)
(* stores convert, besides the annotations to merge.                       *)
ASSUME CallsAssumption ==
  /\ NewTasks \subseteq TaskRecord
  /\ NewNodes \subseteq NodeRecord
  /\ NewPods \subseteq PodRecord
  /\ \A u \in TaskUpdates : /\ DOMAIN u \subseteq {"status", "nodeID", "healthStatus"}
                            /\ \A f \in DOMAIN u : u[f] \in STRING
  /\ \A u \in NodeUpdates : /\ DOMAIN u \subseteq {"status", "runningTasks"}
                            /\ "status" \in DOMAIN u => u.status \in STRING
                            /\ "runningTasks" \in DOMAIN u => u.runningTasks \in Int
  /\ \A u \in PodUpdates : /\ DOMAIN u.fields \subseteq {"status"}
                           /\ \A f \in DOMAIN u.fields : u.fields[f] \in STRING
                           /\ u.annotations \in Annotations

Names       == {Ident[id].name : id \in IDs}
Namespaces  == {Ident[id].namespace : id \in IDs}

(* The non-nil fields of an update replace the row's.                      *)
Overwrite(row, u) == [f \in DOMAIN row |-> IF f \in DOMAIN u THEN u[f] ELSE row[f]]

(* To a reader a nil map is an empty one.                                  *)
Shown(annotations) == IF annotations = Nil THEN {} ELSE annotations

Rows(table, P(_)) == {<<id, table[id]>> : id \in {i \in IDs : table[i] /= None /\ P(i)}}
Row(table, id)    == Rows(table, LAMBDA i : i = id)
AllRows(table)    == Rows(table, LAMBDA i : TRUE)

(* An answer: the client, the error ("ok" for nil) and the rows returned.  *)
Answer(c, err, rows) == [client |-> c, err |-> err, rows |-> rows]

(* What one lookup by ID answers.                                          *)
Found(c, table, id) ==
  IF table[id] = None THEN Answer(c, "not found", {}) ELSE Answer(c, "ok", Row(table, id))
=============================================================================
