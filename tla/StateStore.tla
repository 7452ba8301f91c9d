----------------------------- MODULE StateStore -----------------------------
(***************************************************************************)
(* What both implementations of the StateStore interface promise: every    *)
(* call is one step on five tables, with the answer that step finds.       *)
(*                                                                         *)
(* Three freedoms: a call may fail and change nothing; deleting a service  *)
(* may take its endpoints along, and a store that does so refuses          *)
(* endpoints without a service; the available nodes may leave out online   *)
(* nodes without a free slot. An update that found its row may be answered *)
(* "ok" though a delete has removed the row before the update wrote it.    *)
(***************************************************************************)
EXTENDS StoreData

VARIABLES store,   \* table -> ID -> row or None
          found,   \* the row a client's running update has found
          answer   \* the last answer
vars == <<store, found, answer>>

Tables == {"tasks", "nodes", "pods", "services", "endpoints"}

Init ==
  /\ store  = [t \in Tables |-> [id \in IDs |-> None]]
  /\ found  = [c \in Clients |-> None]
  /\ answer = Answer(None, "ok", {})

Forget(c) == found' = [found EXCEPT ![c] = None]

Fail(c) ==
  /\ answer' = Answer(c, "error", {})
  /\ Forget(c)
  /\ UNCHANGED store

Add(c, t, id, row) ==
  /\ IF store[t][id] = None
       THEN /\ store'  = [store EXCEPT ![t][id] = row]
            /\ answer' = Answer(c, "ok", {})
       ELSE /\ answer' = Answer(c, "exists", {})
            /\ UNCHANGED store
  /\ Forget(c)

Find(c, t, id) ==
  /\ store[t][id] /= None
  /\ found' = [found EXCEPT ![c] = <<t, id>>]
  /\ UNCHANGED <<store, answer>>

Update(c, t, id, row) ==
  /\ \/ /\ store[t][id] /= None
        /\ store'  = [store EXCEPT ![t][id] = row]
        /\ answer' = Answer(c, "ok", {})
     \/ /\ store[t][id] = None
        /\ UNCHANGED store
        /\ \/ answer' = Answer(c, "not found", {})
           \/ found[c] = <<t, id>> /\ answer' = Answer(c, "ok", {})
  /\ Forget(c)

Delete(c, t, id) ==
  /\ IF store[t][id] = None
       THEN /\ answer' = Answer(c, "not found", {})
            /\ UNCHANGED store
       ELSE /\ answer' = Answer(c, "ok", {})
            /\ \/ store' = [store EXCEPT ![t][id] = None]
               \/ /\ t = "services"
                  /\ store' = [store EXCEPT !["services"][id] = None,
                                            !["endpoints"][id] = None]
  /\ Forget(c)

SetEndpoints(c, id, subsets) ==
  /\ store'  = [store EXCEPT !["endpoints"][id] = subsets]
  /\ answer' = Answer(c, "ok", {})
  /\ Forget(c)

Read(c, ans) ==
  /\ answer' = ans
  /\ Forget(c)
  /\ UNCHANGED store

Get(c, t, id) == Read(c, Found(c, store[t], id))

List(c, t, P(_)) == Read(c, Answer(c, "ok", Rows(store[t], P)))

(* Of several rows with one name and namespace any may be returned.        *)
GetByName(c, t, name, namespace) ==
  LET match == {id \in IDs : /\ store[t][id] /= None
                             /\ Ident[id] = [name |-> name, namespace |-> namespace]}
  IN  IF match = {} THEN Read(c, Answer(c, "not found", {}))
                    ELSE \E id \in match : Get(c, t, id)

Online(id)    == store["nodes"][id].status = "online"
HasSlot(id)   == store["nodes"][id].runningTasks < store["nodes"][id].maxSlots
Available(c)  == \/ List(c, "nodes", Online)
                 \/ List(c, "nodes", LAMBDA id : Online(id) /\ HasSlot(id))

Selected(id, labels) == labels \subseteq store["pods"][id].labels

AnyTable(c, id) ==
  \/ \E t \in Tables : Get(c, t, id) \/ Find(c, t, id) \/ Delete(c, t, id)
  \/ \E t \in {"services", "endpoints"}, n \in Names, ns \in Namespaces :
       GetByName(c, t, n, ns)

Call ==
  \E c \in Clients :
    \/ Fail(c)
    \/ \E id \in IDs :
         \/ AnyTable(c, id)
         \/ \E task \in NewTasks : Add(c, "tasks", id, task)
         \/ \E node \in NewNodes : Add(c, "nodes", id, node)
         \/ \E pod \in NewPods :
              Add(c, "pods", id, [pod EXCEPT !.annotations = Shown(@)])
         \/ \E sel \in Selectors : Add(c, "services", id, sel)
         \/ \E u \in TaskUpdates :
              Update(c, "tasks", id, Overwrite(store["tasks"][id], u))
         \/ \E u \in NodeUpdates :
              Update(c, "nodes", id, Overwrite(store["nodes"][id], u))
         \/ \E u \in PodUpdates :
              Update(c, "pods", id, [Overwrite(store["pods"][id], u.fields) EXCEPT
                                       !.annotations = @ \cup Shown(u.annotations)])
         \/ \E sel \in Selectors : Update(c, "services", id, sel)
         \/ \E s \in Subsets : SetEndpoints(c, id, s)
    \/ \E t \in {"tasks", "nodes", "pods", "services"} : List(c, t, LAMBDA id : TRUE)
    \/ \E ns \in Namespaces : List(c, "services", LAMBDA id : Ident[id].namespace = ns)
    \/ \E labels \in Selectors : List(c, "pods", LAMBDA id : Selected(id, labels))
    \/ Available(c)

(* A call that changes nothing is a stuttering step; said here because it  *)
(* is checked before the calls are tried.                                  *)
Next == vars' /= vars /\ Call

Spec == Init /\ [][Next]_vars
=============================================================================
