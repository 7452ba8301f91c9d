------------------------------ MODULE Scheduler ------------------------------
(***************************************************************************)
(* RoundRobin and the two handlers that use it. scheduleTask and           *)
(* schedulePod first ask the store for the available nodes and then, with  *)
(* that list, the scheduler for a choice, which it makes under its mutex;  *)
(* other handlers list and choose in between, and nodes come and go.       *)
(*                                                                         *)
(* RegisterNode starts RunningTasks and Used at 0 and no code changes them *)
(* afterwards, so a node's slots and resources are those it registered     *)
(* with, whatever it runs.                                                 *)
(***************************************************************************)
EXTENDS Integers, FiniteSets, Sequences

CONSTANTS Handlers,     \* goroutines of the master that place work
          Nodes,        \* registered nodes
          Requests,     \* resource requests of tasks (none) and pods (the sum)
          Capacities,   \* what the nodes may have registered with
          Core, GiB     \* the CPU and memory of one task slot

ASSUME SchedulerAssumption ==
  /\ IsFiniteSet(Nodes)
  /\ Core \in Nat \ {0} /\ GiB \in Nat \ {0}
  /\ Requests \subseteq [cpu : Nat, memory : Nat]
  /\ Capacities \subseteq [Nodes -> [cpu : Nat, memory : Nat]]

VARIABLES capacity,   \* rigid: node -> resources
          online,     \* nodes whose status is online
          listed,     \* handler -> the nodes it was given, or NotListed
          lastUsed,   \* RoundRobin.lastUsed
          round       \* history: the suitable nodes of the last choice and
                      \* the nodes chosen since they are these, in order
schedulerVars == <<capacity, online, listed, lastUsed, round>>

NotListed == [asked |-> FALSE, nodes |-> <<>>]

SchedulerInit ==
  /\ capacity \in Capacities
  /\ online   = {}
  /\ listed   = [h \in Handlers |-> NotListed]
  /\ lastUsed = -1
  /\ round    = [among |-> <<>>, chosen |-> <<>>]

-----------------------------------------------------------------------------
(* GetMaxTaskSlots *)
MaxTaskSlots(n) ==
  LET cpuSlots    == capacity[n].cpu \div Core
      memorySlots == capacity[n].memory \div GiB
  IN  IF cpuSlots < memorySlots THEN cpuSlots ELSE memorySlots

HasSlot(n) == 0 < MaxTaskSlots(n)

(* CanFit, with nothing used. *)
CanFit(n, request) ==
  request.cpu <= capacity[n].cpu /\ request.memory <= capacity[n].memory

IsZero(request) == request.cpu = 0 /\ request.memory = 0

(* filterAvailableForTask, filterAvailableForPod. A node that has gone     *)
(* offline since is online in the list.                                    *)
Suitable(nodes, request) ==
  LET Accepts(n) == HasSlot(n) /\ (IsZero(request) \/ CanFit(n, request))
      kept[i \in 0..Len(nodes)] ==
        IF i = 0 THEN <<>>
        ELSE IF Accepts(nodes[i]) THEN Append(kept[i - 1], nodes[i]) ELSE kept[i - 1]
  IN  kept[Len(nodes)]

Orders(S) ==
  {s \in [1..Cardinality(S) -> S] : \A i, j \in DOMAIN s : s[i] = s[j] => i = j}

-----------------------------------------------------------------------------
(* A registration, heartbeat, deregistration or check of the heartbeats.   *)
NodeComesOrGoes(n) ==
  /\ online' = IF n \in online THEN online \ {n} ELSE online \cup {n}
  /\ UNCHANGED <<capacity, listed, lastUsed, round>>

(* GetAvailableNodes: in the order of a map iteration, or that of rows     *)
(* with equal running_tasks. PostgresStore leaves out nodes with no slot.  *)
ListNodes(h) ==
  /\ ~listed[h].asked
  /\ \E S \in {online, {n \in online : HasSlot(n)}} : \E order \in Orders(S) :
       listed' = [listed EXCEPT ![h] = [asked |-> TRUE, nodes |-> order]]
  /\ UNCHANGED <<capacity, online, lastUsed, round>>

(* History: a round goes on while the suitable nodes are the same list and *)
(* not all of them have been chosen.                                       *)
NextRound(among, node) ==
  IF round.among = among /\ Len(round.chosen) < Len(among)
    THEN [among |-> among, chosen |-> Append(round.chosen, node)]
    ELSE [among |-> among, chosen |-> <<node>>]

(* Mutant: the index is reduced only where it is used. *)
SelectNodeCountsOn(h, request) ==
  LET available == Suitable(listed[h].nodes, request) IN
  /\ listed[h].asked /\ available /= <<>>
  /\ lastUsed' = lastUsed + 1
  /\ round'    = NextRound(available, available[(lastUsed' % Len(available)) + 1])
  /\ listed'   = [listed EXCEPT ![h] = NotListed]
  /\ UNCHANGED <<capacity, online>>

(* SelectNode, SelectNodeForPod, when a node is suitable. *)
SelectNode(h, request) ==
  LET available == Suitable(listed[h].nodes, request) IN
  /\ listed[h].asked /\ available /= <<>>
  /\ lastUsed' = (lastUsed + 1) % Len(available)
  /\ round'    = NextRound(available, available[lastUsed' + 1])
  /\ listed'   = [listed EXCEPT ![h] = NotListed]
  /\ UNCHANGED <<capacity, online>>

(* Mutant: a choice that fails starts the order anew. *)
NoAvailableNodesResets(h, request) ==
  /\ listed[h].asked /\ Suitable(listed[h].nodes, request) = <<>>
  /\ listed'   = [listed EXCEPT ![h] = NotListed]
  /\ lastUsed' = -1
  /\ UNCHANGED <<capacity, online, round>>

(* ErrNoAvailableNodes *)
NoAvailableNodes(h, request) ==
  /\ listed[h].asked /\ Suitable(listed[h].nodes, request) = <<>>
  /\ listed' = [listed EXCEPT ![h] = NotListed]
  /\ UNCHANGED <<capacity, online, lastUsed, round>>

SchedulerNext ==
  \/ \E n \in Nodes : NodeComesOrGoes(n)
  \/ \E h \in Handlers :
       \/ ListNodes(h)
       \/ \E request \in Requests : SelectNode(h, request) \/ NoAvailableNodes(h, request)

SchedulerSpec == SchedulerInit /\ [][SchedulerNext]_schedulerVars

-----------------------------------------------------------------------------
SchedulerTypeOK ==
  /\ capacity \in Capacities
  /\ online \subseteq Nodes
  /\ listed \in [Handlers -> [asked : BOOLEAN, nodes : Seq(Nodes)]]
  /\ lastUsed \in Int /\ -1 <= lastUsed /\ lastUsed < Cardinality(Nodes)
  /\ round \in [among : Seq(Nodes), chosen : Seq(Nodes)]

(* As long as the suitable nodes come in the same order, tasks and pods    *)
(* take turns over them: none is chosen twice before each was chosen once, *)
(* whichever handlers choose and whatever failed choices come in between.  *)
TakesTurns ==
  \A i, j \in DOMAIN round.chosen : round.chosen[i] = round.chosen[j] => i = j

-----------------------------------------------------------------------------
(* The strengthening that makes the two invariants inductive. *)

Distinct(nodes) == \A i, j \in DOMAIN nodes : nodes[i] = nodes[j] => i = j

(* The place in a list of n nodes that is d choices before the index last. *)
Turn(last, n, d) == IF d <= last THEN last - d + 1 ELSE last - d + n + 1

(* The choices of a round are successive nodes of its list, at most once   *)
(* around, up to the one that lastUsed stands at.                          *)
RoundFollows ==
  LET n == Len(round.among)
      c == Len(round.chosen)
  IN  /\ Distinct(round.among)
      /\ c <= n /\ (n > 0 => 0 <= lastUsed /\ lastUsed < n)
      /\ \A k \in 1..c : round.chosen[k] = round.among[Turn(lastUsed, n, c - k)]

SchedulerInv ==
  /\ SchedulerTypeOK
  /\ \A h \in Handlers : Distinct(listed[h].nodes)
  /\ RoundFollows
=============================================================================
