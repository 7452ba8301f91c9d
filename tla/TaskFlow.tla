------------------------------ MODULE TaskFlow ------------------------------
(***************************************************************************)
(* What the system promises a client about a task: the status it reads     *)
(* moves along                                                             *)
(*      pending -> scheduled -> running -> completed | failed              *)
(* one arrow at a time, a finished task stays as it is until it is pruned, *)
(* and a task that was given to a node does not stay unfinished for ever.  *)
(***************************************************************************)
CONSTANT Tasks

VARIABLE status

Finished == {"completed", "failed"}

Init == status = [t \in Tasks |-> "absent"]

Move(t, from, to) ==
  /\ status[t] = from
  /\ status' = [status EXCEPT ![t] = to]

Create(t)   == Move(t, "absent", "pending")
Schedule(t) == Move(t, "pending", "scheduled")
Run(t)      == Move(t, "scheduled", "running")
Finish(t)   == \E s \in Finished : Move(t, "running", s)
Prune(t)    == \E s \in {"pending", "scheduled", "running"} \cup Finished :
                 Move(t, s, "deleted")

Next == \E t \in Tasks :
          Create(t) \/ Schedule(t) \/ Run(t) \/ Finish(t) \/ Prune(t)

Spec == Init /\ [][Next]_status

FairSpec == Spec /\ \A t \in Tasks : WF_status(Run(t)) /\ WF_status(Finish(t))
=============================================================================
