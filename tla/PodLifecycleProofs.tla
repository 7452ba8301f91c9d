-------------------------- MODULE PodLifecycleProofs --------------------------
(***************************************************************************)
(* Proofs about PodLifecycle for any number of containers and of deletes,  *)
(* with every failure, delay and crash the model has. The argument: what   *)
(* Docker has of the pod is recorded by the step after the one that makes  *)
(* it (KnownResources, LoopOrder), so the executor clears all of it before *)
(* it reports, and reports what happened (VerdictIsTrue, ReportsAreTrue);  *)
(* a cleanup cancels the pod before it looks at what there is, so it       *)
(* misses nothing that runs (CleanupSeesAll) and nothing starts afterwards *)
(* (UntrackedPodStaysStopped). Docker may refuse any stop or removal: what *)
(* it refused is remembered, and nothing else is left.                     *)
(*                                                                         *)
(* The status moves forward because, with no call late or lost, there is   *)
(* one update under way at a time and the next one is sent when it was     *)
(* handled (UpdatesInOrder).                                               *)
(***************************************************************************)
EXTENDS PodLifecycle, TLAPS

(* A report is a status because the verdict stands when it is sent.        *)
LEMMA TypeOKStep == TypeOK /\ VerdictIsTrue /\ [Next]_vars => TypeOK'
<1> SUFFICES ASSUME TypeOK, VerdictIsTrue, [Next]_vars PROVE TypeOK'
  OBVIOUS
<1> USE DEF TypeOK, masterVars, cleanVars, pastVars, dockerVars, Removed,
            resultVars, rigidVars, sysVars
<1>0. UNCHANGED rigidVars
  BY DEF Next, vars
<1>1. CASE CreatePod
  BY <1>0, <1>1 DEF CreatePod, Stored, Final
<1>2. CASE SchedulePodFails
  BY <1>0, <1>2 DEF SchedulePodFails
<1>3. CASE SchedulePod
  BY <1>0, <1>3 DEF SchedulePod, Stored, Final
<1>4. CASE TriggerPodExecution
  BY <1>0, <1>4 DEF TriggerPodExecution
<1>5. CASE ExecuteCallLost
  BY <1>0, <1>5 DEF ExecuteCallLost
<1>6. CASE AcceptPod
  BY <1>0, <1>6 DEF AcceptPod, Ended
<1>7. CASE BeginPod
  BY <1>0, <1>7 DEF BeginPod, NewUpdate, Update, Final, Ended
<1>8. CASE SetupPodNetwork
  BY <1>0, <1>8 DEF SetupPodNetwork, Resources, Ended, Containers, Network
<1>9. CASE SetupPodNetworkFails
  <2>1. verdict' \in {"none"} \cup Final
    BY <1>9 DEF SetupPodNetworkFails, Final
  <2>2. resource' \in [Resources -> {"none", "lost", "created", "running", "exited", "gone"}]
    BY <1>9 DEF SetupPodNetworkFails, NotCreated
  <2> QED
    BY <1>0, <1>9, <2>1, <2>2 DEF SetupPodNetworkFails
<1>10. CASE RecordNetwork
  <2>1. Network \in Resources
    BY ContainersAssumption DEF Network, Resources
  <2> QED
    BY <1>0, <1>10, <2>1 DEF RecordNetwork
<1>11. CASE PullImages
  BY <1>0, <1>11 DEF PullImages, Ended
<1>12. CASE PullImagesFails
  BY <1>0, <1>12 DEF PullImagesFails, Fail, Ended, Final
<1>13. CASE CreateContainer
  BY <1>0, <1>13 DEF CreateContainer, Resources, Ended, Containers, Network
<1>14. CASE CreateContainerFails
  BY <1>0, <1>14 DEF CreateContainerFails, NotCreated, Fail, Resources, Ended,
     Final, Containers, Network
<1>15. CASE RecordContainer
  BY <1>0, <1>15 DEF RecordContainer, Resources, Ended, Containers, Network
<1>16. CASE SendStart
  BY <1>0, <1>16 DEF SendStart, Ended
<1>17. CASE StartContainer
  <2>1. i' \in Containers
    BY <1>17, ContainersAssumption DEF StartContainer, Containers
  <2> QED
    BY <1>0, <1>17, <2>1 DEF StartContainer, Ended
<1>18. CASE StartContainerFails
  BY <1>0, <1>18 DEF StartContainerFails, Fail, Resources, Ended, Final,
     Containers, Network
<1>19. CASE UpdatePodIP
  BY <1>0, <1>19 DEF UpdatePodIP, NewUpdate, Update, Final, Ended
<1>20. ASSUME NEW c \in Containers, WaitContainer(c) PROVE TypeOK'
  BY <1>0, <1>20 DEF WaitContainer
<1>21. CASE EndWaits
  BY <1>0, <1>21 DEF EndWaits, Final, Ended
<1>22. ASSUME NEW c \in Containers, ClearContainer(c) PROVE TypeOK'
  BY <1>0, <1>22 DEF ClearContainer, Resources, Containers, Network
<1>23. CASE ClearNetwork
  <2>1. resource' \in [Resources -> {"none", "lost", "created", "running", "exited", "gone"}]
    BY <1>23 DEF ClearNetwork, NetworkRemoved
  <2>2. Network \in Resources
    BY ContainersAssumption DEF Network, Resources
  <2>3. refused' \in SUBSET Resources /\ spared' \in SUBSET Containers
    BY <1>23, <2>2 DEF ClearNetwork, NetworkRemoved
  <2> QED
    BY <1>0, <1>23, <2>1, <2>3 DEF ClearNetwork, Ended
<1>24. CASE FinalizePodStatus
  <2>1. NewUpdate(verdict, "executor") \in Update
    BY <1>24 DEF FinalizePodStatus, VerdictIsTrue, NewUpdate, Update
  <2> QED
    BY <1>0, <1>24, <2>1 DEF FinalizePodStatus, Ended
<1>25. CASE EndPod
  BY <1>0, <1>25 DEF EndPod, Ended
<1>26. CASE ContextExpires
  BY <1>0, <1>26 DEF ContextExpires
<1>27. CASE OnUnhealthy
  BY <1>0, <1>27 DEF OnUnhealthy, NewUpdate, Update, Final
<1>28. ASSUME NEW c \in Containers, WaitContainerFails(c) PROVE TypeOK'
  BY <1>0, <1>28 DEF WaitContainerFails
<1>29. ASSUME NEW c \in Containers, ContainerExits(c) PROVE TypeOK'
  BY <1>0, <1>29 DEF ContainerExits, Resources, Containers, Network
<1>30. ASSUME NEW u \in updates, UpdatePodStatus(u) PROVE TypeOK'
  BY <1>0, <1>30 DEF UpdatePodStatus, Update, Final, Stored
<1>31. ASSUME NEW u \in updates, UpdateTimesOut(u) PROVE TypeOK'
  BY <1>0, <1>31 DEF UpdateTimesOut, Gone, Update, Final
<1>32. ASSUME NEW u \in updates, UpdateLost(u) PROVE TypeOK'
  BY <1>0, <1>32 DEF UpdateLost, Update, Final
<1>33. ASSUME NEW d \in Deleters, DeletePod(d) PROVE TypeOK'
  BY <1>0, <1>33 DEF DeletePod
<1>34. ASSUME NEW d \in Deleters, NotifyWorkerFails(d) PROVE TypeOK'
  BY <1>0, <1>34 DEF NotifyWorkerFails
<1>35. ASSUME NEW d \in Deleters, DeleteFromStore(d) PROVE TypeOK'
  BY <1>0, <1>35 DEF DeleteFromStore, Stored, Final
<1>36. ASSUME NEW d \in Deleters, CleanupCallLost(d) PROVE TypeOK'
  BY <1>0, <1>36 DEF CleanupCallLost
<1>37. ASSUME NEW d \in Deleters, CleanupPodUnknown(d) PROVE TypeOK'
  BY <1>0, <1>37 DEF CleanupPodUnknown, Answers
<1>38. ASSUME NEW d \in Deleters, CleanupPod(d) PROVE TypeOK'
  BY <1>0, <1>38 DEF CleanupPod
<1>39. ASSUME NEW d \in Deleters, TakeSnapshot(d) PROVE TypeOK'
  BY <1>0, <1>39 DEF TakeSnapshot, Resources
<1>40. ASSUME NEW d \in Deleters, NEW c \in Containers, RemoveContainer(d, c)
      PROVE  TypeOK'
  BY <1>0, <1>40 DEF RemoveContainer, Resources, Containers, Network
<1>41. ASSUME NEW d \in Deleters, RemoveNetwork(d) PROVE TypeOK'
  BY <1>0, <1>41 DEF RemoveNetwork, NetworkRemoved, Resources, Containers,
     Network
<1>42. ASSUME NEW d \in Deleters, UntrackPod(d) PROVE TypeOK'
  <2>1. /\ cleanup' \in [Deleters -> {"idle", "sent", "stopped", "removing", "over"}]
        /\ del' \in [Deleters -> {"idle", "asking", "removing", "over"}]
    BY <1>42 DEF UntrackPod, Answers
  <2> QED
    BY <1>0, <1>42, <2>1 DEF UntrackPod
<1>43. CASE WorkerEnds
  <2>1. updates' \in SUBSET Update
    BY <1>43 DEF WorkerEnds, Gone, Update
  <2>2. cleanup' \in [Deleters -> {"idle", "sent", "stopped", "removing", "over"}]
    BY <1>43 DEF WorkerEnds
  <2>3. del' \in [Deleters -> {"idle", "asking", "removing", "over"}]
    BY <1>43 DEF WorkerEnds
  <2> QED
    BY <1>0, <1>43, <2>1, <2>2, <2>3 DEF WorkerEnds, Ended
<1>44. CASE UNCHANGED vars
  BY <1>44 DEF vars
<1> QED
  BY <1>1, <1>2, <1>3, <1>4, <1>5, <1>6, <1>7, <1>8, <1>9, <1>10, <1>11, <1>12,
     <1>13, <1>14, <1>15, <1>16, <1>17, <1>18, <1>19, <1>20, <1>21, <1>22,
     <1>23, <1>24, <1>25, <1>26, <1>27, <1>28, <1>29, <1>30, <1>31, <1>32,
     <1>33, <1>34, <1>35, <1>36, <1>37, <1>38, <1>39, <1>40, <1>41,
     <1>42, <1>43, <1>44
     DEF Next, Step, Request, Execute, Report, Delete

-----------------------------------------------------------------------------
(* Every resource Docker has is recorded, or the step that made it is followed *)
(* by the one that records it.                                             *)
LEMMA KnownResourcesStep ==
  ASSUME Inv, [Next]_vars
  PROVE  KnownResources'
<1> USE ContainersAssumption DEF masterVars, cleanVars, pastVars, dockerVars, Removed,
      resultVars, rigidVars, sysVars
<1> USE DEF TypeOK, KnownResources, LoopOrder, Exists, Early, InLoop,
      Containers, Resources, Network, Ended
<1>0. TypeOK /\ KnownResources /\ LoopOrder
  BY DEF Inv
<1>1. ASSUME UNCHANGED <<resource, known, exec, i, snapshot>> PROVE KnownResources'
  BY <1>0, <1>1
<1>2. CASE AcceptPod
  BY <1>0, <1>2 DEF AcceptPod
<1>3. CASE BeginPod
  BY <1>0, <1>3 DEF BeginPod, NewUpdate
<1>4. CASE SetupPodNetwork
  BY <1>0, <1>4 DEF SetupPodNetwork
<1>5. CASE SetupPodNetworkFails
  BY <1>0, <1>5 DEF SetupPodNetworkFails, NotCreated
<1>6. CASE RecordNetwork
  BY <1>0, <1>6 DEF RecordNetwork
<1>7. CASE PullImages
  BY <1>0, <1>7 DEF PullImages
<1>8. CASE PullImagesFails
  BY <1>0, <1>8 DEF PullImagesFails, Fail
<1>9. CASE CreateContainer
  BY <1>0, <1>9 DEF CreateContainer
<1>10. CASE CreateContainerFails
  BY <1>0, <1>10 DEF CreateContainerFails, NotCreated, Fail
<1>11. CASE RecordContainer
  BY <1>0, <1>11 DEF RecordContainer
<1>12. CASE SendStart
  BY <1>0, <1>12 DEF SendStart
<1>13. CASE StartContainer
  BY <1>0, <1>13 DEF StartContainer
<1>14. CASE StartContainerFails
  BY <1>0, <1>14 DEF StartContainerFails, Fail
<1>15. CASE UpdatePodIP
  BY <1>0, <1>15 DEF UpdatePodIP, NewUpdate
<1>16. CASE EndWaits
  BY <1>0, <1>16 DEF EndWaits
<1>17. ASSUME NEW c \in Containers, ClearContainer(c) PROVE KnownResources'
  <2>1. UNCHANGED <<known, exec, i, snapshot>>
    BY <1>17 DEF ClearContainer
  <2>2. resource' = resource \/ resource' = [resource EXCEPT ![c] = "gone"]
    BY <1>17 DEF ClearContainer
  <2> QED
    BY <1>0, <2>1, <2>2
<1>18. CASE ClearNetwork
  BY <1>0, <1>18 DEF ClearNetwork, NetworkRemoved
<1>19. CASE FinalizePodStatus
  BY <1>0, <1>19 DEF FinalizePodStatus, NewUpdate
<1>20. CASE EndPod
  BY <1>0, <1>20 DEF EndPod
<1>21. ASSUME NEW c \in Containers, ContainerExits(c) PROVE KnownResources'
  BY <1>0, <1>21 DEF ContainerExits
<1>22. ASSUME NEW d \in Deleters, TakeSnapshot(d) PROVE KnownResources'
  BY <1>0, <1>22 DEF TakeSnapshot
<1>23. ASSUME NEW d \in Deleters, NEW c \in Containers, RemoveContainer(d, c)
      PROVE  KnownResources'
  BY <1>0, <1>23 DEF RemoveContainer
<1>24. ASSUME NEW d \in Deleters, RemoveNetwork(d) PROVE KnownResources'
  BY <1>0, <1>24 DEF RemoveNetwork, NetworkRemoved
<1>25. CASE WorkerEnds
  BY <1>0, <1>25 DEF WorkerEnds, Gone
<1>26. CASE CreatePod \/ SchedulePodFails \/ SchedulePod \/ TriggerPodExecution
        \/ ExecuteCallLost \/ ContextExpires \/ OnUnhealthy
  BY <1>1, <1>26 DEF CreatePod, SchedulePodFails, SchedulePod,
     TriggerPodExecution, ExecuteCallLost, ContextExpires, OnUnhealthy
<1>27. CASE \E c \in Containers : WaitContainer(c) \/ WaitContainerFails(c)
  BY <1>1, <1>27 DEF WaitContainer, WaitContainerFails
<1>28. CASE \E u \in updates : UpdatePodStatus(u) \/ UpdateTimesOut(u)
        \/ UpdateLost(u)
  BY <1>1, <1>28 DEF UpdatePodStatus, UpdateTimesOut, UpdateLost
<1>29. CASE \E d \in Deleters : DeletePod(d) \/ NotifyWorkerFails(d)
        \/ DeleteFromStore(d) \/ CleanupCallLost(d) \/ CleanupPodUnknown(d)
        \/ CleanupPod(d) \/ UntrackPod(d)
  BY <1>1, <1>29 DEF DeletePod, NotifyWorkerFails, DeleteFromStore,
     CleanupCallLost, CleanupPodUnknown, CleanupPod, UntrackPod
<1>30. CASE UNCHANGED vars
  BY <1>1, <1>30 DEF vars
<1> QED
  BY <1>2, <1>3, <1>4, <1>5, <1>6, <1>7, <1>8, <1>9, <1>10, <1>11, <1>12, <1>13,
     <1>14, <1>15, <1>16, <1>17, <1>18, <1>19, <1>20, <1>21, <1>22, <1>23,
     <1>24, <1>25, <1>26, <1>27, <1>28, <1>29, <1>30
     DEF Next, Step, Request, Execute, Report, Delete

(* The loop makes the containers in order.                                 *)
LEMMA LoopOrderStep ==
  ASSUME Inv, [Next]_vars
  PROVE  LoopOrder'
<1> USE ContainersAssumption DEF masterVars, cleanVars, pastVars, dockerVars, Removed,
      resultVars, rigidVars, sysVars
<1> USE DEF TypeOK, LoopOrder, KnownResources, Early, InLoop, Containers,
      Resources, Network, Ended
<1>0. TypeOK /\ LoopOrder /\ KnownResources
  BY DEF Inv
<1>1. ASSUME UNCHANGED <<exec, i, known, resource>> PROVE LoopOrder'
  BY <1>0, <1>1
<1>2. CASE AcceptPod
  BY <1>0, <1>2 DEF AcceptPod
<1>3. CASE BeginPod
  BY <1>0, <1>3 DEF BeginPod, NewUpdate
<1>4. CASE SetupPodNetwork
  BY <1>0, <1>4 DEF SetupPodNetwork
<1>5. CASE SetupPodNetworkFails
  BY <1>0, <1>5 DEF SetupPodNetworkFails, NotCreated
<1>6. CASE RecordNetwork
  BY <1>0, <1>6 DEF RecordNetwork
<1>7. CASE PullImages
  BY <1>0, <1>7 DEF PullImages
<1>8. CASE PullImagesFails
  BY <1>0, <1>8 DEF PullImagesFails, Fail
<1>9. CASE CreateContainer
  BY <1>0, <1>9 DEF CreateContainer
<1>10. CASE CreateContainerFails
  BY <1>0, <1>10 DEF CreateContainerFails, NotCreated, Fail
<1>11. CASE RecordContainer
  BY <1>0, <1>11 DEF RecordContainer
<1>12. CASE SendStart
  BY <1>0, <1>12 DEF SendStart
<1>13. CASE StartContainer
  BY <1>0, <1>13 DEF StartContainer
<1>14. CASE StartContainerFails
  BY <1>0, <1>14 DEF StartContainerFails, Fail
<1>15. CASE UpdatePodIP
  BY <1>0, <1>15 DEF UpdatePodIP, NewUpdate
<1>16. CASE EndWaits
  BY <1>0, <1>16 DEF EndWaits
<1>17. ASSUME NEW c \in Containers, ClearContainer(c) PROVE LoopOrder'
  BY <1>0, <1>17 DEF ClearContainer
<1>18. CASE ClearNetwork
  BY <1>0, <1>18 DEF ClearNetwork, NetworkRemoved
<1>19. CASE FinalizePodStatus
  BY <1>0, <1>19 DEF FinalizePodStatus, NewUpdate
<1>20. CASE EndPod
  BY <1>0, <1>20 DEF EndPod
<1>21. ASSUME NEW c \in Containers, ContainerExits(c) PROVE LoopOrder'
  BY <1>0, <1>21 DEF ContainerExits
<1>22. ASSUME NEW d \in Deleters, NEW c \in Containers, RemoveContainer(d, c)
      PROVE  LoopOrder'
  BY <1>0, <1>22 DEF RemoveContainer
<1>23. ASSUME NEW d \in Deleters, RemoveNetwork(d) PROVE LoopOrder'
  BY <1>0, <1>23 DEF RemoveNetwork, NetworkRemoved
<1>24. CASE WorkerEnds
  BY <1>0, <1>24 DEF WorkerEnds, Gone
<1>25. CASE CreatePod \/ SchedulePodFails \/ SchedulePod \/ TriggerPodExecution
        \/ ExecuteCallLost \/ ContextExpires \/ OnUnhealthy
  BY <1>1, <1>25 DEF CreatePod, SchedulePodFails, SchedulePod,
     TriggerPodExecution, ExecuteCallLost, ContextExpires, OnUnhealthy
<1>26. CASE \E c \in Containers : WaitContainer(c) \/ WaitContainerFails(c)
  BY <1>1, <1>26 DEF WaitContainer, WaitContainerFails
<1>27. CASE \E u \in updates : UpdatePodStatus(u) \/ UpdateTimesOut(u)
        \/ UpdateLost(u)
  BY <1>1, <1>27 DEF UpdatePodStatus, UpdateTimesOut, UpdateLost
<1>28. CASE \E d \in Deleters : DeletePod(d) \/ NotifyWorkerFails(d)
        \/ DeleteFromStore(d) \/ CleanupCallLost(d) \/ CleanupPodUnknown(d)
        \/ CleanupPod(d) \/ TakeSnapshot(d) \/ UntrackPod(d)
  BY <1>1, <1>28 DEF DeletePod, NotifyWorkerFails, DeleteFromStore,
     CleanupCallLost, CleanupPodUnknown, CleanupPod, TakeSnapshot,
     UntrackPod
<1>29. CASE UNCHANGED vars
  BY <1>1, <1>29 DEF vars
<1> QED
  BY <1>2, <1>3, <1>4, <1>5, <1>6, <1>7, <1>8, <1>9, <1>10, <1>11, <1>12, <1>13,
     <1>14, <1>15, <1>16, <1>17, <1>18, <1>19, <1>20, <1>21, <1>22, <1>23,
     <1>24, <1>25, <1>26, <1>27, <1>28, <1>29
     DEF Next, Step, Request, Execute, Report, Delete

(* The verdict is given once, and what is left then is cleared before      *)
(* it is reported: what exists is known.                                   *)
LEMMA VerdictIsTrueStep ==
  ASSUME Inv, [Next]_vars
  PROVE  VerdictIsTrue'
<1> USE ContainersAssumption DEF masterVars, cleanVars, pastVars, dockerVars, Removed,
      resultVars, rigidVars, sysVars
<1> USE DEF TypeOK, VerdictIsTrue, KnownResources, LoopOrder, Early, InLoop,
      Exists, Cleared, Final, Containers, Resources, Network, Ended
<1>0. TypeOK /\ VerdictIsTrue /\ KnownResources /\ LoopOrder
  BY DEF Inv
<1>1. ASSUME UNCHANGED <<exec, waited, verdict, resource, exit, refused>> PROVE VerdictIsTrue'
  BY <1>0, <1>1
<1>2. CASE AcceptPod
  BY <1>0, <1>2 DEF AcceptPod
<1>3. CASE BeginPod
  BY <1>0, <1>3 DEF BeginPod, NewUpdate
<1>4. CASE SetupPodNetwork
  BY <1>0, <1>4 DEF SetupPodNetwork
<1>5. CASE SetupPodNetworkFails
  BY <1>0, <1>5 DEF SetupPodNetworkFails, NotCreated
<1>6. CASE RecordNetwork
  BY <1>0, <1>6 DEF RecordNetwork
<1>7. CASE PullImages
  BY <1>0, <1>7 DEF PullImages
<1>8. CASE PullImagesFails
  BY <1>0, <1>8 DEF PullImagesFails, Fail
<1>9. CASE CreateContainer
  BY <1>0, <1>9 DEF CreateContainer
<1>10. CASE CreateContainerFails
  BY <1>0, <1>10 DEF CreateContainerFails, NotCreated, Fail
<1>11. CASE RecordContainer
  BY <1>0, <1>11 DEF RecordContainer
<1>12. CASE SendStart
  BY <1>0, <1>12 DEF SendStart
<1>13. CASE StartContainer
  BY <1>0, <1>13 DEF StartContainer
<1>14. CASE StartContainerFails
  BY <1>0, <1>14 DEF StartContainerFails, Fail
<1>15. CASE UpdatePodIP
  BY <1>0, <1>15 DEF UpdatePodIP, NewUpdate
<1>16. ASSUME NEW c \in Containers, WaitContainer(c) PROVE VerdictIsTrue'
  BY <1>0, <1>16 DEF WaitContainer
<1>17. CASE EndWaits
  BY <1>0, <1>17 DEF EndWaits
<1>18. ASSUME NEW c \in Containers, ClearContainer(c) PROVE VerdictIsTrue'
  BY <1>0, <1>18 DEF ClearContainer
<1>19. CASE ClearNetwork
  BY <1>0, <1>19 DEF ClearNetwork, NetworkRemoved
<1>20. CASE FinalizePodStatus
  BY <1>0, <1>20 DEF FinalizePodStatus, NewUpdate
<1>21. CASE EndPod
  BY <1>0, <1>21 DEF EndPod
<1>22. ASSUME NEW c \in Containers, WaitContainerFails(c) PROVE VerdictIsTrue'
  BY <1>0, <1>22 DEF WaitContainerFails
<1>23. ASSUME NEW c \in Containers, ContainerExits(c) PROVE VerdictIsTrue'
  BY <1>0, <1>23 DEF ContainerExits
<1>24. ASSUME NEW d \in Deleters, NEW c \in Containers, RemoveContainer(d, c)
      PROVE  VerdictIsTrue'
  BY <1>0, <1>24 DEF RemoveContainer
<1>25. ASSUME NEW d \in Deleters, RemoveNetwork(d) PROVE VerdictIsTrue'
  BY <1>0, <1>25 DEF RemoveNetwork, NetworkRemoved
<1>26. CASE WorkerEnds
  BY <1>0, <1>26 DEF WorkerEnds, Gone
<1>27. CASE CreatePod \/ SchedulePodFails \/ SchedulePod \/ TriggerPodExecution
        \/ ExecuteCallLost \/ ContextExpires \/ OnUnhealthy
  BY <1>1, <1>27 DEF CreatePod, SchedulePodFails, SchedulePod,
     TriggerPodExecution, ExecuteCallLost, ContextExpires, OnUnhealthy
<1>28. CASE \E u \in updates : UpdatePodStatus(u) \/ UpdateTimesOut(u)
        \/ UpdateLost(u)
  BY <1>1, <1>28 DEF UpdatePodStatus, UpdateTimesOut, UpdateLost
<1>29. CASE \E d \in Deleters : DeletePod(d) \/ NotifyWorkerFails(d)
        \/ DeleteFromStore(d) \/ CleanupCallLost(d) \/ CleanupPodUnknown(d)
        \/ CleanupPod(d) \/ TakeSnapshot(d) \/ UntrackPod(d)
  BY <1>1, <1>29 DEF DeletePod, NotifyWorkerFails, DeleteFromStore,
     CleanupCallLost, CleanupPodUnknown, CleanupPod, TakeSnapshot,
     UntrackPod
<1>30. CASE UNCHANGED vars
  BY <1>1, <1>30 DEF vars
<1> QED
  BY <1>2, <1>3, <1>4, <1>5, <1>6, <1>7, <1>8, <1>9, <1>10, <1>11, <1>12, <1>13,
     <1>14, <1>15, <1>16, <1>17, <1>18, <1>19, <1>20, <1>21, <1>22, <1>23,
     <1>24, <1>25, <1>26, <1>27, <1>28, <1>29, <1>30
     DEF Next, Step, Request, Execute, Report, Delete

(* An update tells the verdict, and once there is one nothing is created.  *)
LEMMA ReportsAreTrueStep ==
  ASSUME Inv, [Next]_vars
  PROVE  ReportsAreTrue'
<1> USE ContainersAssumption DEF masterVars, cleanVars, pastVars, dockerVars, Removed,
      resultVars, rigidVars, sysVars
<1> USE DEF TypeOK, ReportsAreTrue, VerdictIsTrue, Early, InLoop, Cleared,
      Final, Containers, Resources, Network, Ended
<1>0. TypeOK /\ ReportsAreTrue /\ VerdictIsTrue
  BY DEF Inv
<1>1. ASSUME UNCHANGED <<updates, status, verdict, resource, refused>> PROVE ReportsAreTrue'
  BY <1>0, <1>1
<1>2. CASE CreatePod
  BY <1>0, <1>2 DEF CreatePod
<1>3. CASE SchedulePod
  BY <1>0, <1>3 DEF SchedulePod
<1>4. CASE BeginPod
  BY <1>0, <1>4 DEF BeginPod, NewUpdate
<1>5. CASE SetupPodNetwork
  BY <1>0, <1>5 DEF SetupPodNetwork
<1>6. CASE SetupPodNetworkFails
  BY <1>0, <1>6 DEF SetupPodNetworkFails, NotCreated
<1>7. CASE PullImagesFails
  BY <1>0, <1>7 DEF PullImagesFails, Fail
<1>8. CASE CreateContainer
  BY <1>0, <1>8 DEF CreateContainer
<1>9. CASE CreateContainerFails
  BY <1>0, <1>9 DEF CreateContainerFails, NotCreated, Fail
<1>10. CASE StartContainer
  BY <1>0, <1>10 DEF StartContainer
<1>11. CASE StartContainerFails
  BY <1>0, <1>11 DEF StartContainerFails, Fail
<1>12. CASE UpdatePodIP
  BY <1>0, <1>12 DEF UpdatePodIP, NewUpdate
<1>13. CASE EndWaits
  BY <1>0, <1>13 DEF EndWaits
<1>14. ASSUME NEW c \in Containers, ClearContainer(c) PROVE ReportsAreTrue'
  BY <1>0, <1>14 DEF ClearContainer
<1>15. CASE ClearNetwork
  BY <1>0, <1>15 DEF ClearNetwork, NetworkRemoved
<1>16. CASE FinalizePodStatus
  BY <1>0, <1>16 DEF FinalizePodStatus, NewUpdate
<1>17. CASE OnUnhealthy
  BY <1>0, <1>17 DEF OnUnhealthy, NewUpdate
<1>18. ASSUME NEW c \in Containers, ContainerExits(c) PROVE ReportsAreTrue'
  BY <1>0, <1>18 DEF ContainerExits
<1>19. ASSUME NEW u \in updates, UpdatePodStatus(u) PROVE ReportsAreTrue'
  BY <1>0, <1>19 DEF UpdatePodStatus
<1>20. ASSUME NEW u \in updates, UpdateTimesOut(u) PROVE ReportsAreTrue'
  <2>1. \A w \in updates' : \E v \in updates : w.status = v.status
    BY <1>0, <1>20 DEF UpdateTimesOut, Gone, Update
  <2>2. UNCHANGED <<resource, refused, verdict, status>>
    BY <1>20 DEF UpdateTimesOut
  <2> QED
    BY <1>0, <2>1, <2>2
<1>21. ASSUME NEW u \in updates, UpdateLost(u) PROVE ReportsAreTrue'
  BY <1>0, <1>21 DEF UpdateLost
<1>22. ASSUME NEW d \in Deleters, DeleteFromStore(d) PROVE ReportsAreTrue'
  BY <1>0, <1>22 DEF DeleteFromStore
<1>23. ASSUME NEW d \in Deleters, NEW c \in Containers, RemoveContainer(d, c)
      PROVE  ReportsAreTrue'
  BY <1>0, <1>23 DEF RemoveContainer
<1>24. ASSUME NEW d \in Deleters, RemoveNetwork(d) PROVE ReportsAreTrue'
  BY <1>0, <1>24 DEF RemoveNetwork, NetworkRemoved
<1>25. CASE WorkerEnds
  <2>1. \A w \in updates' : \E v \in updates : w.status = v.status
    BY <1>0, <1>25 DEF WorkerEnds, Gone, Update
  <2>2. UNCHANGED <<resource, refused, verdict, status>>
    BY <1>25 DEF WorkerEnds
  <2> QED
    BY <1>0, <2>1, <2>2
<1>26. CASE SchedulePodFails \/ TriggerPodExecution \/ ExecuteCallLost
        \/ AcceptPod \/ RecordNetwork \/ PullImages \/ RecordContainer
        \/ SendStart \/ EndPod \/ ContextExpires
  BY <1>1, <1>26 DEF SchedulePodFails, TriggerPodExecution, ExecuteCallLost,
     AcceptPod, RecordNetwork, PullImages, RecordContainer, SendStart, EndPod,
     ContextExpires
<1>27. CASE \E c \in Containers : WaitContainer(c) \/ WaitContainerFails(c)
  BY <1>1, <1>27 DEF WaitContainer, WaitContainerFails
<1>28. CASE \E d \in Deleters : DeletePod(d) \/ NotifyWorkerFails(d)
        \/ CleanupCallLost(d) \/ CleanupPodUnknown(d) \/ CleanupPod(d)
        \/ TakeSnapshot(d) \/ UntrackPod(d)
  BY <1>1, <1>28 DEF DeletePod, NotifyWorkerFails, CleanupCallLost,
     CleanupPodUnknown, CleanupPod, TakeSnapshot, UntrackPod
<1>29. CASE UNCHANGED vars
  BY <1>1, <1>29 DEF vars
<1> QED
  BY <1>2, <1>3, <1>4, <1>5, <1>6, <1>7, <1>8, <1>9, <1>10, <1>11, <1>12, <1>13,
     <1>14, <1>15, <1>16, <1>17, <1>18, <1>19, <1>20, <1>21, <1>22, <1>23,
     <1>24, <1>25, <1>26, <1>27, <1>28, <1>29
     DEF Next, Step, Request, Execute, Report, Delete

(* The handler takes its snapshot after it has cancelled the pod: no start is *)
(* sent after that.                                                        *)
LEMMA CleanupSeesAllStep ==
  ASSUME Inv, [Next]_vars
  PROVE  CleanupSeesAll'
<1> USE ContainersAssumption DEF masterVars, cleanVars, pastVars, dockerVars, Removed,
      resultVars, rigidVars, sysVars
<1> USE DEF TypeOK, CleanupSeesAll, KnownResources, Exists, MayRun, Containers,
      Resources, Network, Ended
<1>0. TypeOK /\ CleanupSeesAll /\ KnownResources
  BY DEF Inv
<1>1. ASSUME UNCHANGED <<cleanup, cancelled, spared, resource, exec, i, snapshot>> PROVE CleanupSeesAll'
  BY <1>0, <1>1
<1>2. CASE AcceptPod
  BY <1>0, <1>2 DEF AcceptPod
<1>3. CASE BeginPod
  BY <1>0, <1>3 DEF BeginPod, NewUpdate
<1>4. CASE SetupPodNetwork
  BY <1>0, <1>4 DEF SetupPodNetwork
<1>5. CASE SetupPodNetworkFails
  BY <1>0, <1>5 DEF SetupPodNetworkFails, NotCreated
<1>6. CASE RecordNetwork
  BY <1>0, <1>6 DEF RecordNetwork
<1>7. CASE PullImages
  BY <1>0, <1>7 DEF PullImages
<1>8. CASE PullImagesFails
  BY <1>0, <1>8 DEF PullImagesFails, Fail
<1>9. CASE CreateContainer
  BY <1>0, <1>9 DEF CreateContainer
<1>10. CASE CreateContainerFails
  BY <1>0, <1>10 DEF CreateContainerFails, NotCreated, Fail
<1>11. CASE RecordContainer
  BY <1>0, <1>11 DEF RecordContainer
<1>12. CASE SendStart
  BY <1>0, <1>12 DEF SendStart
<1>13. CASE StartContainer
  BY <1>0, <1>13 DEF StartContainer
<1>14. CASE StartContainerFails
  BY <1>0, <1>14 DEF StartContainerFails, Fail
<1>15. CASE UpdatePodIP
  BY <1>0, <1>15 DEF UpdatePodIP, NewUpdate
<1>16. CASE EndWaits
  BY <1>0, <1>16 DEF EndWaits
<1>17. ASSUME NEW c \in Containers, ClearContainer(c) PROVE CleanupSeesAll'
  BY <1>0, <1>17 DEF ClearContainer
<1>18. CASE ClearNetwork
  BY <1>0, <1>18 DEF ClearNetwork, NetworkRemoved
<1>19. CASE FinalizePodStatus
  BY <1>0, <1>19 DEF FinalizePodStatus, NewUpdate
<1>20. CASE EndPod
  BY <1>0, <1>20 DEF EndPod
<1>21. CASE ContextExpires
  BY <1>0, <1>21 DEF ContextExpires
<1>22. ASSUME NEW c \in Containers, ContainerExits(c) PROVE CleanupSeesAll'
  BY <1>0, <1>22 DEF ContainerExits
<1>23. ASSUME NEW d \in Deleters, DeletePod(d) PROVE CleanupSeesAll'
  BY <1>0, <1>23 DEF DeletePod
<1>24. ASSUME NEW d \in Deleters, CleanupCallLost(d) PROVE CleanupSeesAll'
  BY <1>0, <1>24 DEF CleanupCallLost
<1>25. ASSUME NEW d \in Deleters, CleanupPodUnknown(d) PROVE CleanupSeesAll'
  BY <1>0, <1>25 DEF CleanupPodUnknown, Answers
<1>26. ASSUME NEW d \in Deleters, CleanupPod(d) PROVE CleanupSeesAll'
  BY <1>0, <1>26 DEF CleanupPod
<1>27. ASSUME NEW d \in Deleters, TakeSnapshot(d) PROVE CleanupSeesAll'
  <2>1. \A c \in Containers : MayRun(c)' => c \in known
    BY <1>0, <1>27 DEF TakeSnapshot
  <2>2. \A e \in Deleters :
          /\ e /= d => cleanup'[e] = cleanup[e] /\ snapshot'[e] = snapshot[e]
          /\ snapshot'[d] = known
    BY <1>0, <1>27 DEF TakeSnapshot
  <2>3. ASSUME NEW e \in Deleters
        PROVE  /\ cleanup'[e] \in {"stopped", "removing"} => cancelled'
               /\ cleanup'[e] = "removing" =>
                    \A c \in Containers : MayRun(c)' => c \in snapshot'[e] \cup spared'
    BY <1>0, <1>27, <2>1, <2>2 DEF TakeSnapshot
  <2> QED
    BY <2>3
<1>28. ASSUME NEW d \in Deleters, NEW c \in Containers, RemoveContainer(d, c)
      PROVE  CleanupSeesAll'
  BY <1>0, <1>28 DEF RemoveContainer
<1>29. ASSUME NEW d \in Deleters, RemoveNetwork(d) PROVE CleanupSeesAll'
  BY <1>0, <1>29 DEF RemoveNetwork, NetworkRemoved
<1>30. ASSUME NEW d \in Deleters, UntrackPod(d) PROVE CleanupSeesAll'
  BY <1>0, <1>30 DEF UntrackPod, Answers
<1>31. CASE WorkerEnds
  BY <1>0, <1>31 DEF WorkerEnds, Gone
<1>32. CASE CreatePod \/ SchedulePodFails \/ SchedulePod \/ TriggerPodExecution
        \/ ExecuteCallLost \/ OnUnhealthy
  BY <1>1, <1>32 DEF CreatePod, SchedulePodFails, SchedulePod,
     TriggerPodExecution, ExecuteCallLost, OnUnhealthy
<1>33. CASE \E c \in Containers : WaitContainer(c) \/ WaitContainerFails(c)
  BY <1>1, <1>33 DEF WaitContainer, WaitContainerFails
<1>34. CASE \E u \in updates : UpdatePodStatus(u) \/ UpdateTimesOut(u)
        \/ UpdateLost(u)
  BY <1>1, <1>34 DEF UpdatePodStatus, UpdateTimesOut, UpdateLost
<1>35. CASE \E d \in Deleters : NotifyWorkerFails(d) \/ DeleteFromStore(d)
  BY <1>1, <1>35 DEF NotifyWorkerFails, DeleteFromStore
<1>36. CASE UNCHANGED vars
  BY <1>1, <1>36 DEF vars
<1> QED
  BY <1>2, <1>3, <1>4, <1>5, <1>6, <1>7, <1>8, <1>9, <1>10, <1>11, <1>12, <1>13,
     <1>14, <1>15, <1>16, <1>17, <1>18, <1>19, <1>20, <1>21, <1>22, <1>23,
     <1>24, <1>25, <1>26, <1>27, <1>28, <1>29, <1>30, <1>31, <1>32,
     <1>33, <1>34, <1>35, <1>36
     DEF Next, Step, Request, Execute, Report, Delete

(* A pod is untracked when its executor ends or when a handler has removed all *)
(* that it saw.                                                            *)
LEMMA UntrackedPodStaysStoppedStep ==
  ASSUME Inv, [Next]_vars
  PROVE  UntrackedPodStaysStopped'
<1> USE ContainersAssumption DEF masterVars, cleanVars, pastVars, dockerVars, Removed,
      resultVars, rigidVars, sysVars
<1> USE DEF TypeOK, UntrackedPodStaysStopped, CleanupSeesAll, VerdictIsTrue,
      MayRun, Cleared, Containers, Resources, Network, Ended
<1>0. TypeOK /\ UntrackedPodStaysStopped /\ CleanupSeesAll /\ VerdictIsTrue
  BY DEF Inv
<1>1. ASSUME UNCHANGED <<tracked, exec, cancelled, refused, spared, resource, i>> PROVE UntrackedPodStaysStopped'
  BY <1>0, <1>1
<1>2. CASE AcceptPod
  BY <1>0, <1>2 DEF AcceptPod
<1>3. CASE BeginPod
  BY <1>0, <1>3 DEF BeginPod, NewUpdate
<1>4. CASE SetupPodNetwork
  BY <1>0, <1>4 DEF SetupPodNetwork
<1>5. CASE SetupPodNetworkFails
  BY <1>0, <1>5 DEF SetupPodNetworkFails, NotCreated
<1>6. CASE RecordNetwork
  BY <1>0, <1>6 DEF RecordNetwork
<1>7. CASE PullImages
  BY <1>0, <1>7 DEF PullImages
<1>8. CASE PullImagesFails
  BY <1>0, <1>8 DEF PullImagesFails, Fail
<1>9. CASE CreateContainer
  BY <1>0, <1>9 DEF CreateContainer
<1>10. CASE CreateContainerFails
  BY <1>0, <1>10 DEF CreateContainerFails, NotCreated, Fail
<1>11. CASE RecordContainer
  BY <1>0, <1>11 DEF RecordContainer
<1>12. CASE SendStart
  BY <1>0, <1>12 DEF SendStart
<1>13. CASE StartContainer
  BY <1>0, <1>13 DEF StartContainer
<1>14. CASE StartContainerFails
  BY <1>0, <1>14 DEF StartContainerFails, Fail
<1>15. CASE UpdatePodIP
  BY <1>0, <1>15 DEF UpdatePodIP, NewUpdate
<1>16. CASE EndWaits
  BY <1>0, <1>16 DEF EndWaits
<1>17. ASSUME NEW c \in Containers, ClearContainer(c)
      PROVE  UntrackedPodStaysStopped'
  BY <1>0, <1>17 DEF ClearContainer
<1>18. CASE ClearNetwork
  BY <1>0, <1>18 DEF ClearNetwork, NetworkRemoved
<1>19. CASE FinalizePodStatus
  BY <1>0, <1>19 DEF FinalizePodStatus, NewUpdate
<1>20. CASE EndPod
  BY <1>0, <1>20 DEF EndPod
<1>21. CASE ContextExpires
  BY <1>0, <1>21 DEF ContextExpires
<1>22. ASSUME NEW c \in Containers, ContainerExits(c)
      PROVE  UntrackedPodStaysStopped'
  BY <1>0, <1>22 DEF ContainerExits
<1>23. ASSUME NEW d \in Deleters, CleanupPod(d) PROVE UntrackedPodStaysStopped'
  BY <1>0, <1>23 DEF CleanupPod
<1>24. ASSUME NEW d \in Deleters, NEW c \in Containers, RemoveContainer(d, c)
      PROVE  UntrackedPodStaysStopped'
  BY <1>0, <1>24 DEF RemoveContainer
<1>25. ASSUME NEW d \in Deleters, RemoveNetwork(d)
      PROVE  UntrackedPodStaysStopped'
  BY <1>0, <1>25 DEF RemoveNetwork, NetworkRemoved
<1>26. ASSUME NEW d \in Deleters, UntrackPod(d) PROVE UntrackedPodStaysStopped'
  BY <1>0, <1>26 DEF UntrackPod, Answers
<1>27. CASE WorkerEnds
  BY <1>0, <1>27 DEF WorkerEnds, Gone
<1>28. CASE CreatePod \/ SchedulePodFails \/ SchedulePod \/ TriggerPodExecution
        \/ ExecuteCallLost \/ OnUnhealthy
  BY <1>1, <1>28 DEF CreatePod, SchedulePodFails, SchedulePod,
     TriggerPodExecution, ExecuteCallLost, OnUnhealthy
<1>29. CASE \E c \in Containers : WaitContainer(c) \/ WaitContainerFails(c)
  BY <1>1, <1>29 DEF WaitContainer, WaitContainerFails
<1>30. CASE \E u \in updates : UpdatePodStatus(u) \/ UpdateTimesOut(u)
        \/ UpdateLost(u)
  BY <1>1, <1>30 DEF UpdatePodStatus, UpdateTimesOut, UpdateLost
<1>31. CASE \E d \in Deleters : DeletePod(d) \/ NotifyWorkerFails(d)
        \/ DeleteFromStore(d) \/ CleanupCallLost(d) \/ CleanupPodUnknown(d)
        \/ TakeSnapshot(d)
  BY <1>1, <1>31 DEF DeletePod, NotifyWorkerFails, DeleteFromStore,
     CleanupCallLost, CleanupPodUnknown, TakeSnapshot
<1>32. CASE UNCHANGED vars
  BY <1>1, <1>32 DEF vars
<1> QED
  BY <1>2, <1>3, <1>4, <1>5, <1>6, <1>7, <1>8, <1>9, <1>10, <1>11, <1>12, <1>13,
     <1>14, <1>15, <1>16, <1>17, <1>18, <1>19, <1>20, <1>21, <1>22, <1>23,
     <1>24, <1>25, <1>26, <1>27, <1>28, <1>29, <1>30, <1>31, <1>32
     DEF Next, Step, Request, Execute, Report, Delete

-----------------------------------------------------------------------------
LEMMA InvInit == Init => Inv
<1> SUFFICES ASSUME Init PROVE Inv
  OBVIOUS
<1>1. TypeOK
  <2>1. {reliable, probed, tracked, cancelled, alarmed} \subseteq BOOLEAN
    BY Zenon DEF Init
  <2>2. i \in Containers
    BY ContainersAssumption DEF Init, Containers
  <2> QED
    BY <2>1, <2>2 DEF Init, TypeOK, Stored, Final
<1>2. KnownResources /\ LoopOrder
  BY ContainersAssumption
     DEF Init, KnownResources, LoopOrder, Exists, Early, InLoop, Resources,
         Containers, Network
<1>3. VerdictIsTrue /\ ReportsAreTrue
  BY DEF Init, VerdictIsTrue, ReportsAreTrue, Final
<1>4. CleanupSeesAll /\ UntrackedPodStaysStopped
  BY DEF Init, CleanupSeesAll, UntrackedPodStaysStopped
<1> QED
  BY <1>1, <1>2, <1>3, <1>4 DEF Inv

(* The inductive invariant of a pod's run: what the executor and the cleanup *)
(* know of Docker, and what is on its way to the master.                    *)
THEOREM Invariance == Spec => []Inv
<1>1. Inv /\ [Next]_vars => Inv'
  BY TypeOKStep, KnownResourcesStep, LoopOrderStep, VerdictIsTrueStep,
     ReportsAreTrueStep, CleanupSeesAllStep, UntrackedPodStaysStoppedStep DEF Inv
<1> QED
  BY <1>1, InvInit, PTL DEF Spec

(* Every variable keeps its type. *)
THEOREM TypeCorrect == Spec => []TypeOK
<1>1. Inv => TypeOK
  BY DEF Inv
<1> QED
  BY <1>1, Invariance, PTL

(* A pod the master shows as succeeded has run: each container ended with  *)
(* code 0, whatever was deleted, cancelled, refused, late or lost.         *)
THEOREM SucceededIsTrue == Spec => []SucceededMeansAllExitedZero
<1>1. Inv => SucceededMeansAllExitedZero
  BY DEF Inv, ReportsAreTrue, VerdictIsTrue, SucceededMeansAllExitedZero, Final
<1> QED
  BY <1>1, Invariance, PTL

(* Of a pod whose executor has ended, or which the master shows as over,   *)
(* nothing is left but what Docker did not admit to or would not remove    *)
(* for the executor: it asks for all of it, whoever else asks.             *)
THEOREM FinishedIsCleared == Spec => []FinishedPodIsCleared
<1>1. Inv => FinishedPodIsCleared
  BY DEF Inv, ReportsAreTrue, VerdictIsTrue, FinishedPodIsCleared
<1> QED
  BY <1>1, Invariance, PTL

(* A pod that is no longer tracked runs nothing but containers that Docker *)
(* would not remove for the handler that took it out or, in the end, for   *)
(* the executor: nothing starts behind a cleanup's back.                   *)
THEOREM UntrackedIsStopped == Spec => []UntrackedPodIsStopped
<1>1. Inv => UntrackedPodIsStopped
  BY DEF Inv, UntrackedPodStaysStopped, UntrackedPodIsStopped, MayRun
<1> QED
  BY <1>1, Invariance, PTL

-----------------------------------------------------------------------------
(* Nobody but these sends an update or takes one off its way.              *)
LEMMA UpdatesInOrderStep ==
  ASSUME Inv, UpdatesInOrder, [Next]_vars
  PROVE  UpdatesInOrder'
<1>r. reliable' = reliable
  BY DEF Next, vars, rigidVars
<1> SUFFICES ASSUME reliable
             PROVE  (RequestComesFirst /\ OneUpdateAtATime)'
  BY <1>r, Zenon DEF UpdatesInOrder
<1> USE ContainersAssumption DEF masterVars, cleanVars, pastVars, dockerVars, Removed,
      resultVars, rigidVars, sysVars
<1> USE DEF RequestComesFirst, OneUpdateAtATime, Own, Final, Ended, Stored
<1>0. /\ TypeOK /\ VerdictIsTrue /\ ReportsAreTrue
      /\ RequestComesFirst /\ OneUpdateAtATime
      /\ \A u \in updates : u \in Update
  BY DEF Inv, UpdatesInOrder, TypeOK
<1>00. Free /\ exec /= "lost" => Own = {}
  BY <1>0 DEF Free
<1>1. ASSUME UNCHANGED <<updates, status, request, exec, waited>>
      PROVE  (RequestComesFirst /\ OneUpdateAtATime)'
  BY <1>0, <1>1
<1>2. CASE CreatePod
  BY <1>0, <1>2 DEF CreatePod
<1>3. CASE SchedulePod
  BY <1>0, <1>3 DEF SchedulePod
<1>4. CASE SchedulePodFails \/ TriggerPodExecution \/ ExecuteCallLost \/ AcceptPod
  BY <1>0, <1>4 DEF SchedulePodFails, TriggerPodExecution, ExecuteCallLost, AcceptPod
<1>5. CASE BeginPod
  <2>1. Own = {} /\ status \notin Final
    BY <1>0, <1>5 DEF BeginPod, ReportsAreTrue, VerdictIsTrue, Early
  <2> QED
    BY <1>0, <1>5, <2>1 DEF BeginPod, NewUpdate
<1>6. CASE SetupPodNetwork \/ SetupPodNetworkFails
  <2>1. Own = {}
    BY <1>00, <1>6 DEF SetupPodNetwork, SetupPodNetworkFails
  <2> QED
    BY <1>0, <1>6, <2>1 DEF SetupPodNetwork, SetupPodNetworkFails
<1>7. CASE RecordNetwork \/ PullImages \/ PullImagesFails
  BY <1>0, <1>7 DEF RecordNetwork, PullImages, PullImagesFails, Fail
<1>8. CASE CreateContainer \/ CreateContainerFails \/ RecordContainer \/ SendStart
  BY <1>0, <1>8 DEF CreateContainer, CreateContainerFails, RecordContainer, SendStart,
                    Fail
<1>9. CASE StartContainer \/ StartContainerFails
  BY <1>0, <1>9 DEF StartContainer, StartContainerFails, Fail
<1>10. CASE UpdatePodIP
  <2>1. /\ Own = {} /\ status \notin Final
        /\ \A c \in Containers : waited[c] = "no"
    BY <1>0, <1>10 DEF UpdatePodIP, ReportsAreTrue, VerdictIsTrue
  <2> QED
    BY <1>0, <1>10, <2>1 DEF UpdatePodIP, NewUpdate
<1>11. ASSUME NEW c \in Containers, WaitContainer(c) \/ WaitContainerFails(c)
       PROVE  (RequestComesFirst /\ OneUpdateAtATime)'
  <2>1. Own = {}
    BY <1>00, <1>11 DEF WaitContainer, WaitContainerFails
  <2> QED
    BY <1>0, <1>11, <2>1 DEF WaitContainer, WaitContainerFails
<1>12. CASE EndWaits
  <2>1. 1 \in Containers
    BY DEF Containers
  <2>2. Own = {}
    BY <1>0, <1>12, <2>1 DEF EndWaits
  <2> QED
    BY <1>0, <1>12, <2>2 DEF EndWaits
<1>13. CASE ClearNetwork \/ \E c \in Containers : ClearContainer(c)
  BY <1>0, <1>13 DEF ClearNetwork, ClearContainer
<1>14. CASE FinalizePodStatus
  <2>1. Own = {} /\ verdict \in Final
    BY <1>0, <1>14 DEF FinalizePodStatus, VerdictIsTrue
  <2> QED
    BY <1>0, <1>14, <2>1 DEF FinalizePodStatus, NewUpdate
<1>15. CASE EndPod
  <2>1. Own = {}
    BY <1>00, <1>15 DEF EndPod
  <2> QED
    BY <1>0, <1>15, <2>1 DEF EndPod
<1>16. CASE OnUnhealthy
  <2>1. 1 \in Containers
    BY DEF Containers
  <2>2. request = "over"
    BY <1>0, <1>16, <2>1 DEF OnUnhealthy, VerdictIsTrue, Early
  <2> QED
    BY <1>0, <1>16, <2>2 DEF OnUnhealthy, NewUpdate
<1>17. ASSUME NEW u \in updates, UpdatePodStatus(u)
       PROVE  (RequestComesFirst /\ OneUpdateAtATime)'
  <2>1. CASE u.by = "executor"
    <3>1. Own' = {}
      BY <1>0, <1>17, <2>1 DEF UpdatePodStatus
    <3>2. RequestComesFirst'
      BY <1>0, <1>17, <2>1 DEF UpdatePodStatus
    <3>3. \A v \in updates' : v.by = "probe" => v.status = "scheduled"
      BY <1>0, <1>17 DEF UpdatePodStatus
    <3> HIDE DEF Own, RequestComesFirst
    <3> QED
      BY <3>1, <3>2, <3>3
  <2>2. CASE u.by = "probe"
    BY <1>0, <1>17, <2>2 DEF UpdatePodStatus
  <2> QED
    BY <1>0, <2>1, <2>2 DEF Update
<1>18. ASSUME NEW u \in updates, UpdateTimesOut(u) \/ UpdateLost(u)
       PROVE  (RequestComesFirst /\ OneUpdateAtATime)'
  BY <1>0, <1>18 DEF UpdateTimesOut, UpdateLost
<1>19. ASSUME NEW d \in Deleters, DeleteFromStore(d)
       PROVE  (RequestComesFirst /\ OneUpdateAtATime)'
  BY <1>0, <1>19 DEF DeleteFromStore
<1>20. CASE WorkerEnds
  <2>1. \A w \in updates' : \E v \in updates : w = Gone(v) /\ w.status = v.status /\ w.by = v.by
    BY <1>0, <1>20 DEF WorkerEnds, Gone, Update
  <2> QED
    BY <1>0, <1>20, <2>1 DEF WorkerEnds
<1>21. CASE ContextExpires \/ \E c \in Containers : ContainerExits(c)
  BY <1>1, <1>21 DEF ContextExpires, ContainerExits
<1>22. CASE \E d \in Deleters : DeletePod(d) \/ NotifyWorkerFails(d)
        \/ CleanupCallLost(d) \/ CleanupPodUnknown(d) \/ CleanupPod(d)
        \/ TakeSnapshot(d) \/ UntrackPod(d) \/ RemoveNetwork(d)
        \/ \E c \in Containers : RemoveContainer(d, c)
  BY <1>1, <1>22 DEF DeletePod, NotifyWorkerFails, CleanupCallLost,
     CleanupPodUnknown, CleanupPod, TakeSnapshot, UntrackPod,
     RemoveNetwork, RemoveContainer
<1>23. CASE UNCHANGED vars
  BY <1>1, <1>23 DEF vars
<1> QED
  BY <1>2, <1>3, <1>4, <1>5, <1>6, <1>7, <1>8, <1>9, <1>10, <1>11, <1>12, <1>13,
     <1>14, <1>15, <1>16, <1>17, <1>18, <1>19, <1>20, <1>21, <1>22, <1>23
     DEF Next, Step, Request, Execute, Report, Delete

(* Who writes the status a client reads.                                   *)
LEMMA WhoWritesStatus ==
  ASSUME [Next]_vars
  PROVE  \/ status' = status
         \/ CreatePod \/ SchedulePod
         \/ \E u \in updates : UpdatePodStatus(u)
         \/ \E d \in Deleters : DeleteFromStore(d)
<1> USE DEF masterVars, sysVars
<1>1. CASE SchedulePodFails \/ TriggerPodExecution \/ ExecuteCallLost \/ AcceptPod
  BY <1>1 DEF SchedulePodFails, TriggerPodExecution, ExecuteCallLost, AcceptPod
<1>2. CASE Execute
  BY <1>2 DEF Execute, BeginPod, SetupPodNetwork, SetupPodNetworkFails, RecordNetwork,
     PullImages, PullImagesFails, CreateContainer, CreateContainerFails,
     RecordContainer, SendStart, StartContainer, StartContainerFails, UpdatePodIP,
     WaitContainer, EndWaits, ClearContainer, ClearNetwork, FinalizePodStatus, EndPod
<1>3. CASE \/ ContextExpires \/ OnUnhealthy \/ WorkerEnds
           \/ \E c \in Containers : WaitContainerFails(c) \/ ContainerExits(c)
           \/ \E u \in updates : UpdateTimesOut(u) \/ UpdateLost(u)
  BY <1>3 DEF ContextExpires, OnUnhealthy, WorkerEnds, WaitContainerFails,
     ContainerExits, UpdateTimesOut, UpdateLost
<1>4. ASSUME NEW d \in Deleters, Delete(d) PROVE status' = status \/ DeleteFromStore(d)
  BY <1>4 DEF Delete, DeletePod, NotifyWorkerFails, CleanupCallLost,
     CleanupPodUnknown, CleanupPod, TakeSnapshot, UntrackPod,
     RemoveNetwork, RemoveContainer
<1>5. CASE UNCHANGED vars
  BY <1>5 DEF vars
<1> QED
  BY <1>1, <1>2, <1>3, <1>4, <1>5 DEF Next, Step, Request, Report

(* With no call late or lost, the status of a pod only moves on, whatever  *)
(* is deleted or fails and whether or not its worker ends, but for the     *)
(* updates of liveness callbacks.                                          *)
THEOREM StatusMovesForward == Spec => PodFollowsFlow
<1>1. Init => UpdatesInOrder
  BY DEF Init, UpdatesInOrder, RequestComesFirst, OneUpdateAtATime, Own
<1>2. Inv /\ UpdatesInOrder /\ [Next]_vars => UpdatesInOrder'
  BY UpdatesInOrderStep
<1>3. ASSUME Inv, UpdatesInOrder, [Next]_vars, reliable
      PROVE  Rank[status] <= Rank[status'] \/ CallbackReported
  <2>0. /\ status \in Stored \cup {"absent", "deleted"}
        /\ RequestComesFirst /\ OneUpdateAtATime
        /\ \A u \in updates : u.by \in {"executor", "probe"}
    BY <1>3 DEF Inv, TypeOK, UpdatesInOrder, Update
  <2>1. CASE status' = status
    BY <2>0, <2>1 DEF Rank, Stored, Final
  <2>2. CASE CreatePod
    BY <2>2 DEF CreatePod, Rank
  <2>3. CASE SchedulePod
    <3>1. status = "pending" /\ status' = "scheduled"
      BY <2>0, <2>3 DEF SchedulePod, RequestComesFirst, Stored, Final
    <3> QED
      BY <3>1 DEF Rank
  <2>4. ASSUME NEW u \in updates, UpdatePodStatus(u)
        PROVE  Rank[status] <= Rank[status'] \/ CallbackReported
    <3>0. CASE u.by = "probe"
      BY <2>4, <3>0 DEF UpdatePodStatus, CallbackReported
    <3>1. CASE status \in Stored /\ u.by = "executor"
      <4>1. status' = u.status
        BY <2>4, <3>1 DEF UpdatePodStatus
      <4>2. u.status = "running" \/ u.status \in Final
        BY <2>0, <3>1 DEF OneUpdateAtATime, Own
      <4>3. status \in Final => u.status \in Final
        BY <2>0, <3>1 DEF OneUpdateAtATime, Own
      <4> QED
        BY <3>1, <4>1, <4>2, <4>3 DEF Rank, Stored, Final
    <3>2. CASE status \notin Stored
      BY <2>0, <2>1, <2>4, <3>2 DEF UpdatePodStatus
    <3> QED
      BY <2>0, <3>0, <3>1, <3>2
  <2>5. ASSUME NEW d \in Deleters, DeleteFromStore(d)
        PROVE  Rank[status] <= Rank[status']
    BY <2>0, <2>1, <2>5 DEF DeleteFromStore, Rank, Stored, Final
  <2> QED
    BY <1>3, <2>1, <2>2, <2>3, <2>4, <2>5, WhoWritesStatus
<1>4. Inv /\ UpdatesInOrder /\ [Next]_vars =>
        [reliable => Rank[status] <= Rank[status'] \/ CallbackReported]_vars
  BY <1>3
<1> QED
  BY <1>1, <1>2, <1>4, Invariance, PTL DEF Spec, PodFollowsFlow

=============================================================================
