----------------------- MODULE ServiceRegistryProofs -----------------------
(***************************************************************************)
(* Proofs about ServiceRegistry for any sets of services, addresses, pods  *)
(* and concurrent delete requests. The argument: an address has one holder *)
(* at a time (OneHolder), a service or a delete request that removed it;   *)
(* what is held is marked as allocated (HeldIsAllocated), so a new service *)
(* can only get an address nobody holds. A restart that keeps the store    *)
(* but not the allocator's table breaks HeldIsAllocated; the theorems      *)
(* about addresses therefore exclude it.                                   *)
(***************************************************************************)
EXTENDS ServiceRegistry, TLAPS

LEMMA TypeOKStep == TypeOK /\ [Next]_vars => TypeOK'
<1> SUFFICES ASSUME TypeOK, [Next]_vars PROVE TypeOK'
  OBVIOUS
<1> USE ServiceAssumption DEF storeVars, pruneVars, syncVars
<1>1. ASSUME NEW s \in Services, NEW ip \in IPs, AllocateClusterIP(s, ip) PROVE TypeOK'
  BY <1>1 DEF TypeOK, AllocateClusterIP
<1>2. ASSUME NEW s \in Services, NEW sel \in SUBSET Pods, CreateWithoutIP(s, sel) PROVE TypeOK'
  BY <1>2 DEF TypeOK, CreateWithoutIP, Selector
<1>3. ASSUME NEW s \in Services, NEW sel \in SUBSET Pods, AddService(s, sel) PROVE TypeOK'
  BY <1>3 DEF TypeOK, AddService, Selector
<1>4. ASSUME NEW s \in Services, NEW sel \in Selector, UpdateService(s, sel) PROVE TypeOK'
  BY <1>4 DEF TypeOK, UpdateService
<1>5. ASSUME NEW s \in Services, AddServiceFails(s) PROVE TypeOK'
  BY <1>5 DEF TypeOK, AddServiceFails
<1>6. ASSUME NEW s \in Services, ReleaseUnused(s) PROVE TypeOK'
  BY <1>6 DEF TypeOK, ReleaseUnused
<1>7. ASSUME NEW s \in Services, PruneService(s) PROVE TypeOK'
  BY <1>7 DEF TypeOK, PruneService, RemoveFromStore
<1>8. ASSUME NEW d \in Deleters, NEW s \in Services, GetService(d, s) PROVE TypeOK'
  BY <1>8 DEF TypeOK, GetService
<1>9. ASSUME NEW d \in Deleters, DeleteService(d) PROVE TypeOK'
  <2>1. CASE service[deleting[d].service] = "stored"
    BY <1>9, <2>1 DEF TypeOK, DeleteService, RemoveFromStore
  <2>2. CASE service[deleting[d].service] /= "stored"
    BY <1>9, <2>2 DEF TypeOK, DeleteService, Idle
  <2> QED
    BY <2>1, <2>2
<1>10. ASSUME NEW d \in Deleters, DeleteEndpoints(d) PROVE TypeOK'
  <2> DEFINE Request == [pc : {"idle", "read", "unlink", "release"},
                         service : Services \cup {NoService}, ip : IPs \cup {NoIP}]
  <2>1. Idle \in Request
    BY DEF Idle
  <2>2. deleting \in [Deleters -> Request]
    BY DEF TypeOK
  <2>3. [deleting EXCEPT ![d] = Idle] \in [Deleters -> Request]
    BY <2>1, <2>2
  <2>4. [deleting[d] EXCEPT !.pc = "release"] \in Request
    BY <2>2
  <2>5. [deleting EXCEPT ![d].pc = "release"] \in [Deleters -> Request]
    BY <2>2, <2>4
  <2>6. deleting' \in [Deleters -> Request]
    BY <1>10, <2>3, <2>5 DEF DeleteEndpoints
  <2>7. endpoints' \in [Services -> Built \cup {NoEndpoints}]
    BY <1>10 DEF TypeOK, DeleteEndpoints
  <2> QED
    BY <1>10, <2>6, <2>7 DEF TypeOK, DeleteEndpoints
<1>11. ASSUME NEW d \in Deleters, ReleaseClusterIP(d) PROVE TypeOK'
  BY <1>11 DEF TypeOK, ReleaseClusterIP, Idle
<1>12. ASSUME PruneAll PROVE TypeOK'
  BY <1>12 DEF TypeOK, PruneAll
<1>13. ASSUME PruneEndpoints PROVE TypeOK'
  BY <1>13 DEF TypeOK, PruneEndpoints
<1>14. ASSUME SyncBegins PROVE TypeOK'
  <2>1. syncList' \in SUBSET Copy
    BY <1>14 DEF TypeOK, SyncBegins, Copy
  <2> QED
    BY <1>14, <2>1 DEF TypeOK, SyncBegins
<1>15. ASSUME NEW copy \in syncList, ListPods(copy) PROVE TypeOK'
  <2>0. copy \in Copy
    BY DEF TypeOK
  <2>1. copy.service \in Services /\ copy.selects \in Selector
    BY <2>0 DEF Copy
  <2>2. copy.selects \in SUBSET Pods => Build(copy.selects) \in Built
    BY DEF Build, Built
  <2>3. syncPods' \in [service : Services \cup {NoService}, built : Built \cup {NoEndpoints}]
    <3>1. CASE copy.selects = NoSelector
      BY <1>15, <3>1 DEF ListPods, Nothing
    <3>2. CASE copy.selects /= NoSelector
      <4>1. copy.selects \in SUBSET Pods
        BY <2>1, <3>2 DEF Selector
      <4> QED
        BY <1>15, <2>1, <2>2, <3>2, <4>1 DEF ListPods
    <3> QED
      BY <3>1, <3>2
  <2> QED
    BY <1>15, <2>3 DEF TypeOK, ListPods
<1>16. ASSUME SetEndpoints PROVE TypeOK'
  <2>1. endpoints' \in [Services -> Built \cup {NoEndpoints}]
    BY <1>16 DEF TypeOK, SetEndpoints
  <2>2. syncPods' \in [service : Services \cup {NoService}, built : Built \cup {NoEndpoints}]
    BY <1>16 DEF SetEndpoints, Nothing
  <2> QED
    BY <1>16, <2>1, <2>2 DEF TypeOK, SetEndpoints
<1>21. ASSUME NEW copy \in syncList, ListPodsFails(copy) PROVE TypeOK'
  BY <1>21 DEF TypeOK, ListPodsFails
<1>17. ASSUME SyncEnds PROVE TypeOK'
  BY <1>17 DEF TypeOK, SyncEnds
<1>18. ASSUME NEW p \in Pods, NEW to \in PodState, PodChanges(p, to) PROVE TypeOK'
  BY <1>18 DEF TypeOK, PodChanges
<1>19. ASSUME MasterRestarts PROVE TypeOK'
  <2>1. syncPods' \in [service : Services \cup {NoService}, built : Built \cup {NoEndpoints}]
    BY <1>19 DEF MasterRestarts, Nothing
  <2>2. deleting' \in [Deleters -> [pc : {"idle", "read", "unlink", "release"},
                       service : Services \cup {NoService}, ip : IPs \cup {NoIP}]]
    BY <1>19 DEF MasterRestarts, Idle
  <2>3. clusterIP' \in [Services -> IPs \cup {NoIP}]
    BY <1>19 DEF TypeOK, MasterRestarts
  <2>4. service' \in [Services -> {"none", "stored", "deleted"}]
    BY <1>19 DEF TypeOK, MasterRestarts
  <2>5. endpoints' \in [Services -> Built \cup {NoEndpoints}]
    BY <1>19 DEF TypeOK, MasterRestarts
  <2>6. pods' \in [Pods -> PodState]
    BY <1>19 DEF TypeOK, MasterRestarts, PodState
  <2>7. creating' \in [Services -> {"none", "allocated", "release", "done"}]
    BY <1>19 DEF TypeOK, MasterRestarts
  <2> QED
    BY <1>19, <2>1, <2>2, <2>3, <2>4, <2>5, <2>6, <2>7 DEF TypeOK, MasterRestarts
<1>20. CASE UNCHANGED vars
  BY <1>20 DEF TypeOK, vars
<1> QED
  BY <1>1, <1>2, <1>3, <1>4, <1>5, <1>6, <1>7, <1>8, <1>9, <1>10, <1>11, <1>12,
     <1>13, <1>14, <1>15, <1>16, <1>17, <1>18, <1>19, <1>20, <1>21 DEF Next, Sync

LEMMA TypeOKInit == Init => TypeOK
<1> SUFFICES ASSUME Init PROVE TypeOK
  OBVIOUS
<1> QED
  BY DEF Init, TypeOK, Idle, Nothing, PodState, Selector

(* Every variable keeps its type. *)
THEOREM ServiceTypeCorrect == Spec => []TypeOK
  BY TypeOKInit, TypeOKStep, PTL DEF Spec

-----------------------------------------------------------------------------
(* Steps that touch neither addresses nor requests.                        *)
LEMMA AddressFrame ==
  ASSUME AddressInv, TypeOK', UNCHANGED <<service, clusterIP, allocated, creating, deleting>>
  PROVE  AddressInv'
<1>1. (\A s \in Services : OnePass(s))'
  BY DEF AddressInv, OnePass
<1>2. (\A d \in Deleters : DeleterKnows(d))'
  BY DEF AddressInv, DeleterKnows
<1>3. OneHolder' /\ HeldIsAllocated'
  BY DEF AddressInv, OneHolder, HeldIsAllocated, Deleted
<1> QED
  BY <1>1, <1>2, <1>3 DEF AddressInv

LEMMA AddressInvInit == Init => AddressInv
  BY TypeOKInit
     DEF Init, AddressInv, OnePass, DeleterKnows, OneHolder, HeldIsAllocated,
     Deleted, Idle

LEMMA AddressInvStep ==
  ASSUME ~Persistent \/ ~MayRestart, AddressInv, [Next]_vars
  PROVE  AddressInv'
<1> USE DEF storeVars, pruneVars, syncVars
<1>0. TypeOK /\ TypeOK'
  BY TypeOKStep DEF AddressInv
<1>1. ASSUME NEW s \in Services, NEW ip \in IPs, AllocateClusterIP(s, ip) PROVE AddressInv'
  <2>1. (\A x \in Services : OnePass(x))'
    BY <1>0, <1>1, ServiceAssumption
       DEF AllocateClusterIP, TypeOK, AddressInv, OnePass
  <2>2. (\A x \in Deleters : DeleterKnows(x))'
    BY <1>0, <1>1, ServiceAssumption
       DEF AllocateClusterIP, TypeOK, AddressInv, OnePass, DeleterKnows
  <2>3. OneHolder'
    BY <1>0, <1>1, ServiceAssumption
       DEF AllocateClusterIP, TypeOK, AddressInv, OnePass, DeleterKnows, OneHolder,
        HeldIsAllocated, Deleted
  <2>4. HeldIsAllocated'
    BY <1>0, <1>1, ServiceAssumption
       DEF AllocateClusterIP, TypeOK, AddressInv, OnePass, DeleterKnows, OneHolder,
        HeldIsAllocated, Deleted
  <2> QED
    BY <1>0, <2>1, <2>2, <2>3, <2>4 DEF AddressInv
<1>2. ASSUME NEW s \in Services, NEW sel \in SUBSET Pods, CreateWithoutIP(s, sel) PROVE AddressInv'
  <2>1. (\A x \in Services : OnePass(x))'
    BY <1>0, <1>2, ServiceAssumption
       DEF CreateWithoutIP, TypeOK, AddressInv, OnePass
  <2>2. (\A x \in Deleters : DeleterKnows(x))'
    BY <1>0, <1>2, ServiceAssumption
       DEF CreateWithoutIP, TypeOK, AddressInv, OnePass, DeleterKnows
  <2>3. OneHolder'
    BY <1>0, <1>2, ServiceAssumption
       DEF CreateWithoutIP, TypeOK, AddressInv, OnePass, DeleterKnows, OneHolder,
        HeldIsAllocated, Deleted
  <2>4. HeldIsAllocated'
    BY <1>0, <1>2, ServiceAssumption
       DEF CreateWithoutIP, TypeOK, AddressInv, OnePass, DeleterKnows, OneHolder,
        HeldIsAllocated, Deleted
  <2> QED
    BY <1>0, <2>1, <2>2, <2>3, <2>4 DEF AddressInv
<1>3. ASSUME NEW s \in Services, NEW sel \in SUBSET Pods, AddService(s, sel) PROVE AddressInv'
  <2>1. (\A x \in Services : OnePass(x))'
    BY <1>0, <1>3, ServiceAssumption DEF AddService, TypeOK, AddressInv, OnePass
  <2>2. (\A x \in Deleters : DeleterKnows(x))'
    BY <1>0, <1>3, ServiceAssumption
       DEF AddService, TypeOK, AddressInv, OnePass, DeleterKnows
  <2>3. OneHolder'
    BY <1>0, <1>3, ServiceAssumption
       DEF AddService, TypeOK, AddressInv, OnePass, DeleterKnows, OneHolder,
        HeldIsAllocated, Deleted
  <2>4. HeldIsAllocated'
    BY <1>0, <1>3, ServiceAssumption
       DEF AddService, TypeOK, AddressInv, OnePass, DeleterKnows, OneHolder,
        HeldIsAllocated, Deleted
  <2> QED
    BY <1>0, <2>1, <2>2, <2>3, <2>4 DEF AddressInv
<1>4. ASSUME NEW s \in Services, NEW sel \in Selector, UpdateService(s, sel) PROVE AddressInv'
  BY <1>0, <1>4, AddressFrame DEF UpdateService
<1>5. ASSUME NEW s \in Services, AddServiceFails(s) PROVE AddressInv'
  <2>1. (\A x \in Services : OnePass(x))'
    BY <1>0, <1>5, ServiceAssumption
       DEF AddServiceFails, TypeOK, AddressInv, OnePass
  <2>2. (\A x \in Deleters : DeleterKnows(x))'
    BY <1>0, <1>5, ServiceAssumption
       DEF AddServiceFails, TypeOK, AddressInv, OnePass, DeleterKnows
  <2>3. OneHolder'
    BY <1>0, <1>5, ServiceAssumption
       DEF AddServiceFails, TypeOK, AddressInv, OnePass, DeleterKnows, OneHolder,
        HeldIsAllocated, Deleted
  <2>4. HeldIsAllocated'
    BY <1>0, <1>5, ServiceAssumption
       DEF AddServiceFails, TypeOK, AddressInv, OnePass, DeleterKnows, OneHolder,
        HeldIsAllocated, Deleted
  <2> QED
    BY <1>0, <2>1, <2>2, <2>3, <2>4 DEF AddressInv
<1>6. ASSUME NEW s \in Services, ReleaseUnused(s) PROVE AddressInv'
  <2>1. (\A x \in Services : OnePass(x))'
    BY <1>0, <1>6, ServiceAssumption DEF ReleaseUnused, TypeOK, AddressInv, OnePass
  <2>2. (\A x \in Deleters : DeleterKnows(x))'
    BY <1>0, <1>6, ServiceAssumption
       DEF ReleaseUnused, TypeOK, AddressInv, OnePass, DeleterKnows
  <2>3. OneHolder'
    BY <1>0, <1>6, ServiceAssumption
       DEF ReleaseUnused, TypeOK, AddressInv, OnePass, DeleterKnows, OneHolder,
        HeldIsAllocated, Deleted
  <2>4. HeldIsAllocated'
    BY <1>0, <1>6, ServiceAssumption
       DEF ReleaseUnused, TypeOK, AddressInv, OnePass, DeleterKnows, OneHolder,
        HeldIsAllocated, Deleted
  <2> QED
    BY <1>0, <2>1, <2>2, <2>3, <2>4 DEF AddressInv
<1>7. ASSUME NEW s \in Services, PruneService(s) PROVE AddressInv'
  <2>1. (\A x \in Services : OnePass(x))'
    BY <1>0, <1>7, ServiceAssumption
       DEF PruneService, RemoveFromStore, TypeOK, AddressInv, OnePass
  <2>2. (\A x \in Deleters : DeleterKnows(x))'
    BY <1>0, <1>7, ServiceAssumption
       DEF PruneService, RemoveFromStore, TypeOK, AddressInv, OnePass, DeleterKnows
  <2>3. OneHolder'
    BY <1>0, <1>7, ServiceAssumption
       DEF PruneService, RemoveFromStore, TypeOK, AddressInv, OnePass,
        DeleterKnows, OneHolder, HeldIsAllocated, Deleted
  <2>4. HeldIsAllocated'
    BY <1>0, <1>7, ServiceAssumption
       DEF PruneService, RemoveFromStore, TypeOK, AddressInv, OnePass,
        DeleterKnows, OneHolder, HeldIsAllocated, Deleted
  <2> QED
    BY <1>0, <2>1, <2>2, <2>3, <2>4 DEF AddressInv
<1>8. ASSUME NEW d \in Deleters, NEW s \in Services, GetService(d, s) PROVE AddressInv'
  <2>1. (\A x \in Services : OnePass(x))'
    BY <1>0, <1>8, ServiceAssumption DEF GetService, TypeOK, AddressInv, OnePass
  <2>2. (\A x \in Deleters : DeleterKnows(x))'
    BY <1>0, <1>8, ServiceAssumption
       DEF GetService, TypeOK, AddressInv, OnePass, DeleterKnows
  <2>3. OneHolder'
    BY <1>0, <1>8, ServiceAssumption
       DEF GetService, TypeOK, AddressInv, OnePass, DeleterKnows, OneHolder,
        HeldIsAllocated, Deleted
  <2>4. HeldIsAllocated'
    BY <1>0, <1>8, ServiceAssumption
       DEF GetService, TypeOK, AddressInv, OnePass, DeleterKnows, OneHolder,
        HeldIsAllocated, Deleted
  <2> QED
    BY <1>0, <2>1, <2>2, <2>3, <2>4 DEF AddressInv
<1>9. ASSUME NEW d \in Deleters, DeleteService(d) PROVE AddressInv'
  <2> DEFINE gone == deleting[d].service
  <2>0. CASE service[gone] /= "stored"
    <3>1. deleting' = [deleting EXCEPT ![d] = Idle] /\ UNCHANGED <<service, clusterIP, allocated, creating>>
      BY <1>9, <2>0 DEF DeleteService
    <3>2. (\A x \in Deleters : DeleterKnows(x))' /\ (\A x \in Services : OnePass(x))'
      BY <1>0, <3>1 DEF TypeOK, AddressInv, OnePass, DeleterKnows, Idle
    <3>3. OneHolder' /\ HeldIsAllocated'
      BY <1>0, <3>1
         DEF TypeOK, AddressInv, OneHolder, HeldIsAllocated, Deleted, Idle
    <3> QED
      BY <1>0, <3>2, <3>3 DEF AddressInv
  <2>1. CASE service[gone] = "stored"
    <3>1. /\ gone \in Services /\ deleting[d].ip = clusterIP[gone] /\ deleting[d].pc = "read"
          /\ deleting' = [deleting EXCEPT ![d].pc = "unlink"]
          /\ service' = [service EXCEPT ![gone] = "deleted"]
          /\ clusterIP' = [clusterIP EXCEPT ![gone] = NoIP]
          /\ UNCHANGED <<allocated, creating>>
      BY <1>9, <2>1 DEF DeleteService, RemoveFromStore, AddressInv, DeleterKnows
    <3>2. (\A x \in Services : OnePass(x))'
      BY <1>0, <2>1, <3>1 DEF TypeOK, AddressInv, OnePass
    <3>3. (\A x \in Deleters : DeleterKnows(x))'
      BY <1>0, <2>1, <3>1 DEF TypeOK, AddressInv, DeleterKnows
    <3>4. \A x \in Deleters : deleting'[x].ip = deleting[x].ip /\ (Deleted(x)' <=> Deleted(x) \/ x = d)
      BY <1>0, <3>1 DEF TypeOK, Deleted
    <3>5. OneHolder'
      BY <1>0, <3>1, <3>4 DEF TypeOK, AddressInv, OneHolder
    <3>6. HeldIsAllocated'
      BY <1>0, <3>1, <3>4 DEF TypeOK, AddressInv, HeldIsAllocated
    <3> QED
      BY <1>0, <3>2, <3>3, <3>5, <3>6 DEF AddressInv
  <2> QED
    BY <2>0, <2>1
<1>10. ASSUME NEW d \in Deleters, DeleteEndpoints(d) PROVE AddressInv'
  <2>1. (\A x \in Services : OnePass(x))'
    BY <1>0, <1>10, ServiceAssumption
       DEF DeleteEndpoints, Idle, TypeOK, AddressInv, OnePass
  <2>2. (\A x \in Deleters : DeleterKnows(x))'
    BY <1>0, <1>10, ServiceAssumption
       DEF DeleteEndpoints, Idle, TypeOK, AddressInv, OnePass, DeleterKnows
  <2>3. OneHolder'
    BY <1>0, <1>10, ServiceAssumption
       DEF DeleteEndpoints, Idle, TypeOK, AddressInv, OnePass, DeleterKnows,
        OneHolder, HeldIsAllocated, Deleted
  <2>4. HeldIsAllocated'
    BY <1>0, <1>10, ServiceAssumption
       DEF DeleteEndpoints, Idle, TypeOK, AddressInv, OnePass, DeleterKnows,
        OneHolder, HeldIsAllocated, Deleted
  <2> QED
    BY <1>0, <2>1, <2>2, <2>3, <2>4 DEF AddressInv
<1>11. ASSUME NEW d \in Deleters, ReleaseClusterIP(d) PROVE AddressInv'
  <2>1. (\A x \in Services : OnePass(x))'
    BY <1>0, <1>11, ServiceAssumption
       DEF ReleaseClusterIP, Idle, TypeOK, AddressInv, OnePass
  <2>2. (\A x \in Deleters : DeleterKnows(x))'
    BY <1>0, <1>11, ServiceAssumption
       DEF ReleaseClusterIP, Idle, TypeOK, AddressInv, OnePass, DeleterKnows
  <2>3. OneHolder'
    BY <1>0, <1>11, ServiceAssumption
       DEF ReleaseClusterIP, Idle, TypeOK, AddressInv, OnePass, DeleterKnows,
        OneHolder, HeldIsAllocated, Deleted
  <2>4. HeldIsAllocated'
    BY <1>0, <1>11, ServiceAssumption
       DEF ReleaseClusterIP, Idle, TypeOK, AddressInv, OnePass, DeleterKnows,
        OneHolder, HeldIsAllocated, Deleted
  <2> QED
    BY <1>0, <2>1, <2>2, <2>3, <2>4 DEF AddressInv
<1>12. ASSUME PruneAll PROVE AddressInv'
  BY <1>0, <1>12, AddressFrame DEF PruneAll
<1>13. ASSUME PruneEndpoints PROVE AddressInv'
  BY <1>0, <1>13, AddressFrame DEF PruneEndpoints
<1>14. ASSUME SyncBegins PROVE AddressInv'
  BY <1>0, <1>14, AddressFrame DEF SyncBegins
<1>15. ASSUME NEW copy \in syncList, ListPods(copy) PROVE AddressInv'
  BY <1>0, <1>15, AddressFrame DEF ListPods
<1>16. ASSUME SetEndpoints PROVE AddressInv'
  BY <1>0, <1>16, AddressFrame DEF SetEndpoints
<1>21. ASSUME NEW copy \in syncList, ListPodsFails(copy) PROVE AddressInv'
  BY <1>0, <1>21, AddressFrame DEF ListPodsFails
<1>17. ASSUME SyncEnds PROVE AddressInv'
  BY <1>0, <1>17, AddressFrame DEF SyncEnds
<1>18. ASSUME NEW p \in Pods, NEW to \in PodState, PodChanges(p, to) PROVE AddressInv'
  BY <1>0, <1>18, AddressFrame DEF PodChanges
<1>19. ASSUME MasterRestarts PROVE AddressInv'
  <2>1. (\A x \in Services : OnePass(x))'
    BY <1>0, <1>19, ServiceAssumption
       DEF MasterRestarts, Idle, TypeOK, AddressInv, OnePass
  <2>2. (\A x \in Deleters : DeleterKnows(x))'
    BY <1>0, <1>19, ServiceAssumption
       DEF MasterRestarts, Idle, TypeOK, AddressInv, OnePass, DeleterKnows
  <2>3. OneHolder'
    BY <1>0, <1>19, ServiceAssumption
       DEF MasterRestarts, Idle, TypeOK, AddressInv, OnePass, DeleterKnows,
        OneHolder, HeldIsAllocated, Deleted
  <2>4. HeldIsAllocated'
    BY <1>0, <1>19, ServiceAssumption
       DEF MasterRestarts, Idle, TypeOK, AddressInv, OnePass, DeleterKnows,
        OneHolder, HeldIsAllocated, Deleted
  <2> QED
    BY <1>0, <2>1, <2>2, <2>3, <2>4 DEF AddressInv
<1>20. CASE UNCHANGED vars
  BY <1>0, <1>20, AddressFrame DEF vars
<1> QED
  BY <1>1, <1>2, <1>3, <1>4, <1>5, <1>6, <1>7, <1>8, <1>9, <1>10, <1>11, <1>12,
     <1>13, <1>14, <1>15, <1>16, <1>17, <1>18, <1>19, <1>20, <1>21 DEF Next, Sync

(* Every address has at most one holder, among services, creations and      *)
(* deletions, unless a master with the PostgreSQL store restarts.           *)
THEOREM AddressInvariance == ~Persistent \/ ~MayRestart => (Spec => []AddressInv)
<1> SUFFICES ASSUME ~Persistent \/ ~MayRestart PROVE Spec => []AddressInv
  OBVIOUS
<1>1. AddressInv /\ [Next]_vars => AddressInv'
  BY AddressInvStep
<1> QED
  BY <1>1, AddressInvInit, PTL DEF Spec

(* Unless the store survives a restart that the allocator does not, no two *)
(* stored services ever share a cluster IP.                                *)
THEOREM ClusterIPsAreDistinct ==
  ~Persistent \/ ~MayRestart => (Spec => []DistinctClusterIPs)
<1> SUFFICES ASSUME ~Persistent \/ ~MayRestart PROVE Spec => []DistinctClusterIPs
  OBVIOUS
<1>1. AddressInv => DistinctClusterIPs
  BY DEF AddressInv, OneHolder, DistinctClusterIPs
<1> QED
  BY <1>1, AddressInvariance, PTL

-----------------------------------------------------------------------------
(* Without prune-all, what is allocated is held: only a prune forgets an   *)
(* address. A restart empties the table and keeps this true.               *)
Accounted == AllocatedIsHeld /\ pruneList = {}

(* Steps that touch neither the table nor a holder.                        *)
LEMMA AccountedFrame ==
  ASSUME Accounted, UNCHANGED <<clusterIP, allocated, deleting, pruneList>>
  PROVE  Accounted'
  BY DEF Accounted, AllocatedIsHeld, Deleted

LEMMA AccountedStep ==
  ASSUME ~MayPruneAll, AddressInv, Accounted, [Next]_vars
  PROVE  Accounted'
<1> USE ServiceAssumption DEF storeVars, pruneVars, syncVars
<1>0. TypeOK
  BY DEF AddressInv
<1>1. ASSUME NEW s \in Services, NEW ip \in IPs, AllocateClusterIP(s, ip) PROVE Accounted'
  <2>1. clusterIP[s] = NoIP
    BY <1>1 DEF AllocateClusterIP, AddressInv, OnePass
  <2> QED
    BY <1>0, <1>1, <2>1 DEF TypeOK, Accounted, AllocatedIsHeld, Deleted,
                             AllocateClusterIP
<1>2. ASSUME NEW s \in Services, NEW sel \in SUBSET Pods, CreateWithoutIP(s, sel) PROVE Accounted'
  BY <1>2, AccountedFrame DEF CreateWithoutIP
<1>3. ASSUME NEW s \in Services, NEW sel \in SUBSET Pods, AddService(s, sel) PROVE Accounted'
  BY <1>3, AccountedFrame DEF AddService
<1>4. ASSUME NEW s \in Services, NEW sel \in Selector, UpdateService(s, sel) PROVE Accounted'
  BY <1>4, AccountedFrame DEF UpdateService
<1>5. ASSUME NEW s \in Services, AddServiceFails(s) PROVE Accounted'
  BY <1>5, AccountedFrame DEF AddServiceFails
<1>6. ASSUME NEW s \in Services, ReleaseUnused(s) PROVE Accounted'
  BY <1>0, <1>6 DEF TypeOK, Accounted, AllocatedIsHeld, Deleted, Idle, ReleaseUnused
<1>7. ASSUME NEW s \in Services, PruneService(s) PROVE Accounted'
  BY <1>7 DEF Accounted, PruneService
<1>8. ASSUME NEW d \in Deleters, NEW s \in Services, GetService(d, s) PROVE Accounted'
  BY <1>0, <1>8 DEF TypeOK, Accounted, AllocatedIsHeld, Deleted, Idle, GetService
<1>9. ASSUME NEW d \in Deleters, DeleteService(d) PROVE Accounted'
  <2> DEFINE gone == deleting[d].service
  <2>1. CASE service[gone] = "stored"
    <3>1. /\ gone \in Services /\ deleting[d].ip = clusterIP[gone]
          /\ deleting' = [deleting EXCEPT ![d].pc = "unlink"]
          /\ clusterIP' = [clusterIP EXCEPT ![gone] = NoIP]
          /\ UNCHANGED <<allocated, pruneList>>
      BY <1>9, <2>1 DEF DeleteService, RemoveFromStore, AddressInv, DeleterKnows
    <3>2. \A x \in Deleters : /\ deleting'[x].ip = deleting[x].ip
                             /\ Deleted(x)' <=> Deleted(x) \/ x = d
      BY <1>0, <1>9, <3>1 DEF TypeOK, Deleted
    <3>3. ASSUME NEW ip \in allocated
          PROVE  \/ \E s \in Services : clusterIP'[s] = ip
                 \/ \E x \in Deleters : Deleted(x)' /\ deleting'[x].ip = ip
      BY <1>0, <3>1, <3>2 DEF TypeOK, Accounted, AllocatedIsHeld
    <3> QED
      BY <3>1, <3>3 DEF Accounted, AllocatedIsHeld
  <2>2. CASE service[gone] /= "stored"
    BY <1>0, <1>9, <2>2
       DEF TypeOK, Accounted, AllocatedIsHeld, Deleted, Idle, DeleteService
  <2> QED
    BY <2>1, <2>2
<1>10. ASSUME NEW d \in Deleters, DeleteEndpoints(d) PROVE Accounted'
  BY <1>0, <1>10
     DEF TypeOK, Accounted, AllocatedIsHeld, Deleted, Idle, DeleteEndpoints
<1>11. ASSUME NEW d \in Deleters, ReleaseClusterIP(d) PROVE Accounted'
  BY <1>0, <1>11
     DEF TypeOK, Accounted, AllocatedIsHeld, Deleted, Idle, ReleaseClusterIP
<1>12. ASSUME PruneAll PROVE Accounted'
  BY <1>12 DEF Accounted, PruneAll
<1>13. ASSUME PruneEndpoints PROVE Accounted'
  BY <1>13, AccountedFrame DEF PruneEndpoints
<1>14. ASSUME SyncBegins PROVE Accounted'
  BY <1>14, AccountedFrame DEF SyncBegins
<1>15. ASSUME NEW copy \in syncList, ListPods(copy) PROVE Accounted'
  BY <1>15, AccountedFrame DEF ListPods
<1>16. ASSUME SetEndpoints PROVE Accounted'
  BY <1>16, AccountedFrame DEF SetEndpoints
<1>21. ASSUME NEW copy \in syncList, ListPodsFails(copy) PROVE Accounted'
  BY <1>21, AccountedFrame DEF ListPodsFails
<1>17. ASSUME SyncEnds PROVE Accounted'
  BY <1>17, AccountedFrame DEF SyncEnds
<1>18. ASSUME NEW p \in Pods, NEW to \in PodState, PodChanges(p, to) PROVE Accounted'
  BY <1>18, AccountedFrame DEF PodChanges
<1>19. ASSUME MasterRestarts PROVE Accounted'
  BY <1>0, <1>19
     DEF TypeOK, Accounted, AllocatedIsHeld, Deleted, Idle, MasterRestarts
<1>20. CASE UNCHANGED vars
  BY <1>20, AccountedFrame DEF vars
<1> QED
  BY <1>1, <1>2, <1>3, <1>4, <1>5, <1>6, <1>7, <1>8, <1>9, <1>10, <1>11,
     <1>12, <1>13, <1>14, <1>15, <1>16, <1>17, <1>18, <1>19, <1>20, <1>21 DEF Next, Sync

(* With neither prune-all nor a restart that keeps the store, the pool is  *)
(* exactly the addresses in use: none is given twice and none is lost.     *)
THEOREM PoolIsAccounted ==
  ~MayPruneAll /\ (~Persistent \/ ~MayRestart) => (Spec => []AddressesAccounted)
<1> SUFFICES ASSUME ~MayPruneAll, ~Persistent \/ ~MayRestart
             PROVE  Spec => []AddressesAccounted
  OBVIOUS
<1>1. Init => Accounted
  BY DEF Init, Accounted, AllocatedIsHeld
<1>2. AddressInv /\ Accounted /\ [Next]_vars => Accounted'
  BY AccountedStep
<1>3. AddressInv /\ Accounted => AddressesAccounted
  <2> SUFFICES ASSUME AddressInv, Accounted PROVE AddressesAccounted
    OBVIOUS
  <2>1. NoIP \notin allocated
    BY ServiceAssumption DEF AddressInv, TypeOK
  <2>2. ASSUME NEW ip \in allocated PROVE ip \in Held
    BY <2>1, <2>2 DEF Accounted, AllocatedIsHeld, Deleted, Held
  <2>3. ASSUME NEW ip \in Held, ip /= NoIP PROVE ip \in allocated
    BY <2>3 DEF AddressInv, HeldIsAllocated, Deleted, Held
  <2> QED
    BY <2>1, <2>2, <2>3 DEF AddressesAccounted
<1> QED
  BY <1>1, <1>2, <1>3, AddressInvariance, PTL DEF Spec

-----------------------------------------------------------------------------
LEMMA EndpointsStep ==
  ASSUME Persistent, TypeOK, EndpointsBelongToAService, [Next]_vars
  PROVE  EndpointsBelongToAService'
<1> USE DEF storeVars, pruneVars, syncVars
<1>1. ASSUME NEW s \in Services, NEW ip \in IPs, AllocateClusterIP(s, ip) PROVE EndpointsBelongToAService'
  BY <1>1 DEF TypeOK, EndpointsBelongToAService, AllocateClusterIP
<1>2. ASSUME NEW s \in Services, NEW sel \in SUBSET Pods, CreateWithoutIP(s, sel) PROVE EndpointsBelongToAService'
  BY <1>2 DEF TypeOK, EndpointsBelongToAService, CreateWithoutIP
<1>3. ASSUME NEW s \in Services, NEW sel \in SUBSET Pods, AddService(s, sel) PROVE EndpointsBelongToAService'
  BY <1>3 DEF TypeOK, EndpointsBelongToAService, AddService
<1>4. ASSUME NEW s \in Services, NEW sel \in Selector, UpdateService(s, sel) PROVE EndpointsBelongToAService'
  BY <1>4 DEF TypeOK, EndpointsBelongToAService, UpdateService
<1>5. ASSUME NEW s \in Services, AddServiceFails(s) PROVE EndpointsBelongToAService'
  BY <1>5 DEF TypeOK, EndpointsBelongToAService, AddServiceFails
<1>6. ASSUME NEW s \in Services, ReleaseUnused(s) PROVE EndpointsBelongToAService'
  BY <1>6 DEF TypeOK, EndpointsBelongToAService, ReleaseUnused
<1>7. ASSUME NEW s \in Services, PruneService(s) PROVE EndpointsBelongToAService'
  BY <1>7 DEF TypeOK, EndpointsBelongToAService, PruneService, RemoveFromStore
<1>8. ASSUME NEW d \in Deleters, NEW s \in Services, GetService(d, s) PROVE EndpointsBelongToAService'
  BY <1>8 DEF TypeOK, EndpointsBelongToAService, GetService
<1>9. ASSUME NEW d \in Deleters, DeleteService(d) PROVE EndpointsBelongToAService'
  BY <1>9 DEF TypeOK, EndpointsBelongToAService, DeleteService, RemoveFromStore
<1>10. ASSUME NEW d \in Deleters, DeleteEndpoints(d) PROVE EndpointsBelongToAService'
  BY <1>10 DEF TypeOK, EndpointsBelongToAService, DeleteEndpoints
<1>11. ASSUME NEW d \in Deleters, ReleaseClusterIP(d) PROVE EndpointsBelongToAService'
  BY <1>11 DEF TypeOK, EndpointsBelongToAService, ReleaseClusterIP
<1>12. ASSUME PruneAll PROVE EndpointsBelongToAService'
  BY <1>12 DEF TypeOK, EndpointsBelongToAService, PruneAll
<1>13. ASSUME PruneEndpoints PROVE EndpointsBelongToAService'
  BY <1>13 DEF TypeOK, EndpointsBelongToAService, PruneEndpoints
<1>14. ASSUME SyncBegins PROVE EndpointsBelongToAService'
  BY <1>14 DEF TypeOK, EndpointsBelongToAService, SyncBegins
<1>15. ASSUME NEW copy \in syncList, ListPods(copy) PROVE EndpointsBelongToAService'
  BY <1>15 DEF TypeOK, EndpointsBelongToAService, ListPods
<1>16. ASSUME SetEndpoints PROVE EndpointsBelongToAService'
  BY <1>16 DEF TypeOK, EndpointsBelongToAService, SetEndpoints
<1>21. ASSUME NEW copy \in syncList, ListPodsFails(copy) PROVE EndpointsBelongToAService'
  BY <1>21 DEF TypeOK, EndpointsBelongToAService, ListPodsFails
<1>17. ASSUME SyncEnds PROVE EndpointsBelongToAService'
  BY <1>17 DEF TypeOK, EndpointsBelongToAService, SyncEnds
<1>18. ASSUME NEW p \in Pods, NEW to \in PodState, PodChanges(p, to) PROVE EndpointsBelongToAService'
  BY <1>18 DEF TypeOK, EndpointsBelongToAService, PodChanges
<1>19. ASSUME MasterRestarts PROVE EndpointsBelongToAService'
  BY <1>19 DEF TypeOK, EndpointsBelongToAService, MasterRestarts
<1>20. CASE UNCHANGED vars
  BY <1>20 DEF TypeOK, EndpointsBelongToAService, vars
<1> QED
  BY <1>1, <1>2, <1>3, <1>4, <1>5, <1>6, <1>7, <1>8, <1>9, <1>10, <1>11,
     <1>12, <1>13, <1>14, <1>15, <1>16, <1>17, <1>18, <1>19, <1>20, <1>21 DEF Next, Sync

(* In PostgreSQL, endpoints in the store always belong to a stored service,*)
(* whatever a sync read before the service was deleted, and across         *)
(* restarts. (The memory store gives no such guarantee.)                   *)
THEOREM EndpointsHaveAService == Persistent => (Spec => []EndpointsBelongToAService)
<1> SUFFICES ASSUME Persistent PROVE Spec => []EndpointsBelongToAService
  OBVIOUS
<1>1. Init => EndpointsBelongToAService
  BY DEF Init, EndpointsBelongToAService
<1>2. TypeOK /\ EndpointsBelongToAService /\ [Next]_vars => EndpointsBelongToAService'
  BY EndpointsStep
<1> QED
  BY <1>1, <1>2, ServiceTypeCorrect, PTL DEF Spec
=============================================================================
