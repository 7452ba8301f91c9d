------------------------- MODULE NodeRegistryProofs -------------------------
(***************************************************************************)
(* Proofs about NodeRegistry, for any number of workers and any intervals. *)
(* What concerns time holds unless the master restarts with a database     *)
(* that keeps the nodes: then the checker's interval starts again.         *)
(***************************************************************************)
EXTENDS NodeRegistry, TLAPS

LEMMA BaseInit == Init => Base
<1> SUFFICES ASSUME Init PROVE Base
  OBVIOUS
<1>1. TypeOK
  <2>1. 0 \in 0..AgeCap /\ 0 \in 0..(CheckInterval - 1) /\ 0 \in 0..MaxRetries
        /\ 0 \in 0..(HeartbeatInterval - 1)
    BY ConstantsAssumption DEF AgeCap
  <2> QED
    BY <2>1 DEF Init, TypeOK, Stored, Alive
<1> QED
  BY <1>1 DEF Init, Base, RegistersOnce, DeregistersLast, RetriesLeft,
     ListsAreOfNodes

LEMMA RequestIsCall ==
  ASSUME NEW w \in Workers, NEW caller \in {"waits", "gone"},
         NEW kind \in {"register", "heartbeat", "deregister"}
  PROVE  /\ Request(w, kind, caller) \in Call
         /\ Request(w, kind, caller).worker = w
         /\ Request(w, kind, caller).kind = kind
         /\ Request(w, kind, caller).caller = caller
BY DEF Request, Call

(* A request that is on its way after some were abandoned was on its way   *)
(* before, and nobody waits for it if it is one of those.                  *)
LEMMA Abandons ==
  ASSUME calls \in SUBSET Call, NEW lost \in SUBSET calls
  PROVE  /\ Abandoned(lost) \in SUBSET Call
         /\ \A x \in Abandoned(lost) : \E d \in calls :
              /\ d.worker = x.worker /\ d.kind = x.kind
              /\ \/ d \in lost /\ x = Request(d.worker, d.kind, "gone") /\ x.caller = "gone"
                 \/ d \notin lost /\ x = d
<1> SUFFICES ASSUME NEW x \in Abandoned(lost)
             PROVE  /\ x \in Call
                    /\ \E d \in calls :
                         /\ d.worker = x.worker /\ d.kind = x.kind
                         /\ \/ d \in lost /\ x = Request(d.worker, d.kind, "gone") /\ x.caller = "gone"
                            \/ d \notin lost /\ x = d
  OBVIOUS
<1>1. CASE x \in calls \ lost
  BY <1>1
<1>2. ASSUME NEW d \in lost, x = Request(d.worker, d.kind, "gone")
      PROVE  x \in Call /\ d.worker = x.worker /\ d.kind = x.kind /\ x.caller = "gone"
  <2>1. d.worker \in Workers /\ d.kind \in {"register", "heartbeat", "deregister"}
    BY DEF Call
  <2> QED
    BY <1>2, <2>1, RequestIsCall
<1> QED
  BY <1>1, <1>2 DEF Abandoned

LEMMA CallsAreTyped ==
  ASSUME calls \in SUBSET Call
  PROVE  /\ \A w \in Workers : \A kind \in {"register", "heartbeat", "deregister"} :
              Sent(w, kind) \in SUBSET Call
         /\ \A c \in calls : calls \ {c} \in SUBSET Call
BY RequestIsCall DEF Sent

LEMMA BaseStep ==
  ASSUME Base, [Next]_vars
  PROVE  Base'
<1> USE DEF storeVars, checkVars, pruneVars, tickVars, loopVars, sysVars, vars
<1>0. /\ TypeOK /\ RegistersOnce /\ DeregistersLast /\ RetriesLeft
      /\ ListsAreOfNodes /\ UNCHANGED reliable
  BY DEF Base, Next
<1>00. \A x \in calls : x \in Call /\ x.worker \in Workers
  BY <1>0 DEF TypeOK, Call
<1>01. /\ calls \in SUBSET Call
       /\ \A w \in Workers : \A kind \in {"register", "heartbeat", "deregister"} :
            Sent(w, kind) \in SUBSET Call
       /\ \A c \in calls : calls \ {c} \in SUBSET Call
  BY <1>0, CallsAreTyped DEF TypeOK
<1>1. ASSUME NEW w \in Workers, StartWorker(w) PROVE Base'
  <2>1. TypeOK'
    BY <1>0, <1>00, <1>01, <1>1, ConstantsAssumption DEF StartWorker, Request,
       TypeOK, RetriesLeft, Stored, Alive, AgeCap
  <2>2. RegistersOnce'
    BY <1>0, <1>00, <1>1 DEF StartWorker, Sent, Request, TypeOK, RegistersOnce,
       DeregistersLast, ListsAreOfNodes, Call, Stored, Alive, AgeCap
  <2>3. DeregistersLast'
    BY <1>0, <1>00, <1>1 DEF StartWorker, Sent, Request, TypeOK,
       DeregistersLast, RegistersOnce, Call, Stored, Alive, AgeCap
  <2>4. RetriesLeft' /\ ListsAreOfNodes'
    BY <1>0, <1>00, <1>1 DEF StartWorker, Sent, Request, TypeOK, RetriesLeft,
       ListsAreOfNodes, Call, Stored, Alive, AgeCap
  <2> QED
    BY <2>1, <2>2, <2>3, <2>4 DEF Base
<1>2. ASSUME NEW w \in Workers, SendHeartbeat(w) PROVE Base'
  <2>1. TypeOK'
    BY <1>0, <1>00, <1>01, <1>2, ConstantsAssumption DEF SendHeartbeat,
       Request, Alive, TypeOK, RetriesLeft, Stored, AgeCap
  <2>2. RegistersOnce'
    BY <1>0, <1>00, <1>2 DEF SendHeartbeat, Sent, Request, Alive, TypeOK,
       RegistersOnce, DeregistersLast, ListsAreOfNodes, Call, Stored, AgeCap
  <2>3. DeregistersLast'
    BY <1>0, <1>00, <1>2 DEF SendHeartbeat, Sent, Request, Alive, TypeOK,
       DeregistersLast, RegistersOnce, Call, Stored, AgeCap
  <2>4. RetriesLeft' /\ ListsAreOfNodes'
    BY <1>0, <1>00, <1>2 DEF SendHeartbeat, Sent, Request, Alive, TypeOK,
       RetriesLeft, ListsAreOfNodes, Call, Stored, AgeCap
  <2> QED
    BY <2>1, <2>2, <2>3, <2>4 DEF Base
<1>3. ASSUME NEW w \in Workers, RetryHeartbeat(w) PROVE Base'
  <2>1. TypeOK'
    BY <1>0, <1>00, <1>01, <1>3, ConstantsAssumption DEF RetryHeartbeat,
       Request, Alive, TypeOK, RetriesLeft, Stored, AgeCap
  <2>2. RegistersOnce'
    BY <1>0, <1>00, <1>3 DEF RetryHeartbeat, Sent, Request, Alive, TypeOK,
       RegistersOnce, DeregistersLast, ListsAreOfNodes, Call, Stored, AgeCap
  <2>3. DeregistersLast'
    BY <1>0, <1>00, <1>3 DEF RetryHeartbeat, Sent, Request, Alive, TypeOK,
       DeregistersLast, RegistersOnce, Call, Stored, AgeCap
  <2>4. RetriesLeft' /\ ListsAreOfNodes'
    BY <1>0, <1>00, <1>3 DEF RetryHeartbeat, Sent, Request, Alive, TypeOK,
       RetriesLeft, ListsAreOfNodes, Call, Stored, AgeCap
  <2> QED
    BY <2>1, <2>2, <2>3, <2>4 DEF Base
<1>4. ASSUME NEW w \in Workers, HeartbeatTimesOut(w) PROVE Base'
  <2> DEFINE lost == {Request(w, "heartbeat", "waits")}
  <2>a. lost \in SUBSET calls /\ calls' = Abandoned(lost)
    BY <1>4 DEF HeartbeatTimesOut, Ends
  <2> HIDE DEF lost
  <2>0. /\ lost \in SUBSET calls /\ calls' = Abandoned(lost) /\ calls' \in SUBSET Call
        /\ \A x \in calls' : \E d \in calls :
             /\ d.worker = x.worker /\ d.kind = x.kind
             /\ \/ d \in lost /\ x = Request(d.worker, d.kind, "gone") /\ x.caller = "gone"
                \/ d \notin lost /\ x = d
    BY <1>01, <2>a, Abandons
  <2>b. \A x \in lost : x.worker = w /\ x \in Call /\ x.kind = "heartbeat"
    BY <1>01, <2>a, RequestIsCall DEF lost
  <2>c. Fail({w}) /\ UNCHANGED <<storeVars, checkVars, pruneVars, main, tickVars>>
    BY <1>4 DEF HeartbeatTimesOut
  <2>1. TypeOK'
    BY <1>0, <2>0, <2>b, <1>00, <1>01, <2>c, ConstantsAssumption DEF TypeOK,
       Fail, RetriesLeft, Stored, Alive, AgeCap
  <2>2. RegistersOnce'
    BY <1>0, <1>00, <2>0, <2>b, <2>c DEF TypeOK, Fail, RegistersOnce,
       DeregistersLast, ListsAreOfNodes, Call, Stored, Alive, AgeCap
  <2>3. DeregistersLast'
    BY <1>0, <1>00, <2>0, <2>b, <2>c DEF TypeOK, Fail, DeregistersLast,
       RegistersOnce, Call, Stored, Alive, AgeCap
  <2>4. RetriesLeft' /\ ListsAreOfNodes'
    BY <1>0, <1>00, <2>0, <2>b, <2>c DEF TypeOK, Fail, RetriesLeft,
       ListsAreOfNodes, Call, Stored, Alive, AgeCap
  <2> QED
    BY <2>1, <2>2, <2>3, <2>4 DEF Base
<1>5. ASSUME NEW w \in Workers, BeginShutdown(w) PROVE Base'
  <2>1. TypeOK'
    BY <1>0, <1>00, <1>01, <1>5, ConstantsAssumption DEF BeginShutdown, TypeOK,
       RetriesLeft, Stored, Alive, AgeCap
  <2>2. RegistersOnce'
    BY <1>0, <1>00, <1>5 DEF BeginShutdown, TypeOK, RegistersOnce,
       DeregistersLast, ListsAreOfNodes, Call, Stored, Alive, AgeCap
  <2>3. DeregistersLast'
    BY <1>0, <1>00, <1>5 DEF BeginShutdown, TypeOK, DeregistersLast,
       RegistersOnce, Call, Stored, Alive, AgeCap
  <2>4. RetriesLeft' /\ ListsAreOfNodes'
    BY <1>0, <1>00, <1>5 DEF BeginShutdown, TypeOK, RetriesLeft,
       ListsAreOfNodes, Call, Stored, Alive, AgeCap
  <2> QED
    BY <2>1, <2>2, <2>3, <2>4 DEF Base
<1>6. ASSUME NEW w \in Workers, Deregister(w) PROVE Base'
  <2>1. TypeOK'
    BY <1>0, <1>00, <1>01, <1>6, ConstantsAssumption DEF Deregister, Request,
       TypeOK, RetriesLeft, Stored, Alive, AgeCap
  <2>2. RegistersOnce'
    BY <1>0, <1>00, <1>6 DEF Deregister, Sent, Request, TypeOK, RegistersOnce,
       DeregistersLast, ListsAreOfNodes, Call, Stored, Alive, AgeCap
  <2>3. DeregistersLast'
    BY <1>0, <1>00, <1>6 DEF Deregister, Sent, Request, TypeOK,
       DeregistersLast, RegistersOnce, Call, Stored, Alive, AgeCap
  <2>4. RetriesLeft' /\ ListsAreOfNodes'
    BY <1>0, <1>00, <1>6 DEF Deregister, Sent, Request, TypeOK, RetriesLeft,
       ListsAreOfNodes, Call, Stored, Alive, AgeCap
  <2> QED
    BY <2>1, <2>2, <2>3, <2>4 DEF Base
<1>7. ASSUME NEW w \in Workers, RegisterTimesOut(w) PROVE Base'
  <2> DEFINE lost == {x \in calls : x.worker = w}
  <2>a. lost \in SUBSET calls /\ calls' = Abandoned(lost)
    BY <1>7 DEF RegisterTimesOut, Ends
  <2> HIDE DEF lost
  <2>0. /\ lost \in SUBSET calls /\ calls' = Abandoned(lost) /\ calls' \in SUBSET Call
        /\ \A x \in calls' : \E d \in calls :
             /\ d.worker = x.worker /\ d.kind = x.kind
             /\ \/ d \in lost /\ x = Request(d.worker, d.kind, "gone") /\ x.caller = "gone"
                \/ d \notin lost /\ x = d
    BY <1>01, <2>a, Abandons
  <2>b. \A x \in calls : x \in lost <=> x.worker = w
    BY <1>01, <2>a, RequestIsCall DEF lost
  <2>1. TypeOK'
    BY <1>0, <2>0, <2>b, <1>00, <1>01, <1>7, ConstantsAssumption DEF
       RegisterTimesOut, Ends, TypeOK, RetriesLeft, Stored, Alive, AgeCap
  <2>2. RegistersOnce'
    BY <1>0, <1>00, <2>0, <2>b, <1>7 DEF RegisterTimesOut, Ends, TypeOK,
       RegistersOnce, DeregistersLast, ListsAreOfNodes, Call, Stored, Alive,
       AgeCap
  <2>3. DeregistersLast'
    BY <1>0, <1>00, <2>0, <2>b, <1>7 DEF RegisterTimesOut, Ends, TypeOK,
       DeregistersLast, RegistersOnce, Call, Stored, Alive, AgeCap
  <2>4. RetriesLeft' /\ ListsAreOfNodes'
    BY <1>0, <1>00, <2>0, <2>b, <1>7 DEF RegisterTimesOut, Ends, TypeOK,
       RetriesLeft, ListsAreOfNodes, Call, Stored, Alive, AgeCap
  <2> QED
    BY <2>1, <2>2, <2>3, <2>4 DEF Base
<1>8. ASSUME NEW w \in Workers, DeregisterTimesOut(w) PROVE Base'
  <2> DEFINE lost == {Request(w, "deregister", "waits")}
  <2>a. lost \in SUBSET calls /\ calls' = Abandoned(lost)
    BY <1>8 DEF DeregisterTimesOut, Ends
  <2> HIDE DEF lost
  <2>0. /\ lost \in SUBSET calls /\ calls' = Abandoned(lost) /\ calls' \in SUBSET Call
        /\ \A x \in calls' : \E d \in calls :
             /\ d.worker = x.worker /\ d.kind = x.kind
             /\ \/ d \in lost /\ x = Request(d.worker, d.kind, "gone") /\ x.caller = "gone"
                \/ d \notin lost /\ x = d
    BY <1>01, <2>a, Abandons
  <2>b. \A x \in lost : x.worker = w /\ x \in Call /\ x.kind = "deregister"
    BY <1>01, <2>a, RequestIsCall DEF lost
  <2>c. main' = [main EXCEPT ![w] = "stopped"] /\ w \in Workers
        /\ UNCHANGED <<storeVars, checkVars, pruneVars, loopVars, tickVars>>
    BY <1>8 DEF DeregisterTimesOut
  <2>d. main[w] = "leaving"
    BY <1>0, <1>8, RequestIsCall DEF DeregisterTimesOut, DeregistersLast
  <2>e. \A x \in calls : x.worker = w /\ x.kind = "deregister" /\ x.caller = "waits" => x \in lost
    BY <1>00 DEF lost, Request, Call
  <2>1. TypeOK'
    BY <1>0, <2>0, <2>b, <1>00, <1>01, <2>c, <2>d, <2>e, ConstantsAssumption
       DEF TypeOK, RetriesLeft, Stored, Alive, AgeCap
  <2>2. RegistersOnce'
    BY <1>0, <1>00, <2>0, <2>b, <2>c, <2>d, <2>e DEF TypeOK, RegistersOnce,
       DeregistersLast, ListsAreOfNodes, Call, Stored, Alive, AgeCap
  <2>3. DeregistersLast'
    BY <1>0, <1>00, <2>0, <2>b, <2>c, <2>d, <2>e DEF TypeOK, DeregistersLast,
       RegistersOnce, Call, Stored, Alive, AgeCap
  <2>4. RetriesLeft' /\ ListsAreOfNodes'
    BY <1>0, <1>00, <2>0, <2>b, <2>c, <2>d, <2>e DEF TypeOK, RetriesLeft,
       ListsAreOfNodes, Call, Stored, Alive, AgeCap
  <2> QED
    BY <2>1, <2>2, <2>3, <2>4 DEF Base
<1>9. ASSUME NEW w \in Workers, Exit(w) PROVE Base'
  <2> DEFINE lost == {x \in calls : x.worker = w}
  <2>a. lost \in SUBSET calls /\ calls' = Abandoned(lost)
    BY <1>9 DEF Exit, Ends
  <2> HIDE DEF lost
  <2>0. /\ lost \in SUBSET calls /\ calls' = Abandoned(lost) /\ calls' \in SUBSET Call
        /\ \A x \in calls' : \E d \in calls :
             /\ d.worker = x.worker /\ d.kind = x.kind
             /\ \/ d \in lost /\ x = Request(d.worker, d.kind, "gone") /\ x.caller = "gone"
                \/ d \notin lost /\ x = d
    BY <1>01, <2>a, Abandons
  <2>b. \A x \in calls : x \in lost <=> x.worker = w
    BY <1>01, <2>a, RequestIsCall DEF lost
  <2>1. TypeOK'
    BY <1>0, <2>0, <2>b, <1>00, <1>01, <1>9, ConstantsAssumption DEF Exit,
       Ends, TypeOK, RetriesLeft, Stored, Alive, AgeCap
  <2>2. RegistersOnce'
    BY <1>0, <1>00, <2>0, <2>b, <1>9 DEF Exit, Ends, TypeOK, RegistersOnce,
       DeregistersLast, ListsAreOfNodes, Call, Stored, Alive, AgeCap
  <2>3. DeregistersLast'
    BY <1>0, <1>00, <2>0, <2>b, <1>9 DEF Exit, Ends, TypeOK, DeregistersLast,
       RegistersOnce, Call, Stored, Alive, AgeCap
  <2>4. RetriesLeft' /\ ListsAreOfNodes'
    BY <1>0, <1>00, <2>0, <2>b, <1>9 DEF Exit, Ends, TypeOK, RetriesLeft,
       ListsAreOfNodes, Call, Stored, Alive, AgeCap
  <2> QED
    BY <2>1, <2>2, <2>3, <2>4 DEF Base
<1>10. ASSUME NEW w \in Workers, Crash(w) PROVE Base'
  <2> DEFINE lost == {x \in calls : x.worker = w}
  <2>a. lost \in SUBSET calls /\ calls' = Abandoned(lost)
    BY <1>10 DEF Crash, Ends
  <2> HIDE DEF lost
  <2>0. /\ lost \in SUBSET calls /\ calls' = Abandoned(lost) /\ calls' \in SUBSET Call
        /\ \A x \in calls' : \E d \in calls :
             /\ d.worker = x.worker /\ d.kind = x.kind
             /\ \/ d \in lost /\ x = Request(d.worker, d.kind, "gone") /\ x.caller = "gone"
                \/ d \notin lost /\ x = d
    BY <1>01, <2>a, Abandons
  <2>b. \A x \in calls : x \in lost <=> x.worker = w
    BY <1>01, <2>a, RequestIsCall DEF lost
  <2>1. TypeOK'
    BY <1>0, <2>0, <2>b, <1>00, <1>01, <1>10, ConstantsAssumption DEF Crash,
       Ends, Alive, TypeOK, RetriesLeft, Stored, AgeCap
  <2>2. RegistersOnce'
    BY <1>0, <1>00, <2>0, <2>b, <1>10 DEF Crash, Ends, Alive, TypeOK,
       RegistersOnce, DeregistersLast, ListsAreOfNodes, Call, Stored, AgeCap
  <2>3. DeregistersLast'
    BY <1>0, <1>00, <2>0, <2>b, <1>10 DEF Crash, Ends, Alive, TypeOK,
       DeregistersLast, RegistersOnce, Call, Stored, AgeCap
  <2>4. RetriesLeft' /\ ListsAreOfNodes'
    BY <1>0, <1>00, <2>0, <2>b, <1>10 DEF Crash, Ends, Alive, TypeOK,
       RetriesLeft, ListsAreOfNodes, Call, Stored, AgeCap
  <2> QED
    BY <2>1, <2>2, <2>3, <2>4 DEF Base
<1>11. ASSUME NEW w \in Workers, ExpireNode(w) PROVE Base'
  <2>1. TypeOK'
    BY <1>0, <1>00, <1>01, <1>11, ConstantsAssumption DEF ExpireNode, TypeOK,
       RetriesLeft, Stored, Alive, AgeCap
  <2>2. RegistersOnce'
    BY <1>0, <1>00, <1>11 DEF ExpireNode, TypeOK, RegistersOnce,
       DeregistersLast, ListsAreOfNodes, Call, Stored, Alive, AgeCap
  <2>3. DeregistersLast'
    BY <1>0, <1>00, <1>11 DEF ExpireNode, TypeOK, DeregistersLast,
       RegistersOnce, Call, Stored, Alive, AgeCap
  <2>4. RetriesLeft' /\ ListsAreOfNodes'
    BY <1>0, <1>00, <1>11 DEF ExpireNode, TypeOK, RetriesLeft, ListsAreOfNodes,
       Call, Stored, Alive, AgeCap
  <2> QED
    BY <2>1, <2>2, <2>3, <2>4 DEF Base
<1>12. ASSUME NEW w \in Workers, DeleteNode(w) PROVE Base'
  <2>1. TypeOK'
    BY <1>0, <1>00, <1>01, <1>12, ConstantsAssumption DEF DeleteNode, TypeOK,
       RetriesLeft, Stored, Alive, AgeCap
  <2>2. RegistersOnce'
    BY <1>0, <1>00, <1>12 DEF DeleteNode, TypeOK, RegistersOnce,
       DeregistersLast, ListsAreOfNodes, Call, Stored, Alive, AgeCap
  <2>3. DeregistersLast'
    BY <1>0, <1>00, <1>12 DEF DeleteNode, TypeOK, DeregistersLast,
       RegistersOnce, Call, Stored, Alive, AgeCap
  <2>4. RetriesLeft' /\ ListsAreOfNodes'
    BY <1>0, <1>00, <1>12 DEF DeleteNode, TypeOK, RetriesLeft, ListsAreOfNodes,
       Call, Stored, Alive, AgeCap
  <2> QED
    BY <2>1, <2>2, <2>3, <2>4 DEF Base
<1>13. ASSUME NEW c \in calls, RegisterNode(c) PROVE Base'
  <2>1. TypeOK'
    BY <1>0, <1>00, <1>01, <1>13, ConstantsAssumption DEF RegisterNode, TypeOK,
       RetriesLeft, Stored, Alive, AgeCap
  <2>2. RegistersOnce'
    BY <1>0, <1>00, <1>13 DEF RegisterNode, TypeOK, RegistersOnce,
       DeregistersLast, ListsAreOfNodes, Call, Stored, Alive, AgeCap
  <2>3. DeregistersLast'
    BY <1>0, <1>00, <1>13 DEF RegisterNode, TypeOK, DeregistersLast,
       RegistersOnce, Call, Stored, Alive, AgeCap
  <2>4. RetriesLeft' /\ ListsAreOfNodes'
    BY <1>0, <1>00, <1>13 DEF RegisterNode, TypeOK, RetriesLeft,
       ListsAreOfNodes, Call, Stored, Alive, AgeCap
  <2> QED
    BY <2>1, <2>2, <2>3, <2>4 DEF Base
<1>14. ASSUME NEW c \in calls, NodeHeartbeat(c) PROVE Base'
  <2>1. TypeOK'
    BY <1>0, <1>00, <1>01, <1>14, ConstantsAssumption DEF NodeHeartbeat,
       Answer, Succeed, Fail, TypeOK, RetriesLeft, Stored, Alive, AgeCap
  <2>2. RegistersOnce'
    BY <1>0, <1>00, <1>14 DEF NodeHeartbeat, Answer, Succeed, Fail, TypeOK,
       RegistersOnce, DeregistersLast, ListsAreOfNodes, Call, Stored, Alive,
       AgeCap
  <2>3. DeregistersLast'
    BY <1>0, <1>00, <1>14 DEF NodeHeartbeat, Answer, Succeed, Fail, TypeOK,
       DeregistersLast, RegistersOnce, Call, Stored, Alive, AgeCap
  <2>4. RetriesLeft' /\ ListsAreOfNodes'
    BY <1>0, <1>00, <1>14 DEF NodeHeartbeat, Answer, Succeed, Fail, TypeOK,
       RetriesLeft, ListsAreOfNodes, Call, Stored, Alive, AgeCap
  <2> QED
    BY <2>1, <2>2, <2>3, <2>4 DEF Base
<1>15. ASSUME NEW c \in calls, NodeDeregister(c) PROVE Base'
  <2>1. TypeOK'
    BY <1>0, <1>00, <1>01, <1>15, ConstantsAssumption DEF NodeDeregister,
       TypeOK, RetriesLeft, Stored, Alive, AgeCap
  <2>2. RegistersOnce'
    BY <1>0, <1>00, <1>15 DEF NodeDeregister, TypeOK, RegistersOnce,
       DeregistersLast, ListsAreOfNodes, Call, Stored, Alive, AgeCap
  <2>3. DeregistersLast'
    BY <1>0, <1>00, <1>15 DEF NodeDeregister, TypeOK, DeregistersLast,
       RegistersOnce, Call, Stored, Alive, AgeCap
  <2>4. RetriesLeft' /\ ListsAreOfNodes'
    BY <1>0, <1>00, <1>15 DEF NodeDeregister, TypeOK, RetriesLeft,
       ListsAreOfNodes, Call, Stored, Alive, AgeCap
  <2> QED
    BY <2>1, <2>2, <2>3, <2>4 DEF Base
<1>16. ASSUME NEW c \in calls, LoseCall(c) PROVE Base'
  <2>1. TypeOK'
    BY <1>0, <1>00, <1>01, <1>16, ConstantsAssumption DEF LoseCall, TypeOK,
       RetriesLeft, Stored, Alive, AgeCap
  <2>2. RegistersOnce'
    BY <1>0, <1>00, <1>16 DEF LoseCall, TypeOK, RegistersOnce, DeregistersLast,
       ListsAreOfNodes, Call, Stored, Alive, AgeCap
  <2>3. DeregistersLast'
    BY <1>0, <1>00, <1>16 DEF LoseCall, TypeOK, DeregistersLast, RegistersOnce,
       Call, Stored, Alive, AgeCap
  <2>4. RetriesLeft' /\ ListsAreOfNodes'
    BY <1>0, <1>00, <1>16 DEF LoseCall, TypeOK, RetriesLeft, ListsAreOfNodes,
       Call, Stored, Alive, AgeCap
  <2> QED
    BY <2>1, <2>2, <2>3, <2>4 DEF Base
<1>17. CASE CheckNodes
  <2>1. TypeOK'
    BY <1>0, <1>00, <1>01, <1>17, ConstantsAssumption DEF CheckNodes, Expired,
       TypeOK, RetriesLeft, Stored, Alive, AgeCap
  <2>2. RegistersOnce'
    BY <1>0, <1>00, <1>17 DEF CheckNodes, Expired, TypeOK, RegistersOnce,
       DeregistersLast, ListsAreOfNodes, Call, Stored, Alive, AgeCap
  <2>3. DeregistersLast'
    BY <1>0, <1>00, <1>17 DEF CheckNodes, Expired, TypeOK, DeregistersLast,
       RegistersOnce, Call, Stored, Alive, AgeCap
  <2>4. RetriesLeft' /\ ListsAreOfNodes'
    BY <1>0, <1>00, <1>17 DEF CheckNodes, Expired, TypeOK, RetriesLeft,
       ListsAreOfNodes, Call, Stored, Alive, AgeCap
  <2> QED
    BY <2>1, <2>2, <2>3, <2>4 DEF Base
<1>18. ASSUME NEW all \in BOOLEAN, PruneNodes(all) PROVE Base'
  <2>1. TypeOK'
    BY <1>0, <1>00, <1>01, <1>18, ConstantsAssumption DEF PruneNodes, TypeOK,
       RetriesLeft, Stored, Alive, AgeCap
  <2>2. RegistersOnce'
    BY <1>0, <1>00, <1>18 DEF PruneNodes, TypeOK, RegistersOnce,
       DeregistersLast, ListsAreOfNodes, Call, Stored, Alive, AgeCap
  <2>3. DeregistersLast'
    BY <1>0, <1>00, <1>18 DEF PruneNodes, TypeOK, DeregistersLast,
       RegistersOnce, Call, Stored, Alive, AgeCap
  <2>4. RetriesLeft' /\ ListsAreOfNodes'
    BY <1>0, <1>00, <1>18 DEF PruneNodes, TypeOK, RetriesLeft, ListsAreOfNodes,
       Call, Stored, Alive, AgeCap
  <2> QED
    BY <2>1, <2>2, <2>3, <2>4 DEF Base
<1>19. CASE MasterRestarts
  <2>1. TypeOK'
    <3>1. node' \in [Workers -> {"absent", "deleted"} \cup Stored] /\ age' \in [Workers -> 0..AgeCap]
      BY <1>0, <1>19, ConstantsAssumption DEF MasterRestarts, TypeOK, AgeCap
    <3>2. main' \in [Workers -> {"off", "down"} \cup Alive]
      BY <1>0, <1>19 DEF MasterRestarts, TypeOK, Alive
    <3>3. beat' \in [Workers -> {"idle", "sent", "backoff"}] /\ tries' \in [Workers -> 0..MaxRetries]
      BY <1>0, <1>19, ConstantsAssumption DEF MasterRestarts, Fail, TypeOK
    <3>4. checkTimer' \in 0..(CheckInterval - 1) /\ checkDue' \in BOOLEAN /\ pruneAll' \in BOOLEAN
      <4>1. 0 \in 0..(CheckInterval - 1)
        BY ConstantsAssumption
      <4> QED
        BY <1>19, <4>1 DEF MasterRestarts
    <3> QED
      BY <1>0, <1>19, <3>1, <3>2, <3>3, <3>4 DEF MasterRestarts, TypeOK
  <2>2. RegistersOnce'
    BY <1>0, <1>00, <1>19 DEF MasterRestarts, Fail, TypeOK, RegistersOnce,
       DeregistersLast, ListsAreOfNodes, Call, Stored, Alive, AgeCap
  <2>3. DeregistersLast'
    BY <1>0, <1>00, <1>19 DEF MasterRestarts, Fail, TypeOK, DeregistersLast,
       RegistersOnce, Call, Stored, Alive, AgeCap
  <2>4. RetriesLeft' /\ ListsAreOfNodes'
    BY <1>0, <1>00, <1>19 DEF MasterRestarts, Fail, TypeOK, RetriesLeft,
       ListsAreOfNodes, Call, Stored, Alive, AgeCap
  <2> QED
    BY <2>1, <2>2, <2>3, <2>4 DEF Base
<1>20. CASE Tick
  <2>1. TypeOK'
    BY <1>0, <1>00, <1>01, <1>20, ConstantsAssumption DEF Tick, Punctual,
       After, Fires, TypeOK, RetriesLeft, Stored, Alive, AgeCap
  <2>2. RegistersOnce'
    BY <1>0, <1>00, <1>20 DEF Tick, Punctual, After, Fires, TypeOK,
       RegistersOnce, DeregistersLast, ListsAreOfNodes, Call, Stored, Alive,
       AgeCap
  <2>3. DeregistersLast'
    BY <1>0, <1>00, <1>20 DEF Tick, Punctual, After, Fires, TypeOK,
       DeregistersLast, RegistersOnce, Call, Stored, Alive, AgeCap
  <2>4. RetriesLeft' /\ ListsAreOfNodes'
    BY <1>0, <1>00, <1>20 DEF Tick, Punctual, After, Fires, TypeOK,
       RetriesLeft, ListsAreOfNodes, Call, Stored, Alive, AgeCap
  <2> QED
    BY <2>1, <2>2, <2>3, <2>4 DEF Base
<1>21. CASE UNCHANGED vars
  BY <1>0, <1>21 DEF Base, TypeOK, RegistersOnce, DeregistersLast, RetriesLeft,
     ListsAreOfNodes
<1> QED
  BY <1>1, <1>2, <1>3, <1>4, <1>5, <1>6, <1>7, <1>8, <1>9, <1>10, <1>11, <1>12,
     <1>13, <1>14, <1>15, <1>16, <1>17, <1>18, <1>19, <1>20, <1>21 DEF Next,
     Step, Handle

(* Every variable keeps its type: attempts, ages and timers stay within    *)
(* their bounds.                                                           *)
THEOREM NodeTypeCorrect == Spec => []TypeOK
<1>1. Base /\ [Next]_vars => Base'
  BY BaseStep
<1>2. Base => TypeOK
  BY DEF Base
<1> QED
  BY <1>1, <1>2, BaseInit, PTL DEF Spec

(* A registration that is handled finds no node: the process is new.       *)
THEOREM PrunedNodesStayAway == Spec => PrunedNodeStaysAway
<1>1. ASSUME Base, [Next]_vars, NEW x \in Workers, node[x] = "deleted"
      PROVE  node'[x] = "deleted"
  <2> USE DEF storeVars, checkVars, pruneVars, tickVars, loopVars, sysVars, vars
  <2>0. TypeOK /\ RegistersOnce
    BY <1>1 DEF Base
  <2>1. ASSUME NEW w \in Workers,
               \/ StartWorker(w) \/ SendHeartbeat(w) \/ RetryHeartbeat(w)
               \/ HeartbeatTimesOut(w) \/ BeginShutdown(w) \/ Deregister(w)
               \/ RegisterTimesOut(w) \/ DeregisterTimesOut(w) \/ Exit(w) \/ Crash(w)
        PROVE  node' = node
    BY <2>1 DEF StartWorker, SendHeartbeat, RetryHeartbeat, HeartbeatTimesOut,
       BeginShutdown, Deregister, RegisterTimesOut, DeregisterTimesOut, Exit, Crash
  <2>2. ASSUME NEW w \in Workers, ExpireNode(w) \/ DeleteNode(w)
        PROVE  node'[x] = "deleted"
    BY <1>1, <2>0, <2>2 DEF ExpireNode, DeleteNode, TypeOK, Stored
  <2>3. ASSUME NEW c \in calls, Handle(c) \/ LoseCall(c)
        PROVE  node'[x] = "deleted"
    BY <1>1, <2>0, <2>3 DEF Handle, RegisterNode, NodeHeartbeat, NodeDeregister,
       LoseCall, TypeOK, Stored, RegistersOnce
  <2>4. ASSUME CheckNodes \/ Tick \/ (\E all \in BOOLEAN : PruneNodes(all)) \/ UNCHANGED vars
        PROVE  node' = node
    BY <2>4 DEF CheckNodes, Tick, PruneNodes
  <2>5. CASE MasterRestarts
    BY <1>1, <2>0, <2>5 DEF MasterRestarts, TypeOK, Stored
  <2> QED
    BY <1>1, <2>1, <2>2, <2>3, <2>4, <2>5 DEF Next, Step
<1>2. Base /\ [Next]_vars =>
        [\A w \in Workers : node[w] = "deleted" => node'[w] = "deleted"]_vars
  BY <1>1
<1>3. Base /\ [Next]_vars => Base'
  BY BaseStep
<1> QED
  BY <1>2, <1>3, BaseInit, PTL DEF Spec, PrunedNodeStaysAway

-----------------------------------------------------------------------------
(* Time. *)

LEMMA InvInit == Init => Inv
BY BaseInit DEF Init, Inv, ChecksInTime, BeatsInTime, ListsSpareLiveWorkers,
   LiveWorkerIsOnline

LEMMA InvStep ==
  ASSUME ~(Restarts /\ Persistent), Inv, [Next]_vars
  PROVE  Inv'
<1> USE DEF storeVars, checkVars, pruneVars, tickVars, loopVars, sysVars, vars
<1>0. /\ Base /\ Base' /\ TypeOK /\ TypeOK' /\ RegistersOnce /\ RegistersOnce'
      /\ DeregistersLast /\ ListsAreOfNodes /\ ChecksInTime /\ BeatsInTime
      /\ ListsSpareLiveWorkers /\ LiveWorkerIsOnline /\ UNCHANGED reliable
  BY BaseStep DEF Inv, Base, Next
<1>00. \A x \in calls : x \in Call /\ x.worker \in Workers
  BY <1>0 DEF TypeOK, Call
<1>1. ASSUME NEW w \in Workers, StartWorker(w) PROVE Inv'
  <2>1. ChecksInTime'
    BY <1>0, <1>00, <1>1, ConstantsAssumption DEF StartWorker, Sent, Request,
       ChecksInTime, TypeOK, Call, Stored, Alive, AgeCap
  <2>2. BeatsInTime'
    BY <1>0, <1>00, <1>1, ConstantsAssumption DEF StartWorker, Sent, Request,
       BeatsInTime, Settled, RegistersOnce, TypeOK, Call, Stored, Alive, AgeCap
  <2>3. ListsSpareLiveWorkers'
    BY <1>0, <1>00, <1>1, ConstantsAssumption DEF StartWorker, Sent, Request,
       ListsSpareLiveWorkers, BeatsInTime, LiveWorkerIsOnline, RegistersOnce,
       ListsAreOfNodes, TypeOK, Call, Stored, Alive, AgeCap
  <2>4. LiveWorkerIsOnline'
    BY <1>0, <1>00, <1>1 DEF StartWorker, Sent, Request, LiveWorkerIsOnline,
       ListsSpareLiveWorkers, DeregistersLast, RegistersOnce, TypeOK, Call,
       Stored, Alive, AgeCap
  <2> QED
    BY <1>0, <2>1, <2>2, <2>3, <2>4 DEF Inv
<1>2. ASSUME NEW w \in Workers, SendHeartbeat(w) PROVE Inv'
  <2>1. ChecksInTime'
    BY <1>0, <1>00, <1>2, ConstantsAssumption DEF SendHeartbeat, Sent, Request,
       Alive, ChecksInTime, TypeOK, Call, Stored, AgeCap
  <2>2. BeatsInTime'
    BY <1>0, <1>00, <1>2, ConstantsAssumption DEF SendHeartbeat, Sent, Request,
       Alive, BeatsInTime, Settled, RegistersOnce, TypeOK, Call, Stored, AgeCap
  <2>3. ListsSpareLiveWorkers'
    BY <1>0, <1>00, <1>2, ConstantsAssumption DEF SendHeartbeat, Sent, Request,
       Alive, ListsSpareLiveWorkers, BeatsInTime, LiveWorkerIsOnline,
       RegistersOnce, ListsAreOfNodes, TypeOK, Call, Stored, AgeCap
  <2>4. LiveWorkerIsOnline'
    BY <1>0, <1>00, <1>2 DEF SendHeartbeat, Sent, Request, Alive,
       LiveWorkerIsOnline, ListsSpareLiveWorkers, DeregistersLast,
       RegistersOnce, TypeOK, Call, Stored, AgeCap
  <2> QED
    BY <1>0, <2>1, <2>2, <2>3, <2>4 DEF Inv
<1>3. ASSUME NEW w \in Workers, RetryHeartbeat(w) PROVE Inv'
  <2>1. ChecksInTime'
    BY <1>0, <1>00, <1>3, ConstantsAssumption DEF RetryHeartbeat, Sent,
       Request, Alive, ChecksInTime, TypeOK, Call, Stored, AgeCap
  <2>2. BeatsInTime'
    BY <1>0, <1>00, <1>3, ConstantsAssumption DEF RetryHeartbeat, Sent,
       Request, Alive, BeatsInTime, Settled, RegistersOnce, TypeOK, Call,
       Stored, AgeCap
  <2>3. ListsSpareLiveWorkers'
    BY <1>0, <1>00, <1>3, ConstantsAssumption DEF RetryHeartbeat, Sent,
       Request, Alive, ListsSpareLiveWorkers, BeatsInTime, LiveWorkerIsOnline,
       RegistersOnce, ListsAreOfNodes, TypeOK, Call, Stored, AgeCap
  <2>4. LiveWorkerIsOnline'
    BY <1>0, <1>00, <1>3 DEF RetryHeartbeat, Sent, Request, Alive,
       LiveWorkerIsOnline, ListsSpareLiveWorkers, DeregistersLast,
       RegistersOnce, TypeOK, Call, Stored, AgeCap
  <2> QED
    BY <1>0, <2>1, <2>2, <2>3, <2>4 DEF Inv
<1>4. ASSUME NEW w \in Workers, HeartbeatTimesOut(w) PROVE Inv'
  <2>1. ChecksInTime'
    BY <1>0, <1>00, <1>4, ConstantsAssumption DEF HeartbeatTimesOut, Abandoned,
       Request, Fail, ChecksInTime, TypeOK, Call, Stored, Alive, AgeCap
  <2>2. BeatsInTime'
    BY <1>0, <1>00, <1>4, ConstantsAssumption DEF HeartbeatTimesOut, Abandoned,
       Request, Fail, BeatsInTime, Settled, RegistersOnce, TypeOK, Call,
       Stored, Alive, AgeCap
  <2>3. ListsSpareLiveWorkers'
    BY <1>0, <1>00, <1>4, ConstantsAssumption DEF HeartbeatTimesOut, Abandoned,
       Request, Fail, ListsSpareLiveWorkers, BeatsInTime, LiveWorkerIsOnline,
       RegistersOnce, ListsAreOfNodes, TypeOK, Call, Stored, Alive, AgeCap
  <2>4. LiveWorkerIsOnline'
    BY <1>0, <1>00, <1>4 DEF HeartbeatTimesOut, Abandoned, Request, Fail,
       LiveWorkerIsOnline, ListsSpareLiveWorkers, DeregistersLast,
       RegistersOnce, TypeOK, Call, Stored, Alive, AgeCap
  <2> QED
    BY <1>0, <2>1, <2>2, <2>3, <2>4 DEF Inv
<1>5. ASSUME NEW w \in Workers, BeginShutdown(w) PROVE Inv'
  <2>1. ChecksInTime'
    BY <1>0, <1>00, <1>5, ConstantsAssumption DEF BeginShutdown, ChecksInTime,
       TypeOK, Call, Stored, Alive, AgeCap
  <2>2. BeatsInTime'
    BY <1>0, <1>00, <1>5, ConstantsAssumption DEF BeginShutdown, BeatsInTime,
       Settled, RegistersOnce, TypeOK, Call, Stored, Alive, AgeCap
  <2>3. ListsSpareLiveWorkers'
    BY <1>0, <1>00, <1>5, ConstantsAssumption DEF BeginShutdown,
       ListsSpareLiveWorkers, BeatsInTime, LiveWorkerIsOnline, RegistersOnce,
       ListsAreOfNodes, TypeOK, Call, Stored, Alive, AgeCap
  <2>4. LiveWorkerIsOnline'
    BY <1>0, <1>00, <1>5 DEF BeginShutdown, LiveWorkerIsOnline,
       ListsSpareLiveWorkers, DeregistersLast, RegistersOnce, TypeOK, Call,
       Stored, Alive, AgeCap
  <2> QED
    BY <1>0, <2>1, <2>2, <2>3, <2>4 DEF Inv
<1>6. ASSUME NEW w \in Workers, Deregister(w) PROVE Inv'
  <2>1. ChecksInTime'
    BY <1>0, <1>00, <1>6, ConstantsAssumption DEF Deregister, Sent, Request,
       ChecksInTime, TypeOK, Call, Stored, Alive, AgeCap
  <2>2. BeatsInTime'
    BY <1>0, <1>00, <1>6, ConstantsAssumption DEF Deregister, Sent, Request,
       BeatsInTime, Settled, RegistersOnce, TypeOK, Call, Stored, Alive, AgeCap
  <2>3. ListsSpareLiveWorkers'
    BY <1>0, <1>00, <1>6, ConstantsAssumption DEF Deregister, Sent, Request,
       ListsSpareLiveWorkers, BeatsInTime, LiveWorkerIsOnline, RegistersOnce,
       ListsAreOfNodes, TypeOK, Call, Stored, Alive, AgeCap
  <2>4. LiveWorkerIsOnline'
    BY <1>0, <1>00, <1>6 DEF Deregister, Sent, Request, LiveWorkerIsOnline,
       ListsSpareLiveWorkers, DeregistersLast, RegistersOnce, TypeOK, Call,
       Stored, Alive, AgeCap
  <2> QED
    BY <1>0, <2>1, <2>2, <2>3, <2>4 DEF Inv
<1>7. ASSUME NEW w \in Workers, RegisterTimesOut(w) PROVE Inv'
  <2>1. ChecksInTime'
    BY <1>0, <1>00, <1>7, ConstantsAssumption DEF RegisterTimesOut, Ends,
       Abandoned, ChecksInTime, TypeOK, Call, Stored, Alive, AgeCap
  <2>2. BeatsInTime'
    BY <1>0, <1>00, <1>7, ConstantsAssumption DEF RegisterTimesOut, Ends,
       Abandoned, BeatsInTime, Settled, RegistersOnce, TypeOK, Call, Stored,
       Alive, AgeCap
  <2>3. ListsSpareLiveWorkers'
    BY <1>0, <1>00, <1>7, ConstantsAssumption DEF RegisterTimesOut, Ends,
       Abandoned, ListsSpareLiveWorkers, BeatsInTime, LiveWorkerIsOnline,
       RegistersOnce, ListsAreOfNodes, TypeOK, Call, Stored, Alive, AgeCap
  <2>4. LiveWorkerIsOnline'
    BY <1>0, <1>00, <1>7 DEF RegisterTimesOut, Ends, Abandoned,
       LiveWorkerIsOnline, ListsSpareLiveWorkers, DeregistersLast,
       RegistersOnce, TypeOK, Call, Stored, Alive, AgeCap
  <2> QED
    BY <1>0, <2>1, <2>2, <2>3, <2>4 DEF Inv
<1>8. ASSUME NEW w \in Workers, DeregisterTimesOut(w) PROVE Inv'
  <2>1. ChecksInTime'
    BY <1>0, <1>00, <1>8, ConstantsAssumption DEF DeregisterTimesOut,
       Abandoned, Request, ChecksInTime, TypeOK, Call, Stored, Alive, AgeCap
  <2>2. BeatsInTime'
    BY <1>0, <1>00, <1>8, ConstantsAssumption DEF DeregisterTimesOut,
       Abandoned, Request, BeatsInTime, Settled, RegistersOnce, TypeOK, Call,
       Stored, Alive, AgeCap
  <2>3. ListsSpareLiveWorkers'
    BY <1>0, <1>00, <1>8, ConstantsAssumption DEF DeregisterTimesOut,
       Abandoned, Request, ListsSpareLiveWorkers, BeatsInTime,
       LiveWorkerIsOnline, RegistersOnce, ListsAreOfNodes, TypeOK, Call,
       Stored, Alive, AgeCap
  <2>4. LiveWorkerIsOnline'
    BY <1>0, <1>00, <1>8 DEF DeregisterTimesOut, Abandoned, Request,
       LiveWorkerIsOnline, ListsSpareLiveWorkers, DeregistersLast,
       RegistersOnce, TypeOK, Call, Stored, Alive, AgeCap
  <2> QED
    BY <1>0, <2>1, <2>2, <2>3, <2>4 DEF Inv
<1>9. ASSUME NEW w \in Workers, Exit(w) PROVE Inv'
  <2>1. ChecksInTime'
    BY <1>0, <1>00, <1>9, ConstantsAssumption DEF Exit, Ends, Abandoned,
       ChecksInTime, TypeOK, Call, Stored, Alive, AgeCap
  <2>2. BeatsInTime'
    BY <1>0, <1>00, <1>9, ConstantsAssumption DEF Exit, Ends, Abandoned,
       BeatsInTime, Settled, RegistersOnce, TypeOK, Call, Stored, Alive, AgeCap
  <2>3. ListsSpareLiveWorkers'
    BY <1>0, <1>00, <1>9, ConstantsAssumption DEF Exit, Ends, Abandoned,
       ListsSpareLiveWorkers, BeatsInTime, LiveWorkerIsOnline, RegistersOnce,
       ListsAreOfNodes, TypeOK, Call, Stored, Alive, AgeCap
  <2>4. LiveWorkerIsOnline'
    BY <1>0, <1>00, <1>9 DEF Exit, Ends, Abandoned, LiveWorkerIsOnline,
       ListsSpareLiveWorkers, DeregistersLast, RegistersOnce, TypeOK, Call,
       Stored, Alive, AgeCap
  <2> QED
    BY <1>0, <2>1, <2>2, <2>3, <2>4 DEF Inv
<1>10. ASSUME NEW w \in Workers, Crash(w) PROVE Inv'
  <2>1. ChecksInTime'
    BY <1>0, <1>00, <1>10, ConstantsAssumption DEF Crash, Ends, Abandoned,
       Alive, ChecksInTime, TypeOK, Call, Stored, AgeCap
  <2>2. BeatsInTime'
    BY <1>0, <1>00, <1>10, ConstantsAssumption DEF Crash, Ends, Abandoned,
       Alive, BeatsInTime, Settled, RegistersOnce, TypeOK, Call, Stored, AgeCap
  <2>3. ListsSpareLiveWorkers'
    BY <1>0, <1>00, <1>10, ConstantsAssumption DEF Crash, Ends, Abandoned,
       Alive, ListsSpareLiveWorkers, BeatsInTime, LiveWorkerIsOnline,
       RegistersOnce, ListsAreOfNodes, TypeOK, Call, Stored, AgeCap
  <2>4. LiveWorkerIsOnline'
    BY <1>0, <1>00, <1>10 DEF Crash, Ends, Abandoned, Alive,
       LiveWorkerIsOnline, ListsSpareLiveWorkers, DeregistersLast,
       RegistersOnce, TypeOK, Call, Stored, AgeCap
  <2> QED
    BY <1>0, <2>1, <2>2, <2>3, <2>4 DEF Inv
<1>11. ASSUME NEW w \in Workers, ExpireNode(w) PROVE Inv'
  <2>1. ChecksInTime'
    BY <1>0, <1>00, <1>11, ConstantsAssumption DEF ExpireNode, ChecksInTime,
       TypeOK, Call, Stored, Alive, AgeCap
  <2>2. BeatsInTime'
    BY <1>0, <1>00, <1>11, ConstantsAssumption DEF ExpireNode, BeatsInTime,
       Settled, RegistersOnce, TypeOK, Call, Stored, Alive, AgeCap
  <2>3. ListsSpareLiveWorkers'
    BY <1>0, <1>00, <1>11, ConstantsAssumption DEF ExpireNode,
       ListsSpareLiveWorkers, BeatsInTime, LiveWorkerIsOnline, RegistersOnce,
       ListsAreOfNodes, TypeOK, Call, Stored, Alive, AgeCap
  <2>4. LiveWorkerIsOnline'
    BY <1>0, <1>00, <1>11 DEF ExpireNode, LiveWorkerIsOnline,
       ListsSpareLiveWorkers, DeregistersLast, RegistersOnce, TypeOK, Call,
       Stored, Alive, AgeCap
  <2> QED
    BY <1>0, <2>1, <2>2, <2>3, <2>4 DEF Inv
<1>12. ASSUME NEW w \in Workers, DeleteNode(w) PROVE Inv'
  <2>1. ChecksInTime'
    BY <1>0, <1>00, <1>12, ConstantsAssumption DEF DeleteNode, ChecksInTime,
       TypeOK, Call, Stored, Alive, AgeCap
  <2>2. BeatsInTime'
    BY <1>0, <1>00, <1>12, ConstantsAssumption DEF DeleteNode, BeatsInTime,
       Settled, RegistersOnce, TypeOK, Call, Stored, Alive, AgeCap
  <2>3. ListsSpareLiveWorkers'
    BY <1>0, <1>00, <1>12, ConstantsAssumption DEF DeleteNode,
       ListsSpareLiveWorkers, BeatsInTime, LiveWorkerIsOnline, RegistersOnce,
       ListsAreOfNodes, TypeOK, Call, Stored, Alive, AgeCap
  <2>4. LiveWorkerIsOnline'
    BY <1>0, <1>00, <1>12 DEF DeleteNode, LiveWorkerIsOnline,
       ListsSpareLiveWorkers, DeregistersLast, RegistersOnce, TypeOK, Call,
       Stored, Alive, AgeCap
  <2> QED
    BY <1>0, <2>1, <2>2, <2>3, <2>4 DEF Inv
<1>13. ASSUME NEW c \in calls, RegisterNode(c) PROVE Inv'
  <2>1. ChecksInTime'
    BY <1>0, <1>00, <1>13, ConstantsAssumption DEF RegisterNode, ChecksInTime,
       TypeOK, Call, Stored, Alive, AgeCap
  <2>2. BeatsInTime'
    BY <1>0, <1>00, <1>13, ConstantsAssumption DEF RegisterNode, BeatsInTime,
       Settled, RegistersOnce, TypeOK, Call, Stored, Alive, AgeCap
  <2>3. ListsSpareLiveWorkers'
    BY <1>0, <1>00, <1>13, ConstantsAssumption DEF RegisterNode,
       ListsSpareLiveWorkers, BeatsInTime, LiveWorkerIsOnline, RegistersOnce,
       ListsAreOfNodes, TypeOK, Call, Stored, Alive, AgeCap
  <2>4. LiveWorkerIsOnline'
    BY <1>0, <1>00, <1>13 DEF RegisterNode, LiveWorkerIsOnline,
       ListsSpareLiveWorkers, DeregistersLast, RegistersOnce, TypeOK, Call,
       Stored, Alive, AgeCap
  <2> QED
    BY <1>0, <2>1, <2>2, <2>3, <2>4 DEF Inv
<1>14. ASSUME NEW c \in calls, NodeHeartbeat(c) PROVE Inv'
  <2>1. ChecksInTime'
    BY <1>0, <1>00, <1>14, ConstantsAssumption DEF NodeHeartbeat, Answer,
       Succeed, Fail, ChecksInTime, TypeOK, Call, Stored, Alive, AgeCap
  <2>2. BeatsInTime'
    BY <1>0, <1>00, <1>14, ConstantsAssumption DEF NodeHeartbeat, Answer,
       Succeed, Fail, BeatsInTime, Settled, RegistersOnce, TypeOK, Call,
       Stored, Alive, AgeCap
  <2>3. ListsSpareLiveWorkers'
    BY <1>0, <1>00, <1>14, ConstantsAssumption DEF NodeHeartbeat, Answer,
       Succeed, Fail, ListsSpareLiveWorkers, BeatsInTime, LiveWorkerIsOnline,
       RegistersOnce, ListsAreOfNodes, TypeOK, Call, Stored, Alive, AgeCap
  <2>4. LiveWorkerIsOnline'
    BY <1>0, <1>00, <1>14 DEF NodeHeartbeat, Answer, Succeed, Fail,
       LiveWorkerIsOnline, ListsSpareLiveWorkers, DeregistersLast,
       RegistersOnce, TypeOK, Call, Stored, Alive, AgeCap
  <2> QED
    BY <1>0, <2>1, <2>2, <2>3, <2>4 DEF Inv
<1>15. ASSUME NEW c \in calls, NodeDeregister(c) PROVE Inv'
  <2>1. ChecksInTime'
    BY <1>0, <1>00, <1>15, ConstantsAssumption DEF NodeDeregister,
       ChecksInTime, TypeOK, Call, Stored, Alive, AgeCap
  <2>2. BeatsInTime'
    BY <1>0, <1>00, <1>15, ConstantsAssumption DEF NodeDeregister, BeatsInTime,
       Settled, RegistersOnce, TypeOK, Call, Stored, Alive, AgeCap
  <2>3. ListsSpareLiveWorkers'
    BY <1>0, <1>00, <1>15, ConstantsAssumption DEF NodeDeregister,
       ListsSpareLiveWorkers, BeatsInTime, LiveWorkerIsOnline, RegistersOnce,
       ListsAreOfNodes, TypeOK, Call, Stored, Alive, AgeCap
  <2>4. LiveWorkerIsOnline'
    BY <1>0, <1>00, <1>15 DEF NodeDeregister, LiveWorkerIsOnline,
       ListsSpareLiveWorkers, DeregistersLast, RegistersOnce, TypeOK, Call,
       Stored, Alive, AgeCap
  <2> QED
    BY <1>0, <2>1, <2>2, <2>3, <2>4 DEF Inv
<1>16. ASSUME NEW c \in calls, LoseCall(c) PROVE Inv'
  <2>1. ChecksInTime'
    BY <1>0, <1>00, <1>16, ConstantsAssumption DEF LoseCall, ChecksInTime,
       TypeOK, Call, Stored, Alive, AgeCap
  <2>2. BeatsInTime'
    BY <1>0, <1>00, <1>16, ConstantsAssumption DEF LoseCall, BeatsInTime,
       Settled, RegistersOnce, TypeOK, Call, Stored, Alive, AgeCap
  <2>3. ListsSpareLiveWorkers'
    BY <1>0, <1>00, <1>16, ConstantsAssumption DEF LoseCall,
       ListsSpareLiveWorkers, BeatsInTime, LiveWorkerIsOnline, RegistersOnce,
       ListsAreOfNodes, TypeOK, Call, Stored, Alive, AgeCap
  <2>4. LiveWorkerIsOnline'
    BY <1>0, <1>00, <1>16 DEF LoseCall, LiveWorkerIsOnline,
       ListsSpareLiveWorkers, DeregistersLast, RegistersOnce, TypeOK, Call,
       Stored, Alive, AgeCap
  <2> QED
    BY <1>0, <2>1, <2>2, <2>3, <2>4 DEF Inv
<1>17. CASE CheckNodes
  <2>1. ChecksInTime'
    BY <1>0, <1>00, <1>17, ConstantsAssumption DEF CheckNodes, Expired,
       ChecksInTime, TypeOK, Call, Stored, Alive, AgeCap
  <2>2. BeatsInTime'
    BY <1>0, <1>00, <1>17, ConstantsAssumption DEF CheckNodes, Expired,
       BeatsInTime, Settled, RegistersOnce, TypeOK, Call, Stored, Alive, AgeCap
  <2>3. ListsSpareLiveWorkers'
    BY <1>0, <1>00, <1>17, ConstantsAssumption DEF CheckNodes, Expired,
       ListsSpareLiveWorkers, BeatsInTime, LiveWorkerIsOnline, RegistersOnce,
       ListsAreOfNodes, TypeOK, Call, Stored, Alive, AgeCap
  <2>4. LiveWorkerIsOnline'
    BY <1>0, <1>00, <1>17 DEF CheckNodes, Expired, LiveWorkerIsOnline,
       ListsSpareLiveWorkers, DeregistersLast, RegistersOnce, TypeOK, Call,
       Stored, Alive, AgeCap
  <2> QED
    BY <1>0, <2>1, <2>2, <2>3, <2>4 DEF Inv
<1>18. ASSUME NEW all \in BOOLEAN, PruneNodes(all) PROVE Inv'
  <2>1. ChecksInTime'
    BY <1>0, <1>00, <1>18, ConstantsAssumption DEF PruneNodes, ChecksInTime,
       TypeOK, Call, Stored, Alive, AgeCap
  <2>2. BeatsInTime'
    BY <1>0, <1>00, <1>18, ConstantsAssumption DEF PruneNodes, BeatsInTime,
       Settled, RegistersOnce, TypeOK, Call, Stored, Alive, AgeCap
  <2>3. ListsSpareLiveWorkers'
    BY <1>0, <1>00, <1>18, ConstantsAssumption DEF PruneNodes,
       ListsSpareLiveWorkers, BeatsInTime, LiveWorkerIsOnline, RegistersOnce,
       ListsAreOfNodes, TypeOK, Call, Stored, Alive, AgeCap
  <2>4. LiveWorkerIsOnline'
    BY <1>0, <1>00, <1>18 DEF PruneNodes, LiveWorkerIsOnline,
       ListsSpareLiveWorkers, DeregistersLast, RegistersOnce, TypeOK, Call,
       Stored, Alive, AgeCap
  <2> QED
    BY <1>0, <2>1, <2>2, <2>3, <2>4 DEF Inv
<1>19. CASE MasterRestarts
  <2>1. ChecksInTime'
    BY <1>0, <1>00, <1>19, ConstantsAssumption DEF MasterRestarts, Fail,
       ChecksInTime, TypeOK, Call, Stored, Alive, AgeCap
  <2>2. BeatsInTime'
    BY <1>0, <1>00, <1>19, ConstantsAssumption DEF MasterRestarts, Fail,
       BeatsInTime, Settled, RegistersOnce, TypeOK, Call, Stored, Alive, AgeCap
  <2>3. ListsSpareLiveWorkers'
    BY <1>0, <1>00, <1>19, ConstantsAssumption DEF MasterRestarts, Fail,
       ListsSpareLiveWorkers, BeatsInTime, LiveWorkerIsOnline, RegistersOnce,
       ListsAreOfNodes, TypeOK, Call, Stored, Alive, AgeCap
  <2>4. LiveWorkerIsOnline'
    BY <1>0, <1>00, <1>19 DEF MasterRestarts, Fail, LiveWorkerIsOnline,
       ListsSpareLiveWorkers, DeregistersLast, RegistersOnce, TypeOK, Call,
       Stored, Alive, AgeCap
  <2> QED
    BY <1>0, <2>1, <2>2, <2>3, <2>4 DEF Inv
<1>20. CASE Tick
  <2>1. ChecksInTime'
    <3> SUFFICES ASSUME NEW w \in Workers, node'[w] = "online"
                 PROVE  age'[w] <= HeartbeatTimeout +
                          IF checkDue' \/ w \in stale' THEN CheckInterval ELSE checkTimer'
      BY DEF ChecksInTime
    <3>1. ~checkDue /\ w \notin stale /\ node[w] = "online"
      BY <1>20 DEF Tick, Punctual
    <3>2. age[w] \in Nat /\ age'[w] \in Nat /\ age'[w] <= age[w] + 1
      BY <1>0, <1>20 DEF Tick, TypeOK, AgeCap
    <3>3. age[w] <= HeartbeatTimeout + checkTimer
      BY <1>0, <3>1 DEF ChecksInTime
    <3>4. checkTimer \in 0..(CheckInterval - 1)
      BY <1>0 DEF TypeOK
    <3>5. CASE checkTimer + 1 = CheckInterval
      <4>1. checkDue'
        BY <3>5, <1>20, Zenon DEF Tick, Fires
      <4>2. age'[w] <= HeartbeatTimeout + CheckInterval
        BY <3>2, <3>3, <3>4, <3>5, ConstantsAssumption
      <4> QED
        BY <4>1, <4>2, Zenon
    <3>6. CASE checkTimer + 1 /= CheckInterval
      <4>1. checkTimer' = checkTimer + 1
        BY <3>6, <1>20 DEF Tick, After, Fires
      <4> QED
        BY <3>2, <3>3, <3>4, <4>1, ConstantsAssumption
    <3> QED
      BY <3>5, <3>6
  <2>2. BeatsInTime'
    <3> SUFFICES ASSUME NEW w \in reliable, main[w] = "up", node[w] = "online"
                 PROVE  /\ age'[w] <= HeartbeatInterval
                        /\ ~beatDue'[w] => age'[w] <= beatTimer'[w]
      BY <1>0, <1>20 DEF BeatsInTime, Settled, Tick
    <3>1. w \in Workers /\ Settled(w)
      BY <1>0, <1>20 DEF Tick, Punctual, TypeOK
    <3>2. age[w] \in Nat /\ age'[w] \in Nat /\ age'[w] <= age[w] + 1
      BY <1>0, <3>1, <1>20 DEF Tick, TypeOK, AgeCap
    <3>3. age[w] <= beatTimer[w] /\ beatTimer[w] \in 0..(HeartbeatInterval - 1)
      BY <1>0, <3>1 DEF BeatsInTime, TypeOK
    <3>4. ~beatDue'[w] => beatTimer'[w] = beatTimer[w] + 1
      BY <1>0, <3>1, <1>20 DEF Tick, After, Fires, TypeOK
    <3> QED
      BY <3>2, <3>3, <3>4, ConstantsAssumption
  <2>3. ListsSpareLiveWorkers'
    BY <1>0, <1>00, <1>20, ConstantsAssumption DEF Tick, Punctual, After,
       Fires, ListsSpareLiveWorkers, BeatsInTime, LiveWorkerIsOnline,
       RegistersOnce, ListsAreOfNodes, TypeOK, Call, Stored, Alive, AgeCap
  <2>4. LiveWorkerIsOnline'
    BY <1>0, <1>00, <1>20 DEF Tick, Punctual, After, Fires, LiveWorkerIsOnline,
       ListsSpareLiveWorkers, DeregistersLast, RegistersOnce, TypeOK, Call,
       Stored, Alive, AgeCap
  <2> QED
    BY <1>0, <2>1, <2>2, <2>3, <2>4 DEF Inv
<1>21. CASE UNCHANGED vars
  BY <1>0, <1>21 DEF Inv, ChecksInTime, BeatsInTime, Settled,
     ListsSpareLiveWorkers, LiveWorkerIsOnline
<1> QED
  BY <1>1, <1>2, <1>3, <1>4, <1>5, <1>6, <1>7, <1>8, <1>9, <1>10, <1>11, <1>12,
     <1>13, <1>14, <1>15, <1>16, <1>17, <1>18, <1>19, <1>20, <1>21 DEF Next,
     Step, Handle

(* The inductive invariant of the node table, whatever calls are lost, late *)
(* or abandoned, unless a master with the PostgreSQL store restarts.        *)
THEOREM AlwaysInv == ~(Restarts /\ Persistent) => (Spec => []Inv)
<1> SUFFICES ASSUME ~(Restarts /\ Persistent) PROVE Spec => []Inv
  OBVIOUS
<1>1. Inv /\ [Next]_vars => Inv'
  BY InvStep
<1> QED
  BY <1>1, InvInit, PTL DEF Spec

(* The check finds every silent node within its interval, for any number   *)
(* of workers and any timeout and interval: a node that is online has been *)
(* heard from within the timeout and one interval.                         *)
THEOREM SilentNodesExpire ==
  ~(Restarts /\ Persistent) => (Spec => []StaleNodeIsOffline)
<1> SUFFICES ASSUME ~(Restarts /\ Persistent) PROVE Spec => []StaleNodeIsOffline
  OBVIOUS
<1>1. Inv => StaleNodeIsOffline
  BY ConstantsAssumption DEF Inv, Base, TypeOK, ChecksInTime,
     StaleNodeIsOffline, AgeCap
<1> QED
  BY <1>1, AlwaysInv, PTL

(* A heartbeat interval of at most the timeout is enough for the node of a *)
(* reliable worker that is up never to be shown offline.                   *)
THEOREM LiveWorkersStayOnline ==
  ~(Restarts /\ Persistent) => (Spec => []LiveWorkerIsOnline)
<1> SUFFICES ASSUME ~(Restarts /\ Persistent) PROVE Spec => []LiveWorkerIsOnline
  OBVIOUS
<1>1. Inv => LiveWorkerIsOnline
  BY DEF Inv
<1> QED
  BY <1>1, AlwaysInv, PTL

(* A prune of offline nodes removes no node of a reliable worker that is   *)
(* up, however long it takes to work through its list.                     *)
THEOREM PrunesSpareLiveWorkers ==
  ~(Restarts /\ Persistent) => (Spec => PruneSparesLiveWorkers)
<1> SUFFICES ASSUME ~(Restarts /\ Persistent) PROVE Spec => PruneSparesLiveWorkers
  OBVIOUS
<1>1. Inv => \A w \in reliable :
                ~pruneAll /\ w \in pruneList /\ w \notin pruneList' => main[w] /= "up"
  BY DEF Inv, ListsSpareLiveWorkers
<1> QED
  BY <1>1, AlwaysInv, PTL DEF PruneSparesLiveWorkers
=============================================================================
