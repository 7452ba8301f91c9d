---------------------------- MODULE WorkerProofs ----------------------------
(***************************************************************************)
(* Proofs about the parts of a worker that MCWorker puts side by side.     *)
(*                                                                         *)
(* The shutdown, for any tasks and pods, containers of a pod and refusals  *)
(* of Docker: an execution makes its containers in order and leaves its    *)
(* map when it has tried to remove them all (InOrder), and what ran at the *)
(* signal is past its start for good (Past), so that an empty map or a     *)
(* turn taken means a container removed or refused, whatever the executors *)
(* do between the steps of Shutdown (MainFollows, TurnsTaken).             *)
(*                                                                         *)
(* The liveness checker, for any thresholds and number of probes: the two  *)
(* counters of updateStatus are the lengths of the runs the history ends   *)
(* with (CountersMeasureRuns), so that they know without the history what  *)
(* the next result does to the verdict on it.                              *)
(***************************************************************************)
EXTENDS MCWorker, FiniteSetTheorems, TLAPS

LEMMA ShutdownInvInit == ShutdownInit => ShutdownInv
<1> SUFFICES ASSUME ShutdownInit PROVE ShutdownInv
  OBVIOUS
<1>0. 1 \in 1..N /\ \A w \in Work : 1 \in Parts(w)
  BY WorkAssumption DEF Parts
<1>1. ShutdownTypeOK
  BY <1>0 DEF ShutdownInit, ShutdownTypeOK
<1>2. MainFollows /\ TurnsTaken
  BY DEF ShutdownInit, MainFollows, AfterClearing, TurnsTaken
<1>3. \A w \in Work : InOrder(w)
  BY <1>0 DEF ShutdownInit, InOrder
<1> QED
  BY <1>1, <1>2, <1>3 DEF ShutdownInit, ShutdownInv

(* What Becomes says of each container. *)
LEMMA BecomesFacts ==
  ASSUME ShutdownTypeOK, NEW w \in Work, NEW k \in 1..N,
         NEW state \in {"created", "running", "exited", "removed"}, Becomes(w, k, state)
  PROVE  /\ container' \in [Work -> [1..N -> {"none", "created", "running", "exited", "removed"}]]
         /\ container'[w][k] = state
         /\ \A v \in Work, j \in 1..N :
              v /= w \/ j /= k => container'[v][j] = container[v][j]
  BY DEF ShutdownTypeOK, Becomes

(* An executor's step changes its own place and one of its own containers. *)
LEMMA ExecuteFrame ==
  ASSUME ShutdownTypeOK, NEW w \in Work, InOrder(w), Execute(w)
  PROVE  /\ ShutdownTypeOK'
         /\ UNCHANGED mainVars
         /\ \A v \in Work \ {w} :
              /\ executor'[v] = executor[v] /\ at'[v] = at[v]
              /\ v \in abandoned' <=> v \in abandoned
              /\ \A j \in 1..N : /\ container'[v][j] = container[v][j]
                                 /\ <<v, j>> \in refused' <=> <<v, j>> \in refused
                                 /\ <<v, j>> \in spared' <=> <<v, j>> \in spared
<1> USE DEF ShutdownTypeOK, Step, mainVars, pastVars
<1>0. /\ at[w] \in 1..N /\ Parts(w) \subseteq 1..N
      /\ AfterFailure(w) \in {"cleaning", "ending"}
      /\ \A to \in {"accepted", "preparing", "recording", "starting", "waiting",
                    "cleaning", "ending", "over"} :
           [executor EXCEPT ![w] = to] \in
             [Work -> {"none", "accepted", "preparing", "recording", "starting",
                       "waiting", "cleaning", "ending", "over"}]
  BY WorkAssumption DEF Parts, AfterFailure
<1>1. CASE Accept(w) \/ Track(w) \/ PreparationFails(w) \/ Record(w) \/ Wait(w) \/ Untrack(w)
  BY <1>0, <1>1 DEF Accept, Track, PreparationFails, Record, Wait, Untrack
<1>2. CASE Create(w)
  <2>1. Becomes(w, at[w], "created")
    BY <1>2 DEF Create
  <2> QED
    BY <1>0, <1>2, <2>1, BecomesFacts DEF Create
<1>3. CASE Start(w)
  <2>1. Becomes(w, at[w], "running")
    BY <1>3 DEF Start
  <2>2. at' \in [Work -> 1..N] /\ \A v \in Work \ {w} : at'[v] = at[v]
    BY <1>0, <1>3 DEF Start
  <2> QED
    BY <1>0, <1>3, <2>1, <2>2, BecomesFacts DEF Start
<1>4. CASE StartFails(w)
  <2>1. UNCHANGED container \/ Becomes(w, at[w], "running")
    BY <1>4 DEF StartFails
  <2> QED
    BY <1>0, <1>4, <2>1, BecomesFacts DEF StartFails
<1>5. CASE WaitFails(w)
  BY <1>0, <1>5 DEF WaitFails
<1>6. ASSUME NEW k \in Parts(w), Exits(w, k)
      PROVE  container' \in [Work -> [1..N -> {"none", "created", "running", "exited", "removed"}]]
             /\ \A v \in Work \ {w} : \A j \in 1..N : container'[v][j] = container[v][j]
  BY <1>0, <1>6, BecomesFacts DEF Exits
<1>7. CASE \E k \in Parts(w) : Exits(w, k)
  BY <1>6, <1>7 DEF Exits
<1>8. ASSUME NEW k \in Parts(w), Clean(w, k)
      PROVE  /\ container' \in [Work -> [1..N -> {"none", "created", "running", "exited", "removed"}]]
             /\ refused' \cup spared' \subseteq Work \X (1..N)
             /\ \A v \in Work \ {w} : \A j \in 1..N :
                  /\ container'[v][j] = container[v][j]
                  /\ <<v, j>> \in refused' <=> <<v, j>> \in refused
                  /\ <<v, j>> \in spared' <=> <<v, j>> \in spared
  <2>1. UNCHANGED container \/ Becomes(w, k, "removed")
    BY <1>8 DEF Clean, Removed
  <2>2. container' \in [Work -> [1..N -> {"none", "created", "running", "exited", "removed"}]]
        /\ \A v \in Work \ {w} : \A j \in 1..N : container'[v][j] = container[v][j]
    BY <1>0, <2>1, BecomesFacts
  <2>3. /\ <<w, k>> \in Work \X (1..N)
        /\ refused' = refused \cup {<<w, k>>} \/ refused' = refused \ {<<w, k>>}
        /\ spared' = spared \/ spared' = spared \ {<<w, k>>}
    BY <1>0, <1>8 DEF Clean, Removed
  <2>4. refused' \cup spared' \subseteq Work \X (1..N)
    BY <2>3
  <2>5. \A v \in Work \ {w} : \A j \in 1..N :
          /\ <<v, j>> \in refused' <=> <<v, j>> \in refused
          /\ <<v, j>> \in spared' <=> <<v, j>> \in spared
    BY <2>3
  <2> QED
    BY <2>2, <2>4, <2>5
<1>9. CASE \E k \in Parts(w) : Clean(w, k)
  BY <1>0, <1>8, <1>9 DEF Clean
<1> QED
  BY <1>1, <1>2, <1>3, <1>4, <1>5, <1>7, <1>9 DEF Execute

(* It makes its containers in order and leaves when they are disposed of.  *)
LEMMA ExecuteInOrder ==
  ASSUME ShutdownTypeOK, NEW w \in Work, InOrder(w), Execute(w)
  PROVE  InOrder(w)'
<1> USE DEF ShutdownTypeOK, InOrder, Disposed, Step, pastVars
<1>0. /\ at[w] \in 1..N /\ Parts(w) \subseteq 1..N
      /\ w \in Tasks => Parts(w) = {1}
      /\ w \in Pods => Parts(w) = 1..N
      /\ AfterFailure(w) = IF w \in Pods THEN "cleaning" ELSE "ending"
      /\ w \in Pods \/ w \in Tasks
  BY WorkAssumption DEF Parts, AfterFailure, Work
<1>1. CASE Accept(w) \/ Track(w) \/ Record(w) \/ Wait(w)
  BY <1>0, <1>1 DEF Accept, Track, Record, Wait
<1>2. CASE PreparationFails(w)
  <2>1. w \notin Pods => \A k \in 1..N : container[w][k] = "none"
    BY <1>0, <1>2 DEF PreparationFails
  <2> QED
    BY <1>0, <1>2, <2>1 DEF PreparationFails
<1>3. CASE Untrack(w)
  BY <1>0, <1>3 DEF Untrack
<1>4. CASE Create(w)
  <2>1. Becomes(w, at[w], "created")
    BY <1>4 DEF Create
  <2>2. /\ container'[w][at[w]] = "created"
        /\ \A j \in 1..N : j /= at[w] => container'[w][j] = container[w][j]
    BY <1>0, <2>1, BecomesFacts
  <2>3. at'[w] = at[w] /\ executor'[w] \in {"recording", "starting"}
        /\ executor[w] = "preparing"
    BY <1>4 DEF Create
  <2> QED
    BY <1>0, <2>2, <2>3
<1>5. CASE Start(w)
  <2>1. Becomes(w, at[w], "running")
    BY <1>5 DEF Start
  <2>2. /\ container'[w][at[w]] = "running"
        /\ \A j \in 1..N : j /= at[w] => container'[w][j] = container[w][j]
    BY <1>0, <2>1, BecomesFacts
  <2>3. executor[w] = "starting"
        /\ \/ executor'[w] = "preparing" /\ at'[w] = at[w] + 1 /\ at[w] + 1 \in Parts(w)
           \/ executor'[w] = "waiting" /\ at'[w] = at[w]
    BY <1>5 DEF Start
  <2>4. \A j \in 1..N : j > at[w] \/ j \notin Parts(w) => container'[w][j] = "none"
    BY <1>0, <2>2, <2>3
  <2>5. CASE executor'[w] = "preparing"
    <3>1. \A j \in 1..N : j >= at'[w] => j > at[w]
      BY <1>0, <2>3, <2>5
    <3> QED
      BY <2>3, <2>4, <2>5, <3>1
  <2>6. CASE executor'[w] = "waiting"
    BY <2>3, <2>4, <2>6
  <2> QED
    BY <2>3, <2>5, <2>6
<1>6. CASE StartFails(w)
  <2>1. UNCHANGED container \/ Becomes(w, at[w], "running")
    BY <1>6 DEF StartFails
  <2>2. \A j \in 1..N : j /= at[w] => container'[w][j] = container[w][j]
    BY <1>0, <2>1, BecomesFacts
  <2>3. /\ executor'[w] \in {"cleaning", "ending"} /\ at'[w] = at[w]
        /\ executor'[w] = "ending" => w \in abandoned'
    BY <1>0, <1>6 DEF StartFails
  <2> QED
    BY <1>0, <2>2, <2>3
<1>7. CASE WaitFails(w)
  <2>3. /\ executor'[w] \in {"cleaning", "ending"} /\ at'[w] = at[w]
        /\ executor'[w] = "ending" => w \in abandoned'
        /\ container' = container
    BY <1>0, <1>7 DEF WaitFails
  <2> QED
    BY <1>0, <2>3
<1>8. ASSUME NEW k \in Parts(w), Exits(w, k) PROVE InOrder(w)'
  <2>1. Becomes(w, k, "exited")
    BY <1>8 DEF Exits
  <2>2. /\ container'[w][k] = "exited" /\ container[w][k] = "running"
        /\ \A j \in 1..N : j /= k => container'[w][j] = container[w][j]
    BY <1>0, <1>8, <2>1, BecomesFacts DEF Exits
  <2>3. UNCHANGED <<executor, at, abandoned, refused>>
    BY <1>8 DEF Exits
  <2> QED
    BY <1>0, <2>2, <2>3
<1>9. ASSUME NEW k \in Parts(w), Clean(w, k) PROVE InOrder(w)'
  <2>1. UNCHANGED container \/ Becomes(w, k, "removed")
    BY <1>9 DEF Clean, Removed
  <2>2. \A j \in 1..N : j /= k => container'[w][j] = container[w][j]
    BY <1>0, <2>1, BecomesFacts
  <2>3. executor'[w] = "cleaning" /\ at'[w] = at[w]
    BY <1>9 DEF Clean
  <2> QED
    BY <1>0, <2>2, <2>3
<1> QED
  BY <1>1, <1>2, <1>3, <1>4, <1>5, <1>6, <1>7, <1>8, <1>9 DEF Execute

(* It neither starts again what ran, nor brings back what was removed, nor *)
(* comes back to the map.                                                  *)
LEMMA ExecuteGoesOn ==
  ASSUME ShutdownTypeOK, NEW w \in Work, InOrder(w), Execute(w)
  PROVE  /\ executor[w] \notin {"none", "accepted"} => executor'[w] \notin {"none", "accepted"}
         /\ executor[w] = "over" => executor'[w] = "over"
         /\ \A k \in 1..N : /\ Past(w, k) => Past(w, k)'
                            /\ Settled(w, k) => Settled(w, k)'
<1> USE DEF ShutdownTypeOK, Past, Settled, Step, pastVars, mainVars
<1>0. /\ at[w] \in 1..N /\ Parts(w) \subseteq 1..N
      /\ AfterFailure(w) \in {"cleaning", "ending"}
  BY WorkAssumption DEF Parts, AfterFailure
<1>1. CASE Accept(w) \/ Track(w) \/ PreparationFails(w) \/ Record(w) \/ Wait(w) \/ Untrack(w)
  BY <1>0, <1>1 DEF Accept, Track, PreparationFails, Record, Wait, Untrack
<1>2. CASE Create(w)
  <2>1. Becomes(w, at[w], "created") /\ container[w][at[w]] = "none"
    BY <1>0, <1>2 DEF Create, InOrder
  <2>2. \A j \in 1..N : j /= at[w] => container'[w][j] = container[w][j]
    BY <1>0, <2>1, BecomesFacts
  <2> QED
    BY <1>0, <1>2, <2>1, <2>2 DEF Create
<1>3. CASE Start(w)
  <2>1. Becomes(w, at[w], "running") /\ container[w][at[w]] = "created"
    BY <1>3 DEF Start
  <2>2. \A j \in 1..N : j /= at[w] => container'[w][j] = container[w][j]
    BY <1>0, <2>1, BecomesFacts
  <2> QED
    BY <1>0, <1>3, <2>1, <2>2 DEF Start
<1>4. CASE StartFails(w)
  <2>1. \/ UNCHANGED container
        \/ Becomes(w, at[w], "running") /\ container[w][at[w]] = "created"
    BY <1>4 DEF StartFails
  <2>2. \A j \in 1..N : j /= at[w] => container'[w][j] = container[w][j]
    BY <1>0, <2>1, BecomesFacts
  <2> QED
    BY <1>0, <1>4, <2>1, <2>2 DEF StartFails
<1>5. CASE WaitFails(w)
  BY <1>0, <1>5 DEF WaitFails
<1>6. ASSUME NEW k \in Parts(w), Exits(w, k)
      PROVE  /\ executor' = executor
             /\ \A j \in 1..N : /\ Past(w, j) => Past(w, j)'
                                /\ Settled(w, j) => Settled(w, j)'
  <2>1. Becomes(w, k, "exited") /\ container[w][k] = "running"
    BY <1>6 DEF Exits
  <2>2. /\ container'[w][k] = "exited"
        /\ \A j \in 1..N : j /= k => container'[w][j] = container[w][j]
    BY <1>0, <2>1, BecomesFacts
  <2> QED
    BY <1>0, <1>6, <2>1, <2>2 DEF Exits
<1>7. ASSUME NEW k \in Parts(w), Clean(w, k)
      PROVE  /\ executor[w] = "cleaning" /\ executor'[w] = "cleaning"
             /\ \A j \in 1..N : /\ Past(w, j) => Past(w, j)'
                                /\ Settled(w, j) => Settled(w, j)'
  <2>1. CASE Removed(w, k)
    <3>1. /\ container'[w][k] = "removed"
          /\ \A j \in 1..N : j /= k => container'[w][j] = container[w][j]
      BY <1>0, <2>1, BecomesFacts DEF Removed
    <3> QED
      BY <1>0, <1>7, <2>1, <3>1 DEF Clean, Removed
  <2>2. CASE ~Removed(w, k)
    BY <1>0, <1>7, <2>2 DEF Clean
  <2> QED
    BY <2>1, <2>2
<1> QED
  BY <1>1, <1>2, <1>3, <1>4, <1>5, <1>6, <1>7 DEF Execute

LEMMA ShutdownInvStep ==
  ASSUME ShutdownInv, [ShutdownNext]_shutdownVars
  PROVE  ShutdownInv'
<1> USE DEF mainVars, executorVars, pastVars
<1>0. /\ ShutdownTypeOK /\ MainFollows /\ TurnsTaken
      /\ \A w \in Work : InOrder(w)
      /\ \A w \in Work, k \in 1..N : <<w, k>> \in running => Past(w, k)
  BY DEF ShutdownInv
<1>w. Pods \subseteq Work /\ Tasks \subseteq Work /\ busy \subseteq Work
  BY <1>0 DEF Work, ShutdownTypeOK
<1>1. ASSUME NEW w \in Work, Execute(w) PROVE ShutdownInv'
  <2>1. ShutdownTypeOK' /\ UNCHANGED <<main, poller, timeUp, toClear, busy, running, forced>>
    BY <1>0, <1>1, ExecuteFrame
  <2>2. \A v \in Work : InOrder(v)'
    <3>1. InOrder(w)'
      BY <1>0, <1>1, ExecuteInOrder
    <3>2. ASSUME NEW v \in Work \ {w} PROVE InOrder(v)'
      <4>1. InOrder(v) /\ executor'[v] = executor[v] /\ at'[v] = at[v]
            /\ (v \in abandoned' <=> v \in abandoned)
            /\ \A j \in 1..N : /\ container'[v][j] = container[v][j]
                               /\ <<v, j>> \in refused' <=> <<v, j>> \in refused
        BY <1>0, <1>1, ExecuteFrame
      <4> QED
        BY <4>1 DEF InOrder, Disposed
    <3> QED
      BY <3>1, <3>2
  <2>3. ASSUME NEW v \in Work
        PROVE  /\ executor[v] \notin {"none", "accepted"} => executor'[v] \notin {"none", "accepted"}
               /\ executor[v] = "over" => executor'[v] = "over"
               /\ \A k \in 1..N : /\ Past(v, k) => Past(v, k)'
                                  /\ Settled(v, k) => Settled(v, k)'
    <3>1. CASE v = w
      BY <1>0, <1>1, <3>1, ExecuteGoesOn
    <3>2. CASE v /= w
      <4>1. executor'[v] = executor[v]
            /\ \A j \in 1..N : /\ container'[v][j] = container[v][j]
                               /\ <<v, j>> \in refused' <=> <<v, j>> \in refused
                               /\ <<v, j>> \in spared' <=> <<v, j>> \in spared
        BY <1>0, <1>1, <3>2, ExecuteFrame
      <4> QED
        BY <2>1, <4>1 DEF Past, Settled
    <3> QED
      BY <3>1, <3>2
  <2>4. \A v \in Work, k \in 1..N : (<<v, k>> \in running)' => Past(v, k)'
    BY <1>0, <2>1, <2>3
  <2>5. MainFollows'
    BY <1>0, <1>w, <2>1, <2>3 DEF MainFollows, AfterClearing
  <2>6. TurnsTaken'
    BY <1>0, <1>w, <2>1, <2>3 DEF TurnsTaken
  <2> QED
    BY <2>1, <2>2, <2>4, <2>5, <2>6 DEF ShutdownInv
<1>2. CASE Signal
  <2>1. ShutdownTypeOK'
    BY <1>0, <1>2 DEF Signal, ShutdownTypeOK, Tracked
  <2>2. \A w \in Work : InOrder(w)'
    BY <1>0, <1>2 DEF Signal, InOrder, Disposed
  <2>3. \A w \in Work, k \in 1..N : (<<w, k>> \in running)' => Past(w, k)'
    <3>1. ASSUME NEW w \in Work, NEW k \in 1..N, container[w][k] = "running"
          PROVE  executor[w] \notin {"none", "accepted"}
      BY <1>0, <3>1 DEF InOrder
    <3> QED
      BY <1>2, <3>1 DEF Signal, Past, Tracked
  <2>4. MainFollows' /\ ~forced'
    BY <1>0, <1>2 DEF Signal, MainFollows, AfterClearing, Tracked
  <2> QED
    BY <2>1, <2>2, <2>3, <2>4 DEF ShutdownInv, TurnsTaken
(* Steps of main, of the poller and of the timer. *)
<1>3. ASSUME Timeout \/ Poll \/ PollerLeaves \/ Drained \/ TimedOut \/ Cleared
               \/ Deregister \/ ServerCloses \/ Exit
      PROVE  ShutdownInv'
  <2>1. ShutdownTypeOK'
    BY <1>0, <1>3 DEF ShutdownTypeOK, Timeout, Poll, PollerLeaves, Drained, TimedOut,
                      Cleared, Deregister, ServerCloses, Exit
  <2>2. UNCHANGED <<executor, at, container, abandoned, refused, spared, busy, running>>
    BY <1>3 DEF Timeout, Poll, PollerLeaves, Drained, TimedOut, Cleared, Deregister,
                ServerCloses, Exit
  <2>3. \A w \in Work : InOrder(w)'
    BY <1>0, <2>2 DEF InOrder, Disposed
  <2>4. \A w \in Work, k \in 1..N : (<<w, k>> \in running)' => Past(w, k)'
    BY <1>0, <2>2 DEF Past
  <2>5. MainFollows'
    <3>1. CASE Poll
      <4>1. \A w \in busy : executor[w] = "over"
        BY <1>0, <1>w, <3>1 DEF Poll, Tracked, MainFollows
      <4> QED
        BY <1>0, <3>1, <4>1 DEF Poll, MainFollows, AfterClearing
    <3>2. CASE Timeout \/ PollerLeaves \/ Drained
      BY <1>0, <3>2 DEF Timeout, PollerLeaves, Drained, MainFollows, AfterClearing
    <3>3. CASE TimedOut \/ Cleared
      BY <1>0, <3>3 DEF TimedOut, Cleared, MainFollows, AfterClearing
    <3>4. CASE Deregister \/ ServerCloses \/ Exit
      BY <1>0, <3>4 DEF Deregister, ServerCloses, Exit, MainFollows, AfterClearing
    <3> QED
      BY <1>3, <3>1, <3>2, <3>3, <3>4
  <2>6. TurnsTaken'
    <3>1. CASE TimedOut
      <4>1. ASSUME NEW p \in Pods, NEW k \in 1..N, <<p, k>> \in running, <<p, k>> \notin toClear'
            PROVE  Settled(p, k)
        <5>1. p \in Work /\ p \notin Tracked /\ p \notin abandoned /\ Past(p, k) /\ InOrder(p)
          BY <1>0, <1>w, <3>1, <4>1, WorkAssumption DEF TimedOut, ShutdownTypeOK
        <5>2. /\ executor[p] \in {"none", "accepted", "over"}
              /\ p \in Pods => at[p] \in 1..N
          BY <1>0, <5>1 DEF Tracked, ShutdownTypeOK
        <5>3. CASE executor[p] = "over"
          BY <5>1, <5>3 DEF InOrder, Disposed, Past, Settled
        <5>4. CASE executor[p] \in {"none", "accepted"}
          BY <1>0, <5>1, <5>4, <4>1 DEF InOrder, Past, ShutdownTypeOK
        <5> QED
          BY <5>2, <5>3, <5>4
      <4> QED
        BY <2>2, <4>1 DEF TurnsTaken, Settled
    <3>2. CASE ~TimedOut
      <4>1. forced' = forced /\ toClear' = toClear
        BY <1>3, <3>2 DEF Timeout, Poll, PollerLeaves, Drained, Cleared, Deregister,
                          ServerCloses, Exit
      <4> QED
        BY <1>0, <2>2, <4>1 DEF TurnsTaken, Settled
    <3> QED
      BY <3>1, <3>2
  <2> QED
    BY <2>1, <2>3, <2>4, <2>5, <2>6 DEF ShutdownInv
<1>4. ASSUME NEW p \in Pods, NEW k \in 1..N, ClearContainer(p, k) PROVE ShutdownInv'
  <2>0. p \in Work /\ <<p, k>> \in Work \X (1..N)
    BY <1>w
  <2>1. UNCHANGED <<executor, at, abandoned, busy, running, main, poller, timeUp, forced>>
        /\ toClear' = toClear \ {<<p, k>>} /\ main = "clearing"
    BY <1>4 DEF ClearContainer, Turn
  <2>2. UNCHANGED container \/ (Becomes(p, k, "removed") /\ Recorded(p, k))
    BY <1>4 DEF ClearContainer, Removed
  <2>3. container' \in [Work -> [1..N -> {"none", "created", "running", "exited", "removed"}]]
        /\ \A v \in Work, j \in 1..N :
             v /= p \/ j /= k => container'[v][j] = container[v][j]
    BY <1>0, <2>0, <2>2, BecomesFacts DEF ShutdownTypeOK
  <2>4. container'[p][k] \in {container[p][k], "removed"}
        /\ (container'[p][k] /= container[p][k] => Recorded(p, k))
    BY <1>0, <2>0, <2>2, BecomesFacts
  <2>5. /\ refused' \cup spared' \subseteq Work \X (1..N)
        /\ \A v \in Work, j \in 1..N :
             v /= p \/ j /= k => /\ <<v, j>> \in refused' <=> <<v, j>> \in refused
                                 /\ <<v, j>> \in spared' <=> <<v, j>> \in spared
        /\ <<p, k>> \in refused /\ <<p, k>> \notin refused' => container'[p][k] = "removed"
    <3>1. CASE Removed(p, k)
      <4>1. container'[p][k] = "removed"
        BY <1>0, <2>0, <3>1, BecomesFacts DEF Removed
      <4> QED
        BY <1>0, <3>1, <4>1 DEF Removed, ShutdownTypeOK
    <3>2. CASE ~Removed(p, k)
      <4>1. refused' = refused /\ (spared' = spared \/ spared' = spared \cup {<<p, k>>})
        BY <1>4, <3>2 DEF ClearContainer
      <4> QED
        BY <1>0, <2>0, <4>1 DEF ShutdownTypeOK
    <3> QED
      BY <3>1, <3>2
  <2>6. ShutdownTypeOK'
    BY <1>0, <2>1, <2>3, <2>5 DEF ShutdownTypeOK
  <2>7. ASSUME NEW w \in Work PROVE InOrder(w)'
    <3>1. \A j \in 1..N : container'[w][j] = container[w][j]
                          \/ (container'[w][j] = "removed" /\ w = p /\ Recorded(p, j))
      BY <2>3, <2>4
    <3>2. \A j \in 1..N : container[w][j] = "none" => container'[w][j] = "none"
      BY <3>1 DEF Recorded
    <3>3. \A j \in 1..N : executor[w] = "recording" /\ j = at[w] =>
                          container'[w][j] = container[w][j]
      BY <3>1 DEF Recorded
    <3>4. Disposed(w) => Disposed(w)'
      BY <2>3, <2>4, <2>5 DEF Disposed
    <3> QED
      BY <1>0, <2>1, <3>2, <3>3, <3>4 DEF InOrder
  <2>8. \A w \in Work, j \in 1..N : (<<w, j>> \in running)' => Past(w, j)'
    BY <1>0, <2>1, <2>3, <2>4 DEF Past
  <2>9. MainFollows'
    BY <1>0, <2>1 DEF MainFollows, AfterClearing
  <2>10. TurnsTaken'
    <3>1. ASSUME NEW q \in Pods, NEW j \in 1..N, <<q, j>> \in running, <<q, j>> \notin toClear',
                 q /= p \/ j /= k, forced
          PROVE  Settled(q, j)'
      BY <1>0, <1>w, <2>1, <2>3, <2>5, <3>1 DEF TurnsTaken, Settled
    <3>2. ASSUME <<p, k>> \in running PROVE Settled(p, k)'
      <4>1. Recorded(p, k)
        BY <1>0, <2>0, <3>2 DEF Past, InOrder, Recorded
      <4> QED
        BY <1>0, <1>4, <2>0, <4>1, BecomesFacts DEF ClearContainer, Removed, Settled
    <3> QED
      BY <2>1, <3>1, <3>2 DEF TurnsTaken
  <2> QED
    BY <2>6, <2>7, <2>8, <2>9, <2>10 DEF ShutdownInv
<1>5. CASE UNCHANGED shutdownVars
  <2>1. ShutdownTypeOK' /\ MainFollows'
    BY <1>0, <1>5 DEF shutdownVars, ShutdownTypeOK, MainFollows
  <2>2. TurnsTaken' /\ \A w \in Work : InOrder(w)'
    BY <1>0, <1>5 DEF shutdownVars, TurnsTaken, Settled, InOrder, Disposed
  <2> QED
    BY <1>0, <1>5, <2>1, <2>2 DEF shutdownVars, ShutdownInv, Past
<1> QED
  BY <1>1, <1>2, <1>3, <1>4, <1>5 DEF ShutdownNext, Main

LEMMA AlwaysShutdownInv == ShutdownSpec => []ShutdownInv
<1>1. ShutdownInv /\ [ShutdownNext]_shutdownVars => ShutdownInv'
  BY ShutdownInvStep
<1> QED
  BY <1>1, ShutdownInvInit, PTL DEF ShutdownSpec

(* Every variable of a worker's shutdown keeps its type, for any tasks and *)
(* pods.                                                                   *)
THEOREM ShutdownTypeCorrect == ShutdownSpec => []ShutdownTypeOK
<1>1. ShutdownInv => ShutdownTypeOK
  BY DEF ShutdownInv
<1> QED
  BY <1>1, AlwaysShutdownInv, PTL

(* A worker that drained before its time was up leaves nothing of the      *)
(* tasks and pods it had when the signal came, wherever they were, but     *)
(* what Docker refused and tasks whose start or wait failed.               *)
THEOREM DrainLeavesNothing == ShutdownSpec => []DrainIsClean
<1>1. ASSUME ShutdownInv, main \in AfterClearing, ~forced, NEW w \in busy \ abandoned
      PROVE  Disposed(w)
  <2>1. w \in Work /\ executor[w] = "over" /\ InOrder(w)
    BY <1>1 DEF ShutdownInv, MainFollows, ShutdownTypeOK
  <2> QED
    BY <1>1, <2>1 DEF InOrder
<1>2. ShutdownInv => DrainIsClean
  BY <1>1 DEF DrainIsClean, AfterClearing
<1> QED
  BY <1>2, AlwaysShutdownInv, PTL

(* When the process is gone, drained or timed out, nothing is left of the  *)
(* pods' containers that ran when the signal came but what Docker refused: *)
(* each had its turn or was seen to by its executor before that left the   *)
(* map.                                                                    *)
THEOREM ShutdownClearsPods == ShutdownSpec => []RunningPodsAreCleared
<1>1. ASSUME ShutdownInv, main = "gone", NEW p \in Pods, NEW k \in 1..N, <<p, k>> \in running
      PROVE  Settled(p, k)
  <2>1. toClear = {} /\ (forced \/ poller = "done") /\ p \in Work
    BY <1>1 DEF ShutdownInv, MainFollows, AfterClearing, Work
  <2>2. CASE forced
    BY <1>1, <2>1, <2>2 DEF ShutdownInv, TurnsTaken
  <2>3. CASE poller = "done"
    <3>1. Past(p, k) /\ InOrder(p) /\ p \notin abandoned
      BY <1>1, <2>1, WorkAssumption DEF ShutdownInv, ShutdownTypeOK
    <3>2. executor[p] = "over"
      BY <1>1, <2>3, <3>1 DEF ShutdownInv, MainFollows, Past
    <3> QED
      BY <3>1, <3>2 DEF InOrder, Disposed, Past, Settled
  <2> QED
    BY <2>1, <2>2, <2>3
<1>2. ShutdownInv => RunningPodsAreCleared
  BY <1>1 DEF RunningPodsAreCleared
<1> QED
  BY <1>2, AlwaysShutdownInv, PTL

-----------------------------------------------------------------------------
(* The liveness checker. *)

LEMMA AppendFacts ==
  ASSUME NEW S, NEW s \in Seq(S), NEW r \in S
  PROVE  /\ Append(s, r) \in Seq(S)
         /\ Len(Append(s, r)) = Len(s) + 1 /\ Len(s) \in Nat
         /\ \A j \in 1..Len(s) : Append(s, r)[j] = s[j]
         /\ Append(s, r)[Len(s) + 1] = r
         /\ SubSeq(Append(s, r), 1, Len(s) + 1) = Append(s, r)
         /\ \A i \in 0..Len(s) : SubSeq(Append(s, r), 1, i) = SubSeq(s, 1, i)
         /\ SubSeq(s, 1, Len(s)) = s
<1>1. Append(s, r) \in Seq(S) /\ Len(Append(s, r)) = Len(s) + 1 /\ Len(s) \in Nat
  OBVIOUS
<1>2. \A j \in 1..Len(s) : Append(s, r)[j] = s[j]
  OBVIOUS
<1>3. Append(s, r)[Len(s) + 1] = r
  OBVIOUS
<1>4. \A i \in 0..Len(s) : SubSeq(Append(s, r), 1, i) = SubSeq(s, 1, i)
  OBVIOUS
<1>5. SubSeq(Append(s, r), 1, Len(s) + 1) = Append(s, r)
  OBVIOUS
<1>6. SubSeq(s, 1, Len(s)) = s
  OBVIOUS
<1> QED
  BY <1>1, <1>2, <1>3, <1>4, <1>5, <1>6

LEMMA ThresholdsArePositive ==
  ASSUME CheckerTypeOK
  PROVE  SuccessThreshold \in Nat \ {0} /\ FailureThreshold \in Nat \ {0}
<1>1. check.success \in Nat /\ check.failure \in Nat
  BY CheckerAssumption DEF CheckerTypeOK
<1> QED
  BY <1>1 DEF SuccessThreshold, FailureThreshold

LEMMA CounterTypes ==
  ASSUME CheckerTypeOK
  PROVE  /\ results \in Seq(BOOLEAN) /\ Len(results) \in Nat
         /\ consecutiveOK \in Nat /\ consecutiveFail \in Nat
         /\ spawned \in Nat /\ reports \in Nat
<1>1. results \in Seq(BOOLEAN)
  BY DEF CheckerTypeOK
<1>2. /\ consecutiveOK \in Nat /\ consecutiveFail \in Nat
      /\ spawned \in Nat /\ reports \in Nat
  BY DEF CheckerTypeOK
<1> QED
  BY <1>1, <1>2

(* A result lengthens one of the two last runs and ends the other; a run   *)
(* of k results ends at it exactly if the last run is that long now.       *)
LEMMA RunEndsAppend ==
  ASSUME NEW S, NEW s \in Seq(S), NEW r, NEW x \in S,
         NEW n \in Nat, LastRun(s, n, r), NEW k \in Nat \ {0}
  PROVE  /\ LastRun(Append(s, x), IF x = r THEN n + 1 ELSE 0, r)
         /\ RunEnds(Append(s, x), r, k) =
              RunEnds(s, r, k) \cup (IF x = r /\ k <= n + 1 THEN {Len(s) + 1} ELSE {})
         /\ RunEnds(s, r, k) \subseteq 1..Len(s)
<1> DEFINE t == Append(s, x)
<1>1. /\ t \in Seq(S) /\ Len(t) = Len(s) + 1 /\ Len(s) \in Nat
      /\ \A j \in 1..Len(s) : t[j] = s[j]
      /\ t[Len(s) + 1] = x
  BY AppendFacts
<1> HIDE DEF t
<1>2. LastRun(t, IF x = r THEN n + 1 ELSE 0, r)
  <2>1. CASE x = r
    <3>1. (Len(t) - (n + 1) + 1)..Len(t) = ((Len(s) - n + 1)..Len(s)) \cup {Len(s) + 1}
      BY <1>1 DEF LastRun
    <3>2. \A j \in (Len(s) - n + 1)..Len(s) : s[j] = r /\ j \in 1..Len(s)
      BY <1>1 DEF LastRun
    <3>3. \A j \in (Len(t) - (n + 1) + 1)..Len(t) : t[j] = r
      BY <1>1, <2>1, <3>1, <3>2
    <3>4. ASSUME n + 1 < Len(t) PROVE t[Len(t) - (n + 1)] /= r
      <4>1. Len(t) - (n + 1) = Len(s) - n /\ Len(s) - n \in 1..Len(s) /\ n < Len(s)
        BY <1>1, <3>4
      <4> QED
        BY <1>1, <4>1 DEF LastRun
    <3> QED
      BY <1>1, <2>1, <3>3, <3>4 DEF LastRun
  <2>2. CASE x /= r
    <3>1. (Len(t) - 0 + 1)..Len(t) = {} /\ Len(t) - 0 = Len(s) + 1
      BY <1>1
    <3> QED
      BY <1>1, <2>2, <3>1 DEF LastRun
  <2> QED
    BY <2>1, <2>2
<1>3. RunEnds(s, r, k) \subseteq 1..Len(s)
  BY <1>1 DEF RunEnds
<1>4. ASSUME NEW i \in 1..Len(s)
      PROVE  i \in RunEnds(t, r, k) <=> i \in RunEnds(s, r, k)
  BY <1>1, <1>4 DEF RunEnds
<1>5. Len(s) + 1 \in RunEnds(t, r, k) <=> x = r /\ k <= n + 1
  <2>1. CASE x = r /\ k <= n + 1
    BY <1>1, <2>1 DEF RunEnds, LastRun
  <2>2. CASE x /= r
    BY <1>1, <2>2 DEF RunEnds
  <2>3. CASE x = r /\ k > n + 1
    <3>1. CASE n = Len(s)
      BY <1>1, <2>3, <3>1 DEF RunEnds
    <3>2. CASE n < Len(s)
      <4>1. t[Len(s) - n] /= r
        BY <1>1, <3>2 DEF LastRun
      <4>2. Len(s) - n \in (Len(s) + 1 - k + 1)..(Len(s) + 1)
        BY <1>1, <2>3, <3>2
      <4> QED
        BY <1>1, <2>3, <4>1, <4>2 DEF RunEnds
    <3> QED
      BY <1>1, <3>1, <3>2 DEF LastRun
  <2> QED
    BY <1>1, <2>1, <2>2, <2>3
<1>6. RunEnds(t, r, k) \subseteq 1..(Len(s) + 1)
  BY <1>1 DEF RunEnds
<1>7. RunEnds(t, r, k) =
        RunEnds(s, r, k) \cup (IF x = r /\ k <= n + 1 THEN {Len(s) + 1} ELSE {})
  BY <1>1, <1>3, <1>4, <1>5, <1>6
<1> QED
  BY <1>2, <1>3, <1>7 DEF t

LEMMA MaxOfTop ==
  ASSUME NEW n \in Nat, NEW S \in SUBSET (1..n)
  PROVE  Max(S \cup {n + 1}) = n + 1
<1> DEFINE IsMax(m) == m \in S \cup {n + 1} /\ \A y \in S \cup {n + 1} : m >= y
<1>1. IsMax(n + 1)
  OBVIOUS
<1>2. \A m : IsMax(m) => m = n + 1
  OBVIOUS
<1>3. IsMax(Max(S \cup {n + 1}))
  BY <1>1 DEF Max
<1> QED
  BY <1>2, <1>3

(* What a result adds to the verdict. *)
LEMMA VerdictAppend ==
  ASSUME CheckerTypeOK, CountersMeasureRuns, NEW x \in BOOLEAN
  PROVE  LET t == Append(results, x) IN
         Verdict(t) = IF x /\ SuccessThreshold <= consecutiveOK + 1 THEN "healthy"
                      ELSE IF ~x /\ FailureThreshold <= consecutiveFail + 1 THEN "unhealthy"
                      ELSE Verdict(results)
<1> DEFINE t    == Append(results, x)
           good == RunEnds(results, TRUE, SuccessThreshold)
           bad  == RunEnds(results, FALSE, FailureThreshold)
           top  == Len(results) + 1
<1>1. /\ results \in Seq(BOOLEAN) /\ Len(results) \in Nat
      /\ consecutiveOK \in Nat /\ consecutiveFail \in Nat
      /\ SuccessThreshold \in Nat \ {0} /\ FailureThreshold \in Nat \ {0}
  BY ThresholdsArePositive, CounterTypes
<1>2. /\ RunEnds(t, TRUE, SuccessThreshold) =
           good \cup (IF x = TRUE /\ SuccessThreshold <= consecutiveOK + 1 THEN {top} ELSE {})
      /\ good \subseteq 1..Len(results)
  <2>1. ASSUME NEW r, LastRun(results, consecutiveOK, r), NEW k \in Nat \ {0}
        PROVE  RunEnds(t, r, k) =
                 RunEnds(results, r, k) \cup (IF x = r /\ k <= consecutiveOK + 1 THEN {top} ELSE {})
    BY <1>1, <2>1, RunEndsAppend
  <2>2. ASSUME NEW r, LastRun(results, consecutiveOK, r), NEW k \in Nat \ {0}
        PROVE  RunEnds(results, r, k) \subseteq 1..Len(results)
    BY <1>1, <2>2, RunEndsAppend
  <2> QED
    BY <1>1, <2>1, <2>2, Zenon DEF CountersMeasureRuns
<1>3. /\ RunEnds(t, FALSE, FailureThreshold) =
           bad \cup (IF x = FALSE /\ FailureThreshold <= consecutiveFail + 1 THEN {top} ELSE {})
      /\ bad \subseteq 1..Len(results)
  <2>1. ASSUME NEW r, LastRun(results, consecutiveFail, r), NEW k \in Nat \ {0}
        PROVE  RunEnds(t, r, k) =
                 RunEnds(results, r, k) \cup (IF x = r /\ k <= consecutiveFail + 1 THEN {top} ELSE {})
    BY <1>1, <2>1, RunEndsAppend
  <2>2. ASSUME NEW r, LastRun(results, consecutiveFail, r), NEW k \in Nat \ {0}
        PROVE  RunEnds(results, r, k) \subseteq 1..Len(results)
    BY <1>1, <2>2, RunEndsAppend
  <2> QED
    BY <1>1, <2>1, <2>2, Zenon DEF CountersMeasureRuns
<1>4. Max((good \cup bad) \cup {top}) = top
  BY <1>1, <1>2, <1>3, MaxOfTop
<1>5. top \notin good \cup bad
  <2>1. top \notin 1..Len(results)
    BY <1>1
  <2> QED
    BY <1>2, <1>3, <2>1, Zenon
<1> HIDE DEF t, good, bad, top
<1>6. CASE x /\ SuccessThreshold <= consecutiveOK + 1
  <2>1. RunEnds(t, TRUE, SuccessThreshold) = good \cup {top}
        /\ RunEnds(t, FALSE, FailureThreshold) = bad
    BY <1>2, <1>3, <1>6
  <2>2. (good \cup {top}) \cup bad = (good \cup bad) \cup {top}
    OBVIOUS
  <2> QED
    BY <1>4, <1>6, <2>1, <2>2 DEF Verdict, t
<1>7. CASE ~x /\ FailureThreshold <= consecutiveFail + 1
  <2>1. RunEnds(t, TRUE, SuccessThreshold) = good
        /\ RunEnds(t, FALSE, FailureThreshold) = bad \cup {top}
    BY <1>2, <1>3, <1>7
  <2>2. good \cup (bad \cup {top}) = (good \cup bad) \cup {top}
    OBVIOUS
  <2> QED
    BY <1>4, <1>5, <1>7, <2>1, <2>2 DEF Verdict, t
<1>8. CASE ~(x /\ SuccessThreshold <= consecutiveOK + 1)
           /\ ~(~x /\ FailureThreshold <= consecutiveFail + 1)
  <2>1. RunEnds(t, TRUE, SuccessThreshold) = good /\ RunEnds(t, FALSE, FailureThreshold) = bad
    BY <1>2, <1>3, <1>8
  <2> QED
    BY <1>8, <2>1 DEF Verdict, t, good, bad
<1> QED
  BY <1>6, <1>7, <1>8 DEF t

(* The history gains an outage exactly if the verdict turns unhealthy. *)
Outages(s) == {i \in 1..Len(s) : /\ Verdict(SubSeq(s, 1, i - 1)) = "healthy"
                                 /\ Verdict(SubSeq(s, 1, i)) = "unhealthy"}

LEMMA OutagesAppend ==
  ASSUME NEW S, NEW s \in Seq(S), NEW x \in S
  PROVE  LET t == Append(s, x)
             turns == Verdict(s) = "healthy" /\ Verdict(t) = "unhealthy"
         IN  Cardinality(Outages(t)) = Cardinality(Outages(s)) + (IF turns THEN 1 ELSE 0)
<1> DEFINE t     == Append(s, x)
           turns == Verdict(s) = "healthy" /\ Verdict(t) = "unhealthy"
<1>1. /\ Len(t) = Len(s) + 1 /\ Len(s) \in Nat
      /\ SubSeq(t, 1, Len(s) + 1) = t
      /\ \A i \in 0..Len(s) : SubSeq(t, 1, i) = SubSeq(s, 1, i)
      /\ SubSeq(s, 1, Len(s)) = s
  BY AppendFacts
<1> HIDE DEF t
<1>2. ASSUME NEW i \in 1..Len(s) PROVE i \in Outages(t) <=> i \in Outages(s)
  <2>1. i \in 1..Len(t) /\ i - 1 \in 0..Len(s) /\ i \in 0..Len(s)
    BY <1>1
  <2>2. SubSeq(t, 1, i - 1) = SubSeq(s, 1, i - 1) /\ SubSeq(t, 1, i) = SubSeq(s, 1, i)
    BY <1>1, <2>1
  <2> QED
    BY <2>1, <2>2, Zenon DEF Outages
<1>3. Len(s) + 1 \in Outages(t) <=> turns
  <2>1. Len(s) + 1 - 1 = Len(s) /\ Len(s) \in 0..Len(s) /\ Len(s) + 1 \in 1..Len(t)
    BY <1>1
  <2>2. SubSeq(t, 1, Len(s) + 1 - 1) = s
    BY <1>1, <2>1
  <2> QED
    <3>1. Len(s) + 1 \in Outages(t) <=>
            /\ Len(s) + 1 \in 1..Len(t)
            /\ Verdict(SubSeq(t, 1, Len(s) + 1 - 1)) = "healthy"
            /\ Verdict(SubSeq(t, 1, Len(s) + 1)) = "unhealthy"
      BY DEF Outages
    <3> QED
      BY <1>1, <2>1, <2>2, <3>1, Zenon
<1>4. Outages(s) \subseteq 1..Len(s) /\ Outages(t) \subseteq 1..(Len(s) + 1)
  BY <1>1 DEF Outages
<1>5. Outages(t) = Outages(s) \cup (IF turns THEN {Len(s) + 1} ELSE {})
  BY <1>1, <1>2, <1>3, <1>4
<1>6. IsFiniteSet(Outages(s)) /\ Cardinality(Outages(s)) \in Nat
  <2>1. IsFiniteSet(1..Len(s))
    BY <1>1, FS_Interval
  <2>2. IsFiniteSet(Outages(s))
    BY <1>4, <2>1, FS_Subset
  <2> QED
    BY <2>2, FS_CardinalityType
<1>7. Len(s) + 1 \notin Outages(s)
  BY <1>1, <1>4
<1>8. Cardinality(Outages(s) \cup {Len(s) + 1}) = Cardinality(Outages(s)) + 1
  BY <1>6, <1>7, FS_AddElement
<1>9. CASE turns
  BY <1>5, <1>8, <1>9 DEF t
<1>10. CASE ~turns
  <2>1. Outages(t) = Outages(s)
    BY <1>5, <1>10
  <2> QED
    BY <1>6, <1>10, <2>1 DEF t
<1> QED
  BY <1>9, <1>10

LEMMA CheckerInvInit == CheckerInit => CheckerInv
<1> SUFFICES ASSUME CheckerInit PROVE CheckerInv
  OBVIOUS
<1>1. CheckerTypeOK
  <2> USE DEF CheckerInit
  <2>1. /\ check \in [success : SuccessThresholds, failure : FailureThresholds, delay : BOOLEAN]
        /\ stopped \in BOOLEAN /\ cancelled \in BOOLEAN
    OBVIOUS
  <2>2. /\ thread \in {"new", "delay", "loop", "probing", "ended"}
        /\ task \in {"waiting", "stopped", "untracked"}
        /\ status \in {"unknown", "healthy", "unhealthy"}
        /\ consecutiveOK \in Nat /\ consecutiveFail \in Nat
        /\ reports \in Nat /\ spawned \in Nat
    OBVIOUS
  <2>3. results \in Seq(BOOLEAN)
    OBVIOUS
  <2> QED
    BY <2>1, <2>2, <2>3 DEF CheckerTypeOK
<1>2. results = <<>> /\ Len(results) = 0 /\ consecutiveOK = 0 /\ consecutiveFail = 0
  BY DEF CheckerInit
<1>3. CountersMeasureRuns
  BY <1>2 DEF CountersMeasureRuns, LastRun
<1>4. RunEnds(results, TRUE, SuccessThreshold) = {} /\ RunEnds(results, FALSE, FailureThreshold) = {}
  BY <1>1, <1>2, ThresholdsArePositive DEF RunEnds
<1>5. StatusIsVerdict
  BY <1>4 DEF StatusIsVerdict, Verdict, CheckerInit
<1>6. 1..Len(results) = {}
  BY <1>2
<1>7. {i \in 1..Len(results) : /\ Verdict(SubSeq(results, 1, i - 1)) = "healthy"
                               /\ Verdict(SubSeq(results, 1, i)) = "unhealthy"} = {}
  BY <1>6
<1>8. OneReportPerOutage
  BY <1>7, FS_EmptySet DEF OneReportPerOutage, CheckerInit
<1> QED
  BY <1>1, <1>3, <1>5, <1>8 DEF CheckerInv

LEMMA CheckerInvStep ==
  ASSUME CheckerInv, [CheckerNext]_checkerVars
  PROVE  CheckerInv'
<1>0. CheckerTypeOK /\ CountersMeasureRuns /\ StatusIsVerdict /\ OneReportPerOutage
  BY DEF CheckerInv
<1>1. /\ results \in Seq(BOOLEAN) /\ Len(results) \in Nat
      /\ consecutiveOK \in Nat /\ consecutiveFail \in Nat /\ spawned \in Nat /\ reports \in Nat
      /\ LastRun(results, consecutiveOK, TRUE) /\ LastRun(results, consecutiveFail, FALSE)
      /\ SuccessThreshold \in Nat \ {0} /\ FailureThreshold \in Nat \ {0}
  BY <1>0, ThresholdsArePositive, CounterTypes DEF CountersMeasureRuns
<1> USE DEF checkerVars, statusVars
<1>2. CheckerNext \/ UNCHANGED checkerVars
  OBVIOUS
<1>3. check' = check
  BY <1>2 DEF CheckerNext, Begin, DelayOver, Tick,
              Leave, ProbeReturns, Succeeds, Fails, Report, Stop, Forget, Cancel
<1>4. SuccessThreshold' = SuccessThreshold /\ FailureThreshold' = FailureThreshold
  BY <1>3 DEF SuccessThreshold, FailureThreshold
<1>5. \A r : Verdict(r)' = Verdict(r)
  BY <1>4 DEF Verdict
<1>6. ASSUME NEW x \in BOOLEAN, results' = Append(results, x),
             IF x THEN consecutiveOK' = consecutiveOK + 1 /\ consecutiveFail' = 0
                  ELSE consecutiveOK' = 0 /\ consecutiveFail' = consecutiveFail + 1
      PROVE  /\ results' \in Seq(BOOLEAN)
             /\ CountersMeasureRuns'
             /\ Verdict(results') =
                  IF x /\ SuccessThreshold <= consecutiveOK + 1 THEN "healthy"
                  ELSE IF ~x /\ FailureThreshold <= consecutiveFail + 1 THEN "unhealthy"
                  ELSE status
             /\ Cardinality(Outages(results')) =
                  spawned + (IF /\ status = "healthy"
                                /\ ~x /\ FailureThreshold <= consecutiveFail + 1
                               THEN 1 ELSE 0)
  <2>1. results' \in Seq(BOOLEAN)
    BY <1>1, <1>6
  <2>2. /\ LastRun(results, consecutiveOK, TRUE)
        /\ LastRun(results, consecutiveFail, FALSE)
    BY <1>0 DEF CountersMeasureRuns
  <2>3. ASSUME NEW r, NEW n \in Nat, LastRun(results, n, r)
        PROVE  LastRun(results', IF x = r THEN n + 1 ELSE 0, r)
    <3>1. 1 \in Nat \ {0}
      OBVIOUS
    <3> QED
      BY <1>1, <1>6, <2>3, <3>1, RunEndsAppend
  <2>4. CountersMeasureRuns'
    <3>1. CASE x
      <4>1. LastRun(results', consecutiveOK + 1, TRUE) /\ LastRun(results', 0, FALSE)
        BY <1>1, <2>2, <2>3, <3>1, Zenon
      <4> QED
        BY <1>6, <3>1, <4>1 DEF CountersMeasureRuns
    <3>2. CASE ~x
      <4>1. LastRun(results', 0, TRUE) /\ LastRun(results', consecutiveFail + 1, FALSE)
        BY <1>1, <2>2, <2>3, <3>2, Zenon
      <4> QED
        BY <1>6, <3>2, <4>1 DEF CountersMeasureRuns
    <3> QED
      BY <3>1, <3>2
  <2>5. Verdict(results') =
                  IF x /\ SuccessThreshold <= consecutiveOK + 1 THEN "healthy"
                  ELSE IF ~x /\ FailureThreshold <= consecutiveFail + 1 THEN "unhealthy"
                  ELSE status
    BY <1>0, <1>6, VerdictAppend, Zenon DEF StatusIsVerdict
  <2>6. Cardinality(Outages(results)) = spawned
    BY <1>0 DEF OneReportPerOutage, Outages
  <2>7. Cardinality(Outages(results')) =
          spawned + (IF Verdict(results) = "healthy" /\ Verdict(results') = "unhealthy"
                       THEN 1 ELSE 0)
    BY <1>1, <1>6, <2>6, OutagesAppend
  <2>8. Verdict(results) = "healthy" /\ Verdict(results') = "unhealthy" <=>
          status = "healthy" /\ ~x /\ FailureThreshold <= consecutiveFail + 1
    BY <1>0, <2>5, Zenon DEF StatusIsVerdict
  <2> QED
    BY <2>1, <2>4, <2>5, <2>7, <2>8
<1>7. ASSUME UNCHANGED <<status, consecutiveOK, consecutiveFail, results, spawned>>
      PROVE  CountersMeasureRuns' /\ StatusIsVerdict' /\ OneReportPerOutage'
  <2>1. CountersMeasureRuns'
    BY <1>0, <1>7 DEF CountersMeasureRuns
  <2>2. StatusIsVerdict'
    BY <1>0, <1>5, <1>7 DEF StatusIsVerdict
  <2>3. OneReportPerOutage'
    BY <1>0, <1>5, <1>7 DEF OneReportPerOutage
  <2> QED
    BY <2>1, <2>2, <2>3
<1>8. ASSUME Succeeds
      PROVE  /\ CountersMeasureRuns' /\ StatusIsVerdict' /\ OneReportPerOutage'
             /\ results' \in Seq(BOOLEAN)
  <2>1. /\ results' \in Seq(BOOLEAN)
        /\ CountersMeasureRuns'
        /\ Verdict(results') =
             IF SuccessThreshold <= consecutiveOK + 1 THEN "healthy" ELSE status
        /\ Cardinality(Outages(results')) = spawned
    <3>1. /\ results' = Append(results, TRUE)
          /\ consecutiveOK' = consecutiveOK + 1 /\ consecutiveFail' = 0
      BY <1>8 DEF Succeeds
    <3>2. CountersMeasureRuns' /\ results' \in Seq(BOOLEAN)
      BY <1>6, <3>1, Zenon
    <3>3. Verdict(results') =
             IF SuccessThreshold <= consecutiveOK + 1 THEN "healthy" ELSE status
      BY <1>6, <3>1, Zenon
    <3>4. Cardinality(Outages(results')) = spawned + 0
      BY <1>6, <3>1, Zenon
    <3> QED
      BY <1>1, <3>2, <3>3, <3>4
  <2>2. StatusIsVerdict'
    <3>1. consecutiveOK' = consecutiveOK + 1
          /\ status' = IF consecutiveOK' >= SuccessThreshold THEN "healthy" ELSE status
      BY <1>8 DEF Succeeds
    <3>2. status' = Verdict(results')
      BY <1>1, <2>1, <3>1
    <3> QED
      BY <1>5, <3>2 DEF StatusIsVerdict
  <2>3. OneReportPerOutage'
    BY <1>5, <1>8, <2>1 DEF OneReportPerOutage, Outages, Succeeds
  <2> QED
    BY <2>1, <2>2, <2>3
<1>9. ASSUME Fails
      PROVE  /\ CountersMeasureRuns' /\ StatusIsVerdict' /\ OneReportPerOutage'
             /\ results' \in Seq(BOOLEAN)
  <2>1. /\ results' \in Seq(BOOLEAN)
        /\ CountersMeasureRuns'
        /\ Verdict(results') =
             IF FailureThreshold <= consecutiveFail + 1 THEN "unhealthy" ELSE status
        /\ Cardinality(Outages(results')) =
             spawned + (IF status = "healthy" /\ FailureThreshold <= consecutiveFail + 1
                          THEN 1 ELSE 0)
    BY <1>1, <1>6, <1>9 DEF Fails
  <2>2. /\ consecutiveFail' = consecutiveFail + 1
        /\ IF consecutiveFail' >= FailureThreshold
             THEN status' = "unhealthy"
                  /\ spawned' = spawned + (IF status = "healthy" THEN 1 ELSE 0)
             ELSE status' = status /\ spawned' = spawned
    BY <1>9 DEF Fails
  <2>3. status' = Verdict(results') /\ spawned' = Cardinality(Outages(results'))
    BY <1>1, <2>1, <2>2
  <2>4. StatusIsVerdict'
    BY <1>5, <2>3 DEF StatusIsVerdict
  <2>5. OneReportPerOutage'
    BY <1>5, <2>3 DEF OneReportPerOutage, Outages
  <2> QED
    BY <2>1, <2>4, <2>5
<1>10. /\ thread' \in {"new", "delay", "loop", "probing", "ended"}
       /\ task' \in {"waiting", "stopped", "untracked"}
       /\ stopped' \in BOOLEAN /\ cancelled' \in BOOLEAN
  BY <1>0, <1>2 DEF CheckerTypeOK, CheckerNext, Begin, DelayOver, Tick,
              Leave, ProbeReturns, Report, Stop, Forget, Cancel
<1>11. /\ status' \in {"unknown", "healthy", "unhealthy"}
       /\ consecutiveOK' \in Nat /\ consecutiveFail' \in Nat
       /\ reports' \in Nat /\ spawned' \in Nat
  <2>1. status \in {"unknown", "healthy", "unhealthy"}
    BY <1>0 DEF CheckerTypeOK
  <2>2. CASE Succeeds
    BY <1>1, <2>1, <2>2 DEF Succeeds
  <2>3. CASE Fails
    BY <1>1, <2>1, <2>3 DEF Fails
  <2>4. CASE Report
    BY <1>1, <2>1, <2>4 DEF Report
  <2>5. CASE UNCHANGED statusVars
    BY <1>1, <2>1, <2>5
  <2> QED
    BY <1>2, <2>2, <2>3, <2>4, <2>5 DEF CheckerNext, Begin, DelayOver, Tick, Leave,
         ProbeReturns, Stop, Forget, Cancel
<1>12. /\ results' \in Seq(BOOLEAN)
       /\ CountersMeasureRuns' /\ StatusIsVerdict' /\ OneReportPerOutage'
  <2>1. CASE UNCHANGED <<status, consecutiveOK, consecutiveFail, results, spawned>>
    BY <1>1, <1>7, <2>1
  <2> QED
    BY <1>2, <1>8, <1>9, <2>1 DEF CheckerNext, Begin, DelayOver, Tick, Leave,
         ProbeReturns, Report, Stop, Forget, Cancel
<1>13. CheckerTypeOK'
  <2>1. check' \in [success : SuccessThresholds, failure : FailureThresholds, delay : BOOLEAN]
    BY <1>0, <1>3 DEF CheckerTypeOK
  <2> QED
    BY <1>10, <1>11, <1>12, <2>1 DEF CheckerTypeOK
<1> QED
  BY <1>12, <1>13 DEF CheckerInv

LEMMA AlwaysCheckerInv == CheckerSpec => []CheckerInv
<1>1. CheckerInv /\ [CheckerNext]_checkerVars => CheckerInv'
  BY CheckerInvStep
<1> QED
  BY <1>1, CheckerInvInit, PTL DEF CheckerSpec

(* Every variable of the liveness checker keeps its type, for any          *)
(* thresholds.                                                             *)
THEOREM CheckerTypeCorrect == CheckerSpec => []CheckerTypeOK
<1>1. CheckerInv => CheckerTypeOK
  BY DEF CheckerInv
<1> QED
  BY <1>1, AlwaysCheckerInv, PTL

(* For any thresholds, defaults included, and any number of probes: the    *)
(* status that updateStatus keeps with two counters is the verdict that    *)
(* the last long enough run of equal results gives.                        *)
THEOREM CountersGiveVerdict == CheckerSpec => []StatusIsVerdict
<1>1. CheckerInv => StatusIsVerdict
  BY DEF CheckerInv
<1> QED
  BY <1>1, AlwaysCheckerInv, PTL

(* The onUnhealthy callback runs once for each time the verdict turned     *)
(* from healthy to unhealthy, whatever probes follow.                      *)
THEOREM OutagesAreReportedOnce == CheckerSpec => []OneReportPerOutage
<1>1. CheckerInv => OneReportPerOutage
  BY DEF CheckerInv
<1> QED
  BY <1>1, AlwaysCheckerInv, PTL

(* The two parts side by side, as the run has them: each keeps the         *)
(* invariant that its theorems above follow from, whichever is under study.*)
THEOREM WorkerInvariance == MCSpec => []AllInv
<1>1. MCInit => AllInv
  BY CheckerInvInit, ShutdownInvInit DEF MCInit, AllInv
<1>2. AllInv /\ [MCNext]_mcvars => AllInv'
  <2>1. [MCNext]_mcvars => [CheckerNext]_checkerVars /\ [ShutdownNext]_shutdownVars
    BY DEF MCNext, mcvars
  <2> QED
    BY <2>1, CheckerInvStep, ShutdownInvStep DEF AllInv
<1> QED
  BY <1>1, <1>2, PTL DEF MCSpec
=============================================================================
