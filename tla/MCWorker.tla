------------------------------ MODULE MCWorker ------------------------------
(***************************************************************************)
(* Two parts of a worker that share no state: the liveness checker of one  *)
(* task, and the shutdown of the process. A behaviour exercises one of     *)
(* them, chosen at the start.                                              *)
(***************************************************************************)
EXTENDS HealthChecker, WorkerShutdown

CONSTANTS t1, p1

OneTask == {t1}
OnePod  == {p1}

VARIABLE focus   \* what is under study
mcvars == <<checkerVars, shutdownVars, focus>>

MCInit ==
  /\ CheckerInit /\ ShutdownInit
  /\ focus \in {"checker", "shutdown"}
  /\ focus = "shutdown" => check = CHOOSE c \in [success : SuccessThresholds,
                                                 failure : FailureThresholds,
                                                 delay : BOOLEAN] : TRUE

(* A checker that has ended, and a process that is gone, do nothing more.  *)
MCNext ==
  /\ \/ focus = "checker"  /\ CheckerNext  /\ UNCHANGED shutdownVars
     \/ focus = "shutdown" /\ ShutdownNext /\ UNCHANGED checkerVars
  /\ UNCHANGED focus

(* The fairness of the two modules, where they are under study.            *)
MCFairness ==
  /\ WF_mcvars(focus = "checker" /\ Begin /\ UNCHANGED <<shutdownVars, focus>>)
  /\ WF_mcvars(focus = "checker" /\ ProbeReturns /\ UNCHANGED <<shutdownVars, focus>>)
  /\ SF_mcvars(focus = "checker" /\ Leave /\ UNCHANGED <<shutdownVars, focus>>)
  /\ WF_mcvars(focus = "shutdown" /\ Timeout /\ UNCHANGED <<checkerVars, focus>>)
  /\ WF_mcvars(focus = "shutdown" /\ Main /\ UNCHANGED <<checkerVars, focus>>)

MCSpec == MCInit /\ [][MCNext]_mcvars /\ MCFairness

(* What the proofs rest on: the counters measure the last runs of results; *)
(* what ran at the signal is past its start, an execution leaves its map   *)
(* when it has disposed of its containers, and main knows from the maps.   *)
AllInv == CheckerInv /\ ShutdownInv
=============================================================================
