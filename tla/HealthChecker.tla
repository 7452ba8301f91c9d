---------------------------- MODULE HealthChecker ----------------------------
(***************************************************************************)
(* The liveness checker of one task: the goroutine of Checker.Start, the   *)
(* executor that stops it when the container has ended, and the goroutines *)
(* of the onUnhealthy callback.                                            *)
(*                                                                         *)
(* A probe (HTTP, TCP or exec) is its result; a failed lookup of the       *)
(* container's address is a failure. The ticker's channel holds one tick,  *)
(* so that after a probe the next tick may be there already.               *)
(***************************************************************************)
EXTENDS Integers, Sequences, FiniteSetsExt

CONSTANTS SuccessThresholds, FailureThresholds,   \* as configured, 0 for none
          MaxProbes   \* bound: later results are left out

ASSUME CheckerAssumption ==
  /\ SuccessThresholds \subseteq Nat /\ FailureThresholds \subseteq Nat
  /\ MaxProbes \in Nat

VARIABLES check,    \* rigid: the thresholds, and if there is an initial delay
          thread,   \* where Start is
          stopped,  \* Checker.stopped, and stopChan closed
          cancelled,  \* is the context of the execution over
          status, consecutiveOK, consecutiveFail,
          task,     \* where ExecuteTask is: its defers run one by one
          reports,  \* onUnhealthy goroutines that have not looked up the task
          results,  \* history: of all probes
          spawned   \* history: number of onUnhealthy goroutines
statusVars  == <<status, consecutiveOK, consecutiveFail, reports, results, spawned>>
checkerVars == <<check, thread, stopped, cancelled, task, statusVars>>

(* Thresholds below 1 have defaults. *)
SuccessThreshold == IF check.success <= 0 THEN 1 ELSE check.success
FailureThreshold == IF check.failure <= 0 THEN 3 ELSE check.failure

(* newCheckerWithClient, and ExecuteTask up to WaitContainer *)
CheckerInit ==
  /\ check \in [success : SuccessThresholds, failure : FailureThresholds, delay : BOOLEAN]
  /\ thread = "new" /\ task = "waiting"
  /\ stopped = FALSE /\ cancelled = FALSE
  /\ status = "unknown" /\ consecutiveOK = 0 /\ consecutiveFail = 0
  /\ reports = 0 /\ results = <<>> /\ spawned = 0

-----------------------------------------------------------------------------
(* Start. The goroutine may come to run after Stop. *)
Begin ==
  /\ thread = "new"
  /\ thread' = IF stopped THEN "ended" ELSE IF check.delay THEN "delay" ELSE "loop"
  /\ UNCHANGED <<check, stopped, cancelled, task, statusVars>>

DelayOver ==
  /\ thread = "delay"
  /\ thread' = "loop"
  /\ UNCHANGED <<check, stopped, cancelled, task, statusVars>>

(* Of the cases of select that are ready one is taken at random: with a    *)
(* tick in the channel a probe may be made after Stop.                     *)
Tick ==
  /\ thread = "loop"
  /\ thread' = "probing"
  /\ UNCHANGED <<check, stopped, cancelled, task, statusVars>>

(* Mutant: only the delay is interrupted. *)
LeaveDelay ==
  /\ thread = "delay"
  /\ stopped \/ cancelled
  /\ thread' = "ended"
  /\ UNCHANGED <<check, stopped, cancelled, task, statusVars>>

Leave ==
  /\ thread \in {"delay", "loop"}
  /\ stopped \/ cancelled
  /\ thread' = "ended"
  /\ UNCHANGED <<check, stopped, cancelled, task, statusVars>>

(* updateStatus *)
Succeeds ==
  /\ consecutiveFail' = 0
  /\ consecutiveOK' = consecutiveOK + 1
  /\ status' = IF consecutiveOK' >= SuccessThreshold THEN "healthy" ELSE status
  /\ results' = Append(results, TRUE)
  /\ UNCHANGED <<reports, spawned>>

(* Mutant: a failure does not break a run of successes. *)
FailsWithoutReset ==
  /\ consecutiveFail' = consecutiveFail + 1
  /\ results' = Append(results, FALSE)
  /\ IF consecutiveFail' >= FailureThreshold
       THEN /\ status' = "unhealthy"
            /\ reports' = reports + (IF status = "healthy" THEN 1 ELSE 0)
            /\ spawned' = spawned + (IF status = "healthy" THEN 1 ELSE 0)
       ELSE UNCHANGED <<status, reports, spawned>>
  /\ UNCHANGED consecutiveOK

(* Mutant: every change to unhealthy is reported. *)
FailsAlwaysReported ==
  /\ consecutiveOK' = 0
  /\ consecutiveFail' = consecutiveFail + 1
  /\ results' = Append(results, FALSE)
  /\ IF consecutiveFail' >= FailureThreshold
       THEN /\ status' = "unhealthy"
            /\ reports' = reports + (IF status /= "unhealthy" THEN 1 ELSE 0)
            /\ spawned' = spawned + (IF status /= "unhealthy" THEN 1 ELSE 0)
       ELSE UNCHANGED <<status, reports, spawned>>

(* The callback is for a change from healthy to unhealthy. *)
Fails ==
  /\ consecutiveOK' = 0
  /\ consecutiveFail' = consecutiveFail + 1
  /\ results' = Append(results, FALSE)
  /\ IF consecutiveFail' >= FailureThreshold
       THEN /\ status' = "unhealthy"
            /\ reports' = reports + (IF status = "healthy" THEN 1 ELSE 0)
            /\ spawned' = spawned + (IF status = "healthy" THEN 1 ELSE 0)
       ELSE UNCHANGED <<status, reports, spawned>>

(* performCheck *)
ProbeReturns ==
  /\ thread = "probing"
  /\ thread' = "loop"
  /\ IF Len(results) < MaxProbes THEN Succeeds \/ Fails ELSE UNCHANGED statusVars
  /\ UNCHANGED <<check, stopped, cancelled, task>>

-----------------------------------------------------------------------------
(* handleUnhealthyContainer, up to the lookup: it goes on to post "failed" *)
(* if the task is still tracked (TaskLifecycle has the post).              *)
Report ==
  /\ reports > 0
  /\ reports' = reports - 1
  /\ UNCHANGED <<check, thread, stopped, cancelled, task, status, consecutiveOK,
                 consecutiveFail, results, spawned>>

(* The deferred functions of ExecuteTask: Stop, then delete from the maps, *)
(* then cancel of the context.                                             *)
Stop ==
  /\ task = "waiting"
  /\ task' = "stopped"
  /\ stopped' = TRUE
  /\ UNCHANGED <<check, thread, cancelled, statusVars>>

Forget ==
  /\ task = "stopped"
  /\ task' = "untracked"
  /\ UNCHANGED <<check, thread, stopped, cancelled, statusVars>>

(* At the end of ExecuteTask, or after its 30 minutes. *)
Cancel ==
  /\ ~cancelled
  /\ task \in {"waiting", "untracked"}
  /\ cancelled' = TRUE
  /\ UNCHANGED <<check, thread, stopped, task, statusVars>>

CheckerNext ==
  \/ Begin \/ DelayOver \/ Tick \/ Leave \/ ProbeReturns
  \/ Report \/ Stop \/ Forget \/ Cancel

(* A select that finds stopChan closed again and again takes that case,    *)
(* hence the strong fairness; a probe has a timeout or the context.        *)
CheckerFairness ==
  /\ WF_checkerVars(Begin) /\ WF_checkerVars(ProbeReturns)
  /\ SF_checkerVars(Leave)

CheckerSpec == CheckerInit /\ [][CheckerNext]_checkerVars /\ CheckerFairness

-----------------------------------------------------------------------------
CheckerTypeOK ==
  /\ check \in [success : SuccessThresholds, failure : FailureThresholds, delay : BOOLEAN]
  /\ thread \in {"new", "delay", "loop", "probing", "ended"}
  /\ task \in {"waiting", "stopped", "untracked"}
  /\ stopped \in BOOLEAN /\ cancelled \in BOOLEAN
  /\ status \in {"unknown", "healthy", "unhealthy"}
  /\ consecutiveOK \in Nat /\ consecutiveFail \in Nat
  /\ reports \in Nat /\ spawned \in Nat
  /\ results \in Seq(BOOLEAN)

-----------------------------------------------------------------------------
(* The verdict on a sequence of results: the last run of as many equal     *)
(* results as their threshold asks for decides.                            *)
RunEnds(s, result, length) ==
  {i \in length..Len(s) : \A j \in (i - length + 1)..i : s[j] = result}

Verdict(s) ==
  LET good == RunEnds(s, TRUE, SuccessThreshold)
      bad  == RunEnds(s, FALSE, FailureThreshold)
  IN  IF good \cup bad = {} THEN "unknown"
      ELSE IF Max(good \cup bad) \in good THEN "healthy" ELSE "unhealthy"

(* The counters of updateStatus amount to that verdict.                    *)
StatusIsVerdict == status = Verdict(results)

(* The callback runs once for each time the verdict turned from healthy to *)
(* unhealthy; for a container that never was healthy it does not run.      *)
OneReportPerOutage ==
  spawned = Cardinality({i \in 1..Len(results) :
                           /\ Verdict(SubSeq(results, 1, i - 1)) = "healthy"
                           /\ Verdict(SubSeq(results, 1, i)) = "unhealthy"})

(* A checker that is stopped ends, though ticks go on coming and Start may *)
(* not have run yet; so does one whose execution is over.                  *)
CheckerEnds == (stopped \/ cancelled) ~> (thread = "ended")

-----------------------------------------------------------------------------
(* The strengthening that makes the two invariants inductive. *)

(* The last n results are all r, and the one before them is not. *)
LastRun(s, n, r) ==
  /\ n <= Len(s)
  /\ \A j \in (Len(s) - n + 1)..Len(s) : s[j] = r
  /\ n < Len(s) => s[Len(s) - n] /= r

(* The two counters measure how the history of all probes ends. *)
CountersMeasureRuns ==
  LastRun(results, consecutiveOK, TRUE) /\ LastRun(results, consecutiveFail, FALSE)

CheckerInv ==
  CheckerTypeOK /\ CountersMeasureRuns /\ StatusIsVerdict /\ OneReportPerOutage
=============================================================================
