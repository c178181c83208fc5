------------------------------ MODULE BatchApply ------------------------------
(***************************************************************************)
(* run_batch of upgate-cli: scan, plan and the non-interactive apply over  *)
(* several managers.  The managers are the jobs of the StoppablePool that  *)
(* this module extends: planned in parallel, with an interrupted manager   *)
(* raising the stop flag; the caller then goes through the results in      *)
(* order.  For scan and plan it only builds the table; for apply it writes *)
(* the snapshot and runs the commands of one prepared manager after the    *)
(* other.                                                                  *)
(*                                                                         *)
(* A job returns "skip" (mode or executable missing), "ready" (its table,  *)
(* or a resolved execution plan), "failed" or "interrupted".  The commands *)
(* of a manager are counted; what each selects is in InteractiveApply,     *)
(* which shares execute_commands.                                          *)
(***************************************************************************)
EXTENDS StoppablePool

CONSTANT
  MaxCommands     (* bound: the most commands one manager has                *)

\* What a manager's job returns, and should_stop_after_result: the manager's
\* result is an interruption.  Nobody but a job raises the flag.
ManagerResults == {"skip", "ready", "failed", "interrupted"}
StopOnInterruption == {"interrupted"}

ASSUME BatchAssumption ==
  /\ Results = ManagerResults
  /\ StopResults = StopOnInterruption
  /\ ~Cancellable
  /\ MayPanic
  /\ MaxCommands \in Nat

VARIABLES
  command,    (* "report" for scan and plan, "apply"                         *)
  dryRun,     (* the process runner skips mutations                          *)
  stage,      (* "start", "plan", "snapshot", "results" or "commands"        *)
  at,         (* the result being processed                                  *)
  left,       (* commands still to run for that manager                      *)
  results,    (* per manager, what its commands did                          *)
  hadError,   (* had_error                                                   *)
  rows,       (* per manager, what the table shows                           *)
  exit        (* how run_batch returned, "none" before it has                *)

poolVars == vars
inputVars == <<command, dryRun>>
batchVars == <<poolVars, inputVars, stage, at, left, results, hadError, rows, exit>>

\* The jobs of the pool: the k-th job is the k-th manager.
Managers == Jobs

BatchInit ==
  /\ Init
  /\ command \in {"report", "apply"}
  /\ dryRun \in BOOLEAN
  /\ stage = "start"
  /\ at = 1
  /\ left = 0
  /\ results = [m \in Managers |-> <<>>]
  /\ hadError = FALSE
  /\ rows = [m \in Managers |-> "none"]
  /\ exit = "none"

Exit(how) ==
  /\ exit' = how
  /\ UNCHANGED <<poolVars, inputVars, stage, at, left, results, hadError, rows>>

\* Applying the overrides, or resolving and probing some manager, fails.
Rejected == stage = "start" /\ Exit("error")

\* any_runnable_manager: there is nothing to apply.
NothingRunnable == stage = "start" /\ command = "apply" /\ Exit("ok")

Start ==
  /\ stage = "start"
  /\ stage' = "plan"
  /\ UNCHANGED <<poolVars, inputVars, at, left, results, hadError, rows, exit>>

Plan ==
  /\ stage = "plan"
  /\ Running
  /\ UNCHANGED <<inputVars, stage, at, left, results, hadError, rows, exit>>

\* `?` on the pool's error; a panic of the scope unwinds through the caller.
PlanningBroke ==
  /\ stage = "plan"
  /\ \/ outcome = "error" /\ Exit("error")
     \/ outcome = "panic" /\ Exit("panic")

PlannedTooEarly ==
  /\ stage = "plan"
  /\ stage' = IF command = "apply" THEN "snapshot" ELSE "results"
  /\ UNCHANGED <<poolVars, inputVars, at, left, results, hadError, rows, exit>>

Planned ==
  /\ stage = "plan"
  /\ outcome = "ok"
  /\ stage' = IF command = "apply" THEN "snapshot" ELSE "results"
  /\ UNCHANGED <<poolVars, inputVars, at, left, results, hadError, rows, exit>>

\* write_apply_snapshot_for_selections
SnapshotWritten ==
  /\ stage = "snapshot"
  /\ stage' = "results"
  /\ UNCHANGED <<poolVars, inputVars, at, left, results, hadError, rows, exit>>

SnapshotFails == stage = "snapshot" /\ Exit("error")

-----------------------------------------------------------------------------
(* The results in input order: the k-th result is the k-th manager's.        *)

Current(result) == stage = "results" /\ at <= Len(returned) /\ returned[at] = result

NextResult == at' = at + 1

SkipForever ==
  /\ Current("skip")
  /\ UNCHANGED batchVars

Skip ==
  /\ Current("skip")
  /\ NextResult
  /\ UNCHANGED <<poolVars, inputVars, stage, left, results, hadError, rows, exit>>

ManagerError ==
  /\ hadError' = TRUE
  /\ rows' = [rows EXCEPT ![at] = "error"]
  /\ NextResult

Failed ==
  /\ Current("failed")
  /\ ManagerError
  /\ UNCHANGED <<poolVars, inputVars, stage, left, results, exit>>

SkipInterrupted ==
  /\ Current("interrupted")
  /\ NextResult
  /\ UNCHANGED <<poolVars, inputVars, stage, left, results, hadError, rows, exit>>

Interrupted == Current("interrupted") /\ Exit("interrupted")

ShowOutput ==
  /\ command = "report"
  /\ Current("ready")
  /\ rows' = [rows EXCEPT ![at] = "table"]
  /\ NextResult
  /\ UNCHANGED <<poolVars, inputVars, stage, left, results, hadError, exit>>

\* execute_prepared_batch_apply: the adapter builds the manager's commands ...
BuildCommands ==
  /\ command = "apply"
  /\ Current("ready")
  /\ left' \in 0..MaxCommands
  /\ stage' = "commands"
  /\ UNCHANGED <<poolVars, inputVars, at, results, hadError, rows, exit>>

BuildFails ==
  /\ command = "apply"
  /\ Current("ready")
  /\ ManagerError
  /\ UNCHANGED <<poolVars, inputVars, stage, left, results, exit>>

BuildInterrupted ==
  /\ command = "apply"
  /\ Current("ready")
  /\ Exit("interrupted")

\* ... and execute_commands runs them, going on after a failure.
CommandsLeft == left > 0

CommandEnds(status) ==
  /\ stage = "commands"
  /\ CommandsLeft
  /\ left' = left - 1
  /\ results' = [results EXCEPT ![at] = Append(@, status)]

RunCommand ==
  /\ \E status \in IF dryRun THEN {"skipped"} ELSE {"succeeded", "failed"} :
       CommandEnds(status)
  /\ UNCHANGED <<poolVars, inputVars, stage, at, hadError, rows, exit>>

CommandInterrupted ==
  /\ ~dryRun
  /\ CommandEnds("uncertain")
  /\ exit' = "interrupted"
  /\ UNCHANGED <<poolVars, inputVars, stage, at, hadError, rows>>

\* execution_report_has_failures over the manager's whole report.
LastHasFailed(report) == report # <<>> /\ report[Len(report)] = "failed"
HasFailures(report) == \E k \in 1..Len(report) : report[k] = "failed"

CommandsDone ==
  /\ stage = "commands"
  /\ left = 0
  /\ hadError' = (hadError \/ HasFailures(results[at]))
  /\ rows' = [rows EXCEPT ![at] = "table"]
  /\ stage' = "results"
  /\ NextResult
  /\ UNCHANGED <<poolVars, inputVars, left, results, exit>>

Render ==
  /\ stage = "results"
  /\ at = Len(returned) + 1
  /\ Exit(IF hadError THEN "failed" ELSE "ok")

CallerStep ==
  \/ Rejected
  \/ NothingRunnable
  \/ Start
  \/ PlanningBroke
  \/ Planned
  \/ SnapshotWritten
  \/ SnapshotFails
  \/ Skip
  \/ Failed
  \/ Interrupted
  \/ ShowOutput
  \/ BuildCommands
  \/ BuildFails
  \/ BuildInterrupted
  \/ RunCommand
  \/ CommandInterrupted
  \/ CommandsDone
  \/ Render

Finished == exit # "none" /\ UNCHANGED batchVars

BatchNext == (exit = "none" /\ (Plan \/ CallerStep)) \/ Finished

BatchSpec == BatchInit /\ [][BatchNext]_batchVars

\* The caller never waits for anything but the pool and its child processes,
\* and the pool's threads are scheduled fairly.
BatchFairSpec ==
  /\ BatchSpec
  /\ WF_batchVars(exit = "none" /\ CallerStep)
  /\ \A w \in Workers : WF_batchVars(stage = "plan" /\ WorkerStep(w)
                                       /\ UNCHANGED <<inputVars, stage, at, left, results,
                                                      hadError, rows, exit>>)
  /\ WF_batchVars(stage = "plan" /\ Return
                    /\ UNCHANGED <<inputVars, stage, at, left, results, hadError, rows, exit>>)

-----------------------------------------------------------------------------
(* Properties *)

Ran(m) == results[m] # <<>>

\* A manager's commands run only once every planning thread has ended, and only
\* if neither it nor any manager before it was interrupted while planning.
RunsOnlyWhatWasPlanned ==
  \A m \in Managers : Ran(m) =>
    /\ command = "apply"
    /\ Ended
    /\ m <= Len(returned) /\ returned[m] = "ready"
    /\ \A k \in 1..m : returned[k] # "interrupted"

\* When the table is printed every manager was planned: the managers that an
\* interruption kept the pool from starting are never taken for managers with
\* nothing to do.
NobodyForgotten ==
  exit \in {"ok", "failed"} /\ stage # "start" =>
    /\ Len(returned) = JobCount
    /\ \A m \in Managers :
         /\ returned[m] # "interrupted"
         /\ rows[m] = "none" <=> returned[m] = "skip"
         /\ returned[m] = "failed" => rows[m] = "error"

\* The program succeeds exactly when no manager failed to plan, to build or to
\* run any of its commands.
SuccessMeansAll ==
  exit \in {"ok", "failed"} =>
    (exit = "ok" <=>
       \A m \in Managers :
         /\ rows[m] # "error"
         /\ \A k \in 1..Len(results[m]) : results[m][k] # "failed")

\* The program ends.
Terminates == <>(exit # "none")
=============================================================================
