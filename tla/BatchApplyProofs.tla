--------------------------- MODULE BatchApplyProofs ---------------------------
(***************************************************************************)
(* What run_batch promises for any number of managers, planning threads    *)
(* and commands: nothing runs before every manager was planned, the table  *)
(* forgets no manager, and success means that nothing failed.  The pool's  *)
(* own invariants come from StoppablePoolProofs.                           *)
(***************************************************************************)
EXTENDS BatchApply, StoppablePoolProofs

-----------------------------------------------------------------------------
(* The invariant *)

Statuses == {"skipped", "succeeded", "failed", "uncertain"}

\* The types of what the caller keeps.
BatchTypes ==
  /\ command \in {"report", "apply"}
  /\ stage \in {"start", "plan", "snapshot", "results", "commands"}
  /\ at \in Nat \ {0}
  /\ left \in 0..MaxCommands
  /\ results \in [Managers -> Seq(Statuses)]
  /\ hadError \in BOOLEAN
  /\ rows \in [Managers -> {"none", "error", "table"}]
  /\ exit \in {"none", "ok", "failed", "interrupted", "error", "panic"}

\* The results are gone through once the pool has returned them, in order; the
\* manager whose commands run is a prepared one.
CallerPlace ==
  /\ stage \in {"start", "plan", "snapshot"} => at = 1
  /\ stage \in {"snapshot", "results", "commands"} => outcome = "ok"
  /\ stage \in {"results", "commands"} => at <= Len(returned) + 1
  /\ stage = "commands" => at <= Len(returned) /\ returned[at] = "ready" /\ command = "apply"

\* What has become of a manager whose result was gone through.
PassedOver(m) ==
  /\ returned[m] \in {"skip", "failed", "ready"}
  /\ returned[m] = "skip" => rows[m] = "none"
  /\ returned[m] = "failed" => rows[m] = "error"
  /\ returned[m] = "ready" => rows[m] # "none"
  /\ results[m] # <<>> => returned[m] = "ready" /\ command = "apply"

\* Nothing has become of the others, except of the one whose commands run.
Untouched(m) ==
  /\ rows[m] = "none"
  /\ (m = at /\ stage = "commands") \/ results[m] = <<>>

Accounts ==
  /\ \A m \in Managers : m < at => PassedOver(m)
  /\ \A m \in Managers : m >= at => Untouched(m)

Wrong(m) == rows[m] = "error" \/ HasFailures(results[m])

\* had_error remembers every manager gone through in which something failed.
Errors == hadError <=> \E m \in Managers : m < at /\ Wrong(m)

\* The ways to return with a table.
Exits ==
  exit \in {"ok", "failed"} =>
    \/ stage = "start" /\ exit = "ok"
    \/ stage = "results" /\ at = Len(returned) + 1 /\ (exit = "ok" <=> ~hadError)

PoolInv == IndInv /\ ReturnOK /\ cancelled = FALSE

BatchInv ==
  /\ PoolInv
  /\ BatchTypes
  /\ CallerPlace
  /\ Accounts
  /\ Errors
  /\ Exits
-----------------------------------------------------------------------------
(* The pool *)

\* Planning is a step of the pool, and nothing else the caller does touches it.
LEMMA PoolKeeps ==
  ASSUME PoolInv, Running \/ UNCHANGED poolVars
  PROVE  PoolInv'
<1>1. [Next]_vars
  BY DEF Next, poolVars
<1>2. IndInv' /\ ReturnOK'
  BY <1>1, StepInv, ReturnInv DEF PoolInv
<1>3. cancelled' = FALSE
  BY BatchAssumption
     DEF PoolInv, poolVars, vars, Running, Cancel, Return, WorkerStep,
         CheckFlag, Pop, PopNothing, JobReturns, JobPanics, RaiseFlag, Send
<1> QED
  BY <1>2, <1>3 DEF PoolInv

\* When the pool has returned its results, its threads have ended and there is a
\* result per manager up to the first that was not planned; every manager was
\* planned unless one of the results is an interruption.
LEMMA PoolReturned ==
  ASSUME PoolInv, outcome = "ok"
  PROVE  /\ Ended
         /\ Len(returned) \in 0..JobCount
         /\ (\A k \in 1..Len(returned) : returned[k] # "interrupted") => Len(returned) = JobCount
<1>1. PrefixReturned
  BY PrefixByInv DEF PoolInv
<1>2. next \in 1..(JobCount + 1) /\ Ended
  BY DEF PoolInv, IndInv, Types, ReturnOK
<1> QED
  BY <1>1, <1>2, ConstantsAssumption, BatchAssumption DEF PrefixReturned, PoolInv, StopOnInterruption

-----------------------------------------------------------------------------
(* Every step keeps the invariant *)

\* Nothing has been done at the start.
LEMMA BatchStarts == BatchInit => BatchInv
<1> SUFFICES ASSUME BatchInit PROVE BatchInv
  OBVIOUS
<1>1. PoolInv
  BY InitInv, InitReturn DEF BatchInit, PoolInv, Init
<1>2. BatchTypes
  <2>1. <<>> \in Seq(Statuses) /\ 0 \in 0..MaxCommands
    BY BatchAssumption
  <2>2. /\ results \in [Managers -> Seq(Statuses)]
        /\ rows \in [Managers -> {"none", "error", "table"}]
    BY <2>1 DEF BatchInit
  <2>3. at \in Nat \ {0}
    BY DEF BatchInit
  <2>4. left \in 0..MaxCommands
    BY <2>1 DEF BatchInit
  <2>5. hadError \in BOOLEAN
    BY DEF BatchInit
  <2> QED
    BY <2>2, <2>3, <2>4, <2>5 DEF BatchInit, BatchTypes
<1>3. CallerPlace /\ Accounts /\ Exits
  BY DEF BatchInit, CallerPlace, Accounts, Untouched, Exits, Managers, Jobs
<1>4. Errors
  BY DEF BatchInit, Errors, Managers, Jobs
<1> QED
  BY <1>1, <1>2, <1>3, <1>4 DEF BatchInv

\* Returning leaves everything else alone.
LEMMA ExitKeeps ==
  ASSUME BatchInv, NEW how \in {"ok", "failed", "interrupted", "error", "panic"}, Exit(how),
         how \in {"ok", "failed"} =>
           \/ stage = "start" /\ how = "ok"
           \/ stage = "results" /\ at = Len(returned) + 1 /\ (how = "ok" <=> ~hadError)
  PROVE  BatchInv'
<1>1. PoolInv'
  BY PoolKeeps DEF Exit, BatchInv
<1>2. BatchTypes' /\ CallerPlace' /\ Exits'
  BY DEF Exit, BatchInv, BatchTypes, CallerPlace, Exits, poolVars, vars, inputVars
<1>3. Accounts' /\ Errors'
  BY DEF Exit, BatchInv, Accounts, PassedOver, Untouched, Errors, Wrong, poolVars, vars, inputVars
<1> QED
  BY <1>1, <1>2, <1>3 DEF BatchInv

\* Steps of the caller before it goes through the results, and of the pool.
LEMMA PreparingKeeps ==
  ASSUME BatchInv, exit = "none",
         Start \/ Plan \/ Planned \/ SnapshotWritten
  PROVE  BatchInv'
<1>1. PoolInv'
  BY PoolKeeps DEF BatchInv, Start, Plan, Planned, SnapshotWritten
<1>2. /\ at = 1 /\ at' = 1 /\ stage # "commands" /\ stage' # "commands"
      /\ UNCHANGED <<command, left, results, hadError, rows, exit>>
  BY DEF BatchInv, CallerPlace, BatchTypes, Start, Plan, Planned, SnapshotWritten, inputVars
<1>3. BatchTypes' /\ Exits'
  BY <1>2 DEF BatchInv, BatchTypes, Exits, Start, Plan, Planned, SnapshotWritten
<1>4. CallerPlace'
  <2>1. CASE stage' \in {"start", "plan"}
    BY <1>2, <2>1 DEF CallerPlace
  <2>2. CASE stage' \in {"snapshot", "results"}
    <3>1. outcome' = "ok" /\ UNCHANGED poolVars
      BY <2>2 DEF BatchInv, CallerPlace, Start, Plan, Planned, SnapshotWritten, poolVars, vars
    <3>2. Len(returned') \in 0..JobCount
      BY <1>1, <3>1, PoolReturned DEF PoolInv, poolVars, vars, BatchInv
    <3> QED
      BY <1>2, <2>2, <3>1, <3>2 DEF CallerPlace
  <2> QED
    BY <1>2, <1>3, <2>1, <2>2 DEF BatchTypes
<1>5. Accounts' /\ Errors'
  BY <1>2 DEF BatchInv, Accounts, Untouched, Errors, Managers, Jobs, Wrong
<1> QED
  BY <1>1, <1>3, <1>4, <1>5 DEF BatchInv

\* What is left of a step that goes on to the next result: the account of the
\* one it leaves behind.
LEMMA NextResultKeeps ==
  ASSUME BatchInv, exit = "none", stage \in {"results", "commands"}, at <= Len(returned),
         NEW row \in {"none", "error", "table"}, NEW error \in BOOLEAN,
         NextResult, stage' = "results", rows' = [rows EXCEPT ![at] = row], hadError' = error,
         UNCHANGED <<poolVars, inputVars, left, results, exit>>,
         returned[at] \in {"skip", "failed", "ready"},
         returned[at] = "skip" => row = "none",
         returned[at] = "failed" => row = "error",
         returned[at] = "ready" => row # "none",
         results[at] # <<>> => returned[at] = "ready" /\ command = "apply",
         error <=> hadError \/ row = "error" \/ HasFailures(results[at])
  PROVE  BatchInv'
<1>1. PoolInv'
  BY PoolKeeps DEF BatchInv
<1>2. outcome = "ok" /\ Len(returned) \in 0..JobCount
  BY PoolReturned DEF BatchInv, CallerPlace
<1>3. at \in Managers /\ at \in Nat /\ at' = at + 1 /\ returned' = returned /\ command' = command
  BY <1>2, ConstantsAssumption DEF BatchInv, BatchTypes, Managers, Jobs, NextResult, poolVars, vars, inputVars
<1>4. BatchTypes' /\ Exits'
  BY <1>3 DEF BatchInv, BatchTypes, Exits
<1>5. CallerPlace'
  BY <1>2, <1>3 DEF BatchInv, CallerPlace, poolVars, vars
<1>6. \A m \in Managers : /\ m \in Nat
                         /\ rows'[m] = (IF m = at THEN row ELSE rows[m])
                         /\ results'[m] = results[m]
                         /\ m < at' <=> m < at \/ m = at
  BY <1>3 DEF BatchInv, BatchTypes, Managers, Jobs
<1>7. Accounts'
  <2>1. \A m \in Managers : m < at' => PassedOver(m)'
    BY <1>3, <1>6 DEF BatchInv, Accounts, PassedOver
  <2>2. ASSUME NEW m \in Managers, m >= at'
        PROVE  Untouched(m)'
    <3>0. m >= at /\ m # at
      <4>1. m \in Nat /\ at \in Nat /\ m >= at + 1
        BY <1>3, <1>6, <2>2
      <4> QED
        BY <4>1
    <3>1. m >= at /\ m # at /\ rows'[m] = rows[m] /\ results'[m] = results[m]
      BY <1>6, <3>0
    <3>2. Untouched(m)
      BY <3>1 DEF BatchInv, Accounts
    <3> QED
      BY <3>1, <3>2 DEF Untouched
  <2> QED
    BY <2>1, <2>2 DEF Accounts
<1>8. Errors'
  <2>1. \A m \in Managers : HasFailures(results[m])' <=> HasFailures(results[m])
    BY DEF HasFailures
  <2>2. /\ \A m \in Managers : m < at => (Wrong(m)' <=> Wrong(m))
        /\ \A m \in Managers : m = at =>
             (Wrong(m)' <=> row = "error" \/ HasFailures(results[at]))
    <3>1. \A m \in Managers : m < at => rows'[m] = rows[m]
      BY <1>3, <1>6
    <3>2. rows'[at] = row /\ results' = results /\ at \in Managers
      BY <1>3, <1>6
    <3> QED
      BY <2>1, <3>1, <3>2 DEF Wrong
  <2>3. (\E m \in Managers : m < at' /\ Wrong(m)')
          <=> \/ \E m \in Managers : m < at /\ Wrong(m)
              \/ row = "error" \/ HasFailures(results[at])
    BY <1>3, <1>6, <2>2
  <2> QED
    BY <2>3 DEF BatchInv, Errors
<1> QED
  BY <1>1, <1>4, <1>5, <1>7, <1>8 DEF BatchInv

\* The results that need no command, and a manager whose commands cannot be built.
LEMMA ResultKeeps ==
  ASSUME BatchInv, exit = "none",
         Skip \/ Failed \/ ShowOutput \/ BuildFails
  PROVE  BatchInv'
<1>1. /\ stage = "results" /\ at <= Len(returned) /\ NextResult /\ stage' = "results"
      /\ UNCHANGED <<poolVars, inputVars, left, results, exit>>
  BY DEF Skip, Failed, ShowOutput, BuildFails, Current, ManagerError
<1>2. Len(returned) \in 0..JobCount
  BY <1>1, PoolReturned DEF BatchInv, CallerPlace
<1>3. at \in Managers
  BY <1>1, <1>2, ConstantsAssumption DEF BatchInv, BatchTypes, Managers, Jobs
<1>4. results[at] = <<>> /\ ~HasFailures(results[at]) /\ rows[at] = "none"
  <2>1. Untouched(at)
    BY <1>3 DEF BatchInv, Accounts, Managers, Jobs
  <2> QED
    BY <1>1, <2>1 DEF Untouched, HasFailures
<1>5. rows \in [Managers -> {"none", "error", "table"}] /\ hadError \in BOOLEAN
  BY DEF BatchInv, BatchTypes
<1>6. CASE Skip
  <2>1. rows' = [rows EXCEPT ![at] = "none"] /\ hadError' = hadError /\ returned[at] = "skip"
    BY <1>3, <1>4, <1>5, <1>6 DEF Skip, Current
  <2> QED
    BY <1>1, <1>4, <1>5, <2>1, NextResultKeeps
<1>7. CASE Failed
  <2>1. rows' = [rows EXCEPT ![at] = "error"] /\ hadError' = TRUE /\ returned[at] = "failed"
    BY <1>7 DEF Failed, Current, ManagerError
  <2> QED
    BY <1>1, <1>4, <1>5, <2>1, NextResultKeeps
<1>8. CASE ShowOutput
  <2>1. rows' = [rows EXCEPT ![at] = "table"] /\ hadError' = hadError /\ returned[at] = "ready"
    BY <1>8 DEF ShowOutput, Current
  <2> QED
    BY <1>1, <1>4, <1>5, <2>1, NextResultKeeps
<1>9. CASE BuildFails
  <2>1. rows' = [rows EXCEPT ![at] = "error"] /\ hadError' = TRUE /\ returned[at] = "ready"
    BY <1>9 DEF BuildFails, Current, ManagerError
  <2> QED
    BY <1>1, <1>4, <1>5, <2>1, NextResultKeeps
<1> QED
  BY <1>6, <1>7, <1>8, <1>9

\* The commands of a prepared manager.
LEMMA CommandsKeep ==
  ASSUME BatchInv, exit = "none",
         BuildCommands \/ RunCommand \/ CommandInterrupted
  PROVE  BatchInv'
<1>1. PoolInv'
  BY PoolKeeps DEF BatchInv, BuildCommands, RunCommand, CommandInterrupted
<1>2. /\ UNCHANGED <<poolVars, inputVars, at, hadError, rows>>
      /\ stage' = "commands" /\ stage \in {"results", "commands"}
      /\ exit' \in {"none", "interrupted"}
  BY DEF BuildCommands, RunCommand, CommandInterrupted, Current, CommandEnds
<1>3. /\ outcome = "ok" /\ Len(returned) \in 0..JobCount
      /\ at <= Len(returned) /\ returned[at] = "ready" /\ command = "apply"
  BY PoolReturned DEF BatchInv, CallerPlace, BuildCommands, RunCommand, CommandInterrupted, Current, CommandEnds
<1>4. at \in Managers /\ at \in Nat
  BY <1>3, ConstantsAssumption DEF BatchInv, BatchTypes, Managers, Jobs
<1>5. /\ results' \in [Managers -> Seq(Statuses)]
      /\ left' \in 0..MaxCommands
      /\ \A m \in Managers : m # at => results'[m] = results[m]
  <2>1. CASE BuildCommands
    BY <2>1 DEF BuildCommands, BatchInv, BatchTypes
  <2>2. ASSUME NEW status \in Statuses, CommandEnds(status)
        PROVE  /\ results' \in [Managers -> Seq(Statuses)]
               /\ left' \in 0..MaxCommands
               /\ \A m \in Managers : m # at => results'[m] = results[m]
    <3>1. results[at] \in Seq(Statuses) /\ Append(results[at], status) \in Seq(Statuses)
      BY <1>4 DEF BatchInv, BatchTypes
    <3>2. results' = [results EXCEPT ![at] = Append(results[at], status)]
      BY <2>2 DEF CommandEnds
    <3>3. left' \in 0..MaxCommands
      BY <2>2, BatchAssumption DEF CommandEnds, CommandsLeft, BatchInv, BatchTypes
    <3> QED
      BY <1>4, <3>1, <3>2, <3>3 DEF BatchInv, BatchTypes
  <2> QED
    BY <2>1, <2>2 DEF RunCommand, CommandInterrupted, Statuses
<1>6. BatchTypes' /\ Exits'
  BY <1>2, <1>5 DEF BatchInv, BatchTypes, Exits, inputVars
<1>7. CallerPlace'
  BY <1>2, <1>3, <1>4 DEF CallerPlace, poolVars, vars, inputVars
<1>8. \A m \in Managers : m \in Nat
  BY DEF Managers, Jobs
<1>9. Accounts'
  <2>1. returned' = returned /\ command' = command /\ at' = at /\ rows' = rows
    BY <1>2 DEF poolVars, vars, inputVars
  <2>2. ASSUME NEW m \in Managers, m < at'
        PROVE  PassedOver(m)'
    BY <1>4, <1>5, <1>8, <2>1, <2>2 DEF BatchInv, Accounts, PassedOver
  <2>3. ASSUME NEW m \in Managers, m >= at'
        PROVE  Untouched(m)'
    <3>1. Untouched(m)
      BY <2>1, <2>3 DEF BatchInv, Accounts
    <3> QED
      BY <1>2, <1>5, <2>1, <3>1 DEF Untouched
  <2> QED
    BY <2>2, <2>3 DEF Accounts
<1>10. Errors'
  BY <1>2, <1>4, <1>5, <1>8 DEF BatchInv, Errors, Wrong, HasFailures
<1> QED
  BY <1>1, <1>6, <1>7, <1>9, <1>10 DEF BatchInv

\* The report of a manager whose commands have run.
LEMMA ReportKeeps ==
  ASSUME BatchInv, exit = "none", CommandsDone
  PROVE  BatchInv'
<1>1. /\ at <= Len(returned) /\ returned[at] = "ready" /\ command = "apply" /\ stage = "commands"
  BY DEF CommandsDone, BatchInv, CallerPlace
<1>2. (hadError \/ HasFailures(results[at])) \in BOOLEAN
  OBVIOUS
<1> DEFINE error == hadError \/ HasFailures(results[at])
<1>3. hadError' = error /\ (error <=> hadError \/ "table" = "error" \/ HasFailures(results[at]))
  BY DEF CommandsDone
<1> HIDE DEF error
<1>4. error \in BOOLEAN
  BY <1>2 DEF error
<1> QED
  BY <1>1, <1>3, <1>4, NextResultKeeps DEF CommandsDone

\* No step of the program disturbs the invariant.
LEMMA BatchKeeps == BatchInv /\ [BatchNext]_batchVars => BatchInv'
<1> SUFFICES ASSUME BatchInv, [BatchNext]_batchVars PROVE BatchInv'
  OBVIOUS
<1>1. ASSUME exit = "none", CallerStep PROVE BatchInv'
  <2>1. CASE Rejected
    BY <2>1, ExitKeeps DEF Rejected
  <2>2. CASE NothingRunnable
    BY <2>2, ExitKeeps DEF NothingRunnable
  <2>3. CASE PlanningBroke
    BY <2>3, ExitKeeps DEF PlanningBroke
  <2>4. CASE SnapshotFails
    BY <2>4, ExitKeeps DEF SnapshotFails
  <2>5. CASE Interrupted \/ BuildInterrupted
    BY <2>5, ExitKeeps DEF Interrupted, BuildInterrupted
  <2>6. CASE Render
    BY <2>6, ExitKeeps DEF Render
  <2> QED
    BY <1>1, <2>1, <2>2, <2>3, <2>4, <2>5, <2>6,
       PreparingKeeps, ResultKeeps, CommandsKeep, ReportKeeps DEF CallerStep
<1>2. CASE UNCHANGED batchVars
  <2>1. PoolInv'
    BY <1>2, PoolKeeps DEF batchVars, BatchInv
  <2>2. BatchTypes' /\ CallerPlace' /\ Exits'
    BY <1>2 DEF batchVars, BatchInv, BatchTypes, CallerPlace, Exits, poolVars, vars, inputVars
  <2>3. Accounts' /\ Errors'
    BY <1>2 DEF batchVars, BatchInv, Accounts, PassedOver, Untouched, Errors, Wrong, poolVars, vars, inputVars
  <2> QED
    BY <2>1, <2>2, <2>3 DEF BatchInv
<1> QED
  BY <1>1, <1>2, PreparingKeeps DEF BatchNext, Finished

-----------------------------------------------------------------------------
(* Theorems *)

\* The invariant holds in every reachable state.
THEOREM BatchInductive == BatchSpec => []BatchInv
  BY BatchStarts, BatchKeeps, PTL DEF BatchSpec

\* A manager's commands run only after every planning thread has ended, and only
\* if no manager up to it was interrupted while planning.
THEOREM NothingUnplannedRuns == BatchSpec => []RunsOnlyWhatWasPlanned
<1>1. BatchInv => RunsOnlyWhatWasPlanned
  <2> SUFFICES ASSUME BatchInv, NEW m \in Managers, Ran(m)
               PROVE  /\ command = "apply"
                      /\ Ended
                      /\ m <= Len(returned) /\ returned[m] = "ready"
                      /\ \A k \in 1..m : returned[k] # "interrupted"
    BY DEF RunsOnlyWhatWasPlanned
  <2>1. m \in Nat /\ at \in Nat /\ \A k \in 1..m : k \in Managers
    BY ConstantsAssumption DEF BatchInv, BatchTypes, Managers, Jobs
  <2>2. m < at \/ (m = at /\ stage = "commands")
    BY <2>1 DEF BatchInv, Accounts, Untouched, Ran
  <2>3. stage \in {"results", "commands"}
    BY <2>1, <2>2 DEF BatchInv, BatchTypes, CallerPlace, Managers, Jobs
  <2>4. Ended /\ Len(returned) \in Nat /\ at <= Len(returned) + 1
    BY <2>3, PoolReturned DEF BatchInv, CallerPlace
  <2>5. \A k \in 1..m : k < at => returned[k] # "interrupted"
    BY <2>1 DEF BatchInv, Accounts, PassedOver
  <2> QED
    BY <2>1, <2>2, <2>4, <2>5 DEF BatchInv, Accounts, PassedOver, CallerPlace, Ran
<1> QED
  BY <1>1, BatchInductive, PTL

\* When the table is printed, every manager was planned and accounted for.
THEOREM NobodyIsForgotten == BatchSpec => []NobodyForgotten
<1>1. BatchInv => NobodyForgotten
  <2> SUFFICES ASSUME BatchInv, exit \in {"ok", "failed"}, stage # "start"
               PROVE  /\ Len(returned) = JobCount
                      /\ \A m \in Managers :
                           /\ returned[m] # "interrupted"
                           /\ rows[m] = "none" <=> returned[m] = "skip"
                           /\ returned[m] = "failed" => rows[m] = "error"
    BY DEF NobodyForgotten
  <2>1. stage = "results" /\ at = Len(returned) + 1 /\ outcome = "ok"
    BY DEF BatchInv, Exits, CallerPlace
  <2>2. Len(returned) \in 0..JobCount
    BY <2>1, PoolReturned DEF BatchInv
  <2>3. \A k \in 1..Len(returned) : k \in Managers /\ k < at /\ PassedOver(k)
    BY <2>1, <2>2, ConstantsAssumption DEF BatchInv, Accounts, Managers, Jobs
  <2>4. Len(returned) = JobCount
    BY <2>1, <2>3, PoolReturned DEF BatchInv, PassedOver
  <2> QED
    BY <2>3, <2>4 DEF PassedOver, Managers, Jobs
<1> QED
  BY <1>1, BatchInductive, PTL

\* The program succeeds exactly when nothing failed.
THEOREM SuccessIsComplete == BatchSpec => []SuccessMeansAll
<1>1. BatchInv => SuccessMeansAll
  <2> SUFFICES ASSUME BatchInv, exit \in {"ok", "failed"}
               PROVE  exit = "ok" <=>
                        \A m \in Managers :
                          /\ rows[m] # "error"
                          /\ \A k \in 1..Len(results[m]) : results[m][k] # "failed"
    BY DEF SuccessMeansAll
  <2>1. (\A m \in Managers : /\ rows[m] # "error"
                            /\ \A k \in 1..Len(results[m]) : results[m][k] # "failed")
          <=> \A m \in Managers : ~Wrong(m)
    BY DEF Wrong, HasFailures
  <2>2. \A m \in Managers : m \in Nat /\ (m < at \/ m >= at)
    BY DEF BatchInv, BatchTypes, Managers, Jobs
  <2>3. stage # "commands"
    BY DEF BatchInv, Exits
  <2>4. \A m \in Managers : m >= at => ~Wrong(m)
    BY <2>3 DEF BatchInv, Accounts, Untouched, Wrong, HasFailures
  <2>5. hadError <=> \E m \in Managers : Wrong(m)
    BY <2>2, <2>4 DEF BatchInv, Errors
  <2>6. CASE stage = "start"
    <3>1. \A m \in Managers : m >= at
      BY <2>6 DEF BatchInv, CallerPlace, Managers, Jobs
    <3> QED
      BY <2>1, <2>4, <2>6, <3>1 DEF BatchInv, Exits
  <2>7. CASE stage # "start"
    BY <2>1, <2>5, <2>7 DEF BatchInv, Exits
  <2> QED
    BY <2>6, <2>7
<1> QED
  BY <1>1, BatchInductive, PTL
=============================================================================
