--------------------------- MODULE InteractiveApply ---------------------------
(***************************************************************************)
(* execute_confirmed_interactive_apply_streaming of upgate-cli: what       *)
(* happens between the confirmation of an interactive selection and the    *)
(* exit of the program.  Every manager's selection is resolved, the        *)
(* selection preferences are saved manager by manager, every manager's     *)
(* commands are built, and only then do commands run: the update commands  *)
(* of all managers first, the removal commands of all managers second.     *)
(*                                                                         *)
(* Abstractions.  Managers are 1..N in the order they were confirmed.  A   *)
(* command is the set of selected items it reports for, and whether a      *)
(* failure is reported once for the group (failure_group).  An adapter's   *)
(* list is a set of commands whose order is left open: the loop takes any  *)
(* remaining one.  What the resolver and the adapters decide is in         *)
(* ManagerSelection; here each may succeed, fail or be interrupted.        *)
(***************************************************************************)
EXTENDS Naturals, FiniteSets

CONSTANTS
  N,              (* the number of confirmed managers                        *)
  Items,          (* the plan items of all managers                          *)
  ManagerOf,      (* the manager of an item                                  *)
  PackageOf,      (* the package name of an item                             *)
  Policies,       (* the selection policies a draft may carry                *)
  Stored,         (* each manager's policy in the file before the run        *)
  Selections      (* the confirmed selections: what is done to each item     *)

Managers == 1..N
Modes == {"include", "skip"}
Packages == {PackageOf[i] : i \in Items}
SelectionPolicy == [mode : Modes, except : SUBSET Packages]
DefaultPolicy == [mode |-> "include", except |-> {}]
Actions == {"none", "update", "remove"}
Statuses == {"none", "succeeded", "skipped", "failed", "unknown"}
Command == [items : SUBSET Items, grouped : BOOLEAN]

ASSUME ConstantsAssumption ==
  /\ N \in Nat
  /\ ManagerOf \in [Items -> Managers]
  /\ DOMAIN PackageOf = Items
  /\ Policies \subseteq SelectionPolicy
  /\ Stored \in [Managers -> SelectionPolicy]
  /\ Selections \subseteq [Items -> Actions]

VARIABLES
  action,     (* the confirmed selection: what to do with each item          *)
  draft,      (* the policy each manager's draft asks to save                *)
  dryRun,     (* the process runner skips mutations (MutationMode::Skip)     *)
  disk,       (* each manager's selection policy in the config file          *)
  pc,         (* the stage the function is in                                *)
  at,         (* the manager that stage is working on                        *)
  updates,    (* per manager, the update commands still to run               *)
  removals,   (* per manager, the removal commands still to run              *)
  errored,    (* managers whose commands could not be used: an error row     *)
  batch,      (* results of the running run_manager_commands call            *)
  report,     (* results accumulated over both passes                        *)
  hadError,   (* had_error                                                   *)
  exit,       (* how the function returned, "none" before it has             *)
  world,      (* what is installed: the packages themselves                  *)
  attempted   (* history: the items whose command was started                *)

selectionVars == <<action, draft, dryRun>>
buildVars == <<updates, removals, errored>>
runVars == <<batch, report, world, attempted>>
vars == <<selectionVars, disk, pc, at, buildVars, runVars, hadError, exit>>

NoResults == [i \in Items |-> "none"]

\* execution_report_has_failures: a failed item, or the group failure that
\* leaves its items unknown.
HasFailedItem(results) == \E i \in Items : results[i] = "failed"
HasFailures(results) == \E i \in Items : results[i] \in {"failed", "unknown"}

ItemsOf(m) == {i \in Items : ManagerOf[i] = m /\ action[i] # "none"}
IsRemoval(c) == \E i \in c.items : action[i] = "remove"
IsMixed(c) == IsRemoval(c) /\ \E i \in c.items : action[i] # "remove"

\* The command lists an adapter can return for the selected items S: each item
\* belongs to exactly one command, and only a command for several items has a
\* failure group.
Partitions(S) ==
  {P \in SUBSET ((SUBSET S) \ {{}}) :
     UNION P = S /\ \A p, q \in P : p # q => p \cap q = {}}

CommandLists(S) ==
  UNION {{{[items |-> p, grouped |-> p \in g] : p \in P} :
            g \in SUBSET {p \in P : Cardinality(p) > 1}} : P \in Partitions(S)}

\* persist_confirmed_selection_policies: the draft's policy without the
\* packages that are about to be removed, in whichever mode.
CleanedPolicy(m) ==
  [draft[m] EXCEPT !.except =
     @ \ {PackageOf[i] : i \in {j \in ItemsOf(m) : action[j] = "remove"}}]

-----------------------------------------------------------------------------

Init ==
  /\ action \in Selections
  /\ draft \in [Managers -> Policies]
  /\ dryRun \in BOOLEAN
  /\ disk = Stored
  /\ pc = "resolve"
  /\ at = 1
  /\ updates = [m \in Managers |-> {}]
  /\ removals = [m \in Managers |-> {}]
  /\ errored = {}
  /\ batch = NoResults
  /\ report = NoResults
  /\ hadError = FALSE
  /\ exit = "none"
  /\ world = [i \in Items |-> "installed"]
  /\ attempted = {}

\* The stage is kept: it says how far the function had come.
Return(how) ==
  /\ exit' = how
  /\ UNCHANGED pc

\* resolve_confirmed_execution_plans: all managers or none.
ResolveAllWithoutSaving ==
  /\ pc = "resolve"
  /\ pc' = "build"
  /\ UNCHANGED <<selectionVars, disk, at, buildVars, runVars, hadError, exit>>

ResolveAll ==
  /\ pc = "resolve"
  /\ pc' = IF dryRun THEN "build" ELSE "persist"
  /\ UNCHANGED <<selectionVars, disk, at, buildVars, runVars, hadError, exit>>

ResolveFails ==
  /\ pc = "resolve"
  /\ Return("rejected")
  /\ UNCHANGED <<selectionVars, disk, at, buildVars, runVars, hadError>>

Persist ==
  /\ pc = "persist"
  /\ at \in Managers
  /\ disk' = [disk EXCEPT ![at] = CleanedPolicy(at)]
  /\ at' = at + 1
  /\ UNCHANGED <<selectionVars, pc, buildVars, runVars, hadError, exit>>

\* Reading or parsing the file fails and leaves it alone, or fs::write fails
\* after it truncated the file, which then holds no policy at all.
PersistFails ==
  /\ pc = "persist"
  /\ at \in Managers
  /\ \/ UNCHANGED disk
     \/ disk' = [m \in Managers |-> DefaultPolicy]
  /\ Return("save_error")
  /\ UNCHANGED <<selectionVars, at, buildVars, runVars, hadError>>

PersistDone ==
  /\ pc = "persist"
  /\ at = N + 1
  /\ pc' = "build"
  /\ at' = 1
  /\ UNCHANGED <<selectionVars, disk, buildVars, runVars, hadError, exit>>

\* One turn of the construction loop.  The adapter's list is refused as a
\* whole when one command mixes updates and removals.
Build ==
  /\ pc = "build"
  /\ at \in Managers
  /\ at' = at + 1
  /\ \E cs \in CommandLists(ItemsOf(at)) :
       \/ /\ \E c \in cs : IsMixed(c)
          /\ hadError' = TRUE
          /\ errored' = errored \cup {at}
          /\ UNCHANGED <<updates, removals>>
       \/ /\ \A c \in cs : ~IsMixed(c)
          /\ updates' = [updates EXCEPT ![at] = {c \in cs : ~IsRemoval(c)}]
          /\ removals' = [removals EXCEPT ![at] = {c \in cs : IsRemoval(c)}]
          /\ UNCHANGED <<errored, hadError>>
  /\ UNCHANGED <<selectionVars, disk, pc, runVars, exit>>

BuildFails ==
  /\ pc = "build"
  /\ at \in Managers
  /\ at' = at + 1
  /\ hadError' = TRUE
  /\ errored' = errored \cup {at}
  /\ UNCHANGED <<selectionVars, disk, pc, updates, removals, runVars, exit>>

BuildInterrupted ==
  /\ pc = "build"
  /\ at \in Managers
  /\ Return("interrupted")
  /\ UNCHANGED <<selectionVars, disk, at, buildVars, runVars, hadError>>

BuildDone ==
  /\ pc = "build"
  /\ at = N + 1
  /\ pc' = "updates"
  /\ at' = 1
  /\ UNCHANGED <<selectionVars, disk, buildVars, runVars, hadError, exit>>

-----------------------------------------------------------------------------
(* The two passes.  Managers in "errored" are not in the pending list.       *)

Remaining(m) == IF pc = "updates" THEN updates[m] ELSE removals[m]

RecordOnly(c, status) ==
  batch' = [i \in Items |-> IF i \in c.items THEN status ELSE "none"]

Record(c, status) ==
  batch' = [i \in Items |-> IF i \in c.items THEN status ELSE batch[i]]

Effect(c, state) ==
  world' = [i \in Items |-> IF i \in c.items THEN state[i] ELSE world[i]]

Wanted == [i \in Items |-> IF action[i] = "remove" THEN "removed" ELSE "updated"]
Uncertain == [i \in Items |-> "uncertain"]

\* process.run hands the command over; whatever comes back, it is no longer in
\* the list and its items have been attempted.
StartCommand(c) ==
  /\ pc \in {"updates", "removals"}
  /\ at \in Managers \ errored
  /\ c \in Remaining(at)
  /\ IF pc = "updates"
     THEN /\ updates' = [updates EXCEPT ![at] = @ \ {c}]
          /\ UNCHANGED removals
     ELSE /\ removals' = [removals EXCEPT ![at] = @ \ {c}]
          /\ UNCHANGED updates
  /\ attempted' = attempted \cup c.items

CommandSucceeds(c) ==
  /\ StartCommand(c)
  /\ IF dryRun
     THEN /\ Record(c, "skipped")
          /\ UNCHANGED world
     ELSE /\ Record(c, "succeeded")
          /\ Effect(c, Wanted)
  /\ UNCHANGED <<selectionVars, disk, pc, at, errored, report, hadError, exit>>

\* A failed mutation may have changed anything it was asked to change.
CommandFails(c) ==
  /\ ~dryRun
  /\ StartCommand(c)
  /\ Record(c, IF c.grouped THEN "unknown" ELSE "failed")
  /\ Effect(c, Uncertain)
  /\ UNCHANGED <<selectionVars, disk, pc, at, errored, report, hadError, exit>>

\* The command died of a signal: `?` returns at once and drops every result.
\* A terminal's Ctrl-C reaches this program too, which installs no handler.
CommandInterrupted(c) ==
  /\ ~dryRun
  /\ StartCommand(c)
  /\ Effect(c, Uncertain)
  /\ \E how \in {"interrupted", "killed"} : Return(how)
  /\ UNCHANGED <<selectionVars, disk, at, errored, batch, report, hadError>>

\* run_manager_commands returns: its results join the manager's report.
FinishManager ==
  /\ pc \in {"updates", "removals"}
  /\ at \in Managers
  /\ at \notin errored => Remaining(at) = {}
  /\ report' = [i \in Items |-> IF batch[i] # "none" THEN batch[i] ELSE report[i]]
  /\ hadError' = (hadError \/ HasFailures(batch))
  /\ batch' = NoResults
  /\ at' = at + 1
  /\ UNCHANGED <<selectionVars, disk, pc, buildVars, world, attempted, exit>>

FinishUpdatesEarly ==
  /\ pc = "updates"
  /\ pc' = "removals"
  /\ at' = 1
  /\ UNCHANGED <<selectionVars, disk, buildVars, runVars, hadError, exit>>

FinishUpdates ==
  /\ pc = "updates"
  /\ at = N + 1
  /\ pc' = "removals"
  /\ at' = 1
  /\ UNCHANGED <<selectionVars, disk, buildVars, runVars, hadError, exit>>

\* Both passes are over: the table is rendered and the function returns.
FinishRemovals ==
  /\ pc = "removals"
  /\ at = N + 1
  /\ Return(IF hadError THEN "failed" ELSE "ok")
  /\ UNCHANGED <<selectionVars, disk, at, buildVars, runVars, hadError>>

\* The process dies between two commands.  fs::write truncates before it
\* writes, so a save that was under way can leave no policy behind.
Killed ==
  /\ \/ UNCHANGED disk
     \/ pc = "persist" /\ disk' = [m \in Managers |-> DefaultPolicy]
  /\ Return("killed")
  /\ UNCHANGED <<selectionVars, at, buildVars, runVars, hadError>>

\* The function has returned.
Returned == exit # "none" /\ UNCHANGED vars

-----------------------------------------------------------------------------

RunCommand(c) == CommandSucceeds(c) \/ CommandFails(c) \/ CommandInterrupted(c)

Work ==
  \/ ResolveAll
  \/ ResolveFails
  \/ Persist
  \/ PersistFails
  \/ PersistDone
  \/ Build
  \/ BuildFails
  \/ BuildInterrupted
  \/ BuildDone
  \/ \E m \in Managers : \E c \in updates[m] \cup removals[m] : RunCommand(c)
  \/ FinishManager
  \/ FinishUpdates
  \/ FinishRemovals

Step == Work \/ Killed

Next == (exit = "none" /\ Step) \/ Returned

Spec == Init /\ [][Next]_vars

-----------------------------------------------------------------------------
(* Properties *)

Outcomes == {"none", "ok", "failed", "interrupted", "rejected",
             "save_error", "killed"}
Stages == {"resolve", "persist", "build", "updates", "removals"}

\* Every variable stays in its range.
TypeOK ==
  /\ action \in [Items -> Actions]
  /\ draft \in [Managers -> SelectionPolicy]
  /\ dryRun \in BOOLEAN
  /\ disk \in [Managers -> SelectionPolicy]
  /\ pc \in Stages
  /\ at \in 1..(N + 1)
  /\ updates \in [Managers -> SUBSET Command]
  /\ removals \in [Managers -> SUBSET Command]
  /\ errored \subseteq Managers
  /\ batch \in [Items -> Statuses]
  /\ report \in [Items -> Statuses]
  /\ hadError \in BOOLEAN
  /\ exit \in Outcomes
  /\ world \in [Items -> {"installed", "updated", "removed", "uncertain"}]
  /\ attempted \subseteq Items

\* An item of a manager whose commands were accepted.
Accepted(i) == action[i] # "none" /\ ManagerOf[i] \notin errored

\* No removal is attempted, by any manager, before every accepted update of
\* every manager has been: an uninstall could take away the runtime another
\* manager's update needs.
RemovalsAfterUpdates ==
  (\E r \in attempted : action[r] = "remove") =>
    \A u \in Items : action[u] = "update" /\ Accepted(u) => u \in attempted

\* The preferences of all managers are in the file, without the packages that
\* are being removed, before the first command starts, and the file is exactly
\* the one found at the start when nothing is mutated.
SavedBeforeRun ==
  attempted # {} =>
    disk = IF dryRun THEN Stored ELSE [m \in Managers |-> CleanedPolicy(m)]

\* When the table is printed, every selected item has the one outcome that
\* happened to it, and nothing happened to the items of a manager in error.
ReportTellsTheTruth ==
  exit \in {"ok", "failed"} =>
    \A i \in Items :
      /\ i \in attempted <=> Accepted(i)
      /\ report[i] # "none" <=> Accepted(i)
      /\ report[i] = "succeeded" <=> world[i] \in {"updated", "removed"}
      /\ report[i] \in {"failed", "unknown"} <=> world[i] = "uncertain"

\* The program succeeds exactly when no manager was refused and every selected
\* item succeeded (or was skipped by a dry run): no failure of one manager is
\* lost in another manager's turn or in the other pass.
SuccessMeansAll ==
  exit \in {"ok", "failed"} =>
    (exit = "ok" <=>
       /\ errored = {}
       /\ \A i \in Items : action[i] # "none" => report[i] \in {"succeeded", "skipped"})

\* A selected item is handed to a package manager at most once, and its
\* installed state changes only in the step that does so.
OneAttemptPerItem ==
  [][\A i \in Items : world'[i] # world[i] => i \in attempted' \ attempted]_vars

\* The stages as the abstract specification sees them.
PhaseOf ==
  IF exit # "none" THEN "closed"
  ELSE IF pc \in {"updates", "removals"} THEN pc ELSE "prepare"

AcceptedItems ==
  IF pc \in {"updates", "removals"} THEN {i \in Items : Accepted(i)} ELSE {}

Promise == INSTANCE TwoPhaseApply WITH phase <- PhaseOf, accepted <- AcceptedItems

\* The function implements what the person who confirmed was promised.
KeepsPromise == Promise!Spec
=============================================================================
