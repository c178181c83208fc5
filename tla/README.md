# upgate in TLA+

TLA+ models of upgate (`src/`), checked with TLC and, where it says so, proved
with TLAPS. Each module is a translation of code: `PROJECT.json` maps every
definition to its lines. This file says what the program's parts are, which
module models which, what is checked and proved, and what is left out.

## 1. The system

upgate keeps globally installed developer tools up to date across eleven package
managers. A run loads the configuration, plans every manager in parallel (what
is installed, which releases exist, which pass the gates), lets the user choose
(or takes the recommended updates), and applies the choice with the managers'
own commands.

| Part | State | Operations | Talks to |
|---|---|---|---|
| CLI (`upgate-cli/src/lib.rs`, `main.rs`, `registry.rs`, `snapshot.rs`) | options, exit status | load, dispatch, exit | everything below |
| Batch (`batch.rs`) | planned results, table, `had_error` | plan on the pool, snapshot, execute in order, render | pool, adapters, execution |
| Interactive (`interactive.rs`) | stop flag, event channel, prepared channel, the planning thread; then updates and removals per manager, reports | plan in a thread, join, save preferences, two passes | screen, pool, configuration, execution |
| Configuration (`config.rs`) | the file; sections in memory; overrides | load, override, resolve, set and persist a selection policy | CLI, interactive |
| Selection screen (`tui/selection`, `selection_state.rs`, `selection_view.rs`) | per manager: status, rows, choices, marks, preference; cursor, tabs, picker, search, dialog | apply an event, handle a key, confirm | event channel |
| Planning (`upgate-planning`) | none: a function of inputs, settings, clock and audit answers | policy, age and audit gates; choice of the newest | release, audit |
| Audit (`upgate-audit`) | query lock, cache | query in batches | OSV by HTTP |
| Execution (`upgate-execution`) | reports | resolve a selection into intents, run commands | adapters, process runner |
| Adapters (`upgate-managers`) | none | discovery, release metadata, building of commands | process runner, HTTP |
| Pool (`upgate-infra/src/parallel.rs`) | queue, stop flag, result channel | run jobs in order, stop, join | batch, interactive, adapters |
| Process runner, HTTP, environment, logging (`upgate-infra`) | log files | run a command, send a request | the system |

What makes these hard: the pool's workers interleave on a queue and a flag; the
planning thread and the screen talk through two channels that are not ordered
with each other; managers fail one by one while the result must stay truthful;
updates and removals run in two passes over managers; preferences are saved by
rewriting a file before commands that may fail; the gates compare dates, a clock
and answers read at different moments; the screen's offers and execution's
acceptance are computed by different code. `PROJECT.json` lists each such hazard
at its line with the properties that cover it.

## 2. Modules

### TwoPhaseApply and InteractiveApply

`InteractiveApply` is `execute_confirmed_interactive_apply_streaming` with what
it calls: `ResolveAll` and `ResolveFails` are
`resolve_confirmed_execution_plans`; `Persist`, `PersistFails` and `PersistDone`
are one manager's turn of `persist_confirmed_selection_policies`, where a failed
save may leave the file truncated; `Build...` are a manager's turn of the loop
that builds commands (any division of the items that an adapter may produce,
grouped commands included) and splits them into updates and removals;
`CommandSucceeds`, `CommandFails`, `CommandInterrupted` are one turn of
`execute_commands`; `FinishManager`, `FinishUpdates`, `FinishRemovals` are the
ends of the loops; `Killed` may come anywhere. `world` is what really happened
to each item, `report` what the table says.

`TwoPhaseApply` is what the user was promised: a set of items fixed before the
first mutation, each attempted at most once, and no removal while an accepted
update waits. `InteractiveApply` implements it (`KeepsPromise`) with `phase` and
`accepted` as refinement mapping.

### StoppablePool

`run_ordered_parallel_stoppable`. Every access to the flag, the queue or the
channel is an action of one worker: `CheckFlag`, `Pop`/`PopNothing`,
`JobReturns`/`JobPanics`, `RaiseFlag`, `Send`; `Return` joins, sorts and
returns, and says how panics leave the scope. `Cancel` is the caller raising the
flag.

### BatchApply

`run_batch` down to the exit status. It extends `StoppablePool`, whose jobs are
the managers, with the calling thread: `BatchInit` and `BatchNext` take the
pool's `Init` and `Next`, and what is proved of the pool is there for the batch.
`stage` follows `run_batch_apply_for_managers`: plan, snapshot,
execute the managers in order, render.

### InteractiveSession

`run_live_confirmed_selection`. It extends `StoppablePool` as `BatchApply` does
(`SessionInit` and `SessionNext` take the pool's `Init` and `Next`; the jobs plan
the managers) with the rest of the planning thread (`planner`), what each worker
told the screen (`said`), the event channel, the prepared channel, and
`run_selection_loop` with its two drains, the dialog, confirming, cancelling and
failing. A row's choice is one bit here; its details are in `ManagerSelection`.
`CommandStarted` events only extend a log on the screen and are left out.

### ScreenNavigation

The other half of the loop: `InteractiveSelectionScreen`, where the user is on
the screen and what the next key does there. A pass of `run_selection_loop` is
the phases "drain" (planning events), `Draw`, "poll", "drain again" and "batch"
(keys and clicks handled without drawing); `BackToDraining` is the next pass. An
event (`ManagerStarted`, `ManagerReady`, `ManagerError`, `PlanningFailed`,
`Finished`) goes through `Apply`, which is `apply_planning_event` to its end:
the change, then the tab (`RestoredTab`) and the cursor (`RestoredCursor`) found
again by what they were on, and the picker bound again or closed (`Rebound`).
Keys move the cursor, the tab and the scroll offset, show all rows, search, open
and use the target picker, choose, select all or none, and open and answer the
confirmation dialog. `Take` ends the session with an error where the selection
state refuses a choice. A name is what the first n typed characters match
(`Matches`), the layout is the number of rows that fit (`Height`). A row
is its place among the rows of all managers' views (`View`), which is an identity
as well, and what is on the screen is a set of rows (`Shown`) put in order. Of each
row only its options matter here; where they come from is in `ManagerSelection`, and
the channel the events come through is in `InteractiveSession`.

### ManagerSelection

One manager's rows of every kind (`PlanRows`: what planning can produce under
the adapter's `ExecutionSupport`), the targets `selection_view` offers for each
(`Options`), the choices of `selection_state` and `screen` (`ToggleCurrent`,
`PickTarget`, `ToggleRemoval`, `SelectAll`, `SelectNone`), the remembered
preference, and `resolve_selection_for_execution` (`Resolution`): which intents
of which form result, and whether an adapter can build them. `Touched(intent)`
is what the package manager's command reaches. `SnapshotAction` and
`SnapshotTarget` are what `snapshot.json` says of an item: it is written from the
plan and the choices, not from the intents that are executed.

### PlanEvaluation

`derive_audit_queries` and `finalize_plan_from_inputs` for one tool, again and
again while time passes (`Tick`), releases and advisories appear (`Publish`,
`Disclose`) and recommendations are applied (`Apply`). A planner-selected tool
is judged by `TimelineRows` (`evaluate_timeline_seed`), a manager-selected one
by `TargetRow`. Version texts are model values with a parse order and a release
class given as constants; the clock is read before the releases are looked up,
as in `build_manager_plan`, and registries may date a release in the future by
`Skew`.

### AuditService

`AuditService::query` by several calls at once: the query lock, the cache,
batches answered in any order, in full, too short or not at all, a pool that
cannot be built, a panic that poisons the lock, while advisories are published.

### ConfigFile

The config file, the runs that read and rewrite it, and the user who edits it.
`Load`, `SelectManagers`, `Override`, `Resolve` take an interactive run to its
screen as `prepare_interactive_manager_configs` and `run_interactive_apply` do;
`Confirm` fixes the policies; then, manager by manager, `Reread` reads the file
again and edits one selection table (`persist_manager_selection_policy`),
`Empty` and `Fill` are the two halves of `fs::write`, and `FillCut` is a write
that failed or was killed in the middle. `UserSaves` may come between any two
steps. The document keeps, per section, the keys the code reads, as the text the
user wrote; a key of an unknown name and a section that is no table are there
because the two readers (serde for `Load`, `toml_edit` for `Reread`) differ about
them. `InteractiveApply` has the same saving with the file reduced to whether
each policy is in it; here it is the other way round. Scan, plan and batch apply
read the configuration in the same way and never write it; they are not runs of
this module.

### AdapterCalls and the modules of a ManagerAdapter

The eleven adapters of `upgate-managers` have the same calls, and each call a
module in which the adapter is a parameter:

* `ManagerDiscovery`: `update_inputs` and the verbose scan. A discovery is a
  sequence of phases, one command or one round of jobs each, and `todo` holds
  those left: which phases an adapter has and in which order, what it makes of
  each exit status and body, and how the answers about single tools become rows
  (`Job`, `Collect`). The user may install, update and remove tools in between.
  The preview of `mise upgrade` is a set of items (`Previews`): of a tool of which
  several versions are asked for any number of them, and `twice` are the tools of
  which two items replace one version, which no line of the code looks for. A
  lookup process of mise or brew that dies of a signal (`Unheard`) has only failed.
* `ReleaseLookup`: from what a registry says of one package to the
  `ReleaseLookupResult` of the planner and the target of a seed
  (`DiscoveredTarget`). A document is a partial function from versions to a day
  and a mark (unfit for this machine, odd, prerelease); the requests are made in
  the code's order (two NuGet indexes, mise's backends and shorts and its
  versions host, the git refs of a tap and then GitHub, go's times one by one),
  and each may fail in each way its transport can.
* `ManagerCommands`: `commands_for_execution_plan`, from the intents of
  `ManagerSelection` to command lines (`Build`), and what these do to the
  installed versions when `execute_commands` runs them (`Run`), while versions
  are published or grow old enough (`News`) and the user uninstalls a tool. What
  a package manager does with a command line is external (`Effects`).
* `ProcessRunner`: one `run` of a command: the log lines, the spawn, two pipes of
  bounded size and the threads that read them, the wait, the joins, the rules
  for the status. The child, a helper it leaves behind with the pipes open, and
  signals act beside it.

`AdapterCalls` puts them together as one specification: a behaviour is one call
to one adapter, and the variables of the other three rest. What a command comes
back with in the first three is what `ProcessRunner` lets a caller see of it.

### How the modules fit together

| Left open in | is settled in |
|---|---|
| `BatchApply`, `InteractiveSession`: what a worker of the pool does | `StoppablePool`, which both extend |
| `InteractiveSession`: a row is one bit | `ManagerSelection` (its choices), `ScreenNavigation` (how keys reach it) |
| `ScreenNavigation`: the options of a row | `ManagerSelection!Options` |
| `ManagerSelection`: the kinds of rows | `PlanEvaluation` |
| `PlanEvaluation`: releases, the time a seed is made | `ReleaseLookup`, `ManagerDiscovery`; the answers of the audit in `AuditService` |
| `InteractiveApply`: what a command is, which items it groups | `ManagerCommands`, `ManagerSelection!Resolution` |
| `InteractiveApply`: a policy is saved or not | `ConfigFile` |
| commands that succeed, fail, are interrupted | `ProcessRunner` |

Only the row of the pool is composed by a specification; elsewhere one
module takes as a small set of inputs what the other can produce.

### Faulty variants

Beside some definitions stands a second one with the same parameters and a
small mistake (`InSendOrder` beside `InInputOrder`, `CursorByIndex` beside
`RestoredCursor`, ...). No specification uses it: exchanging it for the
right one must break the property that `PROJECT.json` ("mutants") names, which
shows that the property can see the mistake.

## 3. Runs

All runs end within three minutes with two workers (all but `adapter_calls`
within two). Bounds are
the smallest that make the interesting cases happen.

| Run | Instance | Shows |
|---|---|---|
| `interactive_apply` | 2 managers, 3 items (one manager has two, so that commands may be grouped or separate), every selection, policy and dry run | `SavedBeforeRun`, `ReportTellsTheTruth`, `SuccessMeansAll`, `KeepsPromise` |
| `stoppable_pool` | 4 jobs, 3 workers, cancelling, panics: more jobs than workers, two workers overtaking a third | `PrefixReturned`, `OneLateJobEach`; the call never gets stuck |
| `batch_apply` | 3 managers, 2 workers, up to 2 commands each | `RunsOnlyWhatWasPlanned`, `NobodyForgotten`, `SuccessMeansAll`, `Terminates` |
| `interactive_session` | 2 managers on 2 workers, plans of at most one item, panics | `ConfirmedIsPlanned`, `ConfirmationIsKept`, `PlanningEndIsSeen`, `LeavingReturns` |
| `screen_navigation` | 3 managers with 4 rows: hidden, update, delayed, blocked; a table of 2 rows; a query that matches two rows, then one, then none | `NothingOfferedIsRefused`, `KeysMeanWhatWasDrawn`, `ReviewedIsConfirmed` |
| `manager_selection` | 3 rows of every kind, 5 kinds of manager | `OfferedIsExecutable`, `EachChoiceInOneIntent`, `AgeWaivedOnlyByChoice`, `SnapshotAgrees` |
| `blocked_stays_blocked` | the same | finding: a manager-wide update reaches a row that the audit blocked |
| `snapshot_of_selection` | the same | finding: of what is forced past the audit, the snapshot names another version than the one that is installed |
| `plan_evaluation` | 3 releases, 1 advisory, a clock of 3 values, skew of 1, all policies, equal dates and versions that do not parse | `RecommendedIsNewestSafe`, `WithheldForAReason`, `NewReleaseHidesNothing` |
| `audit_service` | 2 calls, 3 queries in batches of 2: the last batch is smaller, and the calls share none, some or all queries | `EverythingIsAnswered`, `AnswersAreTheirOwn`, `OneAnswerForAll`; no call gets stuck |
| `config_file` | one run, two edits by the user, 7 documents and 9 command lines over 3 managers with different rules | `OverridesNeverSaved`, `SavesExactly`, `RunsWhatWasAsked` |
| `adapter_calls` | all 11 adapters. Discovery: 2 tools, 2 versions, one change by the user. Lookup: every document over 2 versions and 2 days at each source. Commands: 3 items, two of them versions of one mise tool, one piece of news. Runner: pipes of 1 byte, every child that writes at most 3 | `EachToolOnce`, `FailureStaysLocal`, `InterruptionEndsIt`, `OnlyFitIsOffered`, `NothingLost`, `EveryChoiceIsACommand`, `RemovalFindsItsVersion`, `CooldownKept`, `AllOutputRead`, `EveryCallReturns` |

What the bounds reach: with two tools one release lookup fails while the other
goes on, and two versions tell a tool by its identity from a tool by what the
listing said. Two documents and a host are all the sources any adapter asks. A
pipe of one byte is full after the first, so a child that writes to both streams
has to wait for the reader of each. Four rows in a table of two make the offset
move, and the hidden row changes every position when it appears.

Deadlock is checked in all runs but those of `ManagerSelection`,
`ScreenNavigation` and `AdapterCalls`, whose behaviours end: with the
confirmation, with the end of the loop, with the answer of the call.

### Findings

* `blocked_stays_blocked`: the architecture document says a vulnerable target
  stays blocked unless it is forced. When every Update row is selected Bun gets
  its manager-wide command, which names no package and updates the blocked one
  too.
* `snapshot_of_selection`: `README.md` says the snapshot holds the plan and the
  selected actions of an apply. Where the newest release is too young and an older
  one is vulnerable, forcing the row installs the older; the snapshot takes the
  target of the plan, and names the newest. `SnapshotAgrees` says that this and a
  manager-wide command, which names no version, are the only exceptions.

Other disagreements and open windows met while reading, which no run states:

* The comment of the pool (`parallel.rs:43`) says the stop flag prevents starting
  additional queued work. A worker that read the flag before it was raised still
  pops one job (`OneLateJobEach`: never two).
* `parallel.rs:48` says a panicking worker is an error. With two panics the first
  failing join (`parallel.rs:102`) leaves the scope early, and the scope panics
  over the other thread. `StoppablePool` has this outcome.
* A save reads the whole configuration and writes the whole file without a lock
  (`config.rs:508`, `:567`): of two runs of upgate at once, the one that read first
  and wrote last restores the other's old policy. `ConfigFile` lets any number of
  runs do so.
* `mise.rs:426` says that times which do not parse are an error; the reader of the
  versions host drops them (`mise.rs:432`).
* `go version -m` that died of a signal is read as a binary without a module
  (`go.rs:427`, `:433`), where other commands end the discovery. Nor do the
  lookups of mise and brew end it (`mise.rs:817`, `:856`, `brew.rs:859`): one whose
  process died of a signal has failed, and the row stays. Those of npm, pnpm, bun
  and go end theirs. `InterruptionEndsIt` names what may die unnoticed
  (`Unwatched`).
* A preview of `mise upgrade` may name a tool in several lines. The parser keeps one
  announced uninstall of a tool (`mise.rs:328`), and what completes an item from the
  listing does not look whether another item has that version (`mise.rs:713`): a
  preview of "uninstall node@20.1, install node@20.2, install node@22.1" with only
  20.1 active makes two rows of one identity, and `UpdatePlan::new` (`plan.rs:525`)
  then refuses the plan of the whole manager. `EachToolOnce` says that this is the
  only way to two rows; whether mise prints such a preview is not in the source.
* A test of the screen (`screen.rs:1209`) is named after planning rows that create
  no implicit cursor. A cursor on an empty list is not clamped when all rows are
  hidden again or a removal is cleared, so rows that arrive later are focused
  without a key.
* A click is aimed at the position that was drawn. Events drained between the
  poll and the click (`tui/selection/mod.rs:175`) may have moved the rows, and the
  click then means another row. `KeysMeanWhatWasDrawn` holds of keys only.

`SavesExactly` speaks of a run whose file nobody else wrote between the
confirmation and the commands: in that window the code promises nothing. Nor does
it promise that the file survives a kill: `fs::write` empties it first. What
remains true is that nothing gets in that does not belong there
(`OverridesNeverSaved`).

`CooldownKept` is not said of Homebrew, which has no flag for the age of a
release: what `brew upgrade` finds when it runs it installs.

Types are proved, not run: as a theorem of their own (`TypeCorrect`,
`AuditTypeCorrect`) or as the first part of a module's inductive invariant
(`SessionTypes`, `ScreenTypes`, `Plans` and the like).

## 4. Fairness

Safety properties need none. Liveness is checked under weak fairness only:

* `BatchApply`: of the pool's workers while planning and of the calling thread,
  which waits for nothing but its child processes. The operating system
  schedules threads. That a job ends is an assumption about the package managers:
  an HTTP request gives up after eight seconds, but the process runner waits for
  a command without limit, so one that hangs would hang its worker.
* `InteractiveSession`: of the planning side and of the main thread. The loop
  polls with a timeout and drains events whether or not a key comes; no key is
  ever required, so nothing is assumed of the user.
* `AdapterCalls`: of the parts of `ProcessRunner` only: the caller, each reader
  thread, and the child with its helper, which write what they have and end.
  Nothing is assumed of signals and errors of the reading threads.

`StoppablePool` and `AuditService` are checked for safety alone. That their calls
do not get stuck is the check for deadlock: every state without a successor is
one in which the calls have returned.

## 5. Proofs

The proofs hold for every value of the constants, under the assumptions named in
the modules: `ConstantsAssumption` (`StoppablePool`), `BatchAssumption`,
`SessionAssumption`, `EvaluationAssumption`, `SelectionAssumption`,
`ScreenAssumption`, `AuditAssumption`,
`CallsAssumption` (`AdapterCalls`, which puts those of its four modules together)
and in `ConfigFile` `OrderIsAll`, `NoStrangers`, `FallbackFits`, `Vocabulary`,
`CommandLines`, `EditsBounded`, `SavesAreDocuments`. They say of which kind the
constants are and that their sets are finite, and of a screen's view that the rows
of a manager are together and only an update has a recommended target, as the code
that builds views has it; TLC evaluates them in every run.

* `InteractiveApplyProofs`. The invariants are not inductive alone: that a
  success means everything was done rests on `IndInv`, which says that the
  commands left in `updates` and `removals` cover exactly the accepted items of
  each pass not yet attempted, disjointly, and that `batch` and `report` agree
  with `world` on the others. From it follow `RemovalsComeLast`, `SavedFirst`,
  `TruthfulReport`, `HonestExit`, `AttemptedOnce` and the refinement
  `PromiseKept`.
* `StoppablePoolProofs`. `IndInv` says where each popped job is (held by one
  worker, or sent once), that held jobs differ, and what a worker's program
  counter says about the flag. From it `NothingLost`, `StopIsPrompt`, and
  `CompleteUpToStop`: what was popped is a prefix of the jobs, all of them
  unless something stopped the pool. `PlaceIsIndex` counts: when all workers have
  ended, the channel's indices are a bijection onto the popped jobs, so sorting
  puts the result of job j in place j (`SortedByJob`). With `ReturnOK`, what the
  call returned is a sorted channel, that gives `PrefixIsReturned` and
  `TypeCorrect`.
* `BatchApplyProofs`. `BatchInv` adds to the pool's invariant where the caller is
  (`CallerPlace`), what it has gone through (`Accounts`: a manager before `at` has
  its row or was passed over, one after it is `Untouched`) and what it remembers of
  that (`Errors`, `Exits`). The pool's own steps keep it by the pool's lemmas, and
  what planning hands over (`PoolReturned`) is `PrefixIsReturned` for a pool
  nobody cancels. From it `NothingUnplannedRuns`, `NobodyIsForgotten` and
  `SuccessIsComplete`.
* `InteractiveSessionProofs`. The two channels are not synchronised, and that they
  agree is a matter of order. `SessionInv`: what a job answered (`Answered`, wherever
  the answer is: with its worker, in the pool's channel, or returned) is on the
  screen, or in the event channel with nothing about that manager behind it
  (`Truth`), because a worker speaks only of the job it runs (`Speaking`); the
  planning thread tells a good end only when the pool returned all answers and none
  was an interruption (`Course`); that end is the last event, and the screen knows it
  only with an empty event channel (`EndIsLast`); and the dialog opens only then,
  without errors (`Reviewing`). The pool's steps keep its own invariant by
  the lemmas of `StoppablePoolProofs`. From these `PlannedIsConfirmed` and
  `NothingRefusedLate`.
* `ManagerSelectionProofs`. `SelectionInv`: the rows are rows the evaluation makes
  (`Plans`), a choice is always one of the options of its row
  (`ChoicesAreOffered`), and after the confirmation the outcome is what the
  choices come to. `ChoiceCases` lists what can be chosen on which row,
  `ChoiceResolves` that each is resolved, with the age kept or waived as the user
  said, into a form its manager has a command for; `AnswerCases` that the intents
  are one for the whole manager or one for each choice. `SnapshotFits` compares,
  kind of row by kind of row, the version that a snapshot derives with the one that
  is resolved. From these `OffersAreKept`, `AgeIsKept`, `OneIntentEach` and `WrittenIsRun`.

  The same module has the screen on which these choices are made. `ScreenInv`: the
  picker is bound to a row in play, at an option it has (`PickerBound`); the row
  drawn as focused has the focus for as long as it is on the list (`SeenIsFocus`);
  and the dialog is open only over a finished planning without errors, with picker
  and search closed (`DialogIsLast`). A row in play is one of a planned manager on
  the active tab: no event takes it away (`StaysInPlay`), the tab is found again
  unless it lost everything (`TabIsRestored`), so are the cursor
  (`FocusIsRestored`) and the picker (`ReboundFits`). That a finite set of rows can
  be listed in order, each once, is `ListsAll`. From these `OffersAreAccepted` (each
  choice is `Fine`: accepted, and of its row alone), `KeysFindTheirRow` and
  `ReviewIsConfirmed`.
* `PlanEvaluationProofs`. The gates are stated a second time, as the properties
  mean them (`SafeThen`), and each row that the evaluation can give is shown to
  satisfy them (`TimelineRowIsRight` and its counterpart for manager-selected
  targets); `IndInv` keeps this of the last plan while time passes, so that
  applying it later is still an upgrade (`NoDowngrade`). `Recommended` and
  `Audited` are the theorems about a plan, `Withheld` says that the gate a row
  names is one that refuses (`NamesTheGate`), and `NothingHidden` compares two
  plans of one tool: the older recommendation, if it stayed clean, is still a
  candidate of the newer evaluation, which takes the newest; `PlannerCompared`
  says that the two can be compared.

  The same module has the audit the answers come from. `AuditIInv`: of a call that
  has the lock, each query is in the cache, answered, or in a batch still to come,
  and only queries absent from the cache are asked; of a call that returned, its
  answers are those of the cache. From it `Answered`, `Agreed` and `Final`. `OwnInv` adds that each
  verdict kept with a call, in the cache or in a result was given for its own
  query; advisories stay, so it is enough that it is right where it comes from.
  That is `NothingMixedUp`.
* `ConfigFileProofs`. Four invariants, each inductive given those before it:
  `TypeOK`, `Listing` (past the command line every named manager is known, and a
  run's places are places in its list of managers), `Untainted` (the draft and the
  file hold, outside selection tables, only what the user wrote), and
  `AllSaveWell` (as long as nobody disturbed it, the file, or the draft that is
  about to replace it, has the policies saved so far and is otherwise the file of
  the confirmation). They give `NothingLeaks`, and `PoliciesAreSaved` and
  `RestIsKept`, which together are `SavedAsConfirmed`, for any number of runs and
  edits;
  `SettingsStaySound` needs only the types and that an override is judged by the
  rule it is resolved by. `RunsAsAsked` follows a mode from the command line or the
  file to the screen (`ModeSoFar` says how far it is at each step).
* `AdapterCallsProofs` has one invariant for each call. `RunInv`: every byte
  written was read or is in the pipe, a reader ends on an empty pipe that nobody
  can write to, and the caller passes a reader only when it has ended; from it
  `OutputIsComplete`. `RowsInv`: what a discovery has found so far names a tool
  once, rows and lists never overlap, and every tool it was told of is in one of
  them. `SeveralAsked` says that only tools of which mise's configuration asks for
  several versions have two items for one version. From both
  `OneRowForEachTool`. The phases of the eleven adapters are shown
  to come in an order (`PhasesOrdered`) in which `LocalFailures` and
  `InterruptionIsTheEnd` are kept. `LookupInv`: what was found so far is right for
  the sources asked so far, whichever of them failed (`Answered`, with a lemma for
  each adapter's requests); from it `OnlyFitTargets`, whose last step is that a
  finite set of versions has a newest (`NewestIsOne`), and `NoSourceForgotten`.
  `CommandsInv`: what ran and what is left are together the commands that were
  built, and those carry out the choices (`Carries`: each is `RightLine`, none is
  missing, no two are for the same item). `IntentsAreListed` puts the chosen items
  and the intents side by side, `AdaptersCarryOut` goes through the adapters, and
  `OneMoreCarries` puts the command for brew's casks between the others. A removal
  finds its version because the commands before it touch other packages
  (`KeptApart`, which only mise has to refuse intents for) or other versions, and a
  recommended version stays old enough while versions age. From these
  `ChoicesAreCarriedOut`, `RemovalsFindTheirVersion` and `CooldownIsKept`.

`AttemptedOnce`, `NothingLost` (each job is with one worker or sent, once),
`CompleteUpToStop`, `Audited`, `NoDowngrade`, `Final`, `SettingsStaySound`,
`PoliciesAreSaved` and `RestIsKept` are theorems without a run of their own: the
invariants above them were checked first, and a run of each would show nothing
more.

Only model-checked are liveness and deadlock, which are beyond the prover, and the
two findings, which are violations: every safety property of a passing run is a
theorem.

Three limits of the prover shape the modules. A lemma of an instance cannot be
cited, so `BatchApply` and `InteractiveSession` extend the pool, and
`AdapterCallsProofs` speaks of `Runner!...`, `Discovery!...`, `Lookup!...`,
`Commands!...` directly. No lemma can be proved about a RECURSIVE operator, so what
is computed in steps is a recursive function, a choice or a set. And induction is
only there as the existence of a least number (`LeastNumber`, from the
well-foundedness of `<`), from which `GreatestNumber` and what is said of finite
sets follow; that a set of numbers can be put in order (`InOrderLists`, `ListsAll`)
comes from counting, and so `InOrder` of `ManagerCommands` and of `ScreenNavigation`
is defined by counting, not by sorting.

## 6. Not modelled

* Rendering, wording, themes, spinner, JSON and TOML syntax: no decision hangs on
  them. What drawing changes in the screen (the clamped cursor, the offset) is
  the action `Draw`. The classification of version texts is a constant of
  `PlanEvaluation`.
* The scrolling of the command log and of the text of the confirmation dialog.
* The texts the adapters parse and the argument vectors they build: a body is
  right or not, a document is what it says, a command is its verb, its items and
  the version or the bound it names.
* HTTP headers and certificates, the reading of the environment, the place of the
  log files, argument parsing.
* The rows of a scan report; of a snapshot, those of items nobody chose.
* What an operating system does to a detached thread after the program returned
  (a cancelled session does not join its planning thread).
* A dry run's reliance on commands being marked as mutating: the models take the
  marks as right.
* The profiling script and CI.

## 7. Plan

What the code adds is added here first: a new adapter to `ManagerDiscovery`,
`ReleaseLookup` and `ManagerCommands`, with its case in the proofs of
`AdapterCallsProofs`; a new kind of row to `PlanEvaluation` and `ManagerSelection`.
Of what there is now, the rows of the scan report are the next to model.
