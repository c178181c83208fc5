--------------------------- MODULE InteractiveSession ---------------------------
(***************************************************************************)
(* run_live_confirmed_selection of upgate-cli: the interactive selection   *)
(* runs in the main thread while a planning thread plans the managers on   *)
(* the StoppablePool that this module extends.  What the user sees comes   *)
(* through the event channel; what will be executed comes through a second *)
(* channel, once, when the planning thread is done.  Confirmation joins    *)
(* the two.                                                                *)
(*                                                                         *)
(* A pool job returns "ready", "failed" or "interrupted", and reports to   *)
(* the screen before it returns; a plan is the set of its items, and the   *)
(* view of a plan its rows.  Every access to a channel is an action.       *)
(***************************************************************************)
EXTENDS StoppablePool

CONSTANT
  Items         (* the items a plan may have                                 *)

\* What a manager's job returns, and should_stop_after_result: an interrupted
\* manager.  The main thread raises the flag as well.
JobResults == {"ready", "failed", "interrupted"}
StopOnInterruption == {"interrupted"}

ASSUME SessionAssumption ==
  /\ Results = JobResults
  /\ StopResults = StopOnInterruption
  /\ Cancellable

VARIABLES
  said,       (* what each worker has told the screen about its manager      *)
  planner,    (* what the planning thread does next: "pool", what it tells   *)
              (* and sends, "drop", then "ended" or "panicked"               *)
  plans,      (* per manager, the items of its plan                          *)
  prepared,   (* the prepared channel: "none", "ok" or "error"               *)
  events,     (* the event channel                                           *)
  tui,        (* what the selection loop does next                           *)
  status,     (* ManagerPlanningStatus of each manager on the screen         *)
  rows,       (* its rows                                                    *)
  chosen,     (* its rows with a choice                                      *)
  finished,   (* planning_finished                                           *)
  failure,    (* planning_failure is set                                     *)
  dialog,     (* the confirmation dialog is open                             *)
  exit        (* how run_live_confirmed_selection returned, "none" before    *)

poolVars == vars
plannerVars == <<said, planner, plans, prepared>>
screenVars == <<status, rows, chosen, finished, failure, dialog>>
sessionVars == <<poolVars, plannerVars, events, tui, screenVars, exit>>

\* The jobs of the pool: the k-th job plans the k-th manager.
Managers == Jobs
Event(kind, m, items, selected) ==
  [kind |-> kind, manager |-> m, items |-> items, selected |-> selected]
Started(m) == Event("started", m, {}, {})
Ready(m, items, selected) == Event("ready", m, items, selected)
ManagerError(m) == Event("error", m, {}, {})
PlanningFailed == Event("planning failed", 0, {}, {})
Finished == Event("finished", 0, {}, {})

SessionInit ==
  /\ Init
  /\ said = [w \in Workers |-> "nothing"]
  /\ planner = "pool"
  /\ plans = [m \in Managers |-> {}]
  /\ prepared = "none"
  /\ events = <<>>
  /\ tui = "drain"
  /\ status = [m \in Managers |-> "waiting"]
  /\ rows = [m \in Managers |-> {}]
  /\ chosen = [m \in Managers |-> {}]
  /\ finished = FALSE
  /\ failure = FALSE
  /\ dialog = FALSE
  /\ exit = "none"

Tell(event) == events' = Append(events, event)
Say(w, word) == said' = [said EXCEPT ![w] = word]
MainIdle == UNCHANGED <<tui, screenVars, exit>>

-----------------------------------------------------------------------------
(* The planning thread and its workers *)

\* What the pool does around the jobs.
PoolStep ==
  /\ \/ \E w \in Workers :
          CheckFlag(w) \/ Pop(w) \/ PopNothing(w) \/ RaiseFlag(w) \/ Send(w)
     \/ Return
  /\ UNCHANGED <<plannerVars, events>>
  /\ MainIdle

\* The first thing a job does.
TellStarted(w) ==
  /\ pc[w] = "run" /\ said[w] = "nothing"
  /\ Tell(Started(held[w]))
  /\ Say(w, "started")
  /\ UNCHANGED <<poolVars, planner, plans, prepared>>
  /\ MainIdle

\* Which rows of a plan the configured policy selects initially.
InitialChoices(items) == SUBSET items

\* build_manager_plan succeeds.
TellReady(w) ==
  /\ pc[w] = "run" /\ said[w] = "started"
  /\ \E items \in SUBSET Items : \E selected \in InitialChoices(items) :
       /\ plans' = [plans EXCEPT ![held[w]] = items]
       /\ Tell(Ready(held[w], items, selected))
  /\ Say(w, "ready")
  /\ UNCHANGED <<poolVars, planner, prepared>>
  /\ MainIdle

TellError(w) ==
  /\ pc[w] = "run" /\ said[w] = "started"
  /\ Tell(ManagerError(held[w]))
  /\ Say(w, "failed")
  /\ UNCHANGED <<poolVars, planner, plans, prepared>>
  /\ MainIdle

\* An interruption is returned without an event.
JobEnds(w) ==
  /\ \/ said[w] \in {"ready", "failed"} /\ JobReturns(w) /\ value'[w] = said[w]
     \/ said[w] = "started" /\ JobReturns(w) /\ value'[w] = "interrupted"
     \/ JobPanics(w)
  /\ Say(w, "nothing")
  /\ UNCHANGED <<planner, plans, prepared, events>>
  /\ MainIdle

AnyInterrupted == \E k \in 1..Len(returned) : returned[k] = "interrupted"

\* The pool's results are collected; a panic of the scope ends the thread, and
\* drops its ends of the channels.
PoolReturned ==
  /\ planner = "pool" /\ outcome # "running"
  /\ planner' = CASE outcome = "panic" -> "panicked"
                  [] outcome = "error" \/ (outcome = "ok" /\ AnyInterrupted) -> "tell failure"
                  [] OTHER -> "tell finished"
  /\ UNCHANGED <<poolVars, said, plans, prepared, events>>
  /\ MainIdle

TellFinished ==
  /\ planner = "tell finished"
  /\ IF stop THEN UNCHANGED events ELSE Tell(Finished)
  /\ planner' = "send ok"
  /\ UNCHANGED <<poolVars, said, plans, prepared>>
  /\ MainIdle

TellFailure ==
  /\ planner = "tell failure"
  /\ Tell(PlanningFailed)
  /\ planner' = "send error"
  /\ UNCHANGED <<poolVars, said, plans, prepared>>
  /\ MainIdle

\* Offered again until somebody is in recv.
RendezvousPrepared ==
  /\ planner \in {"send ok", "send error"}
  /\ IF tui = "confirmed"
     THEN /\ prepared' = IF planner = "send ok" THEN "ok" ELSE "error"
          /\ planner' = "drop"
     ELSE UNCHANGED <<prepared, planner>>
  /\ UNCHANGED <<poolVars, said, plans, events>>
  /\ MainIdle

\* prepared_tx.send on an unbounded channel, then the closure's senders are dropped.
SendPrepared ==
  /\ planner \in {"send ok", "send error"}
  /\ prepared' = IF planner = "send ok" THEN "ok" ELSE "error"
  /\ planner' = "drop"
  /\ UNCHANGED <<poolVars, said, plans, events>>
  /\ MainIdle

DropSenders ==
  /\ planner = "drop"
  /\ planner' = "ended"
  /\ UNCHANGED <<poolVars, said, plans, prepared, events>>
  /\ MainIdle

PlannerGone == planner \in {"ended", "panicked"}

WorkerTells(w) == TellStarted(w) \/ TellReady(w) \/ TellError(w) \/ JobEnds(w)

-----------------------------------------------------------------------------
(* The selection loop: run_selection_loop *)

PlannerIdle == UNCHANGED <<poolVars, plannerVars, exit>>

\* replace_manager_state: the choices made on the manager's rows go with them.
Show(m, what, items, selected) ==
  /\ status' = [status EXCEPT ![m] = what]
  /\ rows' = [rows EXCEPT ![m] = items]
  /\ chosen' = [chosen EXCEPT ![m] = selected]
  /\ UNCHANGED <<finished, failure>>

ShowFailure ==
  /\ finished' = TRUE
  /\ failure' = TRUE
  /\ status' = [m \in Managers |-> IF status[m] \in {"waiting", "planning"} THEN "error" ELSE status[m]]
  /\ UNCHANGED <<rows, chosen>>

\* apply_planning_event
Apply(event) ==
  /\ CASE event.kind = "started" -> Show(event.manager, "planning", {}, {})
       [] event.kind = "ready" -> Show(event.manager, IF event.items = {} THEN "empty" ELSE "ready",
                                        event.items, event.selected)
       [] event.kind = "error" -> Show(event.manager, "error", {}, {})
       [] event.kind = "planning failed" -> ShowFailure
       [] event.kind = "finished" -> finished' = TRUE /\ UNCHANGED <<status, rows, chosen, failure>>
  /\ UNCHANGED dialog

\* drain_planning_events runs before the poll and again before the keys are read.
Draining == tui \in {"drain", "drain again"}
AfterDrain == tui' = IF tui = "drain" THEN "poll" ELSE "keys"

DrainOne ==
  /\ Draining /\ events # <<>>
  /\ Apply(Head(events))
  /\ events' = Tail(events)
  /\ UNCHANGED tui
  /\ PlannerIdle

DrainEmpty ==
  /\ Draining /\ events = <<>> /\ ~PlannerGone
  /\ AfterDrain
  /\ UNCHANGED <<events, screenVars>>
  /\ PlannerIdle

IgnoreDisconnected ==
  /\ Draining /\ events = <<>> /\ PlannerGone
  /\ AfterDrain
  /\ UNCHANGED <<events, screenVars>>
  /\ PlannerIdle

\* planning_events_disconnected
DrainDisconnected ==
  /\ Draining /\ events = <<>> /\ PlannerGone
  /\ IF finished THEN UNCHANGED screenVars ELSE ShowFailure /\ UNCHANGED dialog
  /\ AfterDrain
  /\ UNCHANGED events
  /\ PlannerIdle

\* event::poll times out, or the keys that were ready have been handled.
PollTimesOut ==
  /\ tui = "poll" /\ tui' = "drain"
  /\ UNCHANGED <<events, screenVars>>
  /\ PlannerIdle

KeysHandled ==
  /\ tui = "keys" /\ tui' = "drain"
  /\ UNCHANGED <<events, screenVars>>
  /\ PlannerIdle

KeyPressed ==
  /\ tui = "poll" /\ tui' = "drain again"
  /\ UNCHANGED <<events, screenVars>>
  /\ PlannerIdle

\* Any change of the choice on a row; the details are in ManagerSelection.
ChangeChoice(m, item) ==
  /\ tui = "keys" /\ ~dialog
  /\ item \in rows[m]
  /\ chosen' = [chosen EXCEPT ![m] = IF item \in @ THEN @ \ {item} ELSE @ \cup {item}]
  /\ UNCHANGED <<tui, events, status, rows, finished, failure, dialog>>
  /\ PlannerIdle

\* planning_error_detail
OnlyPlanningFailure == failure
AnyError == failure \/ \E m \in Managers : status[m] = "error"

Leave(how) == tui' = how /\ UNCHANGED <<events, screenVars>>
RaiseStop ==
  /\ stop' = TRUE
  /\ cancelled' = TRUE
  /\ UNCHANGED <<next, pc, held, value, channel, outcome, returned, late>>

ConfirmAnytime == TRUE
MayConfirm == finished

\* `C`: the dialog, or the end of the loop with an error.
AskToConfirm ==
  /\ tui = "keys" /\ ~dialog
  /\ MayConfirm
  /\ IF AnyError THEN Leave("failed")
     ELSE dialog' = TRUE /\ UNCHANGED <<tui, events, status, rows, chosen, finished, failure>>
  /\ PlannerIdle

CloseDialog ==
  /\ tui = "keys" /\ dialog
  /\ dialog' = FALSE
  /\ UNCHANGED <<tui, events, status, rows, chosen, finished, failure>>
  /\ PlannerIdle

Confirm ==
  /\ tui = "keys" /\ dialog
  /\ Leave("confirmed")
  /\ PlannerIdle

\* Drawing, polling, reading or a handler fails.
TerminalFails ==
  /\ tui \in {"poll", "keys"}
  /\ Leave("failed")
  /\ PlannerIdle

\* `q` and Ctrl-C: the stop flag is raised and the thread not waited for.
CancelSession ==
  /\ tui = "keys"
  /\ \E how \in {"cancelled", "interrupted"} : Leave(how) /\ exit' = how
  /\ RaiseStop
  /\ UNCHANGED plannerVars

-----------------------------------------------------------------------------
(* After the loop *)

ExitWith(how) == exit' = how /\ UNCHANGED <<plannerVars, events, tui, screenVars>>

\* The loop returned an error: raise the flag and join.
StopAfterError ==
  /\ tui = "failed" /\ ~stop
  /\ RaiseStop
  /\ UNCHANGED <<plannerVars, events, tui, screenVars, exit>>

JoinAfterError ==
  /\ tui = "failed" /\ stop
  /\ PlannerGone
  /\ ExitWith("error")
  /\ UNCHANGED poolVars

\* What confirmed_from_drafts refuses: a planning failure, a selected item that
\* is not in the plan.
DraftsFit ==
  \A m \in Managers : returned[m] = "ready" /\ chosen[m] \subseteq plans[m]

\* recv, join, confirmed_from_drafts: recv returns planning's error at once, and
\* fails when the sender is gone.
ReceivePrepared ==
  /\ tui = "confirmed"
  /\ prepared # "error" => PlannerGone
  /\ ExitWith(IF prepared = "ok" /\ DraftsFit THEN "confirmed" ELSE "error")
  /\ UNCHANGED poolVars

SessionRunning ==
  /\ exit = "none"
  /\ \/ PoolStep
     \/ \E w \in Workers : WorkerTells(w)
     \/ PoolReturned \/ TellFinished \/ TellFailure \/ SendPrepared \/ DropSenders
     \/ DrainOne \/ DrainEmpty \/ DrainDisconnected
     \/ PollTimesOut \/ KeysHandled \/ KeyPressed
     \/ \E m \in Managers, item \in Items : ChangeChoice(m, item)
     \/ AskToConfirm \/ CloseDialog \/ Confirm \/ CancelSession \/ TerminalFails
     \/ StopAfterError \/ JoinAfterError \/ ReceivePrepared

Exited == exit # "none" /\ UNCHANGED sessionVars

SessionNext == SessionRunning \/ Exited

SessionSpec == SessionInit /\ [][SessionNext]_sessionVars

\* Every thread is scheduled and planning a manager ends.  The loop always goes
\* on to its next drain; the user need not press anything.
PlannerSteps ==
  \/ \E w \in Workers : WorkerTells(w)
  \/ PoolStep
  \/ PoolReturned \/ TellFinished \/ TellFailure \/ SendPrepared \/ DropSenders

MainSteps ==
  \/ DrainOne \/ DrainEmpty \/ DrainDisconnected \/ PollTimesOut \/ KeysHandled
  \/ StopAfterError \/ JoinAfterError \/ ReceivePrepared

SessionFairSpec ==
  /\ SessionSpec
  /\ WF_sessionVars(exit = "none" /\ PlannerSteps)
  /\ WF_sessionVars(exit = "none" /\ MainSteps)

-----------------------------------------------------------------------------
(* Properties *)

\* What the user confirms is what was planned: the dialog opens only when every
\* manager is planned, and the rows are those of the plans that will be executed.
ConfirmedIsPlanned ==
  dialog \/ tui = "confirmed" =>
    \A m \in Managers : status[m] \in {"ready", "empty"} /\ rows[m] = plans[m] /\ chosen[m] \subseteq plans[m]

\* Nothing is refused after the confirmation: the prepared plans arrive, and the
\* checks of confirmed_from_drafts always pass.
ConfirmationIsKept == tui = "confirmed" => exit \in {"none", "confirmed"}

\* The screen learns that planning has ended, even if the planning thread
\* panicked, unless the user leaves first.
PlanningEndIsSeen == <>(finished \/ exit # "none")

\* Once the loop is left the program returns: nobody waits for a thread or a
\* message that does not come.
LeavingReturns == (tui \in {"confirmed", "failed"}) ~> exit # "none"
=============================================================================
