--------------------------- MODULE ScreenNavigation ---------------------------
(***************************************************************************)
(* InteractiveSelectionScreen of upgate-presentation: where the user is on *)
(* the selection screen (tab, cursor, picker, search, dialog) and what the *)
(* next key does there, while planning events add rows and take tabs away. *)
(* run_selection_loop drains the events, draws, waits for input, drains    *)
(* again, and then handles a batch of input events without drawing.        *)
(*                                                                         *)
(* A row is its place among the rows of all managers' views: a VisibleRow, *)
(* and an identity as well, since a manager's rows arrive once.  Positions *)
(* count from 1, and no cursor is 0.  Names are abstracted to what the n   *)
(* characters typed so far match, wording and layout are left out.         *)
(***************************************************************************)
EXTENDS Naturals, FiniteSets, SequencesExt

CONSTANTS
  ManagerCount, (* the managers of the run                                   *)
  View,         (* the rows of all views, one manager's after another's      *)
  Matches,      (* per length of the query, the rows whose name contains it  *)
  Height        (* rows of the table that fit the terminal                   *)

ManagerIndexes == 1..ManagerCount
ViewRows == [manager : ManagerIndexes, visible : BOOLEAN, update : BOOLEAN,
             options : Seq({"recommended", "exact", "forced", "manager resolved"}), removable : BOOLEAN]

\* Only an update has a recommended target: ManagerSelection!Options.
ASSUME ScreenAssumption ==
  /\ ManagerCount \in Nat /\ Height \in Nat \ {0}
  /\ View \in Seq(ViewRows)
  /\ \A r, q \in 1..Len(View) : r <= q => View[r].manager <= View[q].manager
  /\ \A r \in 1..Len(View) : Contains(View[r].options, "recommended") => View[r].update

AllRows == 1..Len(View)
NoRow == 0
RowsOf(m) == {r \in AllRows : View[r].manager = m}

VARIABLES
  status,    (* planning_status of each manager                              *)
  choice,    (* RowChoice of each row                                        *)
  finished,  (* planning_finished                                            *)
  failed,    (* planning_failure is set                                      *)
  tab,       (* active_tab                                                   *)
  cursor,    (* the highlighted position                                     *)
  offset,    (* table_offset                                                 *)
  showAll,   (* show_all                                                     *)
  searching, (* search_query is Some                                         *)
  query,     (* its length                                                   *)
  picker,    (* target_picker                                                *)
  dialog,    (* confirmation_dialog                                          *)
  phase,     (* of the loop: "drain", "poll", "drain again", "batch"         *)
  seen,      (* the row that was focused when the screen was drawn           *)
  exit       (* how the loop returned, "none" before                         *)

planVars == <<status, finished, failed>>
placeVars == <<tab, cursor, offset>>
searchVars == <<searching, query>>
screenVars == <<planVars, choice, placeVars, showAll, searchVars, picker, dialog, phase, seen, exit>>

NoChoice == [target |-> "none", removing |-> FALSE]
NoPicker == [row |-> NoRow, option |-> 0]

-----------------------------------------------------------------------------
(* What is shown *)

\* The k-th is the one up to which there are k.
InOrder(S) ==
  [k \in 1..Cardinality(S) |-> CHOOSE i \in S : Cardinality({j \in S : j <= i}) = k]

\* visible_tab_refs: 0 stands for the tab of all managers.
Tabs(st) == InOrder({0} \cup {m \in ManagerIndexes : st[m] # "empty"})

ActiveManager(st, t) == IF t \in DOMAIN Tabs(st) THEN Tabs(st)[t] ELSE 0

\* visible_row_refs
Shown(st, active, ch, all) ==
  {r \in AllRows : /\ active \in {0, View[r].manager} /\ st[View[r].manager] = "ready"
                   /\ all \/ View[r].visible \/ ch[r] # NoChoice}
Visible(st, t, ch, all) == InOrder(Shown(st, ActiveManager(st, t), ch, all))

VisibleRows == Visible(status, tab, choice, showAll)

\* current_visible_row
Current == IF cursor \in DOMAIN VisibleRows THEN VisibleRows[cursor] ELSE NoRow
Focus == IF picker # NoPicker THEN picker.row ELSE Current

Least(a, b) == IF a < b THEN a ELSE b
ClampTab(st, t) == Least(t, Len(Tabs(st)))
Clamp(position, rows) == Least(position, Len(rows))
MaxOffset == IF Len(VisibleRows) > Height THEN Len(VisibleRows) - Height ELSE 0

OptionCount(r) == Len(View[r].options) + 1

\* target_picker_initial_cursor
InitialOption(r) ==
  LET options == View[r].options
      wanted == IF ~choice[r].removing /\ Contains(options, choice[r].target)
                THEN choice[r].target ELSE "recommended"
  IN IF Contains(options, wanted) THEN CHOOSE i \in DOMAIN options : options[i] = wanted ELSE 1

PickerOn(r) == IF r = NoRow THEN NoPicker ELSE [row |-> r, option |-> InitialOption(r)]

-----------------------------------------------------------------------------
(* Planning events *)

ScreenInit ==
  /\ status = [m \in ManagerIndexes |-> "waiting"]
  /\ choice = [r \in AllRows |-> NoChoice]
  /\ finished = FALSE /\ failed = FALSE
  /\ tab = 1 /\ cursor = 0 /\ offset = 0
  /\ showAll = FALSE
  /\ searching = FALSE /\ query = 0
  /\ picker = NoPicker /\ dialog = FALSE
  /\ phase = "drain" /\ seen = NoRow
  /\ exit = "none"

RestoredTab(st) ==
  LET active == ActiveManager(status, tab)
  IN IF active \in ToSet(Tabs(st))
     THEN CHOOSE t \in DOMAIN Tabs(st) : Tabs(st)[t] = active
     ELSE tab

CursorByIndex(rows) == cursor

RestoredCursor(rows) ==
  IF Focus \in ToSet(rows) THEN CHOOSE i \in DOMAIN rows : rows[i] = Focus ELSE cursor

\* rebind_or_close_target_picker
Rebound(rows) ==
  IF picker # NoPicker /\ picker.row \in ToSet(rows)
  THEN [picker EXCEPT !.option = Least(@, OptionCount(picker.row))]
  ELSE NoPicker

\* apply_planning_event: what the event does, then the user's place is found again.
Apply(st, ch) ==
  LET restored == RestoredTab(st)
      found == RestoredCursor(Visible(st, restored, ch, showAll))
      clamped == ClampTab(st, restored)
      rows == Visible(st, clamped, ch, showAll)
  IN /\ exit = "none" /\ ~finished
     /\ phase \in {"drain", "drain again"}
     /\ status' = st /\ choice' = ch
     /\ tab' = clamped
     /\ cursor' = Clamp(found, rows)
     /\ picker' = Rebound(rows)
     /\ UNCHANGED <<offset, showAll, searchVars, dialog, phase, seen, exit>>

ManagerStarted(m) ==
  /\ status[m] = "waiting"
  /\ Apply([status EXCEPT ![m] = "planning"], choice)
  /\ UNCHANGED <<finished, failed>>

\* The configured policy selects some of the update rows.
ManagerReady(m) ==
  /\ status[m] = "planning"
  /\ \/ Apply([status EXCEPT ![m] = "empty"], choice)
     \/ \E chosen \in SUBSET {r \in RowsOf(m) : View[r].update} :
          Apply([status EXCEPT ![m] = "ready"],
                [r \in AllRows |-> IF r \in chosen THEN [NoChoice EXCEPT !.target = "recommended"]
                                   ELSE choice[r]])
  /\ UNCHANGED <<finished, failed>>

ManagerError(m) ==
  /\ status[m] = "planning"
  /\ Apply([status EXCEPT ![m] = "error"], choice)
  /\ UNCHANGED <<finished, failed>>

\* The planning thread says so, or is gone without having said that it finished.
PlanningFailed ==
  /\ Apply([m \in ManagerIndexes |-> IF status[m] \in {"waiting", "planning"} THEN "error" ELSE status[m]],
           choice)
  /\ finished' = TRUE /\ failed' = TRUE

Finished ==
  /\ \A m \in ManagerIndexes : status[m] \notin {"waiting", "planning"}
  /\ Apply(status, choice)
  /\ finished' = TRUE
  /\ UNCHANGED failed

PlanningEvent ==
  \/ \E m \in ManagerIndexes : ManagerStarted(m) \/ ManagerReady(m) \/ ManagerError(m)
  \/ PlanningFailed
  \/ Finished

-----------------------------------------------------------------------------
(* The loop *)

\* keep_cursor_visible
DrawnOffset(position) ==
  LET clamped == Least(offset, MaxOffset)
  IN CASE position = 0 -> clamped
       [] position <= clamped -> position - 1
       [] position > clamped + Height -> position - Height
       [] OTHER -> clamped

\* draw_selection: the cursor is clamped only when there are rows to draw.
Draw ==
  /\ exit = "none" /\ phase = "drain"
  /\ phase' = "poll"
  /\ cursor' = IF VisibleRows = <<>> THEN cursor ELSE Clamp(cursor, VisibleRows)
  /\ offset' = IF VisibleRows = <<>> THEN offset ELSE DrawnOffset(cursor')
  /\ UNCHANGED <<planVars, choice, tab, showAll, searchVars, picker, dialog, exit>>
  /\ seen' = Focus'

InputIsReady ==
  /\ exit = "none" /\ phase = "poll"
  /\ phase' = "drain again"
  /\ UNCHANGED <<planVars, choice, placeVars, showAll, searchVars, picker, dialog, seen, exit>>

\* The poll timed out, or the batch of input events is handled.
BackToDraining ==
  /\ exit = "none" /\ phase \in {"poll", "batch"}
  /\ phase' = "drain" /\ seen' = NoRow
  /\ UNCHANGED <<planVars, choice, placeVars, showAll, searchVars, picker, dialog, exit>>

Reads ==
  /\ exit = "none" /\ phase \in {"drain again", "batch"}
  /\ phase' = "batch" /\ seen' = NoRow
  /\ UNCHANGED planVars

InPicker == Reads /\ ~dialog /\ picker # NoPicker
InSearch == Reads /\ ~dialog /\ picker = NoPicker /\ searching
InList == Reads /\ ~dialog /\ picker = NoPicker /\ ~searching
EvenUnderTheDialog == Reads /\ (picker # NoPicker \/ ~searching)
UnlessSearching == Reads /\ ~dialog /\ (picker # NoPicker \/ ~searching)

-----------------------------------------------------------------------------
(* Moving about *)

\* move_cursor_up and move_cursor_down wrap around.
UpFrom(position, n) == IF position = 0 THEN 1 ELSE IF position = 1 THEN n ELSE position - 1
DownFrom(position, n) == IF position = 0 \/ position >= n THEN 1 ELSE position + 1

MoveCursor ==
  /\ InList /\ VisibleRows # <<>>
  /\ cursor' \in {UpFrom(cursor, Len(VisibleRows)), DownFrom(cursor, Len(VisibleRows))}
  /\ UNCHANGED <<choice, tab, offset, showAll, searchVars, picker, dialog, exit>>

\* next_tab, previous_tab, and a click on a title
SelectTab ==
  /\ InList
  /\ tab' \in DOMAIN Tabs(status)
  /\ offset' = 0
  /\ cursor' = Clamp(Least(cursor, 1), Visible(status, tab', choice, showAll))
  /\ UNCHANGED <<choice, showAll, searchVars, picker, dialog, exit>>

ToggleViewAll ==
  /\ InList
  /\ showAll' = ~showAll
  /\ cursor' = Clamp(cursor, Visible(status, tab, choice, showAll'))
  /\ offset' = 0
  /\ UNCHANGED <<choice, tab, searchVars, picker, dialog, exit>>

\* clamp_cursor_to_table_view
IntoView(position, off) ==
  IF position <= off THEN off + 1 ELSE Least(position, Least(off + Height, Len(VisibleRows)))

\* flush_selection_scrolls: what the wheel added up before the next other event
Scroll ==
  /\ InList /\ VisibleRows # <<>>
  /\ IF cursor = 0
     THEN cursor' = 1 /\ UNCHANGED offset
     ELSE /\ offset' \in {IF offset = 0 THEN 0 ELSE offset - 1, Least(offset + 1, MaxOffset)}
          /\ cursor' = IntoView(Clamp(cursor, VisibleRows), offset')
  /\ UNCHANGED <<choice, tab, showAll, searchVars, picker, dialog, exit>>

OpenSearch ==
  /\ InList /\ finished
  /\ searching' = TRUE /\ query' = 0
  /\ UNCHANGED <<choice, placeVars, showAll, picker, dialog, exit>>

ExitSearch ==
  /\ InSearch
  /\ searching' = FALSE /\ query' = 0
  /\ UNCHANGED <<choice, placeVars, showAll, picker, dialog, exit>>

Found(length) == {i \in DOMAIN VisibleRows : length > 0 /\ VisibleRows[i] \in Matches[length]}
FirstOf(found) == CHOOSE i \in found : \A j \in found : i <= j
LastOf(found) == CHOOSE i \in found : \A j \in found : i >= j

NextMatch(found) ==
  LET after == {i \in found : i > cursor} IN FirstOf(IF cursor = 0 \/ after = {} THEN found ELSE after)
PreviousMatch(found) ==
  LET before == {i \in found : i < cursor}
  IN IF cursor = 0 THEN FirstOf(found) ELSE LastOf(IF before = {} THEN found ELSE before)

TypeSearch ==
  /\ InSearch
  /\ \/ query' = query + 1 /\ query' \in DOMAIN Matches
     \/ query' = IF query = 0 THEN 0 ELSE query - 1
  /\ cursor' = IF Found(query') = {} THEN cursor ELSE FirstOf(Found(query'))
  /\ UNCHANGED <<choice, tab, offset, showAll, searching, picker, dialog, exit>>

SearchOn ==
  /\ InSearch /\ Found(query) # {}
  /\ cursor' \in {NextMatch(Found(query)), PreviousMatch(Found(query))}
  /\ UNCHANGED <<choice, tab, offset, showAll, searchVars, picker, dialog, exit>>

-----------------------------------------------------------------------------
(* Choices.  An error of the selection state ends the session. *)

Refusal == [ok |-> FALSE, choice |-> choice]
Accepted(ch) == [ok |-> TRUE, choice |-> ch]

\* select_recommended, force_candidate, choose_alternate_exact, choose_manager_resolved
ChooseTarget(r, option) ==
  CASE choice[r].removing -> Accepted(choice)
    [] option = "recommended" /\ ~View[r].update -> Refusal
    [] option # "recommended" /\ ~Contains(View[r].options, option) -> Refusal
    [] OTHER -> Accepted([choice EXCEPT ![r].target = option])

DeselectRow(r) == Accepted([choice EXCEPT ![r].target = IF choice[r].removing THEN @ ELSE "none"])

Removal(r) ==
  IF View[r].removable THEN Accepted([choice EXCEPT ![r].removing = ~@]) ELSE Refusal

RemovalUnchecked(r) == Removal(r)

\* toggle_removal and toggle_current of the screen
RemovalToggled(r) == IF View[r].removable THEN Removal(r) ELSE Accepted(choice)

Toggled(r) ==
  CASE choice[r].removing -> Accepted([choice EXCEPT ![r] = NoChoice])
    [] ~choice[r].removing /\ choice[r].target # "none" -> DeselectRow(r)
    [] choice[r] = NoChoice /\ View[r].update -> ChooseTarget(r, "recommended")
    [] choice[r] = NoChoice /\ ~View[r].update /\ Contains(View[r].options, "forced") -> ChooseTarget(r, "forced")
    [] OTHER -> Accepted(choice)

Take(result) ==
  /\ choice' = result.choice
  /\ exit' = IF result.ok THEN exit ELSE "refused"

ToggleFocused ==
  /\ UnlessSearching /\ Focus # NoRow
  /\ Take(Toggled(Focus))
  /\ UNCHANGED <<placeVars, showAll, searchVars, picker, dialog>>

\* In the picker it also closes it.
ToggleFocusedRemoval ==
  /\ UnlessSearching /\ Focus # NoRow
  /\ Take(RemovalToggled(Focus))
  /\ picker' = NoPicker
  /\ UNCHANGED <<placeVars, showAll, searchVars, dialog>>

\* "a" and "n": the rows marked for removal are left alone.
SelectVisible(selected) ==
  /\ InList
  /\ choice' = [r \in AllRows |->
       IF r \notin ToSet(VisibleRows) \/ choice[r].removing THEN choice[r]
       ELSE IF ~selected THEN NoChoice
       ELSE IF View[r].update THEN ChooseTarget(r, "recommended").choice[r]
       ELSE choice[r]]
  /\ UNCHANGED <<placeVars, showAll, searchVars, picker, dialog, exit>>

-----------------------------------------------------------------------------
(* The target picker *)

OpenTargetPicker ==
  /\ InList
  /\ picker' = PickerOn(Current)
  /\ UNCHANGED <<choice, placeVars, showAll, searchVars, dialog, exit>>

MovePicker ==
  /\ InPicker
  /\ LET n == OptionCount(picker.row)
     IN \E option \in {UpFrom(picker.option, n), DownFrom(picker.option, n)} :
          picker' = [picker EXCEPT !.option = option]
  /\ UNCHANGED <<choice, placeVars, showAll, searchVars, dialog, exit>>

\* Every row has at least the option to remove it, so the next row is taken.
MovePickerToRow ==
  /\ InPicker /\ picker.row \in ToSet(VisibleRows)
  /\ LET here == CHOOSE i \in DOMAIN VisibleRows : VisibleRows[i] = picker.row
     IN cursor' \in {UpFrom(here, Len(VisibleRows)), DownFrom(here, Len(VisibleRows))}
  /\ picker' = PickerOn(VisibleRows[cursor'])
  /\ UNCHANGED <<choice, tab, offset, showAll, searchVars, dialog, exit>>

\* "r", PickerConfirm, and a click on an option.  A removal has to be undone first.
Pick(option) ==
  /\ IF choice[picker.row].removing
     THEN UNCHANGED <<choice, picker, exit>>
     ELSE Take(ChooseTarget(picker.row, option)) /\ picker' = NoPicker
  /\ UNCHANGED <<placeVars, showAll, searchVars, dialog>>

ChooseRecommended ==
  /\ InPicker
  /\ IF Contains(View[picker.row].options, "recommended")
     THEN Pick("recommended")
     ELSE /\ picker' = IF choice[picker.row].removing THEN picker ELSE NoPicker
          /\ UNCHANGED <<choice, placeVars, showAll, searchVars, dialog, exit>>

PickerConfirm(option) ==
  /\ InPicker
  /\ IF option = OptionCount(picker.row)
     THEN /\ Take(RemovalToggled(picker.row))
          /\ picker' = NoPicker
          /\ UNCHANGED <<placeVars, showAll, searchVars, dialog>>
     ELSE Pick(View[picker.row].options[option])

PickerCancel ==
  /\ InPicker
  /\ picker' = NoPicker
  /\ UNCHANGED <<choice, placeVars, showAll, searchVars, dialog, exit>>

\* A click in the table: on the checkbox, or on the rest of the row.
ClickRow ==
  /\ InList
  /\ \E line \in 1..Height :
       /\ offset + line \in DOMAIN VisibleRows
       /\ cursor' = offset + line
       /\ \/ Take(Toggled(VisibleRows[cursor'])) /\ UNCHANGED picker
          \/ picker' = PickerOn(VisibleRows[cursor']) /\ UNCHANGED <<choice, exit>>
  /\ UNCHANGED <<tab, offset, showAll, searchVars, dialog>>

ClickOption == InPicker /\ \E option \in 1..OptionCount(picker.row) : PickerConfirm(option)

-----------------------------------------------------------------------------
(* Leaving *)

\* planning_error_detail
PlanningError == failed \/ \E m \in ManagerIndexes : status[m] = "error"

AskToConfirm ==
  /\ InList /\ finished
  /\ IF PlanningError
     THEN exit' = "planning failed" /\ UNCHANGED dialog
     ELSE dialog' = TRUE /\ UNCHANGED exit
  /\ UNCHANGED <<choice, placeVars, showAll, searchVars, picker>>

\* handle_confirmation_dialog_event: Esc or "C"; the mouse only scrolls the dialog.
DialogKey ==
  /\ Reads /\ dialog
  /\ \/ dialog' = FALSE /\ UNCHANGED exit
     \/ exit' = "confirmed" /\ UNCHANGED dialog
  /\ UNCHANGED <<choice, placeVars, showAll, searchVars, picker>>

\* "q", which the picker and the search do not take for themselves, or Ctrl-C
Leave ==
  /\ Reads
  /\ \/ exit' = "interrupted"
     \/ exit' = "cancelled" /\ (dialog \/ (picker = NoPicker /\ ~searching))
  /\ UNCHANGED <<choice, placeVars, showAll, searchVars, picker, dialog>>

\* Keys and mouse events that mean nothing here
Ignore ==
  /\ Reads
  /\ UNCHANGED <<choice, placeVars, showAll, searchVars, picker, dialog, exit>>

RowKey == ToggleFocused \/ ToggleFocusedRemoval \/ ChooseRecommended \/ (InPicker /\ PickerConfirm(picker.option))

InputEvent ==
  \/ RowKey
  \/ MoveCursor \/ SelectTab \/ ToggleViewAll \/ Scroll
  \/ OpenSearch \/ ExitSearch \/ TypeSearch \/ SearchOn
  \/ \E selected \in BOOLEAN : SelectVisible(selected)
  \/ OpenTargetPicker \/ MovePicker \/ MovePickerToRow \/ PickerCancel
  \/ ClickRow \/ ClickOption
  \/ AskToConfirm \/ DialogKey \/ Leave \/ Ignore

ScreenNext == PlanningEvent \/ Draw \/ InputIsReady \/ BackToDraining \/ InputEvent

ScreenSpec == ScreenInit /\ [][ScreenNext]_screenVars

-----------------------------------------------------------------------------
(* Properties *)

\* The first key after the screen was drawn acts on the row that was drawn as
\* focused, whatever planning events were drained in between, as long as that
\* row is still shown: the user's place is restored by identity, not by index.
KeysMeanWhatWasDrawn ==
  [][phase = "drain again" /\ seen # NoRow /\ seen \in ToSet(VisibleRows) /\ RowKey
       => \A r \in AllRows : choice'[r] # choice[r] => r = seen]_screenVars

\* No key and no click ends the session with an error of the selection state:
\* the screen offers exactly what InteractiveSelectionState accepts.
NothingOfferedIsRefused == exit # "refused"

\* What was reviewed is what is confirmed: nothing is chosen or dropped under the
\* confirmation dialog, which opens only on a finished planning without errors.
ReviewedIsConfirmed ==
  [][(dialog \/ exit' = "confirmed") => dialog /\ finished /\ ~PlanningError /\ choice' = choice]_screenVars

=============================================================================
