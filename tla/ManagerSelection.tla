--------------------------- MODULE ManagerSelection ---------------------------
(***************************************************************************)
(* From the plan of one manager to its commands: the rows and options that *)
(* selection_view offers, the choices the user makes on them               *)
(* (InteractiveSelectionState and the key handlers of the screen), the     *)
(* resolution of the confirmed selection into command intents              *)
(* (resolve_selection_for_execution), and the refusals of the adapter.     *)
(* "Presentation only offers actions supported by the immutable plan;      *)
(* execution validates the chosen action again": two modules decide the    *)
(* same question, from different inputs, and nothing but this makes them   *)
(* agree.                                                                  *)
(*                                                                         *)
(* A plan row keeps what the two tell apart: its kind and reason, the      *)
(* planned target, the evaluated candidates and which of them are too      *)
(* young, the candidate the audit blocked, and whether it can be removed.  *)
(***************************************************************************)
EXTENDS FiniteSets

CONSTANTS
  Items,      (* the plan's items                                            *)
  PackageOf,  (* two installed versions of one tool share a package          *)
  Versions,   (* version texts                                               *)
  Managers,   (* the manager ids considered                                  *)
  Rows,       (* the rows considered, a subset of each manager's PlanRows    *)
  Remembered  (* the selection policies considered                           *)

ManagerIds == {"npm", "bun", "brew", "mise", "uv", "gem"}
Policies == {"none", "stable", "same-track"}
NoVersion == "no version"

\* Who chooses the target, ManagerAdapter::supports_version_policy and
\* ManagerCapabilities.  "npm" stands for cargo, dotnet, go, pipx and pnpm too.
SelectsTarget(m) == m \in {"brew", "mise", "uv"}

PoliciesOf(m) ==
  CASE m \in {"mise", "uv"} -> {"none"}
    [] m = "gem" -> {"stable"}
    [] OTHER -> Policies

NativeGlobalUpdate(m) == m = "bun"
ResolverNativeGlobalUpdate(m) == m = "mise"

\* ExecutionSupport of the manager's update seeds
Exact(m) == m \in {"npm", "gem", "bun"}
NativeSelected(m) == m = "brew"
NativeGlobal(m) == m = "bun"
NativeSelectedAgeBypass(m) == m = "brew"
ResolverSelected(m) == m \in {"mise", "uv"}
MinAgeOptional(m) == m \in {"mise", "uv"}
ResolverManagerResolved(m) == m \in {"mise", "uv"}

SupportsManagerResolved(m) == NativeSelected(m) \/ ResolverManagerResolved(m)
SupportsAgeBypass(m) == Exact(m) \/ NativeSelectedAgeBypass(m) \/ (ResolverSelected(m) /\ MinAgeOptional(m))

Kinds == {"update", "delayed", "policy", "audit", "metadata", "lookup", "current", "skipped", "error"}
RowRecords == [kind : Kinds, target : Versions \cup {NoVersion}, candidates : SUBSET Versions,
               young : SUBSET Versions, blocking : Versions \cup {NoVersion}, removable : BOOLEAN]

\* The rows the evaluation makes: see PlanEvaluation.  Only a target the
\* planner looked for itself may be missing from the candidates.
PlanRows(m, policy) ==
  {r \in RowRecords :
     /\ r.young \subseteq r.candidates
     /\ (r.blocking # NoVersion) <=> r.kind = "audit"
     /\ (r.target = NoVersion) <=> r.kind \in {"current", "skipped", "error"}
     /\ r.candidates = {} <=> r.kind \in {"metadata", "lookup", "current", "skipped", "error"}
     /\ r.kind = "update" => r.target \in r.candidates \ r.young
     /\ r.kind = "delayed" => r.target \in r.young
     /\ r.kind = "audit" => r.blocking \in r.candidates \ r.young
     /\ r.kind = "policy" => policy # "none"
     /\ SelectsTarget(m) /\ r.candidates # {} => r.candidates = {r.target}}

SelectionPolicies == [mode : {"include", "skip"}, except : SUBSET {PackageOf[i] : i \in Items}]

\* RowChoice and UpdateTargetChoice are enums: their other cases are no version.
Words == {"none", "recommended", "forced", "manager resolved"}

ASSUME SelectionAssumption ==
  /\ IsFiniteSet(Items)
  /\ Items = DOMAIN PackageOf
  /\ Versions \cap (Words \cup {NoVersion}) = {}
  /\ Managers \subseteq ManagerIds
  /\ Rows \subseteq RowRecords
  /\ Remembered \subseteq SelectionPolicies

VARIABLES
  manager,    (* the manager                                                 *)
  policy,     (* its version policy                                          *)
  plan,       (* its immutable plan: a row per item                          *)
  target,     (* RowChoice: the selected update, kept under a removal mark   *)
  removing,   (* RowChoice::Remove                                           *)
  remembered, (* selection_policy                                            *)
  outcome     (* after confirmation: the intents, or why there are none      *)

inputVars == <<manager, policy, plan>>
choiceVars == <<target, removing, remembered>>
vars == <<inputVars, choiceVars, outcome>>

Open == [status |-> "open", intents |-> {}]
Refused == [status |-> "refused", intents |-> {}]

Includes(kept, package) == (kept.mode = "include") = (package \notin kept.except)
SetIncluded(kept, package, included) ==
  [kept EXCEPT !.except = IF included = (kept.mode = "include") THEN @ \ {package} ELSE @ \cup {package}]

-----------------------------------------------------------------------------
(* What is offered: selection_view *)

\* target_options_for_known_primary: an option per candidate when versions can
\* be installed exactly, the primary one standing for its own.
OptionsFor(row, primaryTarget, primary) ==
  IF ~Exact(manager) \/ row.candidates = {} THEN {primary}
  ELSE (row.candidates \ {primaryTarget}) \cup (IF primaryTarget \in row.candidates THEN {primary} ELSE {})

\* blocked_target_version, known_blocked_target
BlockedTarget(row) == IF row.blocking # NoVersion THEN row.blocking ELSE row.target

BlockedCanBeForced(row) ==
  SupportsAgeBypass(manager) \/ (row.kind = "audit" /\ NativeSelected(manager))

OffersForAnyMissing(row) == row.kind = "metadata"

\* missing_metadata is SelectedUpdate only for a manager-selected target.
OffersManagerResolved(row) ==
  row.kind = "metadata" /\ SelectsTarget(manager) /\ SupportsManagerResolved(manager)

Options(i) ==
  LET row == plan[i] IN
  CASE row.kind = "update" -> OptionsFor(row, row.target, "recommended")
    [] row.kind = "delayed" /\ SupportsAgeBypass(manager) -> OptionsFor(row, row.target, "forced")
    [] row.kind \in {"policy", "audit"} /\ BlockedCanBeForced(row) ->
         OptionsFor(row, BlockedTarget(row), "forced")
    [] OffersManagerResolved(row) -> {"manager resolved"}
    [] OTHER -> {}

-----------------------------------------------------------------------------
(* What it becomes: resolve_selection_for_execution *)

Item(version, exactRequired, bypass) ==
  [ok |-> TRUE, version |-> version, exactRequired |-> exactRequired, bypass |-> bypass]
NotExecutable == [ok |-> FALSE, version |-> NoVersion, exactRequired |-> FALSE, bypass |-> FALSE]

OptionalResolver == ResolverSelected(manager) /\ MinAgeOptional(manager)

ResolveRecommended(row) ==
  IF row.kind = "update" THEN Item(row.target, FALSE, FALSE) ELSE NotExecutable

ExactWithoutBypass(row, version) ==
  IF row.kind \in {"update", "delayed", "policy", "audit"} /\ Exact(manager)
  THEN Item(version, TRUE, FALSE)
  ELSE NotExecutable

ResolveExact(row, version) ==
  IF row.kind \in {"update", "delayed", "policy", "audit"} /\ Exact(manager)
  THEN Item(version, TRUE, version \in row.young)
  ELSE NotExecutable

ResolveForced(row) ==
  CASE row.kind = "delayed" /\ Exact(manager) -> Item(row.target, TRUE, TRUE)
    [] row.kind \in {"policy", "audit"} /\ Exact(manager) ->
         Item(BlockedTarget(row), TRUE, BlockedTarget(row) \in row.young)
    [] row.kind \in {"delayed", "policy", "audit"} /\ (OptionalResolver \/ NativeSelectedAgeBypass(manager)) ->
         Item(BlockedTarget(row), FALSE, TRUE)
    [] row.kind = "audit" /\ NativeSelected(manager) /\ ~NativeSelectedAgeBypass(manager) -> Item(BlockedTarget(row), FALSE, FALSE)
    [] OTHER -> NotExecutable

ResolveManagerResolved(row) ==
  IF /\ \/ row.kind \in {"update", "delayed", "policy", "audit"}
        \/ row.kind = "metadata" /\ SelectsTarget(manager)
     /\ SupportsManagerResolved(manager)
  THEN Item("manager resolved", FALSE, FALSE)
  ELSE NotExecutable

Resolved(i) ==
  CASE target[i] = "recommended" -> ResolveRecommended(plan[i])
    [] target[i] = "forced" -> ResolveForced(plan[i])
    [] target[i] = "manager resolved" -> ResolveManagerResolved(plan[i])
    [] OTHER -> ResolveExact(plan[i], target[i])

EveryUpdateKept == {i \in Items : target[i] # "none"}
Updates == {i \in Items : ~removing[i] /\ target[i] # "none"}
Removals == {i \in Items : removing[i]}
Recommendations == {i \in Items : plan[i].kind = "update"}

\* selected_matches_all_updates
SelectedMatchesAllUpdates == Updates = Recommendations

Plain(i) == ~Resolved(i).bypass /\ ~Resolved(i).exactRequired

UseNativeGlobal ==
  /\ NativeGlobalUpdate(manager)
  /\ Updates # {}
  /\ \A i \in Updates : Plain(i) /\ NativeGlobal(manager)
  /\ policy # "none" => NativeSelected(manager) /\ ~Exact(manager)
  /\ SelectedMatchesAllUpdates

UseResolverNativeGlobal ==
  /\ ResolverNativeGlobalUpdate(manager)
  /\ policy = "none"
  /\ Updates # {}
  /\ Recommendations = Items
  /\ \A i \in Updates : Plain(i) /\ ResolverSelected(manager)
  /\ SelectedMatchesAllUpdates

UseResolverNative(item) ==
  ResolverSelected(manager) /\ (policy = "none" \/ item.bypass \/ item.version = "manager resolved")

UseNativeSelected(item) ==
  /\ ~item.exactRequired
  /\ IF item.bypass THEN NativeSelectedAgeBypass(manager)
     ELSE /\ NativeSelected(manager)
          /\ item.version = "manager resolved" \/ ~Exact(manager) \/ policy = "none"

SupportsExactTarget(item) == Exact(manager) /\ item.version # "manager resolved"

Form(item) ==
  CASE item.exactRequired -> "exact"
    [] ~item.exactRequired /\ UseResolverNative(item) -> "resolver native"
    [] ~item.exactRequired /\ ~UseResolverNative(item) /\ UseNativeSelected(item) -> "native selected"
    [] ~item.exactRequired /\ ~UseResolverNative(item) /\ ~UseNativeSelected(item)
         /\ SupportsExactTarget(item) -> "exact"
    [] OTHER -> "unsupported"

Intent(form, items, version, bypass) ==
  [form |-> form, items |-> items, version |-> version, bypass |-> bypass]

RemovalIntents == {Intent("remove", {i}, NoVersion, FALSE) : i \in Removals}
ItemIntents ==
  {Intent(Form(Resolved(i)), {i}, Resolved(i).version, Resolved(i).bypass) : i \in Updates}

Resolution ==
  IF \/ \E i \in Updates : ~Resolved(i).ok
     \/ \E i \in Removals : ~plan[i].removable
  THEN Refused
  ELSE IF Removals = {} /\ UseNativeGlobal
  THEN [status |-> "resolved", intents |-> {Intent("native global", Updates, NoVersion, FALSE)}]
  ELSE IF Removals = {} /\ UseResolverNativeGlobal
  THEN [status |-> "resolved", intents |-> {Intent("resolver native global", Updates, NoVersion, FALSE)}]
  ELSE IF \E i \in Updates : Form(Resolved(i)) = "unsupported"
  THEN Refused
  ELSE [status |-> "resolved", intents |-> ItemIntents \cup RemovalIntents]

\* commands_for_execution_plan: the forms each adapter has a command for
Buildable(form) ==
  \/ form = "remove"
  \/ form = "exact" /\ manager \in {"npm", "gem", "bun"}
  \/ form = "native selected" /\ manager \in {"brew", "bun"}
  \/ form = "native global" /\ manager = "bun"
  \/ form = "resolver native" /\ manager \in {"mise", "uv"}
  \/ form = "resolver native global" /\ manager = "mise"

\* MiseError::ConflictingActions
Conflict(intents) ==
  /\ manager = "mise"
  /\ \E removal, update \in intents :
       /\ removal.form = "remove"
       /\ \/ update.form = "resolver native global"
          \/ /\ update.form = "resolver native"
             /\ \E i \in update.items, j \in removal.items : PackageOf[i] = PackageOf[j]

Built(resolution) ==
  IF resolution.status = "resolved" /\ Conflict(resolution.intents)
  THEN [resolution EXCEPT !.status = "conflict"]
  ELSE IF \E intent \in resolution.intents : ~Buildable(intent.form)
  THEN [resolution EXCEPT !.status = "unsupported"]
  ELSE resolution

-----------------------------------------------------------------------------
(* What is written down before anything runs: snapshot_row, which reads the  *)
(* plan and the selection, never the intents                                 *)

SnapshotAction(i) ==
  CASE removing[i] -> "remove"
    [] i \in Updates -> "update"
    [] OTHER -> "not chosen"

\* snapshot_plan_target
PlannedTarget(i) == plan[i].target

SnapshotTarget(i) ==
  CASE SnapshotAction(i) = "remove" \/ target[i] = "manager resolved" -> NoVersion
    [] SnapshotAction(i) = "update" /\ target[i] \in Versions -> target[i]
    [] OTHER -> PlannedTarget(i)

-----------------------------------------------------------------------------
(* What the user does: the key handlers of InteractiveSelectionScreen *)

Init ==
  /\ manager \in Managers
  /\ policy \in PoliciesOf(manager)
  /\ plan \in [Items -> Rows \cap PlanRows(manager, policy)]
  /\ remembered \in Remembered
  /\ target = [i \in Items |->
       IF plan[i].kind = "update" /\ Includes(remembered, PackageOf[i]) THEN "recommended" ELSE "none"]
  /\ removing = [i \in Items |-> FALSE]
  /\ outcome = Open

Deciding == outcome = Open /\ UNCHANGED <<inputVars, outcome>>

Choose(i, choice) == target' = [target EXCEPT ![i] = choice]
KeepRemovals == UNCHANGED removing
KeepPreference == UNCHANGED remembered
Prefer(i, included) == remembered' = SetIncluded(remembered, PackageOf[i], included)

\* `d`: toggle_removal keeps the update chosen before for the way back.
ToggleRemoval(i) ==
  /\ Deciding
  /\ plan[i].removable
  /\ removing' = [removing EXCEPT ![i] = ~@]
  /\ UNCHANGED <<target, remembered>>

\* Space on a removal: clear_removal goes to no action.
ClearRemoval(i) ==
  /\ removing[i]
  /\ removing' = [removing EXCEPT ![i] = FALSE]
  /\ Choose(i, "none")
  /\ KeepPreference

Deselect(i) ==
  /\ ~removing[i] /\ target[i] # "none"
  /\ Choose(i, "none")
  /\ KeepRemovals
  /\ IF plan[i].kind = "update" THEN Prefer(i, FALSE) ELSE KeepPreference

SelectRecommended(i) ==
  /\ ~removing[i] /\ plan[i].kind = "update"
  /\ Choose(i, "recommended")
  /\ KeepRemovals
  /\ Prefer(i, TRUE)

ForceCandidate(i) ==
  /\ ~removing[i] /\ "forced" \in Options(i)
  /\ Choose(i, "forced")
  /\ UNCHANGED <<removing, remembered>>

\* Space: toggle_current
ToggleCurrent(i) ==
  /\ Deciding
  /\ \/ ClearRemoval(i)
     \/ Deselect(i)
     \/ target[i] = "none" /\ SelectRecommended(i)
     \/ target[i] = "none" /\ plan[i].kind # "update" /\ ForceCandidate(i)

\* Enter in the picker: confirm_picker_target
PickTarget(i, option) ==
  /\ Deciding
  /\ ~removing[i]
  /\ option \in Options(i)
  /\ IF option = "recommended" THEN SelectRecommended(i)
     ELSE Choose(i, option) /\ UNCHANGED <<removing, remembered>>

\* `a` and `n`: select_visible.  A row with an update or a choice is visible.
Packages(S) == {PackageOf[i] : i \in S}

SetAllIncluded(packages, included) ==
  [remembered EXCEPT !.except =
     IF included = (remembered.mode = "include") THEN @ \ packages ELSE @ \cup packages]

SelectAll ==
  /\ Deciding
  /\ LET S == {i \in Recommendations : ~removing[i]} IN
       /\ target' = [i \in Items |-> IF i \in S THEN "recommended" ELSE target[i]]
       /\ remembered' = SetAllIncluded(Packages(S), TRUE)
  /\ KeepRemovals

SelectNone ==
  /\ Deciding
  /\ target' = [i \in Items |-> IF i \in Updates THEN "none" ELSE target[i]]
  /\ remembered' = SetAllIncluded(Packages(Updates \cap Recommendations), FALSE)
  /\ KeepRemovals

\* `C` in the confirmation dialog, then resolution and command building.
Confirm ==
  /\ outcome = Open
  /\ outcome' = Built(Resolution)
  /\ UNCHANGED <<inputVars, choiceVars>>

Next ==
  \/ \E i \in Items :
       \/ ToggleRemoval(i)
       \/ ToggleCurrent(i)
       \/ \E option \in Versions \cup {"recommended", "forced", "manager resolved"} : PickTarget(i, option)
  \/ SelectAll
  \/ SelectNone
  \/ Confirm

Spec == Init /\ [][Next]_vars

-----------------------------------------------------------------------------
(* Properties *)

Confirmed == outcome.status # "open"

\* Execution accepts whatever presentation offers, and the adapter has a command
\* for every intent: the one combination that is refused is the removal of one
\* version of a mise tool with an update of another.
OfferedIsExecutable ==
  /\ outcome.status \notin {"refused", "unsupported"}
  /\ outcome.status = "conflict" =>
       \E i \in Updates, j \in Removals : manager = "mise" /\ PackageOf[i] = PackageOf[j]

\* Every chosen item, and no other, is in exactly one intent of its kind; with
\* a removal in the selection no command reaches beyond its own item; and a
\* manager-wide command stands for a selection of every recommended update, at
\* its recommendation, and of nothing else.
EachChoiceInOneIntent ==
  outcome.status = "resolved" =>
    /\ \A intent \in outcome.intents :
         intent.form \in {"native global", "resolver native global"} =>
           \A i \in Items : target[i] = (IF plan[i].kind = "update" THEN "recommended" ELSE "none")
    /\ \A intent \in outcome.intents :
         intent.items \subseteq (IF intent.form = "remove" THEN Removals ELSE Updates)
    /\ \A i \in Updates \cup Removals : Cardinality({n \in outcome.intents : i \in n.items}) = 1
    /\ Removals # {} => \A intent \in outcome.intents : Cardinality(intent.items) = 1

\* The minimum release age is only given up for an item the user forced or gave
\* a version that is too young, and it is given up for each of the latter.
AgeWaivedOnlyByChoice ==
  \A intent \in outcome.intents : \A i \in intent.items :
    /\ intent.bypass => target[i] = "forced" \/ target[i] \in plan[i].young
    /\ intent.form = "exact" /\ intent.version \in plan[i].young => intent.bypass

\* The snapshot has every item that a command is for, and no other, as updated or
\* removed, and names for it the version the command is given, if it is given one;
\* only for what is forced past the audit it may name another.
ForManager(intent) == intent.form \in {"native global", "resolver native global"}
ForcedPastAudit(i) == plan[i].kind = "audit" /\ target[i] = "forced"

SnapshotAgrees ==
  outcome.status = "resolved" =>
    /\ \A i \in Items : SnapshotAction(i) # "not chosen" => \E intent \in outcome.intents : i \in intent.items
    /\ \A intent \in outcome.intents : \A i \in intent.items :
         /\ SnapshotAction(i) = IF intent.form = "remove" THEN "remove" ELSE "update"
         /\ ~ForManager(intent) /\ ~ForcedPastAudit(i) =>
              SnapshotTarget(i) = IF intent.version \in Versions THEN intent.version ELSE NoVersion

\* The snapshot shows the selected actions: the version it names for a selected
\* item is the one its command is given.
SnapshotShowsTheSelection ==
  outcome.status = "resolved" =>
    \A intent \in outcome.intents : \A i \in intent.items :
      intent.version \in Versions => SnapshotTarget(i) = intent.version

\* A target the audit withheld is not touched by any command, unless the user
\* explicitly chose a version for it.
Touched(intent) ==
  IF ForManager(intent) THEN Items ELSE intent.items

VulnerableStaysBlocked ==
  outcome.status = "resolved" =>
    \A intent \in outcome.intents : \A i \in Touched(intent) :
      plan[i].kind = "audit" => target[i] # "none" \/ removing[i]
=============================================================================
