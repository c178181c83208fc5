------------------------ MODULE ManagerSelectionProofs ------------------------
(***************************************************************************)
(* What is offered can be executed, for every plan of every manager and    *)
(* any number of items and versions: the two modules of the code that      *)
(* decide it agree because a choice on the screen is always one of the     *)
(* options of its row, and a row is always one that the evaluation makes.  *)
(*                                                                         *)
(* And what a key chooses is what the user saw, for any number of managers *)
(* and rows: the row under the cursor and the row of the picker are found  *)
(* again after every planning event, at an option they have.               *)
(***************************************************************************)
EXTENDS ManagerSelection, ScreenNavigation, FiniteSetTheorems, SequenceTheorems, TLAPS

-----------------------------------------------------------------------------
(* The inductive invariant *)

Plans ==
  /\ manager \in ManagerIds /\ policy \in PoliciesOf(manager)
  /\ plan \in [Items -> PlanRows(manager, policy)]

\* A choice is among what is offered, and a removal is of what can be removed.
ChoicesAreOffered ==
  /\ target \in [Items -> Versions \cup {"none", "recommended", "forced", "manager resolved"}]
  /\ removing \in [Items -> BOOLEAN]
  /\ \A i \in Items : target[i] # "none" => target[i] \in Options(i)
  /\ \A i \in Items : removing[i] => plan[i].removable

\* Once it is confirmed, the selection does not change any more.
Decided == outcome = Open \/ outcome = Built(Resolution)

SelectionInv == Plans /\ ChoicesAreOffered /\ Decided

\* What the evaluation says of a row.
LEMMA RowFacts ==
  ASSUME SelectionAssumption, Plans, NEW i \in Items
  PROVE  /\ plan[i].kind \in Kinds
         /\ plan[i].candidates \subseteq Versions
         /\ plan[i].young \subseteq plan[i].candidates
         /\ plan[i].blocking = NoVersion <=> plan[i].kind # "audit"
         /\ plan[i].kind = "update" => plan[i].target \in plan[i].candidates \ plan[i].young
         /\ plan[i].kind = "delayed" => plan[i].target \in plan[i].young
         /\ plan[i].kind = "audit" => plan[i].blocking \in plan[i].candidates \ plan[i].young
         /\ plan[i].kind = "policy" => policy # "none" /\ plan[i].target \in Versions
<1>1. plan[i] \in PlanRows(manager, policy)
  BY DEF Plans
<1>2. plan[i] \in RowRecords
  BY <1>1 DEF PlanRows
<1>3. /\ plan[i].kind \in Kinds /\ plan[i].candidates \subseteq Versions
      /\ plan[i].target \in Versions \cup {NoVersion}
  BY <1>2 DEF RowRecords
<1> QED
  BY <1>1, <1>3 DEF PlanRows

\* The options of a row are versions or words, and none is the absence of a choice.
LEMMA OptionsAre ==
  ASSUME SelectionAssumption, Plans, NEW i \in Items
  PROVE  /\ plan[i].kind = "update" => "recommended" \in Options(i)
         /\ Options(i) \subseteq Versions \cup {"recommended", "forced", "manager resolved"}
         /\ "none" \notin Options(i)
<1>1. \A planned, primary : OptionsFor(plan[i], planned, primary) \subseteq Versions \cup {primary}
  BY RowFacts DEF OptionsFor
<1>2. plan[i].kind = "update" =>
        /\ Options(i) = OptionsFor(plan[i], plan[i].target, "recommended")
        /\ "recommended" \in OptionsFor(plan[i], plan[i].target, "recommended")
  <2>1. plan[i].kind = "update" => Options(i) = OptionsFor(plan[i], plan[i].target, "recommended")
    BY DEF Options, OffersManagerResolved
  <2>2. plan[i].kind = "update" => plan[i].target \in plan[i].candidates
    BY RowFacts
  <2> QED
    BY <2>1, <2>2 DEF OptionsFor
<1>3. \/ \E planned, primary : /\ Options(i) = OptionsFor(plan[i], planned, primary)
                               /\ primary \in {"recommended", "forced"}
      \/ Options(i) \in {{}, {"manager resolved"}}
  <2>1. CASE plan[i].kind = "update"
    BY <1>2, <2>1
  <2>2. CASE plan[i].kind = "delayed"
    BY <2>2 DEF Options, OffersManagerResolved
  <2>3. CASE plan[i].kind \in {"policy", "audit"}
    BY <2>3 DEF Options, OffersManagerResolved
  <2>4. CASE plan[i].kind = "metadata"
    BY <2>4 DEF Options, OffersManagerResolved
  <2>5. CASE plan[i].kind \in {"lookup", "current", "skipped", "error"}
    BY <2>5 DEF Options, OffersManagerResolved
  <2> QED
    BY <2>1, <2>2, <2>3, <2>4, <2>5, RowFacts DEF Kinds
<1>4. Options(i) \subseteq Versions \cup {"recommended", "forced", "manager resolved"}
  <2>1. ASSUME NEW planned, NEW primary \in {"recommended", "forced"},
               Options(i) = OptionsFor(plan[i], planned, primary)
        PROVE  Options(i) \subseteq Versions \cup {"recommended", "forced", "manager resolved"}
    <3>1. Options(i) \subseteq Versions \cup {primary}
      BY <1>1, <2>1
    <3> QED
      BY <3>1
  <2>2. CASE Options(i) \in {{}, {"manager resolved"}}
    BY <2>2
  <2> QED
    BY <1>3, <2>1, <2>2
<1>5. "none" \notin Options(i)
  BY <1>4 DEF SelectionAssumption, Words
<1> QED
  BY <1>2, <1>4, <1>5

\* What a confirmation comes to depends on the plan and the choices alone.
LEMMA SameAnswer ==
  ASSUME UNCHANGED <<manager, policy, plan, target, removing>>
  PROVE  Built(Resolution)' = Built(Resolution)
<1>1. \A i : Resolved(i)' = Resolved(i)
  BY DEF Resolved, ResolveRecommended, ResolveForced, ResolveManagerResolved, ResolveExact,
         OptionalResolver, BlockedTarget, Item, NotExecutable, SupportsManagerResolved
<1>2. Updates' = Updates /\ Removals' = Removals /\ Recommendations' = Recommendations
  BY DEF Updates, Removals, Recommendations
<1>3. \A item : Form(item)' = Form(item)
  BY DEF Form, UseResolverNative, UseNativeSelected, SupportsExactTarget
<1>4. \A i : Plain(i)' = Plain(i)
  BY <1>1 DEF Plain
<1>5. UseNativeGlobal' = UseNativeGlobal
  BY <1>2, <1>4 DEF UseNativeGlobal, SelectedMatchesAllUpdates
<1>6. UseResolverNativeGlobal' = UseResolverNativeGlobal
  BY <1>2, <1>4 DEF UseResolverNativeGlobal, SelectedMatchesAllUpdates
<1>7. \A i : Form(Resolved(i))' = Form(Resolved(i))
  BY <1>1, <1>3 DEF Form, UseResolverNative, UseNativeSelected, SupportsExactTarget
<1>8. ItemIntents' = ItemIntents /\ RemovalIntents' = RemovalIntents
  BY <1>1, <1>2, <1>7 DEF ItemIntents, RemovalIntents, Intent
<1>9. Resolution' = Resolution
  BY <1>1, <1>2, <1>5, <1>6, <1>7, <1>8 DEF Resolution, Intent, Refused
<1>10. \A intents : Conflict(intents)' = Conflict(intents)
  BY DEF Conflict
<1>11. \A form : Buildable(form)' = Buildable(form)
  BY DEF Buildable
<1> QED
  BY <1>9, <1>10, <1>11 DEF Built, Conflict, Buildable

\* The invariant at first.
LEMMA SelectionStarts == SelectionAssumption /\ Init => SelectionInv
<1> SUFFICES ASSUME SelectionAssumption, Init PROVE SelectionInv
  OBVIOUS
<1>1. Plans
  BY DEF Init, Plans, SelectionAssumption
<1>2. ChoicesAreOffered
  BY <1>1, OptionsAre DEF Init, ChoicesAreOffered
<1> QED
  BY <1>1, <1>2 DEF Init, SelectionInv, Decided

\* A choice made on one row leaves the others as they are.
LEMMA OneChoice ==
  ASSUME Plans, ChoicesAreOffered, NEW i \in Items, NEW option, Choose(i, option),
         option = "none" \/ option \in Options(i), UNCHANGED inputVars,
         removing' \in [Items -> BOOLEAN], \A j \in Items : removing'[j] => removing[j],
         SelectionAssumption
  PROVE  ChoicesAreOffered'
<1>1. target' = [target EXCEPT ![i] = option] /\ UNCHANGED <<manager, policy, plan>>
  BY DEF Choose, inputVars
<1>2. option \in Versions \cup {"none", "recommended", "forced", "manager resolved"}
  BY OptionsAre
<1>3. \A j \in Items : Options(j)' = Options(j)
  BY <1>1 DEF Options, OptionsFor, BlockedTarget, BlockedCanBeForced, OffersManagerResolved
<1> QED
  BY <1>1, <1>2, <1>3 DEF ChoicesAreOffered

\* The invariant from step to step.
LEMMA SelectionKept ==
  ASSUME SelectionAssumption, SelectionInv, [Next]_vars PROVE SelectionInv'
<1> USE DEF SelectionInv
<1>1. CASE Confirm
  <2>1. outcome' = Built(Resolution) /\ UNCHANGED <<inputVars, choiceVars>>
    BY <1>1 DEF Confirm
  <2>2. UNCHANGED <<manager, policy, plan, target, removing, remembered>>
    BY <2>1 DEF inputVars, choiceVars
  <2>3. Plans' /\ ChoicesAreOffered'
    BY <2>2 DEF Plans, ChoicesAreOffered, Options, OptionsFor, BlockedTarget, BlockedCanBeForced,
                OffersManagerResolved
  <2>4. Built(Resolution)' = Built(Resolution)
    BY <2>2, SameAnswer
  <2> QED
    BY <2>1, <2>3, <2>4 DEF Decided
<1>2. CASE UNCHANGED vars
  <2>1. UNCHANGED <<manager, policy, plan, target, removing, remembered, outcome>>
    BY <1>2 DEF vars, inputVars, choiceVars
  <2>2. Plans' /\ ChoicesAreOffered'
    BY <2>1 DEF Plans, ChoicesAreOffered, Options, OptionsFor, BlockedTarget, BlockedCanBeForced,
                OffersManagerResolved
  <2>3. Built(Resolution)' = Built(Resolution)
    BY <2>1, SameAnswer
  <2> QED
    BY <2>1, <2>2, <2>3 DEF Decided
<1>3. ASSUME Deciding, ChoicesAreOffered' PROVE SelectionInv'
  <2>1. UNCHANGED <<manager, policy, plan, outcome>> /\ outcome = Open
    BY <1>3 DEF Deciding, inputVars
  <2> QED
    BY <1>3, <2>1 DEF Plans, Decided, Open
<1>4. ASSUME Deciding PROVE UNCHANGED inputVars /\ \A j \in Items : Options(j)' = Options(j) /\ plan' = plan
  BY <1>4 DEF Deciding, inputVars, Options, OptionsFor, BlockedTarget, BlockedCanBeForced,
              OffersManagerResolved
<1>5. ASSUME NEW i \in Items, ToggleRemoval(i) PROVE SelectionInv'
  <2>1. /\ Deciding /\ plan[i].removable /\ target' = target
        /\ removing' = [removing EXCEPT ![i] = ~@]
    BY <1>5 DEF ToggleRemoval
  <2>2. ChoicesAreOffered'
    BY <1>4, <2>1 DEF ChoicesAreOffered
  <2> QED
    BY <1>3, <2>1, <2>2
<1>6. ASSUME NEW i \in Items, ToggleCurrent(i) PROVE SelectionInv'
  <2>1. Deciding /\ \E option : Choose(i, option) /\ (option = "none" \/ option \in Options(i))
    BY <1>6, OptionsAre DEF ToggleCurrent, ClearRemoval, Deselect, SelectRecommended, ForceCandidate
  <2>2. removing' = removing \/ removing' = [removing EXCEPT ![i] = FALSE]
    BY <1>6 DEF ToggleCurrent, ClearRemoval, Deselect, SelectRecommended, ForceCandidate, KeepRemovals
  <2>3. removing' \in [Items -> BOOLEAN] /\ \A j \in Items : removing'[j] => removing[j]
    BY <2>2 DEF ChoicesAreOffered
  <2>4. ChoicesAreOffered'
    BY <1>4, <2>1, <2>3, OneChoice
  <2> QED
    BY <1>3, <2>1, <2>4
<1>7. ASSUME NEW i \in Items, NEW option, PickTarget(i, option) PROVE SelectionInv'
  <2>1. Deciding /\ Choose(i, option) /\ option \in Options(i) /\ removing' = removing
    BY <1>7 DEF PickTarget, SelectRecommended, KeepRemovals
  <2>2. ChoicesAreOffered'
    BY <1>4, <2>1, OneChoice DEF ChoicesAreOffered
  <2> QED
    BY <1>3, <2>1, <2>2
<1>8. CASE SelectAll \/ SelectNone
  <2>1. /\ Deciding /\ removing' = removing
        /\ \E S \in SUBSET Items, option \in {"none", "recommended"} :
             /\ target' = [j \in Items |-> IF j \in S THEN option ELSE target[j]]
             /\ option = "recommended" => \A j \in S : plan[j].kind = "update"
    <3>1. Recommendations \subseteq Items /\ Updates \subseteq Items
          /\ \A j \in Recommendations : plan[j].kind = "update"
      BY DEF Recommendations, Updates
    <3>2. CASE SelectAll
      BY <3>1, <3>2 DEF SelectAll, KeepRemovals
    <3>3. CASE SelectNone
      BY <3>1, <3>3 DEF SelectNone, KeepRemovals
    <3> QED
      BY <1>8, <3>2, <3>3
  <2>2. PICK S \in SUBSET Items, option \in {"none", "recommended"} :
          /\ target' = [j \in Items |-> IF j \in S THEN option ELSE target[j]]
          /\ option = "recommended" => \A j \in S : plan[j].kind = "update"
    BY <2>1
  <2>3. \A j \in Items : Options(j)' = Options(j) /\ plan' = plan
    BY <1>4, <2>1
  <2>4. \A j \in Items : target'[j] # "none" => target'[j] \in Options(j)
    BY <2>2, OptionsAre DEF ChoicesAreOffered
  <2>5. target' \in [Items -> Versions \cup {"none", "recommended", "forced", "manager resolved"}]
    BY <2>2 DEF ChoicesAreOffered
  <2>6. ChoicesAreOffered'
    BY <2>1, <2>3, <2>4, <2>5 DEF ChoicesAreOffered
  <2> QED
    BY <1>3, <2>1, <2>6
<1> QED
  BY <1>1, <1>2, <1>5, <1>6, <1>7, <1>8 DEF Next

\* The invariant along every behaviour.
LEMMA SelectionInductive == Spec => []SelectionInv
<1>1. Init => SelectionInv
  BY SelectionStarts, SelectionAssumption
<1>2. SelectionInv /\ [Next]_vars => SelectionInv'
  BY SelectionKept, SelectionAssumption
<1> QED
  BY <1>1, <1>2, PTL DEF Spec

-----------------------------------------------------------------------------
(* What a choice becomes *)

\* The cases of a choice that is among the options of its row.
LEMMA ChoiceCases ==
  ASSUME SelectionAssumption, Plans, ChoicesAreOffered, NEW i \in Items, target[i] # "none"
  PROVE  \/ target[i] = "recommended" /\ plan[i].kind = "update"
         \/ /\ target[i] = "forced"
            /\ \/ plan[i].kind = "delayed" /\ SupportsAgeBypass(manager)
               \/ plan[i].kind \in {"policy", "audit"} /\ BlockedCanBeForced(plan[i])
         \/ target[i] = "manager resolved" /\ OffersManagerResolved(plan[i])
         \/ /\ target[i] \in plan[i].candidates /\ Exact(manager)
            /\ plan[i].kind \in {"update", "delayed", "policy", "audit"}
<1>1. target[i] \in Options(i)
  BY DEF ChoicesAreOffered
<1>2. \A planned, primary : target[i] \in OptionsFor(plan[i], planned, primary) =>
        target[i] = primary \/ (Exact(manager) /\ target[i] \in plan[i].candidates)
  BY DEF OptionsFor
<1>3. CASE plan[i].kind = "update"
  <2>1. Options(i) = OptionsFor(plan[i], plan[i].target, "recommended")
    BY <1>3 DEF Options, OffersManagerResolved
  <2> QED
    BY <1>1, <1>2, <1>3, <2>1
<1>4. CASE plan[i].kind = "delayed"
  <2>1. SupportsAgeBypass(manager) /\ Options(i) = OptionsFor(plan[i], plan[i].target, "forced")
    BY <1>1, <1>4 DEF Options, OffersManagerResolved
  <2> QED
    BY <1>1, <1>2, <1>4, <2>1
<1>5. CASE plan[i].kind \in {"policy", "audit"}
  <2>1. /\ BlockedCanBeForced(plan[i])
        /\ Options(i) = OptionsFor(plan[i], BlockedTarget(plan[i]), "forced")
    BY <1>1, <1>5 DEF Options, OffersManagerResolved
  <2> QED
    BY <1>1, <1>2, <1>5, <2>1
<1>6. CASE plan[i].kind = "metadata"
  <2>1. OffersManagerResolved(plan[i]) /\ Options(i) = {"manager resolved"}
    BY <1>1, <1>6 DEF Options, OffersManagerResolved
  <2> QED
    BY <1>1, <2>1
<1>7. CASE plan[i].kind \in {"lookup", "current", "skipped", "error"}
  BY <1>1, <1>7 DEF Options, OffersManagerResolved
<1> QED
  BY <1>3, <1>4, <1>5, <1>6, <1>7, RowFacts DEF Kinds

\* What the audit blocked, or the planned target, is a version wherever it is forced.
LEMMA BlockedIsAVersion ==
  ASSUME SelectionAssumption, Plans, NEW i \in Items, plan[i].kind \in {"delayed", "policy", "audit"}
  PROVE  /\ BlockedTarget(plan[i]) \in Versions
         /\ plan[i].kind = "delayed" => BlockedTarget(plan[i]) = plan[i].target
         /\ plan[i].kind = "audit" => BlockedTarget(plan[i]) \notin plan[i].young
BY RowFacts DEF BlockedTarget, SelectionAssumption

\* Each manager's support, in one table.
LEMMA Support ==
  ASSUME manager \in ManagerIds, policy \in PoliciesOf(manager)
  PROVE  /\ Exact(manager) <=> manager \in {"npm", "gem", "bun"}
         /\ NativeSelected(manager) <=> manager = "brew"
         /\ NativeSelectedAgeBypass(manager) <=> manager = "brew"
         /\ ResolverSelected(manager) <=> manager \in {"mise", "uv"}
         /\ OptionalResolver <=> manager \in {"mise", "uv"}
         /\ manager \in {"mise", "uv"} => policy = "none"
         /\ manager \in {"npm", "gem", "bun", "brew", "mise", "uv"}
         /\ SupportsAgeBypass(manager)
BY DEF Exact, NativeSelected, NativeSelectedAgeBypass, ResolverSelected, MinAgeOptional, OptionalResolver,
       PoliciesOf, ManagerIds, SupportsAgeBypass

\* The form of an item at each manager.
LEMMA FormOf ==
  ASSUME manager \in ManagerIds, policy \in PoliciesOf(manager),
         NEW version, NEW exact \in BOOLEAN, NEW bypass \in BOOLEAN
  PROVE  /\ exact => Form(Item(version, exact, bypass)) = "exact"
         /\ ~exact /\ manager \in {"mise", "uv"} => Form(Item(version, exact, bypass)) = "resolver native"
         /\ ~exact /\ manager = "brew" => Form(Item(version, exact, bypass)) = "native selected"
         /\ ~exact /\ ~bypass /\ Exact(manager) /\ version # "manager resolved" =>
              Form(Item(version, exact, bypass)) = "exact"
<1> DEFINE item == Item(version, exact, bypass)
<1>1. item.exactRequired = exact /\ item.bypass = bypass /\ item.version = version
  BY DEF Item
<1> HIDE DEF item
<1>2. exact => Form(item) = "exact"
  BY <1>1 DEF Form
<1>3. ~exact /\ UseResolverNative(item) => Form(item) = "resolver native"
  BY <1>1 DEF Form
<1>4. ~exact /\ ~UseResolverNative(item) /\ UseNativeSelected(item) => Form(item) = "native selected"
  BY <1>1 DEF Form
<1>5. ~exact /\ ~UseResolverNative(item) /\ ~UseNativeSelected(item) /\ SupportsExactTarget(item)
        => Form(item) = "exact"
  BY <1>1 DEF Form
<1>6. manager \in {"mise", "uv"} => UseResolverNative(item)
  BY <1>1, Support DEF UseResolverNative
<1>7. manager \notin {"mise", "uv"} => ~UseResolverNative(item)
  BY <1>1, Support DEF UseResolverNative
<1>8. manager = "brew" /\ ~exact => UseNativeSelected(item)
  BY <1>1, Support DEF UseNativeSelected
<1>9. Exact(manager) => manager \notin {"mise", "uv"} /\ ~UseNativeSelected(item)
  BY <1>1, Support DEF UseNativeSelected
<1>10. Exact(manager) /\ version # "manager resolved" => SupportsExactTarget(item)
  BY <1>1 DEF SupportsExactTarget
<1>11. Form(item) = "exact" \/ ~exact
  BY <1>2
<1>12. manager = "brew" => manager \notin {"mise", "uv"}
  OBVIOUS
<1>13. ~exact /\ manager \in {"mise", "uv"} => Form(item) = "resolver native"
  BY <1>3, <1>6
<1>14. ~exact /\ manager = "brew" => Form(item) = "native selected"
  BY <1>4, <1>7, <1>8, <1>12
<1>15. ~exact /\ ~bypass /\ Exact(manager) /\ version # "manager resolved" => Form(item) = "exact"
  BY <1>5, <1>7, <1>9, <1>10
<1> QED
  BY <1>2, <1>13, <1>14, <1>15 DEF item

\* What is expected of the item that a choice is resolved into.
GoodItem(i, item) ==
  /\ item.ok
  /\ item.bypass => target[i] = "forced" \/ target[i] \in plan[i].young
  /\ item.version \in plan[i].young => item.bypass
  /\ ~item.exactRequired => target[i] \notin Versions
  /\ Form(item) \in {"exact", "native selected", "resolver native"}
  /\ Buildable(Form(item))

\* An item made for a choice is good when its version, its form and its bypass fit.
LEMMA ItemIsGood ==
  ASSUME SelectionAssumption, Plans, NEW i \in Items,
         NEW version, NEW exact \in BOOLEAN, NEW bypass \in BOOLEAN,
         bypass => target[i] = "forced" \/ target[i] \in plan[i].young,
         version \in plan[i].young => bypass,
         ~exact => target[i] \notin Versions,
         exact => Exact(manager),
         Exact(manager) /\ ~exact => ~bypass /\ version # "manager resolved"
  PROVE  GoodItem(i, Item(version, exact, bypass))
<1> DEFINE item == Item(version, exact, bypass)
<1>1. item.ok /\ item.exactRequired = exact /\ item.bypass = bypass /\ item.version = version
  BY DEF Item
<1>2. manager \in ManagerIds /\ policy \in PoliciesOf(manager)
  BY DEF Plans
<1>3. \/ Form(item) = "exact" /\ Exact(manager)
      \/ Form(item) = "resolver native" /\ manager \in {"mise", "uv"}
      \/ Form(item) = "native selected" /\ manager = "brew"
  <2>1. CASE exact
    BY <1>2, <2>1, FormOf
  <2>2. CASE ~exact /\ Exact(manager)
    BY <1>2, <2>2, FormOf
  <2>3. CASE ~exact /\ ~Exact(manager)
    <3>1. manager \in {"brew", "mise", "uv"}
      BY <1>2, <2>3, Support
    <3> QED
      BY <1>2, <2>3, <3>1, FormOf
  <2> QED
    BY <2>1, <2>2, <2>3
<1>4. Exact(manager) => manager \in {"npm", "gem", "bun"}
  BY <1>2, Support
<1> HIDE DEF item
<1>5. Form(item) \in {"exact", "native selected", "resolver native"} /\ Buildable(Form(item))
  BY <1>3, <1>4 DEF Buildable
<1> QED
  BY <1>1, <1>5 DEF GoodItem, item

\* A choice is resolved, keeps the minimum age unless it says otherwise, and
\* has a form that its manager has a command for.
LEMMA ChoiceResolves ==
  ASSUME SelectionAssumption, Plans, ChoicesAreOffered, NEW i \in Items, target[i] # "none"
  PROVE  GoodItem(i, Resolved(i))
<1>0. manager \in ManagerIds /\ policy \in PoliciesOf(manager)
  BY DEF Plans
<1>1. CASE target[i] = "recommended" /\ plan[i].kind = "update"
  <2>1. Resolved(i) = Item(plan[i].target, FALSE, FALSE)
    BY <1>1 DEF Resolved, ResolveRecommended
  <2>2. /\ plan[i].target \notin plan[i].young /\ plan[i].target # "manager resolved"
        /\ target[i] \notin Versions
    BY <1>1, RowFacts DEF SelectionAssumption, Words
  <2> QED
    BY <2>1, <2>2, ItemIsGood
<1>2. CASE target[i] = "manager resolved" /\ OffersManagerResolved(plan[i])
  <2>1. plan[i].kind = "metadata" /\ SelectsTarget(manager) /\ SupportsManagerResolved(manager)
    BY <1>2 DEF OffersManagerResolved
  <2>2. Resolved(i) = Item("manager resolved", FALSE, FALSE)
    BY <1>2, <2>1 DEF Resolved, ResolveManagerResolved
  <2>3. "manager resolved" \notin plan[i].young /\ target[i] \notin Versions /\ ~Exact(manager)
    BY <1>0, <1>2, <2>1, RowFacts, Support DEF SelectionAssumption, Words, SelectsTarget
  <2> QED
    BY <2>2, <2>3, ItemIsGood
<1>3. CASE target[i] = "forced" /\ plan[i].kind \in {"delayed", "policy", "audit"}
  <2>1. Resolved(i) = ResolveForced(plan[i])
    BY <1>3 DEF Resolved
  <2>2. /\ BlockedTarget(plan[i]) \in Versions
        /\ plan[i].kind = "delayed" => BlockedTarget(plan[i]) = plan[i].target
        /\ plan[i].young \subseteq Versions
    BY <1>3, BlockedIsAVersion, RowFacts
  <2>3. target[i] \notin Versions
    BY <1>3 DEF SelectionAssumption, Words
  <2>4. CASE Exact(manager)
    <3>1. PICK bypass \in BOOLEAN :
            /\ Resolved(i) = Item(BlockedTarget(plan[i]), TRUE, bypass)
            /\ BlockedTarget(plan[i]) \in plan[i].young => bypass
      <4>1. CASE plan[i].kind = "delayed"
        BY <1>0, <2>1, <2>2, <2>4, <4>1, Support DEF ResolveForced
      <4>2. CASE plan[i].kind \in {"policy", "audit"}
        <5>1. ResolveForced(plan[i])
                = Item(BlockedTarget(plan[i]), TRUE, BlockedTarget(plan[i]) \in plan[i].young)
          BY <1>0, <2>4, <4>2, Support DEF ResolveForced
        <5>2. (BlockedTarget(plan[i]) \in plan[i].young) \in BOOLEAN
          OBVIOUS
        <5> WITNESS (BlockedTarget(plan[i]) \in plan[i].young) \in BOOLEAN
        <5> QED
          BY <2>1, <5>1
      <4> QED
        BY <1>3, <4>1, <4>2
    <3> QED
      BY <1>3, <2>3, <2>4, <3>1, ItemIsGood
  <2>5. CASE ~Exact(manager)
    <3>1. OptionalResolver \/ NativeSelectedAgeBypass(manager)
      BY <1>0, <2>5, Support
    <3>2. ResolveForced(plan[i]) = Item(BlockedTarget(plan[i]), FALSE, TRUE)
      BY <1>0, <1>3, <2>5, <3>1, Support DEF ResolveForced
    <3> QED
      BY <1>3, <2>1, <2>3, <2>5, <3>2, ItemIsGood
  <2> QED
    BY <2>4, <2>5
<1>4. CASE /\ target[i] \in plan[i].candidates /\ Exact(manager)
           /\ plan[i].kind \in {"update", "delayed", "policy", "audit"}
  <2>1. target[i] \in Versions
    BY <1>4, RowFacts
  <2>2. target[i] \notin {"recommended", "forced", "manager resolved"}
    BY <2>1 DEF SelectionAssumption, Words
  <2>3. PICK bypass \in BOOLEAN :
          Resolved(i) = Item(target[i], TRUE, bypass) /\ (bypass <=> target[i] \in plan[i].young)
    <3>1. Resolved(i) = Item(target[i], TRUE, target[i] \in plan[i].young)
      BY <1>4, <2>2 DEF Resolved, ResolveExact
    <3>2. (target[i] \in plan[i].young) \in BOOLEAN
      OBVIOUS
    <3> WITNESS (target[i] \in plan[i].young) \in BOOLEAN
    <3> QED
      BY <3>1
  <2> QED
    BY <1>4, <2>3, ItemIsGood
<1> QED
  BY <1>1, <1>2, <1>3, <1>4, ChoiceCases

\* The snapshot names the version a choice is resolved into, if there is one.
LEMMA SnapshotFits ==
  ASSUME SelectionAssumption, Plans, ChoicesAreOffered, NEW i \in Updates, ~ForcedPastAudit(i)
  PROVE  SnapshotTarget(i) = IF Resolved(i).version \in Versions THEN Resolved(i).version ELSE NoVersion
<1>1. i \in Items /\ target[i] # "none" /\ SnapshotAction(i) = "update"
  BY DEF Updates, SnapshotAction
<1>2. CASE target[i] = "recommended" /\ plan[i].kind = "update"
  <2>1. Resolved(i).version = plan[i].target
    BY <1>2 DEF Resolved, ResolveRecommended, Item
  <2>2. plan[i].target \in Versions /\ target[i] \notin Versions
    BY <1>1, <1>2, RowFacts DEF SelectionAssumption, Words
  <2> QED
    BY <1>1, <1>2, <2>1, <2>2 DEF SnapshotTarget, PlannedTarget
<1>3. CASE target[i] = "manager resolved" /\ OffersManagerResolved(plan[i])
  <2>1. Resolved(i) = Item("manager resolved", FALSE, FALSE)
    BY <1>3 DEF Resolved, ResolveManagerResolved, OffersManagerResolved
  <2>2. Resolved(i).version = "manager resolved"
    <3>1. \A version : Item(version, FALSE, FALSE).version = version
      BY DEF Item
    <3> QED
      BY <2>1, <3>1
  <2>3. "manager resolved" \notin Versions
    BY DEF SelectionAssumption, Words
  <2> QED
    BY <1>3, <2>2, <2>3 DEF SnapshotTarget
<1>4. CASE target[i] = "forced" /\ plan[i].kind \in {"delayed", "policy", "audit"}
  <2>1. plan[i].kind \in {"delayed", "policy"} /\ BlockedTarget(plan[i]) = plan[i].target
    BY <1>1, <1>4, RowFacts DEF ForcedPastAudit, BlockedTarget
  <2>2. plan[i].target \in Versions /\ target[i] \notin Versions
    BY <1>1, <1>4, <2>1, RowFacts DEF SelectionAssumption, Words
  <2>3. Resolved(i).ok /\ Resolved(i) = ResolveForced(plan[i])
    BY <1>1, <1>4, ChoiceResolves DEF Resolved, GoodItem
  <2>4. Resolved(i).version = plan[i].target
    BY <2>1, <2>3 DEF ResolveForced, Item, NotExecutable
  <2> QED
    BY <1>1, <1>4, <2>2, <2>4 DEF SnapshotTarget, PlannedTarget
<1>5. CASE /\ target[i] \in plan[i].candidates /\ Exact(manager)
           /\ plan[i].kind \in {"update", "delayed", "policy", "audit"}
  <2>1. target[i] \in Versions
    BY <1>1, <1>5, RowFacts
  <2>2. target[i] \notin {"recommended", "forced", "manager resolved"}
    BY <2>1 DEF SelectionAssumption, Words
  <2>3. Resolved(i).version = target[i]
    BY <1>5, <2>2 DEF Resolved, ResolveExact, Item
  <2> QED
    BY <1>1, <2>1, <2>2, <2>3 DEF SnapshotTarget
<1> QED
  BY <1>1, <1>2, <1>3, <1>4, <1>5, ChoiceCases

-----------------------------------------------------------------------------
(* What a confirmed selection becomes *)

\* One command for a whole manager.
Whole(form) ==
  [status |-> "resolved", intents |-> {Intent(form, Updates, NoVersion, FALSE)}]

\* The fields of a manager-wide answer.
LEMMA WholeFields ==
  ASSUME NEW form
  PROVE  /\ Whole(form).status = "resolved"
         /\ \A intent \in Whole(form).intents : /\ intent = Intent(form, Updates, NoVersion, FALSE)
                                                /\ intent.form = form /\ intent.items = Updates
                                                /\ ~intent.bypass
<1>1. /\ Whole(form).status = "resolved"
      /\ Whole(form).intents = {Intent(form, Updates, NoVersion, FALSE)}
  BY DEF Whole
<1>2. ASSUME NEW intent \in Whole(form).intents
      PROVE  /\ intent = Intent(form, Updates, NoVersion, FALSE)
             /\ intent.form = form /\ intent.items = Updates
             /\ ~intent.bypass
  <2>1. intent = Intent(form, Updates, NoVersion, FALSE)
    BY <1>1
  <2> QED
    BY <2>1 DEF Intent
<1> QED
  BY <1>1, <1>2

\* The selection as one manager-wide command, or as an intent for each choice.
AsWhole ==
  /\ Removals = {}
  /\ \/ UseNativeGlobal /\ outcome = Whole("native global")
     \/ UseResolverNativeGlobal /\ outcome = Whole("resolver native global")
AsItems ==
  /\ outcome.intents = ItemIntents \cup RemovalIntents
  /\ outcome.status \in {"resolved", "conflict"}
  /\ outcome.status = "conflict" => Conflict(ItemIntents \cup RemovalIntents)

\* A chosen update is resolved and can be built, a removal is possible.
LEMMA EveryChoiceResolves ==
  ASSUME SelectionAssumption, SelectionInv
  PROVE  /\ \A i \in Updates : i \in Items /\ target[i] # "none" /\ GoodItem(i, Resolved(i))
         /\ \A i \in Removals : i \in Items /\ plan[i].removable
BY ChoiceResolves DEF SelectionInv, ChoicesAreOffered, Updates, Removals

\* The forms of the intents for single items.
LEMMA IntentForms ==
  ASSUME SelectionAssumption, SelectionInv
  PROVE  /\ \A intent \in ItemIntents :
              /\ intent.form \in {"exact", "native selected", "resolver native"}
              /\ Buildable(intent.form)
         /\ \A intent \in RemovalIntents : intent.form = "remove"
<1>1. ASSUME NEW intent \in ItemIntents
      PROVE  intent.form \in {"exact", "native selected", "resolver native"} /\ Buildable(intent.form)
  <2>1. PICK i \in Updates : intent.form = Form(Resolved(i))
    BY DEF ItemIntents, Intent
  <2> QED
    BY <2>1, EveryChoiceResolves DEF GoodItem
<1>2. ASSUME NEW intent \in RemovalIntents PROVE intent.form = "remove"
  <2>1. PICK i \in Removals : intent = Intent("remove", {i}, NoVersion, FALSE)
    BY DEF RemovalIntents
  <2> QED
    BY <2>1 DEF Intent
<1> QED
  BY <1>1, <1>2

\* The outcome is one of the two answers.
LEMMA AnswerCases ==
  ASSUME SelectionAssumption, SelectionInv, outcome # Open
  PROVE  AsWhole \/ AsItems
<1>1. outcome = Built(Resolution)
  BY DEF SelectionInv, Decided
<1>2. ~(\E i \in Updates : ~Resolved(i).ok) /\ ~(\E i \in Removals : ~plan[i].removable)
  BY EveryChoiceResolves DEF GoodItem
<1>3. ~(\E i \in Updates : Form(Resolved(i)) = "unsupported")
  BY EveryChoiceResolves DEF GoodItem
<1>4. ASSUME NEW form \in {"native global", "resolver native global"}, Buildable(form)
      PROVE  Built(Whole(form)) = Whole(form)
  <2>1. Whole(form).status = "resolved"
        /\ \A intent \in Whole(form).intents : intent.form = form
    BY WholeFields
  <2>2. ~Conflict(Whole(form).intents)
    BY <1>4, <2>1 DEF Conflict
  <2> QED
    BY <1>4, <2>1, <2>2 DEF Built
<1>5. CASE Removals = {} /\ UseNativeGlobal
  <2>1. Resolution = Whole("native global")
    BY <1>2, <1>5 DEF Resolution, Whole
  <2>2. Buildable("native global")
    BY <1>5 DEF Buildable, UseNativeGlobal, NativeGlobalUpdate
  <2> QED
    BY <1>1, <1>4, <1>5, <2>1, <2>2 DEF AsWhole
<1>6. CASE Removals = {} /\ ~UseNativeGlobal /\ UseResolverNativeGlobal
  <2>1. Resolution = Whole("resolver native global")
    BY <1>2, <1>6 DEF Resolution, Whole
  <2>2. Buildable("resolver native global")
    BY <1>6 DEF Buildable, UseResolverNativeGlobal, ResolverNativeGlobalUpdate
  <2> QED
    BY <1>1, <1>4, <1>6, <2>1, <2>2 DEF AsWhole
<1>7. CASE Removals # {} \/ (~UseNativeGlobal /\ ~UseResolverNativeGlobal)
  <2> DEFINE all == ItemIntents \cup RemovalIntents
  <2>1. Resolution = [status |-> "resolved", intents |-> all]
    BY <1>2, <1>3, <1>7 DEF Resolution
  <2>2. \A intent \in all : Buildable(intent.form)
    BY IntentForms DEF Buildable
  <2> HIDE DEF all
  <2>3. CASE Conflict(all)
    <3>1. Built(Resolution) = [Resolution EXCEPT !.status = "conflict"]
      BY <2>1, <2>3 DEF Built
    <3>2. outcome.status = "conflict" /\ outcome.intents = all
      BY <1>1, <2>1, <3>1
    <3> QED
      BY <2>3, <3>2 DEF AsItems, all
  <2>4. CASE ~Conflict(all)
    <3>1. Built(Resolution) = Resolution
      BY <2>1, <2>2, <2>4 DEF Built
    <3>2. outcome.status = "resolved" /\ outcome.intents = all
      BY <1>1, <2>1, <3>1
    <3> QED
      BY <3>2 DEF AsItems, all
  <2> QED
    BY <2>3, <2>4
<1> QED
  BY <1>5, <1>6, <1>7

-----------------------------------------------------------------------------
(* Theorems *)

\* Execution accepts whatever the screen offers, and the adapter has a command
\* for every intent; only the removal of one version of a mise tool with an
\* update of another is refused.  selection_view, resolve_selection_for_execution
\* and commands_for_execution_plan decide this each for itself.
THEOREM OffersAreKept == Spec => []OfferedIsExecutable
<1>1. ASSUME SelectionAssumption, SelectionInv PROVE OfferedIsExecutable
  <2>1. CASE outcome = Open
    BY <2>1 DEF Open, OfferedIsExecutable
  <2>2. CASE outcome # Open /\ AsWhole
    BY <2>2, WholeFields DEF AsWhole, OfferedIsExecutable
  <2>3. CASE AsItems
    <3>1. ASSUME Conflict(ItemIntents \cup RemovalIntents)
          PROVE  \E i \in Updates, j \in Removals : manager = "mise" /\ PackageOf[i] = PackageOf[j]
      <4>1. PICK removal, update \in ItemIntents \cup RemovalIntents :
              /\ removal.form = "remove"
              /\ \/ update.form = "resolver native global"
                 \/ /\ update.form = "resolver native"
                    /\ \E i \in update.items, j \in removal.items : PackageOf[i] = PackageOf[j]
        BY <3>1 DEF Conflict
      <4>2. removal \in RemovalIntents /\ update \in ItemIntents /\ update.form = "resolver native"
        BY <1>1, <4>1, IntentForms
      <4>3. PICK i \in update.items, j \in removal.items : PackageOf[i] = PackageOf[j]
        BY <4>1, <4>2
      <4>4. i \in Updates /\ j \in Removals
        <5>1. PICK k \in Updates :
                update = Intent(Form(Resolved(k)), {k}, Resolved(k).version, Resolved(k).bypass)
          BY <4>2 DEF ItemIntents
        <5>2. PICK l \in Removals : removal = Intent("remove", {l}, NoVersion, FALSE)
          BY <4>2 DEF RemovalIntents
        <5>3. update.items = {k} /\ removal.items = {l}
          BY <5>1, <5>2 DEF Intent
        <5> QED
          BY <4>3, <5>3
      <4> QED
        BY <3>1, <4>3, <4>4 DEF Conflict
    <3> QED
      BY <2>3, <3>1 DEF AsItems, OfferedIsExecutable
  <2> QED
    BY <1>1, <2>1, <2>2, <2>3, AnswerCases
<1> QED
  BY <1>1, SelectionInductive, SelectionAssumption, PTL

\* The minimum release age is given up for no item but the ones the user
\* forced or gave a version that is too young, and for each of the latter.
THEOREM AgeIsKept == Spec => []AgeWaivedOnlyByChoice
<1>1. ASSUME SelectionAssumption, SelectionInv PROVE AgeWaivedOnlyByChoice
  <2>1. CASE outcome = Open
    BY <2>1 DEF Open, AgeWaivedOnlyByChoice
  <2>2. CASE AsWhole
    <3>1. \A intent \in outcome.intents :
            ~intent.bypass /\ intent.form \in {"native global", "resolver native global"}
      BY <2>2, WholeFields DEF AsWhole
    <3> QED
      BY <3>1 DEF AgeWaivedOnlyByChoice
  <2>3. CASE AsItems
    <3>1. ASSUME NEW intent \in ItemIntents, NEW i \in intent.items
          PROVE  /\ intent.bypass => target[i] = "forced" \/ target[i] \in plan[i].young
                 /\ intent.form = "exact" /\ intent.version \in plan[i].young => intent.bypass
      <4>1. PICK j \in Updates : intent = Intent(Form(Resolved(j)), {j}, Resolved(j).version, Resolved(j).bypass)
        BY DEF ItemIntents
      <4>2. /\ i = j /\ intent.version = Resolved(j).version /\ intent.bypass = Resolved(j).bypass
        BY <4>1 DEF Intent
      <4> QED
        BY <1>1, <4>2, EveryChoiceResolves DEF GoodItem
    <3>2. \A intent \in RemovalIntents : ~intent.bypass /\ intent.form = "remove"
      BY DEF RemovalIntents, Intent
    <3> QED
      BY <2>3, <3>1, <3>2 DEF AsItems, AgeWaivedOnlyByChoice
  <2> QED
    BY <1>1, <2>1, <2>2, <2>3, AnswerCases
<1> QED
  BY <1>1, SelectionInductive, SelectionAssumption, PTL

\* Every chosen item, and no other, is in exactly one intent of its kind; with
\* a removal in the selection no command reaches beyond its own item; and a
\* manager-wide command stands for every recommended update and nothing else.
THEOREM OneIntentEach == Spec => []EachChoiceInOneIntent
<1>1. ASSUME SelectionAssumption, SelectionInv PROVE EachChoiceInOneIntent
  <2> DEFINE With(i) == {n \in outcome.intents : i \in n.items}
  <2>1. CASE outcome = Open
    BY <2>1 DEF Open, EachChoiceInOneIntent
  <2>2. CASE AsWhole
    <3>1. PICK form \in {"native global", "resolver native global"} :
            outcome.intents = {Intent(form, Updates, NoVersion, FALSE)}
      <4>1. PICK form \in {"native global", "resolver native global"} : outcome = Whole(form)
        BY <2>2 DEF AsWhole
      <4>2. outcome.intents = {Intent(form, Updates, NoVersion, FALSE)}
        BY <4>1 DEF Whole
      <4> QED
        BY <4>2
    <3>2. Updates = Recommendations /\ \A i \in Updates : Plain(i)
      BY <2>2 DEF AsWhole, UseNativeGlobal, UseResolverNativeGlobal, SelectedMatchesAllUpdates
    <3>3. ASSUME NEW i \in Items
          PROVE  target[i] = (IF plan[i].kind = "update" THEN "recommended" ELSE "none")
      <4>1. CASE plan[i].kind = "update"
        <5>1. i \in Updates /\ Plain(i)
          BY <3>2, <4>1 DEF Recommendations
        <5>2. target[i] \notin Versions /\ target[i] # "none"
          BY <1>1, <5>1, EveryChoiceResolves DEF GoodItem, Plain
        <5>3. plan[i].candidates \subseteq Versions
          BY <1>1, RowFacts DEF SelectionInv
        <5> QED
          BY <1>1, <4>1, <5>2, <5>3, ChoiceCases DEF SelectionInv, OffersManagerResolved
      <4>2. CASE plan[i].kind # "update"
        <5>1. i \notin Updates /\ i \notin Removals
          BY <2>2, <3>2, <4>2 DEF AsWhole, Recommendations
        <5> QED
          BY <4>2, <5>1 DEF Updates, Removals
      <4> QED
        BY <4>1, <4>2
    <3>4. \A intent \in outcome.intents : intent.form # "remove" /\ intent.items = Updates
      <4>1. ASSUME NEW intent \in outcome.intents
            PROVE  intent.form # "remove" /\ intent.items = Updates
        <5>1. intent = Intent(form, Updates, NoVersion, FALSE)
          BY <3>1
        <5> QED
          BY <5>1 DEF Intent
      <4> QED
        BY <4>1
    <3>5. ASSUME NEW i \in Updates \cup Removals PROVE Cardinality(With(i)) = 1
      <4>1. i \in Updates
        BY <2>2 DEF AsWhole
      <4>2. With(i) = {Intent(form, Updates, NoVersion, FALSE)}
        BY <3>1, <3>4, <4>1
      <4> QED
        BY <4>2, FS_Singleton
    <3> QED
      BY <2>2, <3>3, <3>4, <3>5 DEF AsWhole, EachChoiceInOneIntent
  <2>3. CASE AsItems
    <3> DEFINE update(i) == Intent(Form(Resolved(i)), {i}, Resolved(i).version, Resolved(i).bypass)
               removal(i) == Intent("remove", {i}, NoVersion, FALSE)
    <3>1. /\ \A n \in ItemIntents : \E i \in Updates : n = update(i) /\ n.items = {i}
          /\ \A n \in RemovalIntents : \E i \in Removals : n = removal(i) /\ n.items = {i}
      BY DEF ItemIntents, RemovalIntents, Intent
    <3>2. /\ \A i \in Updates : update(i) \in ItemIntents /\ update(i).items = {i}
          /\ \A i \in Removals : removal(i) \in RemovalIntents /\ removal(i).items = {i}
      BY DEF ItemIntents, RemovalIntents, Intent
    <3>3. Updates \cap Removals = {}
      BY DEF Updates, Removals
    <3>4. outcome.intents = ItemIntents \cup RemovalIntents
      BY <2>3 DEF AsItems
    <3> HIDE DEF update, removal
    <3>5. ASSUME NEW i \in Updates PROVE Cardinality(With(i)) = 1
      <4>1. With(i) = {update(i)}
        BY <3>1, <3>2, <3>3, <3>4
      <4> QED
        BY <4>1, FS_Singleton
    <3>6. ASSUME NEW i \in Removals PROVE Cardinality(With(i)) = 1
      <4>1. With(i) = {removal(i)}
        BY <3>1, <3>2, <3>3, <3>4
      <4> QED
        BY <4>1, FS_Singleton
    <3>7. \A n \in outcome.intents : Cardinality(n.items) = 1
      BY <3>1, <3>4, FS_Singleton
    <3>8. \A n \in outcome.intents : n.items \subseteq (IF n.form = "remove" THEN Removals ELSE Updates)
      BY <1>1, <3>1, <3>4, IntentForms
    <3>9. \A n \in outcome.intents : n.form \notin {"native global", "resolver native global"}
      BY <1>1, <3>4, IntentForms
    <3> QED
      BY <3>5, <3>6, <3>7, <3>8, <3>9 DEF EachChoiceInOneIntent
  <2> QED
    BY <1>1, <2>1, <2>2, <2>3, AnswerCases
<1> QED
  BY <1>1, SelectionInductive, SelectionAssumption, PTL

\* What was written down before it ran is what ran: each item that a command is
\* for, as updated or removed, at its version unless it was forced past the audit.
THEOREM WrittenIsRun == Spec => []SnapshotAgrees
<1>1. ASSUME SelectionAssumption, SelectionInv PROVE SnapshotAgrees
  <2> DEFINE Covered ==
               \A i \in Items : SnapshotAction(i) # "not chosen" =>
                 \E intent \in outcome.intents : i \in intent.items
             Told(intent) ==
               \A i \in intent.items :
                 /\ SnapshotAction(i) = IF intent.form = "remove" THEN "remove" ELSE "update"
                 /\ ~ForManager(intent) /\ ~ForcedPastAudit(i) =>
                      SnapshotTarget(i) = IF intent.version \in Versions THEN intent.version ELSE NoVersion
  <2>1. /\ \A i \in Updates : SnapshotAction(i) = "update"
        /\ \A i \in Removals : SnapshotAction(i) = "remove" /\ SnapshotTarget(i) = NoVersion
        /\ \A i \in Items : SnapshotAction(i) # "not chosen" => i \in Updates \cup Removals
    BY DEF SnapshotAction, SnapshotTarget, Updates, Removals
  <2>2. CASE outcome = Open
    BY <2>2 DEF Open, SnapshotAgrees
  <2>3. CASE AsWhole
    <3>1. PICK form \in {"native global", "resolver native global"} : outcome = Whole(form)
      BY <2>3 DEF AsWhole
    <3>2. ASSUME NEW intent \in outcome.intents PROVE Told(intent)
      <4>1. intent.items = Updates /\ intent.form = form
        BY <3>1, <3>2, WholeFields
      <4> QED
        BY <2>1, <4>1 DEF ForManager
    <3>3. Covered
      <4>1. Removals = {} /\ Intent(form, Updates, NoVersion, FALSE) \in outcome.intents
        BY <2>3, <3>1 DEF AsWhole, Whole
      <4>2. Intent(form, Updates, NoVersion, FALSE).items = Updates
        BY DEF Intent
      <4> QED
        BY <2>1, <4>1, <4>2
    <3> QED
      BY <3>2, <3>3 DEF SnapshotAgrees
  <2>4. CASE AsItems
    <3>1. ASSUME NEW intent \in ItemIntents PROVE Told(intent)
      <4>1. PICK i \in Updates : intent = Intent(Form(Resolved(i)), {i}, Resolved(i).version, Resolved(i).bypass)
        BY <3>1 DEF ItemIntents
      <4>2. intent.items = {i} /\ intent.version = Resolved(i).version /\ intent.form # "remove"
        BY <1>1, <3>1, <4>1, IntentForms DEF Intent
      <4>3. ~ForcedPastAudit(i) =>
              SnapshotTarget(i) = IF Resolved(i).version \in Versions THEN Resolved(i).version ELSE NoVersion
        BY <1>1, SnapshotFits DEF SelectionInv
      <4> QED
        BY <2>1, <4>2, <4>3
    <3>2. ASSUME NEW intent \in RemovalIntents PROVE Told(intent)
      <4>1. PICK i \in Removals : intent = Intent("remove", {i}, NoVersion, FALSE)
        BY <3>2 DEF RemovalIntents
      <4>2. intent.items = {i} /\ intent.version = NoVersion /\ intent.form = "remove"
        BY <4>1 DEF Intent
      <4> QED
        BY <1>1, <2>1, <4>2 DEF SelectionAssumption
    <3>3. Covered
      <4>1. ASSUME NEW i \in Updates PROVE \E intent \in ItemIntents : i \in intent.items
        <5> DEFINE update == Intent(Form(Resolved(i)), {i}, Resolved(i).version, Resolved(i).bypass)
        <5>1. update \in ItemIntents /\ update.items = {i}
          BY DEF ItemIntents, Intent
        <5> QED
          BY <5>1
      <4>2. ASSUME NEW i \in Removals PROVE \E intent \in RemovalIntents : i \in intent.items
        <5> DEFINE removal == Intent("remove", {i}, NoVersion, FALSE)
        <5>1. removal \in RemovalIntents /\ removal.items = {i}
          BY DEF RemovalIntents, Intent
        <5> QED
          BY <5>1
      <4> QED
        BY <2>1, <2>4, <4>1, <4>2 DEF AsItems
    <3> QED
      BY <2>4, <3>1, <3>2, <3>3 DEF AsItems, SnapshotAgrees
  <2> QED
    BY <1>1, <2>2, <2>3, <2>4, AnswerCases
<1> QED
  BY <1>1, SelectionInductive, SelectionAssumption, PTL

-----------------------------------------------------------------------------
(* The screen: lists in order *)

\* How many elements come up to one tells the elements apart.
LEMMA RanksDiffer ==
  ASSUME NEW S \in SUBSET Nat, IsFiniteSet(S),
         NEW rank, rank = [i \in S |-> Cardinality({j \in S : j <= i})]
  PROVE  rank \in Injection(S, 1..Cardinality(S))
<1> DEFINE UpTo(i) == {j \in S : j <= i}
<1>1. ASSUME NEW i \in S
      PROVE  /\ IsFiniteSet(UpTo(i)) /\ Cardinality(UpTo(i)) \in 1..Cardinality(S)
  <2>1. UpTo(i) \in SUBSET S /\ i \in UpTo(i)
    OBVIOUS
  <2> HIDE DEF UpTo
  <2>2. IsFiniteSet(UpTo(i)) /\ Cardinality(UpTo(i)) <= Cardinality(S)
    BY <2>1, FS_Subset
  <2>3. Cardinality(UpTo(i)) \in Nat /\ Cardinality(S) \in Nat /\ Cardinality(UpTo(i)) # 0
    BY <2>1, <2>2, FS_CardinalityType, FS_EmptySet
  <2> QED
    BY <2>2, <2>3
<1>2. ASSUME NEW i \in S, NEW j \in S, i < j PROVE Cardinality(UpTo(i)) # Cardinality(UpTo(j))
  <2>1. i \in Nat /\ j \in Nat /\ \A k \in S : k \in Nat
    OBVIOUS
  <2>2. ~(j <= i) /\ j <= j /\ \A k \in S : k <= i => k <= j
    BY <1>2, <2>1
  <2>3. UpTo(i) \in SUBSET UpTo(j) /\ j \in UpTo(j) /\ j \notin UpTo(i)
    BY <2>1, <2>2
  <2> HIDE DEF UpTo
  <2> QED
    BY <1>1, <2>3, FS_Subset
<1>3. ASSUME NEW i \in S, NEW j \in S, Cardinality(UpTo(i)) = Cardinality(UpTo(j)) PROVE i = j
  <2>1. i < j \/ j < i \/ i = j
    OBVIOUS
  <2> HIDE DEF UpTo
  <2> QED
    BY <1>2, <1>3, <2>1
<1>4. \A i \in S : rank[i] = Cardinality(UpTo(i))
  OBVIOUS
<1> HIDE DEF UpTo
<1>5. rank \in [S -> 1..Cardinality(S)]
  BY <1>1, <1>4
<1>6. \A i, j \in S : rank[i] = rank[j] => i = j
  BY <1>3, <1>4
<1> QED
  BY <1>5, <1>6 DEF Injection, IsInjective

\* A finite set of numbers in order is a list of its elements and of nothing else.
LEMMA ListsAll ==
  ASSUME NEW S \in SUBSET Nat, IsFiniteSet(S)
  PROVE  /\ InOrder(S) \in Seq(S)
         /\ DOMAIN InOrder(S) = 1..Len(InOrder(S))
         /\ ToSet(InOrder(S)) = S
<1> DEFINE N == Cardinality(S)
           UpTo(i) == {j \in S : j <= i}
           rank == [i \in S |-> Cardinality(UpTo(i))]
           list == InOrder(S)
<1>1. N \in Nat
  BY FS_CardinalityType
<1>2. rank \in Injection(S, 1..N)
  BY RanksDiffer
<1>3. rank \in Surjection(S, 1..N) /\ rank \in [S -> 1..N]
  <2>1. IsFiniteSet(1..N) /\ Cardinality(1..N) = N
    BY <1>1, FS_Interval
  <2> HIDE DEF rank, N
  <2> QED
    BY <1>2, <2>1, FS_Injection DEF N, Injection
<1>4. list = [k \in 1..N |-> CHOOSE i \in S : Cardinality(UpTo(i)) = k]
  BY DEF InOrder
<1>5. \A i \in S : rank[i] = Cardinality(UpTo(i))
  OBVIOUS
<1> HIDE DEF rank, list, UpTo
<1>6. ASSUME NEW k \in 1..N PROVE list[k] \in S /\ rank[list[k]] = k
  <2>1. \E i \in S : Cardinality(UpTo(i)) = k
    BY <1>3, <1>5 DEF Surjection
  <2> QED
    BY <1>4, <1>5, <2>1
<1>7. list \in [1..N -> S]
  BY <1>4, <1>6
<1>8. list \in Seq(S) /\ Len(list) = N /\ DOMAIN list = 1..N
  BY <1>1, <1>7
<1>9. ASSUME NEW i \in S PROVE \E k \in 1..N : list[k] = i
  <2>1. rank[i] \in 1..N
    BY <1>3
  <2>2. list[rank[i]] \in S /\ rank[list[rank[i]]] = rank[i]
    BY <1>6, <2>1
  <2>3. list[rank[i]] = i
    BY <1>2, <2>2 DEF Injection, IsInjective
  <2> QED
    BY <2>1, <2>3
<1>10. ToSet(list) = S
  BY <1>6, <1>8, <1>9 DEF ToSet
<1> QED
  BY <1>8, <1>10 DEF list

\* The rows on the screen are those that are shown.
LEMMA RowsAreShown ==
  ASSUME NEW st, NEW t, NEW ch, NEW all
  PROVE  /\ Visible(st, t, ch, all) \in Seq(AllRows)
         /\ DOMAIN Visible(st, t, ch, all) = 1..Len(Visible(st, t, ch, all))
         /\ ToSet(Visible(st, t, ch, all)) = Shown(st, ActiveManager(st, t), ch, all)
<1> DEFINE S == Shown(st, ActiveManager(st, t), ch, all)
<1>1. AllRows \in SUBSET Nat /\ IsFiniteSet(AllRows)
  <2>1. Len(View) \in Nat
    BY ScreenAssumption
  <2> QED
    BY <2>1, FS_Interval DEF AllRows
<1>2. S \in SUBSET AllRows
  BY DEF Shown
<1>3. S \in SUBSET Nat /\ IsFiniteSet(S)
  BY <1>1, <1>2, FS_Subset
<1>4. InOrder(S) \in Seq(S) /\ DOMAIN InOrder(S) = 1..Len(InOrder(S)) /\ ToSet(InOrder(S)) = S
  BY <1>3, ListsAll
<1>5. InOrder(S) \in Seq(AllRows)
  BY <1>2, <1>4
<1> QED
  BY <1>4, <1>5 DEF Visible

\* The tabs are that of all managers and one of each that has something.
LEMMA TabsAreListed ==
  ASSUME NEW st
  PROVE  /\ DOMAIN Tabs(st) = 1..Len(Tabs(st)) /\ Len(Tabs(st)) \in Nat
         /\ ToSet(Tabs(st)) = {0} \cup {m \in ManagerIndexes : st[m] # "empty"}
<1> DEFINE S == {0} \cup {m \in ManagerIndexes : st[m] # "empty"}
<1>1. S \in SUBSET (0..ManagerCount)
  BY ScreenAssumption DEF ManagerIndexes
<1>2. S \in SUBSET Nat /\ IsFiniteSet(S)
  <2>1. IsFiniteSet(0..ManagerCount) /\ 0..ManagerCount \in SUBSET Nat
    BY ScreenAssumption, FS_Interval
  <2> HIDE DEF S
  <2> QED
    BY <1>1, <2>1, FS_Subset
<1>3. InOrder(S) \in Seq(S) /\ DOMAIN InOrder(S) = 1..Len(InOrder(S)) /\ ToSet(InOrder(S)) = S
  BY <1>2, ListsAll
<1>4. Len(InOrder(S)) \in Nat
  BY <1>3
<1> QED
  BY <1>3, <1>4 DEF Tabs

-----------------------------------------------------------------------------
(* The screen: the invariant *)

\* What the variables hold.
Targets == {"none", "recommended", "exact", "forced", "manager resolved"}
RowChoices == [AllRows -> [target : Targets, removing : BOOLEAN]]
PlanningStatuses == [ManagerIndexes -> {"waiting", "planning", "ready", "empty", "error"}]

ScreenTypes ==
  /\ status \in PlanningStatuses
  /\ choice \in RowChoices
  /\ picker \in [row : {NoRow} \cup AllRows, option : Nat]
  /\ finished \in BOOLEAN /\ failed \in BOOLEAN /\ showAll \in BOOLEAN
  /\ searching \in BOOLEAN /\ dialog \in BOOLEAN

\* A row of a planned manager, on the tab of that manager or of all of them.  A
\* choice that is taken back may hide it, but no event takes it away.
InPlay(r) ==
  /\ r \in AllRows
  /\ status[View[r].manager] = "ready"
  /\ ActiveManager(status, tab) \in {0, View[r].manager}

\* The rows on the list, in no order.
Listed == Shown(status, ActiveManager(status, tab), choice, showAll)

\* The picker is open on a row in play, at an option it has.
PickerFits(p) == InPlay(p.row) /\ p.option \in 1..OptionCount(p.row)
PickerBound == picker # NoPicker => PickerFits(picker)

\* The row that was drawn as focused keeps the focus for as long as it is shown.
SeenIsFocus == seen # NoRow => InPlay(seen) /\ (seen \in Listed => Focus = seen)

\* The confirmation dialog is the last thing on a screen without errors.
DialogIsLast == dialog => finished /\ ~PlanningError /\ picker = NoPicker /\ ~searching

\* The inductive invariant
ScreenInv ==
  /\ ScreenTypes
  /\ PickerBound
  /\ SeenIsFocus
  /\ DialogIsLast
  /\ NothingOfferedIsRefused

\* What is in the list of visible rows.
LEMMA VisibleIsListed ==
  /\ VisibleRows \in Seq(AllRows) /\ DOMAIN VisibleRows = 1..Len(VisibleRows)
  /\ Len(VisibleRows) \in Nat
  /\ ToSet(VisibleRows) = Listed
  /\ \A i \in DOMAIN VisibleRows : VisibleRows[i] \in Listed
<1>1. /\ VisibleRows \in Seq(AllRows) /\ DOMAIN VisibleRows = 1..Len(VisibleRows)
      /\ ToSet(VisibleRows) = Listed
  BY RowsAreShown DEF VisibleRows, Listed
<1>2. Len(VisibleRows) \in Nat
  BY <1>1
<1> QED
  BY <1>1, <1>2 DEF ToSet

\* Every row on the list is in play.
LEMMA ListedInPlay == \A r \in Listed : InPlay(r) /\ r # NoRow
BY ScreenAssumption DEF Listed, Shown, InPlay, AllRows, NoRow

\* The cursor is on a row of the list, or on none.
LEMMA CurrentIsListed == Current # NoRow => Current \in Listed
BY VisibleIsListed DEF Current

\* The options of a row.
LEMMA OptionsOfRow ==
  ASSUME NEW r \in AllRows
  PROVE  /\ Len(View[r].options) \in Nat /\ DOMAIN View[r].options = 1..Len(View[r].options)
         /\ OptionCount(r) = Len(View[r].options) + 1
         /\ \A i \in 1..Len(View[r].options) :
              View[r].options[i] \in Targets /\ Contains(View[r].options, View[r].options[i])
         /\ Contains(View[r].options, "recommended") => View[r].update
<1> DEFINE options == View[r].options
<1>1. View[r] \in ViewRows
  BY ScreenAssumption DEF AllRows
<1>2. options \in Seq({"recommended", "exact", "forced", "manager resolved"})
  BY <1>1 DEF ViewRows
<1>3. Contains(options, "recommended") => View[r].update
  BY ScreenAssumption DEF AllRows
<1>4. OptionCount(r) = Len(options) + 1
  BY DEF OptionCount
<1> HIDE DEF options
<1>5. Len(options) \in Nat /\ DOMAIN options = 1..Len(options)
  BY <1>2, LenProperties
<1>6. \A i \in 1..Len(options) : options[i] \in Targets /\ Contains(options, options[i])
  BY <1>2, <1>5, ElementOfSeq DEF Targets, Contains
<1> QED
  BY <1>3, <1>4, <1>5, <1>6 DEF options

\* The picker opens at an option of its row.
LEMMA PickerOpens ==
  ASSUME NEW r \in AllRows \cup {NoRow}, r # NoRow => InPlay(r)
  PROVE  /\ PickerOn(r) \in [row : {NoRow} \cup AllRows, option : Nat]
         /\ PickerOn(r) = NoPicker \/ PickerFits(PickerOn(r))
<1>1. CASE r = NoRow
  BY <1>1 DEF PickerOn, NoPicker
<1>2. CASE r # NoRow
  <2> DEFINE options == View[r].options
  <2>1. r \in AllRows /\ InPlay(r)
    BY <1>2
  <2>2. /\ Len(options) \in Nat /\ DOMAIN options = 1..Len(options)
        /\ OptionCount(r) = Len(options) + 1
    BY <2>1, OptionsOfRow
  <2> HIDE DEF options
  <2>3. ASSUME NEW wanted, Contains(options, wanted)
        PROVE (CHOOSE i \in DOMAIN options : options[i] = wanted) \in 1..Len(options)
    BY <2>2, <2>3 DEF Contains
  <2>4. InitialOption(r) \in 1..OptionCount(r) /\ InitialOption(r) \in Nat
    <3>1. InitialOption(r) = 1 \/ InitialOption(r) \in 1..Len(options)
      BY <2>3 DEF InitialOption, options
    <3> QED
      BY <2>2, <3>1
  <2> QED
    BY <1>2, <2>1, <2>4 DEF PickerOn, PickerFits
<1> QED
  BY <1>1, <1>2

-----------------------------------------------------------------------------
(* The screen: choices *)

\* A choice that is accepted, and changes nothing but its row.
Fine(result, r) ==
  /\ result.ok = TRUE
  /\ result.choice \in RowChoices
  /\ \A q \in AllRows : q # r => result.choice[q] = choice[q]

\* Choosing an option a row has is accepted.
LEMMA ChoiceIsFine ==
  ASSUME ScreenTypes, NEW r \in AllRows, NEW option \in Targets,
         option = "recommended" => View[r].update,
         option # "recommended" => Contains(View[r].options, option)
  PROVE  Fine(ChooseTarget(r, option), r)
BY DEF ScreenTypes, RowChoices, ChooseTarget, Accepted, Refusal, Fine

\* Asking for a removal is accepted: the screen does not ask where it is not offered.
LEMMA RemovalIsFine ==
  ASSUME ScreenTypes, NEW r \in AllRows
  PROVE  Fine(RemovalToggled(r), r)
BY DEF ScreenTypes, RowChoices, RemovalToggled, Removal, Accepted, Refusal, Fine

\* Toggling a row is accepted, whatever was chosen for it.
LEMMA ToggleIsFine ==
  ASSUME ScreenTypes, NEW r \in AllRows
  PROVE  Fine(Toggled(r), r)
<1>1. Fine(Accepted(choice), r)
  BY DEF ScreenTypes, Accepted, Fine
<1>2. Fine(Accepted([choice EXCEPT ![r] = NoChoice]), r)
  BY DEF ScreenTypes, RowChoices, Targets, NoChoice, Accepted, Fine
<1>3. Fine(DeselectRow(r), r)
  BY DEF ScreenTypes, RowChoices, Targets, DeselectRow, Accepted, Fine
<1>4. View[r].update => Fine(ChooseTarget(r, "recommended"), r)
  BY ChoiceIsFine DEF Targets
<1>5. Contains(View[r].options, "forced") => Fine(ChooseTarget(r, "forced"), r)
  BY ChoiceIsFine DEF Targets
<1> QED
  BY <1>1, <1>2, <1>3, <1>4, <1>5 DEF Toggled

\* A choice that is taken.
LEMMA TakenIsFine ==
  ASSUME NEW r, NEW result, Fine(result, r), Take(result)
  PROVE  /\ choice' \in RowChoices /\ exit' = exit
         /\ \A q \in AllRows : q # r => choice'[q] = choice[q]
BY DEF Fine, Take

-----------------------------------------------------------------------------
(* The screen: keys and clicks *)

\* What a picker that is open after a step is bound to.
PickerGood ==
  \/ picker' = NoPicker
  \/ /\ UNCHANGED tab
     /\ picker' \in [row : {NoRow} \cup AllRows, option : Nat]
     /\ PickerFits(picker')

\* A picker that is left alone on the same tab is still bound to its row.
LEMMA SamePicker == ASSUME ScreenInv, UNCHANGED <<picker, tab>> PROVE PickerGood
BY DEF ScreenInv, ScreenTypes, PickerBound, PickerGood

\* An input event leaves the plans alone and forgets what was drawn, so little else
\* has to be known of it.
LEMMA ReadsKeep ==
  ASSUME ScreenInv, Reads, PickerGood,
         choice' \in RowChoices,
         showAll' \in BOOLEAN, searching' \in BOOLEAN, dialog' \in BOOLEAN,
         dialog' => finished /\ ~PlanningError /\ picker' = NoPicker /\ ~searching',
         exit' # "refused"
  PROVE  ScreenInv'
<1>1. status' = status /\ finished' = finished /\ failed' = failed /\ seen' = NoRow
  BY DEF Reads, planVars
<1>2. ScreenTypes'
  BY <1>1 DEF ScreenInv, ScreenTypes, PickerGood, NoPicker
<1>3. PickerBound'
  BY <1>1 DEF PickerGood, PickerFits, PickerBound, InPlay
<1>4. SeenIsFocus'
  BY <1>1 DEF SeenIsFocus
<1>5. DialogIsLast'
  BY <1>1 DEF DialogIsLast, PlanningError
<1> QED
  BY <1>2, <1>3, <1>4, <1>5 DEF ScreenInv, NothingOfferedIsRefused

\* Moving about.
LEMMA MovesKeep ==
  ASSUME ScreenInv,
         \/ MoveCursor \/ SelectTab \/ ToggleViewAll \/ Scroll
         \/ OpenSearch \/ ExitSearch \/ TypeSearch \/ SearchOn
  PROVE  ScreenInv'
<1>1. /\ Reads /\ ~dialog /\ picker = NoPicker
      /\ UNCHANGED <<choice, picker, dialog, exit>>
      /\ showAll' \in BOOLEAN /\ searching' \in BOOLEAN
  BY DEF ScreenInv, ScreenTypes, MoveCursor, SelectTab, ToggleViewAll, Scroll, OpenSearch, ExitSearch,
         TypeSearch, SearchOn, InList, InSearch, searchVars
<1>2. PickerGood
  BY <1>1 DEF PickerGood
<1> QED
  BY <1>1, <1>2, ReadsKeep DEF ScreenInv, ScreenTypes, NothingOfferedIsRefused

\* The focused row is in play.
LEMMA FocusInPlay == ASSUME ScreenInv, Focus # NoRow PROVE InPlay(Focus) /\ Focus \in AllRows
BY ListedInPlay, CurrentIsListed DEF ScreenInv, PickerBound, PickerFits, Focus, InPlay

\* A step that only chooses for a row, and may close the picker.
ChoosesFor(r) ==
  /\ choice' \in RowChoices /\ exit' = exit
  /\ \A q \in AllRows : q # r => choice'[q] = choice[q]
  /\ picker' \in {picker, NoPicker}
  /\ UNCHANGED <<placeVars, showAll, searchVars, dialog>>

\* Picking an option of the picker's row chooses for that row.
LEMMA PickIsFine ==
  ASSUME ScreenInv, InPicker, NEW option \in Targets, Pick(option),
         Contains(View[picker.row].options, option)
  PROVE  ChoosesFor(picker.row)
<1>1. picker.row \in AllRows
  BY DEF ScreenInv, PickerBound, PickerFits, InPlay, InPicker
<1>2. Fine(ChooseTarget(picker.row, option), picker.row)
  BY <1>1, OptionsOfRow, ChoiceIsFine DEF ScreenInv
<1>3. CASE choice[picker.row].removing
  BY <1>3 DEF Pick, ChoosesFor, ScreenInv, ScreenTypes
<1>4. CASE ~choice[picker.row].removing
  BY <1>2, <1>4, TakenIsFine DEF Pick, ChoosesFor
<1> QED
  BY <1>3, <1>4

\* The key for the recommended version chooses for the picker's row.
LEMMA RecommendedIsFine ==
  ASSUME ScreenInv, ChooseRecommended
  PROVE  InPicker /\ ChoosesFor(picker.row)
<1>1. InPicker
  BY DEF ChooseRecommended
<1>2. CASE Contains(View[picker.row].options, "recommended")
  BY <1>1, <1>2, PickIsFine DEF ChooseRecommended, Targets
<1>3. CASE ~Contains(View[picker.row].options, "recommended")
  BY <1>1, <1>3 DEF ChooseRecommended, ChoosesFor, ScreenInv, ScreenTypes
<1> QED
  BY <1>1, <1>2, <1>3

\* Confirming the picker at one of its options chooses for its row.
LEMMA ConfirmedIsFine ==
  ASSUME ScreenInv, InPicker, NEW option \in 1..OptionCount(picker.row), PickerConfirm(option)
  PROVE  ChoosesFor(picker.row)
<1>1. picker.row \in AllRows
  BY DEF ScreenInv, PickerBound, PickerFits, InPlay, InPicker
<1>2. CASE option = OptionCount(picker.row)
  <2>1. Fine(RemovalToggled(picker.row), picker.row)
    BY <1>1, RemovalIsFine DEF ScreenInv
  <2> QED
    BY <1>2, <2>1, TakenIsFine DEF PickerConfirm, ChoosesFor
<1>3. CASE option # OptionCount(picker.row)
  <2> DEFINE options == View[picker.row].options
  <2>1. option \in 1..Len(options)
    BY <1>1, <1>3, OptionsOfRow
  <2>2. options[option] \in Targets /\ Contains(options, options[option])
    BY <1>1, <2>1, OptionsOfRow
  <2> QED
    BY <1>3, <2>2, PickIsFine DEF PickerConfirm
<1> QED
  BY <1>2, <1>3

\* A key acts on the focused row.
LEMMA KeyIsFine == ASSUME ScreenInv, RowKey PROVE ChoosesFor(Focus)
<1>1. CASE ToggleFocused
  <2>1. Fine(Toggled(Focus), Focus)
    BY <1>1, FocusInPlay, ToggleIsFine DEF ToggleFocused, ScreenInv
  <2> QED
    BY <1>1, <2>1, TakenIsFine DEF ToggleFocused, ChoosesFor
<1>2. CASE ToggleFocusedRemoval
  <2>1. Fine(RemovalToggled(Focus), Focus)
    BY <1>2, FocusInPlay, RemovalIsFine DEF ToggleFocusedRemoval, ScreenInv
  <2> QED
    BY <1>2, <2>1, TakenIsFine DEF ToggleFocusedRemoval, ChoosesFor
<1>3. CASE ChooseRecommended
  BY <1>3, RecommendedIsFine DEF Focus, InPicker
<1>4. CASE InPicker /\ PickerConfirm(picker.option)
  <2>1. picker.option \in 1..OptionCount(picker.row) /\ Focus = picker.row
    BY <1>4 DEF ScreenInv, PickerBound, PickerFits, Focus, InPicker
  <2> QED
    BY <1>4, <2>1, ConfirmedIsFine
<1> QED
  BY <1>1, <1>2, <1>3, <1>4 DEF RowKey

\* Choosing for one row keeps the invariant.
LEMMA ChoosingKeeps ==
  ASSUME ScreenInv, Reads, ~dialog, NEW r, ChoosesFor(r)
  PROVE  ScreenInv'
<1>1. PickerGood
  BY SamePicker DEF ChoosesFor, PickerGood, placeVars
<1> QED
  BY <1>1, ReadsKeep DEF ChoosesFor, searchVars, ScreenInv, ScreenTypes, NothingOfferedIsRefused

\* Keys and clicks that choose for one row.
LEMMA KeysChoose ==
  ASSUME ScreenInv, RowKey \/ ClickOption
  PROVE  ScreenInv'
<1>1. CASE RowKey
  <2>1. Reads /\ ~dialog
    BY <1>1 DEF RowKey, ToggleFocused, ToggleFocusedRemoval, ChooseRecommended, UnlessSearching, InPicker
  <2> QED
    BY <1>1, <2>1, KeyIsFine, ChoosingKeeps
<1>2. CASE ClickOption
  <2>1. InPicker /\ ChoosesFor(picker.row)
    BY <1>2, ConfirmedIsFine DEF ClickOption
  <2> QED
    BY <2>1, ChoosingKeeps DEF InPicker
<1> QED
  BY <1>1, <1>2

\* Selecting all or none.
LEMMA SelectingKeeps ==
  ASSUME ScreenInv, NEW selected \in BOOLEAN, SelectVisible(selected)
  PROVE  ScreenInv'
<1>1. Reads /\ ~dialog /\ UNCHANGED <<placeVars, showAll, searchVars, picker, dialog, exit>>
  BY DEF SelectVisible, InList
<1>2. PickerGood
  BY <1>1, SamePicker DEF placeVars
<1>3. ASSUME NEW r \in AllRows, View[r].update
      PROVE ChooseTarget(r, "recommended").choice \in RowChoices
  BY <1>3, ChoiceIsFine DEF ScreenInv, Targets, Fine
<1>4. choice' \in RowChoices
  BY <1>3 DEF SelectVisible, ScreenInv, ScreenTypes, RowChoices, NoChoice, Targets
<1> QED
  BY <1>1, <1>2, <1>4, ReadsKeep DEF searchVars, ScreenInv, ScreenTypes, NothingOfferedIsRefused

\* Going up and down wraps around.
LEMMA AroundStays ==
  ASSUME NEW n \in Nat, NEW i \in 1..n
  PROVE  UpFrom(i, n) \in 1..n /\ DownFrom(i, n) \in 1..n
BY DEF UpFrom, DownFrom

\* The picker is bound to a row of the list.
LEMMA OpensOnListed ==
  ASSUME ScreenInv, NEW r \in Listed \cup {NoRow}, picker' = PickerOn(r), UNCHANGED tab
  PROVE  PickerGood
<1>1. r \in AllRows \cup {NoRow} /\ (r # NoRow => InPlay(r))
  BY ListedInPlay DEF InPlay
<1> QED
  BY <1>1, PickerOpens DEF PickerGood

\* Opening the picker, moving in it, taking it to another row, closing it.
LEMMA PickerMoves ==
  ASSUME ScreenInv, OpenTargetPicker \/ MovePicker \/ MovePickerToRow \/ PickerCancel
  PROVE  ScreenInv'
<1>1. /\ Reads /\ ~dialog
      /\ UNCHANGED <<choice, tab, showAll, searchVars, dialog, exit>>
  BY DEF OpenTargetPicker, MovePicker, MovePickerToRow, PickerCancel, InList, InPicker, placeVars
<1>2. PickerGood
  <2>1. CASE OpenTargetPicker
    BY <1>1, <2>1, CurrentIsListed, OpensOnListed DEF OpenTargetPicker
  <2>2. CASE MovePicker
    <3> DEFINE n == OptionCount(picker.row)
    <3>1. /\ picker.row \in AllRows /\ InPlay(picker.row) /\ picker.option \in 1..n
          /\ picker \in [row : {NoRow} \cup AllRows, option : Nat]
      BY <2>2 DEF ScreenInv, ScreenTypes, PickerBound, PickerFits, InPlay, MovePicker, InPicker
    <3>2. n \in Nat
      BY <3>1, OptionsOfRow
    <3>3. PICK option \in {UpFrom(picker.option, n), DownFrom(picker.option, n)} :
            picker' = [picker EXCEPT !.option = option]
      BY <2>2 DEF MovePicker
    <3>4. option \in 1..n
      BY <3>1, <3>2, <3>3, AroundStays
    <3>5. /\ picker' \in [row : {NoRow} \cup AllRows, option : Nat]
          /\ picker'.row = picker.row /\ picker'.option = option
      <4>1. option \in Nat
        BY <3>2, <3>4
      <4> QED
        BY <3>1, <3>3, <4>1
    <3> QED
      BY <1>1, <3>1, <3>4, <3>5 DEF PickerGood, PickerFits
  <2>3. CASE MovePickerToRow
    <3> DEFINE n == Len(VisibleRows)
               here == CHOOSE i \in DOMAIN VisibleRows : VisibleRows[i] = picker.row
    <3>1. here \in DOMAIN VisibleRows
      BY <2>3 DEF MovePickerToRow, ToSet
    <3>2. n \in Nat /\ here \in 1..n
      BY <3>1, VisibleIsListed
    <3>3. cursor' \in {UpFrom(here, n), DownFrom(here, n)}
      BY <2>3 DEF MovePickerToRow
    <3>4. cursor' \in DOMAIN VisibleRows
      BY <3>2, <3>3, AroundStays, VisibleIsListed
    <3>5. VisibleRows[cursor'] \in Listed
      BY <3>4, VisibleIsListed
    <3> QED
      BY <1>1, <2>3, <3>5, OpensOnListed DEF MovePickerToRow
  <2>4. CASE PickerCancel
    BY <2>4 DEF PickerCancel, PickerGood
  <2> QED
    BY <2>1, <2>2, <2>3, <2>4
<1> QED
  BY <1>1, <1>2, ReadsKeep DEF searchVars, ScreenInv, ScreenTypes, NothingOfferedIsRefused

\* A click on a row.
LEMMA ClickingKeeps ==
  ASSUME ScreenInv, ClickRow
  PROVE  ScreenInv'
<1>1. Reads /\ ~dialog /\ picker = NoPicker /\ UNCHANGED <<tab, offset, showAll, searchVars, dialog>>
  BY DEF ClickRow, InList
<1>2. /\ cursor' \in DOMAIN VisibleRows
      /\ \/ Take(Toggled(VisibleRows[cursor'])) /\ UNCHANGED picker
         \/ picker' = PickerOn(VisibleRows[cursor']) /\ UNCHANGED <<choice, exit>>
  BY DEF ClickRow
<1>3. VisibleRows[cursor'] \in Listed /\ VisibleRows[cursor'] \in AllRows
  BY <1>2, VisibleIsListed, ListedInPlay DEF InPlay
<1>4. PickerGood
  BY <1>1, <1>2, <1>3, OpensOnListed DEF PickerGood
<1>5. choice' \in RowChoices /\ exit' = exit
  BY <1>2, <1>3, ToggleIsFine, TakenIsFine DEF ScreenInv, ScreenTypes
<1> QED
  BY <1>1, <1>4, <1>5, ReadsKeep DEF searchVars, ScreenInv, ScreenTypes, NothingOfferedIsRefused

\* The dialog, the end of the loop, and what means nothing.
LEMMA EndsKeep ==
  ASSUME ScreenInv, AskToConfirm \/ DialogKey \/ Leave \/ Ignore
  PROVE  ScreenInv'
<1>1. Reads /\ UNCHANGED <<choice, placeVars, showAll, searchVars, picker>>
  BY DEF AskToConfirm, DialogKey, Leave, Ignore, InList
<1>2. /\ dialog' \in BOOLEAN /\ exit' # "refused"
      /\ dialog' => finished /\ ~PlanningError /\ picker = NoPicker /\ ~searching
  <2> USE DEF ScreenInv, ScreenTypes, DialogIsLast, NothingOfferedIsRefused
  <2>1. CASE AskToConfirm
    BY <2>1 DEF AskToConfirm, InList
  <2>2. CASE DialogKey
    BY <2>2 DEF DialogKey
  <2>3. CASE Leave
    BY <2>3 DEF Leave
  <2>4. CASE Ignore
    BY <2>4 DEF Ignore
  <2> QED
    BY <2>1, <2>2, <2>3, <2>4
<1>3. PickerGood
  BY <1>1, SamePicker DEF placeVars
<1> QED
  BY <1>1, <1>2, <1>3, ReadsKeep DEF searchVars, ScreenInv, ScreenTypes

\* All that a key or a click can do.
LEMMA InputKeeps == ASSUME ScreenInv, InputEvent PROVE ScreenInv'
BY KeysChoose, MovesKeep, SelectingKeeps, PickerMoves, ClickingKeeps, EndsKeep DEF InputEvent

-----------------------------------------------------------------------------
(* The screen: drawing and planning events *)

\* The passes of the loop change only the phase and what was drawn.
LEMMA LoopKeeps ==
  ASSUME ScreenInv, Draw \/ InputIsReady \/ BackToDraining
  PROVE  ScreenInv'
<1>1. UNCHANGED <<planVars, choice, tab, showAll, searchVars, picker, dialog, exit>>
  BY DEF Draw, InputIsReady, BackToDraining, placeVars
<1>2. Listed' = Listed /\ VisibleRows' = VisibleRows /\ \A r : InPlay(r)' = InPlay(r)
  BY <1>1 DEF planVars, Listed, Shown, VisibleRows, Visible, ActiveManager, Tabs, InPlay
<1>3. ScreenTypes' /\ DialogIsLast' /\ NothingOfferedIsRefused'
  BY <1>1 DEF planVars, searchVars, ScreenInv, ScreenTypes, DialogIsLast, PlanningError,
              NothingOfferedIsRefused
<1>4. PickerBound'
  BY <1>1, <1>2 DEF ScreenInv, PickerBound, PickerFits
<1>5. SeenIsFocus'
  <2>1. CASE Draw
    <3>1. seen' = Focus'
      BY <2>1 DEF Draw
    <3>2. seen' # NoRow => InPlay(seen)'
      <4>1. CASE picker # NoPicker
        BY <1>1, <1>2, <3>1, <4>1 DEF Focus, ScreenInv, PickerBound, PickerFits
      <4>2. CASE picker = NoPicker
        <5>1. Focus' = Current'
          BY <1>1, <4>2 DEF Focus
        <5>2. Current' # NoRow => Current' \in Listed
          BY <1>2, VisibleIsListed DEF Current
        <5> QED
          BY <1>2, <3>1, <5>1, <5>2, ListedInPlay
      <4> QED
        BY <4>1, <4>2
    <3> QED
      BY <3>1, <3>2 DEF SeenIsFocus
  <2>2. CASE InputIsReady
    <3>1. seen' = seen /\ Focus' = Focus
      BY <1>1, <1>2, <2>2 DEF InputIsReady, placeVars, Focus, Current
    <3> QED
      BY <1>2, <3>1 DEF SeenIsFocus, ScreenInv
  <2>3. CASE BackToDraining
    BY <2>3 DEF BackToDraining, SeenIsFocus
  <2> QED
    BY <2>1, <2>2, <2>3
<1> QED
  BY <1>3, <1>4, <1>5 DEF ScreenInv

\* What an event does to the plans and the choices: a planned manager stays as it is.
EventOf(st, ch) ==
  /\ st \in PlanningStatuses /\ ch \in RowChoices
  /\ \A m \in ManagerIndexes : status[m] = "ready" => st[m] = "ready"
  /\ \A r \in AllRows : status[View[r].manager] = "ready" => ch[r] = choice[r]

\* Every planning event is such a change, applied to its end.
LEMMA EventsAre ==
  ASSUME ScreenInv, PlanningEvent
  PROVE  /\ \E st, ch : EventOf(st, ch) /\ Apply(st, ch)
         /\ finished' \in BOOLEAN /\ failed' \in BOOLEAN
<1> USE DEF ScreenInv, ScreenTypes
<1>1. ASSUME NEW m \in ManagerIndexes, NEW word \in {"planning", "ready", "empty", "error"},
             status[m] # "ready"
      PROVE EventOf([status EXCEPT ![m] = word], choice)
  BY <1>1 DEF EventOf, PlanningStatuses
<1>2. ASSUME NEW m \in ManagerIndexes, ManagerStarted(m) \/ ManagerError(m)
      PROVE  \E st, ch : EventOf(st, ch) /\ Apply(st, ch)
  BY <1>1, <1>2 DEF ManagerStarted, ManagerError
<1>3. ASSUME NEW m \in ManagerIndexes, ManagerReady(m)
      PROVE  \E st, ch : EventOf(st, ch) /\ Apply(st, ch)
  <2>1. status[m] = "planning"
    BY <1>3 DEF ManagerReady
  <2>2. CASE Apply([status EXCEPT ![m] = "empty"], choice)
    BY <1>1, <2>1, <2>2
  <2>3. ASSUME NEW chosen \in SUBSET {r \in RowsOf(m) : View[r].update}
        PROVE  EventOf([status EXCEPT ![m] = "ready"],
                       [r \in AllRows |-> IF r \in chosen THEN [NoChoice EXCEPT !.target = "recommended"]
                                          ELSE choice[r]])
    <3> DEFINE ch == [r \in AllRows |-> IF r \in chosen THEN [NoChoice EXCEPT !.target = "recommended"]
                                        ELSE choice[r]]
    <3>1. [NoChoice EXCEPT !.target = "recommended"] \in [target : Targets, removing : BOOLEAN]
      BY DEF NoChoice, Targets
    <3>2. ch \in RowChoices
      BY <3>1 DEF RowChoices
    <3>3. \A r \in chosen : View[r].manager = m
      BY DEF RowsOf
    <3>4. \A r \in AllRows : status[View[r].manager] = "ready" => ch[r] = choice[r]
      BY <2>1, <3>3
    <3> HIDE DEF ch
    <3>5. EventOf([status EXCEPT ![m] = "ready"], ch)
      BY <1>1, <2>1, <3>2, <3>4 DEF EventOf
    <3> QED
      BY <3>5 DEF ch
  <2> QED
    BY <1>3, <2>2, <2>3 DEF ManagerReady
<1>4. ASSUME PlanningFailed PROVE \E st, ch : EventOf(st, ch) /\ Apply(st, ch)
  BY <1>4 DEF PlanningFailed, EventOf, PlanningStatuses
<1>5. ASSUME Finished PROVE \E st, ch : EventOf(st, ch) /\ Apply(st, ch)
  BY <1>5 DEF Finished, EventOf
<1>6. finished' \in BOOLEAN /\ failed' \in BOOLEAN
  BY DEF PlanningEvent, ManagerStarted, ManagerReady, ManagerError, PlanningFailed, Finished
<1> QED
  BY <1>2, <1>3, <1>4, <1>5, <1>6 DEF PlanningEvent

\* The tab is found again, and stays within the tabs, as long as it has something.
LEMMA TabIsRestored ==
  ASSUME NEW st, NEW m \in ManagerIndexes, st[m] # "empty", ActiveManager(status, tab) \in {0, m}
  PROVE  /\ ClampTab(st, RestoredTab(st)) = RestoredTab(st)
         /\ ActiveManager(st, RestoredTab(st)) = ActiveManager(status, tab)
<1> DEFINE active == ActiveManager(status, tab)
           tabs == Tabs(st)
<1>1. DOMAIN tabs = 1..Len(tabs) /\ Len(tabs) \in Nat /\ active \in ToSet(tabs)
  BY TabsAreListed
<1>2. RestoredTab(st) = CHOOSE t \in DOMAIN tabs : tabs[t] = active
  BY <1>1 DEF RestoredTab
<1>3. RestoredTab(st) \in DOMAIN tabs /\ tabs[RestoredTab(st)] = active
  BY <1>1, <1>2 DEF ToSet
<1> HIDE DEF active
<1>4. ClampTab(st, RestoredTab(st)) = RestoredTab(st)
  BY <1>1, <1>3 DEF ClampTab, Least
<1> QED
  BY <1>3, <1>4 DEF ActiveManager, active

\* A row in play stays in play, and as visible as it is.
LEMMA StaysInPlay ==
  ASSUME ScreenInv, NEW st, NEW ch, EventOf(st, ch), Apply(st, ch), NEW r, InPlay(r)
  PROVE  /\ InPlay(r)' /\ (r \in Listed' <=> r \in Listed)
         /\ tab' = RestoredTab(st)
<1> DEFINE m == View[r].manager
<1>1. r \in AllRows /\ m \in ManagerIndexes /\ status[m] = "ready" /\ ActiveManager(status, tab) \in {0, m}
  <2>1. View[r] \in ViewRows
    BY ScreenAssumption DEF InPlay, AllRows
  <2> QED
    BY <2>1 DEF InPlay, ViewRows
<1>2. st[m] = "ready" /\ ch[r] = choice[r]
  BY <1>1 DEF EventOf
<1>3. /\ ClampTab(st, RestoredTab(st)) = RestoredTab(st)
      /\ ActiveManager(st, RestoredTab(st)) = ActiveManager(status, tab)
  BY <1>1, <1>2, TabIsRestored
<1>4. status' = st /\ choice' = ch /\ tab' = RestoredTab(st) /\ showAll' = showAll
  BY <1>3 DEF Apply
<1>5. ActiveManager(status, tab)' = ActiveManager(status, tab)
  BY <1>3, <1>4 DEF ActiveManager, Tabs
<1> QED
  BY <1>1, <1>2, <1>4, <1>5 DEF InPlay, Listed, Shown

\* The rows after an event are those that the cursor and the picker were fitted to.
LEMMA RowsAfter ==
  ASSUME NEW st, NEW ch, Apply(st, ch)
  PROVE  /\ VisibleRows' = Visible(st, ClampTab(st, RestoredTab(st)), ch, showAll)
         /\ ToSet(VisibleRows)' = Listed'
         /\ DOMAIN VisibleRows' = 1..Len(VisibleRows') /\ Len(VisibleRows') \in Nat
<1> DEFINE rows == Visible(st, ClampTab(st, RestoredTab(st)), ch, showAll)
<1>1. status' = st /\ choice' = ch /\ tab' = ClampTab(st, RestoredTab(st)) /\ showAll' = showAll
  BY DEF Apply
<1>2. VisibleRows' = rows
  BY <1>1 DEF VisibleRows, Visible, ActiveManager, Tabs
<1>3. Listed' = Shown(st, ActiveManager(st, ClampTab(st, RestoredTab(st))), ch, showAll)
  BY <1>1 DEF Listed, Shown, ActiveManager, Tabs
<1>4. /\ rows \in Seq(AllRows) /\ DOMAIN rows = 1..Len(rows)
      /\ ToSet(rows) = Listed'
  BY <1>3, RowsAreShown
<1> HIDE DEF rows
<1>5. Len(rows) \in Nat
  BY <1>4
<1> QED
  BY <1>2, <1>4, <1>5 DEF rows, ToSet

\* The picker stays with its row, or is closed.
LEMMA ReboundFits ==
  ASSUME ScreenInv, NEW st, NEW ch, Apply(st, ch)
  PROVE  /\ picker' \in [row : {NoRow} \cup AllRows, option : Nat]
         /\ PickerBound'
         /\ picker # NoPicker /\ picker.row \in Listed' => picker' # NoPicker /\ picker'.row = picker.row
         /\ picker = NoPicker => picker' = NoPicker
<1> DEFINE rows == Visible(st, ClampTab(st, RestoredTab(st)), ch, showAll)
<1>1. picker' = Rebound(rows)
  BY DEF Apply
<1>2. ToSet(rows) = Listed'
  BY RowsAfter DEF ToSet
<1> HIDE DEF rows
<1>3. CASE picker # NoPicker /\ picker.row \in Listed'
  <2> DEFINE option == Least(picker.option, OptionCount(picker.row))
  <2>1. /\ picker.row \in AllRows /\ picker.option \in 1..OptionCount(picker.row)
        /\ picker \in [row : {NoRow} \cup AllRows, option : Nat]
    BY <1>3 DEF ScreenInv, ScreenTypes, PickerBound, PickerFits, InPlay
  <2>2. OptionCount(picker.row) \in Nat
    BY <2>1, OptionsOfRow
  <2>3. option \in 1..OptionCount(picker.row) /\ option \in Nat
    BY <2>1, <2>2 DEF Least
  <2>4. picker' = [picker EXCEPT !.option = option]
    BY <1>1, <1>2, <1>3 DEF Rebound
  <2> HIDE DEF option
  <2>5. /\ picker' \in [row : {NoRow} \cup AllRows, option : Nat]
        /\ picker'.row = picker.row /\ picker'.option = option
    BY <2>1, <2>3, <2>4
  <2>6. ASSUME NEW r \in Listed' PROVE InPlay(r)' /\ r # NoRow
    BY <2>6, ScreenAssumption DEF Listed, Shown, InPlay, AllRows, NoRow
  <2>7. picker' # NoPicker
    BY <1>3, <2>5, <2>6 DEF NoPicker
  <2>8. PickerFits(picker)'
    BY <1>3, <2>3, <2>5, <2>6 DEF PickerFits, InPlay
  <2> QED
    BY <1>3, <2>5, <2>7, <2>8 DEF PickerBound
<1>4. CASE ~(picker # NoPicker /\ picker.row \in Listed')
  <2>1. picker' = NoPicker
    BY <1>1, <1>2, <1>4 DEF Rebound
  <2> QED
    BY <1>4, <2>1 DEF NoPicker, PickerBound
<1> QED
  BY <1>3, <1>4

\* The focus stays on its row.
LEMMA FocusIsRestored ==
  ASSUME ScreenInv, NEW st, NEW ch, EventOf(st, ch), Apply(st, ch), seen # NoRow
  PROVE  InPlay(seen)' /\ (seen \in Listed' => Focus' = seen)
<1>1. InPlay(seen) /\ (seen \in Listed => Focus = seen)
  BY DEF ScreenInv, SeenIsFocus
<1>2. InPlay(seen)' /\ (seen \in Listed' <=> seen \in Listed) /\ tab' = RestoredTab(st)
  <2>1. ASSUME NEW r, r = seen
        PROVE  InPlay(r)' /\ (r \in Listed' <=> r \in Listed) /\ tab' = RestoredTab(st)
    <3>1. InPlay(r)
      BY <1>1, <2>1
    <3> QED
      BY <3>1, StaysInPlay
  <2>2. seen' = seen
    BY DEF Apply
  <2> QED
    BY <2>1, <2>2 DEF InPlay
<1>3. ASSUME seen \in Listed' PROVE Focus' = seen
  <2>1. Focus = seen
    BY <1>1, <1>2, <1>3
  <2>2. CASE picker # NoPicker
    BY <1>3, <2>1, <2>2, ReboundFits DEF Focus
  <2>3. CASE picker = NoPicker
    <3> DEFINE rows == VisibleRows'
               found == RestoredCursor(Visible(st, RestoredTab(st), ch, showAll))
    <3>1. tab' = ClampTab(st, RestoredTab(st)) /\ cursor' = Clamp(found, rows)
      BY RowsAfter DEF Apply
    <3>2. rows = Visible(st, RestoredTab(st), ch, showAll)
      BY <1>2, <3>1, RowsAfter
    <3>3. DOMAIN rows = 1..Len(rows) /\ Len(rows) \in Nat /\ Focus \in ToSet(rows)
      BY <1>3, <2>1, RowsAfter DEF ToSet
    <3>4. found = CHOOSE i \in DOMAIN rows : rows[i] = Focus
      BY <3>2, <3>3 DEF RestoredCursor
    <3> HIDE DEF rows, found
    <3>5. found \in DOMAIN rows /\ rows[found] = Focus
      BY <3>3, <3>4 DEF ToSet
    <3>6. cursor' = found
      BY <3>1, <3>3, <3>5 DEF Clamp, Least
    <3>7. Current' = seen
      BY <2>1, <3>5, <3>6 DEF Current, rows
    <3> QED
      BY <2>3, <3>7, ReboundFits DEF Focus
  <2> QED
    BY <2>2, <2>3
<1> QED
  BY <1>2, <1>3

\* All that a planning event can do.
LEMMA EventKeeps == ASSUME ScreenInv, PlanningEvent PROVE ScreenInv'
<1>1. PICK st, ch : EventOf(st, ch) /\ Apply(st, ch)
  BY EventsAre
<1>2. /\ status' = st /\ choice' = ch /\ ~finished
      /\ UNCHANGED <<showAll, searching, dialog, seen, exit>>
  BY <1>1 DEF Apply, searchVars
<1>3. ScreenTypes'
  BY <1>1, <1>2, EventsAre, ReboundFits DEF ScreenInv, ScreenTypes, EventOf
<1>4. PickerBound'
  BY <1>1, ReboundFits
<1>5. SeenIsFocus'
  BY <1>1, <1>2, FocusIsRestored DEF SeenIsFocus
<1>6. DialogIsLast'
  BY <1>2 DEF ScreenInv, DialogIsLast
<1> QED
  BY <1>2, <1>3, <1>4, <1>5, <1>6 DEF ScreenInv, NothingOfferedIsRefused

-----------------------------------------------------------------------------
(* The screen: theorems *)

\* The invariant at first.
LEMMA ScreenStarts == ScreenInit => ScreenInv
<1> SUFFICES ASSUME ScreenInit PROVE ScreenInv
  OBVIOUS
<1> USE DEF ScreenInit
<1>1. status \in PlanningStatuses
  BY DEF PlanningStatuses
<1>2. choice \in RowChoices
  BY DEF RowChoices, Targets, NoChoice
<1>3. picker \in [row : {NoRow} \cup AllRows, option : Nat]
  BY DEF NoPicker
<1>4. ScreenTypes
  BY <1>1, <1>2, <1>3 DEF ScreenTypes
<1>5. PickerBound /\ SeenIsFocus /\ DialogIsLast /\ NothingOfferedIsRefused
  BY DEF PickerBound, SeenIsFocus, DialogIsLast, NothingOfferedIsRefused
<1> QED
  BY <1>4, <1>5 DEF ScreenInv

\* The invariant from step to step.
LEMMA ScreenKeeps == ScreenInv /\ [ScreenNext]_screenVars => ScreenInv'
<1> SUFFICES ASSUME ScreenInv, [ScreenNext]_screenVars PROVE ScreenInv'
  OBVIOUS
<1>1. CASE ScreenNext
  BY <1>1, EventKeeps, LoopKeeps, InputKeeps DEF ScreenNext
<1>2. CASE UNCHANGED screenVars
  <2>1. /\ UNCHANGED <<status, finished, failed, choice, tab, cursor, offset, showAll, searching, query>>
        /\ UNCHANGED <<picker, dialog, phase, seen, exit>>
    BY <1>2 DEF screenVars, planVars, placeVars, searchVars
  <2>2. Listed' = Listed /\ Focus' = Focus /\ \A r : InPlay(r)' = InPlay(r)
    BY <2>1 DEF Listed, Shown, Focus, Current, VisibleRows, Visible, ActiveManager, Tabs, InPlay
  <2> QED
    BY <2>1, <2>2 DEF ScreenInv, ScreenTypes, PickerBound, PickerFits, SeenIsFocus, DialogIsLast,
                      PlanningError, NothingOfferedIsRefused
<1> QED
  BY <1>1, <1>2

\* The invariant of the selection screen holds along every behaviour.
THEOREM ScreenInductive == ScreenSpec => []ScreenInv
BY ScreenStarts, ScreenKeeps, PTL DEF ScreenSpec

\* No key and no click is answered with an error of the selection state, for any
\* number of managers and rows.
THEOREM OffersAreAccepted == ScreenSpec => []NothingOfferedIsRefused
<1>1. ScreenInv => NothingOfferedIsRefused
  BY DEF ScreenInv
<1> QED
  BY <1>1, ScreenInductive, PTL

\* The first key after drawing acts on the row that was drawn as focused.
THEOREM KeysFindTheirRow == ScreenSpec => KeysMeanWhatWasDrawn
<1>1. ScreenInv /\ [ScreenNext]_screenVars =>
        (phase = "drain again" /\ seen # NoRow /\ seen \in ToSet(VisibleRows) /\ RowKey
           => \A r \in AllRows : choice'[r] # choice[r] => r = seen)
  BY KeyIsFine, VisibleIsListed DEF ScreenInv, SeenIsFocus, ChoosesFor
<1> QED
  BY <1>1, ScreenInductive, PTL DEF ScreenSpec, KeysMeanWhatWasDrawn

\* The dialog is answered by keys of its own, and by nothing else.
LEMMA DialogConfirms ==
  ASSUME ScreenInv, ScreenNext, dialog \/ exit' = "confirmed"
  PROVE  dialog /\ choice' = choice
<1>1. CASE PlanningEvent
  <2>1. ~finished /\ exit' = exit /\ exit = "none"
    <3>1. PICK st, ch : Apply(st, ch)
      BY <1>1, EventsAre
    <3> QED
      BY <3>1 DEF Apply
  <2> QED
    BY <2>1 DEF ScreenInv, DialogIsLast
<1>2. CASE Draw \/ InputIsReady \/ BackToDraining
  BY <1>2 DEF Draw, InputIsReady, BackToDraining
<1>3. CASE InputEvent
  <2>1. CASE DialogKey
    BY <2>1 DEF DialogKey
  <2>2. CASE Leave \/ Ignore
    BY <2>2 DEF Leave, Ignore, Reads
  <2>3. CASE AskToConfirm
    BY <2>3 DEF AskToConfirm, InList, Reads
  <2>4. CASE RowKey \/ ClickOption
    <3>1. Reads /\ ~dialog /\ exit' = exit
      <4>1. CASE RowKey
        BY <4>1, KeyIsFine DEF RowKey, ToggleFocused, ToggleFocusedRemoval, ChooseRecommended,
                               UnlessSearching, InPicker, ChoosesFor
      <4>2. CASE ClickOption
        BY <4>2, ConfirmedIsFine DEF ClickOption, InPicker, ChoosesFor
      <4> QED
        BY <2>4, <4>1, <4>2
    <3> QED
      BY <3>1 DEF Reads
  <2>5. CASE \/ MoveCursor \/ SelectTab \/ ToggleViewAll \/ Scroll
             \/ OpenSearch \/ ExitSearch \/ TypeSearch \/ SearchOn
    BY <2>5 DEF MoveCursor, SelectTab, ToggleViewAll, Scroll, OpenSearch, ExitSearch, TypeSearch, SearchOn,
                InList, InSearch, Reads
  <2>6. CASE \E selected \in BOOLEAN : SelectVisible(selected)
    BY <2>6 DEF SelectVisible, InList, Reads
  <2>7. CASE OpenTargetPicker \/ MovePicker \/ MovePickerToRow \/ PickerCancel
    BY <2>7 DEF OpenTargetPicker, MovePicker, MovePickerToRow, PickerCancel, InList, InPicker, Reads
  <2>8. CASE ClickRow
    <3>1. InList /\ exit' = exit
      <4>1. /\ InList /\ cursor' \in DOMAIN VisibleRows
            /\ Take(Toggled(VisibleRows[cursor'])) \/ exit' = exit
        BY <2>8 DEF ClickRow
      <4>2. VisibleRows[cursor'] \in AllRows
        BY <4>1, VisibleIsListed, ListedInPlay DEF InPlay
      <4> QED
        BY <4>1, <4>2, ToggleIsFine, TakenIsFine DEF ScreenInv
    <3> QED
      BY <3>1 DEF InList, Reads
  <2> QED
    BY <1>3, <2>1, <2>2, <2>3, <2>4, <2>5, <2>6, <2>7, <2>8 DEF InputEvent
<1> QED
  BY <1>1, <1>2, <1>3 DEF ScreenNext

\* Nothing changes under the confirmation dialog, which comes after all planning.
THEOREM ReviewIsConfirmed == ScreenSpec => ReviewedIsConfirmed
<1>1. ScreenInv /\ [ScreenNext]_screenVars =>
        [(dialog \/ exit' = "confirmed") => dialog /\ finished /\ ~PlanningError /\ choice' = choice]_screenVars
  BY DialogConfirms DEF ScreenInv, DialogIsLast
<1> QED
  BY <1>1, ScreenInductive, PTL DEF ScreenSpec, ReviewedIsConfirmed

=============================================================================
