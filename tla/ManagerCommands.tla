--------------------------- MODULE ManagerCommands ---------------------------
(***************************************************************************)
(* commands_for_execution_plan of the eleven adapters of upgate-managers:  *)
(* from the intents of one manager to its command lines, and what these    *)
(* commands do to the tools when execute_commands runs them one after the  *)
(* other.  In the meantime versions are published and grow old enough, and *)
(* the user may uninstall a tool.                                          *)
(*                                                                         *)
(* A package has its newest published version and the newest that is old   *)
(* enough for min_release_age.  What a package manager does with a command *)
(* is external: it installs the version it was told, or the newest it may. *)
(***************************************************************************)
EXTENDS Naturals, FiniteSets, Sequences, SequencesExt

CONSTANTS
  Packages,    (* numbers *)
  Items,       (* numbers, in the order of the plan *)
  PackageOf,   (* two installed versions of one mise tool share it *)
  LastVersion, (* versions are 1..LastVersion *)
  MaxNews,     (* how often a version is published or gets old enough *)
  Managers     (* the adapters looked at *)

CommandsAssumption ==
  /\ Items \subseteq Nat /\ IsFiniteSet(Items) /\ Packages \subseteq Nat
  /\ PackageOf \in [Items -> Packages]
  /\ LastVersion \in Nat \ {0} /\ MaxNews \in Nat

VersionNumbers == 1..LastVersion
Unknown == 0     (* ResolvedExecutionTarget::ManagerResolved *)

VARIABLES
  manager, choice, (* the adapter; what the user chose for each item *)
  shown,           (* the installed version of the plan's items *)
  cask,            (* brew: the casks *)
  target,          (* the planned version of the items to update *)
  latest, aged,    (* of each package, see above *)
  installed,       (* the installed versions of each package *)
  news,            (* how often `latest` or `aged` grew *)
  gone,            (* packages the user uninstalled meanwhile *)
  stage,           (* "plan", "run", "done", "unsupported", "conflict", "failed", "interrupted" *)
  commands,        (* those left to run *)
  ran              (* those that ran *)

planVars == <<manager, choice, shown, cask, target>>
world == <<latest, aged, news, gone>>
vars == <<planVars, world, installed, stage, commands, ran>>

-----------------------------------------------------------------------------
(* The intents, as resolve_selection_for_execution makes them *)

OneVersionEach(m) == m # "mise"
ItemsOf(m) ==
  IF OneVersionEach(m) THEN {i \in Items : \A j \in Items : PackageOf[j] = PackageOf[i] => i <= j}
  ELSE Items
Here == ItemsOf(manager)
Resolver(m) == m \in {"uv", "mise"}
Native(m) == m = "brew"

ChoicesOf(m) == {"leave", "update", "forced", "remove"}
                \cup (IF Resolver(m) \/ Native(m) THEN {"resolved"} ELSE {})

Chosen(kinds) == {i \in Here : choice[i] \in kinds}
Updates == Chosen({"update", "forced", "resolved"})
Removals == Chosen({"remove"})
(* The k-th is the one up to which there are k *)
InOrder(S) ==
  [k \in 1..Cardinality(S) |-> CHOOSE i \in S : Cardinality({j \in S : j <= i}) = k]

Upgradable(i) == target[i] # Unknown /\ target[i] > shown[i]
Recommended == {i \in Here : Upgradable(i) /\ target[i] <= aged[PackageOf[i]]}

Global ==
  /\ Removals = {} /\ Updates # {} /\ Updates = Chosen({"update"}) /\ Updates = Recommended
  /\ manager = "bun" \/ (manager = "mise" /\ Recommended = Here)

(* The ExecutionSupport of each adapter's seeds decides the form *)
UpdateForm ==
  CASE Resolver(manager) -> "resolver native"
    [] Native(manager) -> "native selected"
    [] OTHER -> "exact"
GlobalForm == IF manager = "bun" THEN "native global" ELSE "resolver native global"

(* RemovalTarget of the installed tools: with_removal *)
ScopeOf(i) ==
  CASE manager \in {"gem", "mise"} -> "version"
    [] manager = "go" -> "binary"
    [] manager = "brew" -> IF i \in cask THEN "cask" ELSE "formula"
    [] OTHER -> "package"

Intent(form, items, version, bypass, scope) ==
  [form |-> form, items |-> items, version |-> version, bypass |-> bypass, scope |-> scope]
UpdateIntent(i) == Intent(UpdateForm, {i}, target[i], choice[i] # "update", "none")
RemovalIntent(i) == Intent("remove", {i}, shown[i], FALSE, ScopeOf(i))

Intents ==
  IF Global THEN <<Intent(GlobalForm, Updates, Unknown, FALSE, "none")>>
  ELSE [k \in DOMAIN InOrder(Updates) |-> UpdateIntent(InOrder(Updates)[k])]
       \o [k \in DOMAIN InOrder(Removals) |-> RemovalIntent(InOrder(Removals)[k])]

-----------------------------------------------------------------------------
(* The command lines *)

Command(verb, items, version, young) ==
  [ok |-> TRUE, verb |-> verb, items |-> items, version |-> version, young |-> young]
Unsupported == [ok |-> FALSE]

(* "young": the command line does not keep versions from being too young *)
Install(in, young) ==
  IF in.version = Unknown THEN Unsupported ELSE Command("install", in.items, in.version, young)
Upgrade(in, young) == Command("upgrade", in.items, Unknown, young)
UpgradeAll(in) == Command("upgrade all", in.items, Unknown, FALSE)
UninstallPackage(in, scope) ==
  IF in.scope = scope THEN Command("uninstall", in.items, Unknown, FALSE) ELSE Unsupported
UninstallVersion(in) ==
  IF in.scope = "version" THEN Command("uninstall", in.items, in.version, FALSE) ELSE Unsupported

(* npm: exact versions, --before= the cutoff *)
NpmExact(in) == Install(in, in.bypass)
NpmCommand(in) ==
  CASE in.form = "remove" -> UninstallPackage(in, "package")
    [] in.form = "exact" -> NpmExact(in)
    [] OTHER -> Unsupported

(* Exact versions and nothing about their age: pnpm, cargo, gem, go, pipx, dotnet *)
PnpmExact(in) == Install(in, TRUE)
PnpmCommand(in) ==
  CASE in.form = "remove" -> UninstallPackage(in, "package")
    [] in.form = "exact" -> PnpmExact(in)
    [] OTHER -> Unsupported

CargoExact(in) == Install(in, TRUE)
CargoCommand(in) ==
  CASE in.form = "remove" -> UninstallPackage(in, "package")
    [] in.form = "exact" -> CargoExact(in)
    [] OTHER -> Unsupported

GemExact(in) == Install(in, TRUE)
GemCommand(in) ==
  CASE in.form = "remove" -> UninstallVersion(in)
    [] in.form = "exact" -> GemExact(in)
    [] OTHER -> Unsupported

PipxExact(in) == Install(in, TRUE)
PipxCommand(in) ==
  CASE in.form = "remove" -> UninstallPackage(in, "package")
    [] in.form = "exact" -> PipxExact(in)
    [] OTHER -> Unsupported

DotnetExact(in) == Install(in, TRUE)
DotnetCommand(in) ==
  CASE in.form = "remove" -> UninstallPackage(in, "package")
    [] in.form = "exact" -> DotnetExact(in)
    [] OTHER -> Unsupported

GoExact(in) == Install(in, TRUE)
GoCommand(in) ==
  CASE in.form = "remove" -> UninstallPackage(in, "binary")
    [] in.form = "exact" -> GoExact(in)
    [] OTHER -> Unsupported

(* --minimum-release-age unless the item bypasses it, and always for all *)
BunExact(in) == Install(in, in.bypass)
BunSelected(in) == Upgrade(in, in.bypass)
BunGlobal(in) == UpgradeAll(in)
BunCommand(in) ==
  CASE in.form = "remove" -> UninstallPackage(in, "package")
    [] in.form = "exact" -> BunExact(in)
    [] in.form = "native selected" -> BunSelected(in)
    [] in.form = "native global" -> BunGlobal(in)
    [] OTHER -> Unsupported

(* --exclude-newer, unless bypassed *)
UvUnbounded(in) == Upgrade(in, TRUE)
UvUpgrade(in) == Upgrade(in, in.bypass)
UvCommand(in) ==
  CASE in.form = "remove" -> UninstallPackage(in, "package")
    [] in.form = "resolver native" -> UvUpgrade(in)
    [] OTHER -> Unsupported

(* mise: nor for a target it was left to find *)
MiseSelected(in) == Upgrade(in, in.version = Unknown \/ in.bypass)
MiseGlobal(in) == UpgradeAll(in)
MiseCommand(in) ==
  CASE in.form = "remove" -> UninstallVersion(in)
    [] in.form = "resolver native" -> MiseSelected(in)
    [] in.form = "resolver native global" -> MiseGlobal(in)
    [] OTHER -> Unsupported

(* brew: a formula is a command of its own; the casks are put together *)
AnyCask(in) == in.items \subseteq cask
IsCask(in) == in.form = "native selected" /\ in.items \subseteq cask
BrewCommand(in) ==
  CASE in.form = "remove" -> UninstallPackage(in, IF in.items \subseteq cask THEN "cask" ELSE "formula")
    [] in.form = "native selected" -> Upgrade(in, TRUE)
    [] OTHER -> Unsupported

EachOf(build(_), intents) == [k \in DOMAIN intents |-> build(intents[k])]

FirstRemoval(lines) == SelectInSeq(lines, LAMBDA c : c.ok /\ c.verb = "uninstall")
CasksOf(intents) == UNION {in.items : in \in {u \in ToSet(intents) : IsCask(u)}}
(* The other intents, in their order *)
NoCasks(intents) ==
  LET places == InOrder({k \in DOMAIN intents : ~IsCask(intents[k])})
  IN  [k \in DOMAIN places |-> intents[places[k]]]
BrewCommands(intents) ==
  LET casks == CasksOf(intents)
      others == EachOf(BrewCommand, NoCasks(intents))
      position == IF FirstRemoval(others) = 0 THEN Len(others) + 1 ELSE FirstRemoval(others)
  IN  IF casks = {} THEN others
      ELSE InsertAt(others, position, Command("upgrade", casks, Unknown, TRUE))

Lines(intents) ==
  CASE manager = "npm" -> EachOf(NpmCommand, intents)
    [] manager = "pnpm" -> EachOf(PnpmCommand, intents)
    [] manager = "bun" -> EachOf(BunCommand, intents)
    [] manager = "cargo" -> EachOf(CargoCommand, intents)
    [] manager = "gem" -> EachOf(GemCommand, intents)
    [] manager = "go" -> EachOf(GoCommand, intents)
    [] manager = "uv" -> EachOf(UvCommand, intents)
    [] manager = "pipx" -> EachOf(PipxCommand, intents)
    [] manager = "dotnet" -> EachOf(DotnetCommand, intents)
    [] manager = "brew" -> BrewCommands(intents)
    [] manager = "mise" -> EachOf(MiseCommand, intents)

-----------------------------------------------------------------------------
(* What precedes the lines *)

FormsOf(intents) == {intents[k].form : k \in DOMAIN intents}

(* mise: no removal next to an upgrade of the same tool or of all *)
NoConflict(intents) == FALSE
Conflict(intents) ==
  \E r, u \in ToSet(intents) :
    /\ r.form = "remove"
    /\ \/ u.form = "resolver native global"
       \/ u.form = "resolver native"
            /\ {PackageOf[i] : i \in u.items} \cap {PackageOf[i] : i \in r.items} # {}

(* mise: `mise upgrade --help` tells the name of the age flag, if one is needed *)
NeedsFlag(intents) ==
  \E u \in ToSet(intents) :
    \/ u.form = "resolver native global"
    \/ u.form = "resolver native" /\ u.version # Unknown /\ ~u.bypass

(* go: where each binary is installed from; a scan that fails is an error, *)
(* and so is a binary that is no longer there                              *)
NeedsPaths(intents) == "exact" \in FormsOf(intents)
PathsKnown(intents) ==
  \A u \in ToSet(intents) : u.form = "exact" => \A i \in u.items : installed[PackageOf[i]] # {}

Asks(intents) ==
  \/ manager = "mise" /\ NeedsFlag(intents)
  \/ manager = "go" /\ NeedsPaths(intents)

-----------------------------------------------------------------------------
(* What the plan says of an item: the newest version that is old enough, or *)
(* the newest; brew has but one; without metadata the manager finds it.     *)
PlannedTarget(i) ==
  LET p == PackageOf[i]
  IN  CASE choice[i] = "resolved" -> Unknown
        [] choice[i] # "resolved" /\ manager # "brew" /\ choice[i] # "forced" /\ aged[p] > shown[i] -> aged[p]
        [] OTHER -> latest[p]

Top(p) == Cardinality({i \in Here : PackageOf[i] = p})
Init ==
  /\ manager \in Managers
  /\ choice \in {c \in [Items -> ChoicesOf(manager)] : \A i \in Items \ Here : c[i] = "leave"}
  /\ shown = [i \in Items |-> Cardinality({j \in Here : PackageOf[j] = PackageOf[i] /\ j <= i})]
  /\ cask \in IF manager = "brew" THEN SUBSET Here ELSE {{}}
  /\ latest \in {l \in [Packages -> VersionNumbers] : \A p \in Packages : l[p] \in Top(p)..(Top(p) + 1)}
  /\ aged \in {a \in [Packages -> VersionNumbers] : \A p \in Packages : a[p] \in Top(p)..latest[p]}
  /\ target = [i \in Items |-> PlannedTarget(i)]
  /\ \A i \in Chosen({"update"}) : i \in Recommended
  /\ \A i \in Chosen({"forced"}) : Upgradable(i)
  /\ \A i, j \in Updates : PackageOf[i] = PackageOf[j] => i = j
  /\ Updates \cup Removals # {}
  /\ installed = [p \in Packages |-> {shown[i] : i \in {j \in Here : PackageOf[j] = p}}]
  /\ news = 0 /\ gone = {}
  /\ stage = "plan"
  /\ commands = <<>> /\ ran = <<>>

Ends(how) == stage' = how /\ UNCHANGED <<commands>>

(* One unsupported intent, and there are no commands at all *)
Build == \E answer \in {"answered", "failed", "interrupted"} :
  /\ stage = "plan"
  /\ LET intents == Intents
         lines == Lines(intents)
     IN  CASE manager = "mise" /\ Conflict(intents) -> Ends("conflict")
           [] ~(manager = "mise" /\ Conflict(intents)) /\ Asks(intents) /\ answer # "answered" -> Ends(answer)
           [] manager = "go" /\ answer = "answered" /\ ~PathsKnown(intents) -> Ends("failed")
           [] OTHER -> IF \E k \in DOMAIN lines : ~lines[k].ok THEN Ends("unsupported")
                       ELSE stage' = "run" /\ commands' = lines
  /\ UNCHANGED <<planVars, world, installed, ran>>

-----------------------------------------------------------------------------
(* External: what the package managers do *)

Newest(c, p) == IF c.young THEN latest[p] ELSE aged[p]
(* gem keeps the other versions; mise replaces one that it chooses *)
Effects(c) ==
  LET touched == IF c.verb = "upgrade all" THEN {p \in Packages : installed[p] # {}}
                 ELSE {PackageOf[i] : i \in c.items}
      After(p) ==
        CASE c.verb = "install" -> {IF manager = "gem" THEN installed[p] \cup {c.version} ELSE {c.version}}
          [] c.verb = "uninstall" /\ c.version = Unknown -> {{}}
          [] c.verb = "uninstall" /\ c.version # Unknown -> {installed[p] \ {c.version}}
          [] manager = "mise" /\ c.verb \in {"upgrade", "upgrade all"} ->
               {(installed[p] \ {v}) \cup {Newest(c, p)} : v \in {w \in installed[p] : w < Newest(c, p)}}
                 \cup (IF \A w \in installed[p] : w >= Newest(c, p) THEN {installed[p]} ELSE {})
          [] OTHER -> {IF \E w \in installed[p] : w >= Newest(c, p) THEN installed[p] ELSE {Newest(c, p)}}
      outcomes == UNION {After(p) : p \in touched} \cup {installed[p] : p \in Packages}
  IN  {m \in [Packages -> outcomes] :
         \A p \in Packages : IF p \in touched THEN m[p] \in After(p) ELSE m[p] = installed[p]}

(* execute_commands: a failure is the matter of its items, an interruption the end *)
Run == \E how \in {"done", "failed", "interrupted"} :
  /\ stage = "run" /\ commands # <<>>
  /\ ran' = Append(ran, Head(commands))
  /\ commands' = Tail(commands)
  /\ stage' = IF how = "interrupted" THEN how ELSE IF Tail(commands) = <<>> THEN "done" ELSE stage
  /\ IF how = "done" THEN installed' \in Effects(Head(commands)) ELSE UNCHANGED installed
  /\ UNCHANGED <<planVars, world>>

(* A version is published, or has been long enough *)
News == \E p \in Packages :
  /\ stage \in {"plan", "run"} /\ news < MaxNews
  /\ \/ latest[p] < LastVersion /\ latest' = [latest EXCEPT ![p] = @ + 1] /\ UNCHANGED aged
     \/ aged[p] < latest[p] /\ aged' = [aged EXCEPT ![p] = @ + 1] /\ UNCHANGED latest
  /\ news' = news + 1
  /\ UNCHANGED <<planVars, gone, installed, stage, commands, ran>>

UserUninstalls == \E p \in Packages :
  /\ stage \in {"plan", "run"} /\ gone = {} /\ installed[p] # {}
  /\ gone' = {p}
  /\ installed' = [installed EXCEPT ![p] = {}]
  /\ UNCHANGED <<planVars, latest, aged, news, stage, commands, ran>>

Next == Build \/ Run \/ News \/ UserUninstalls
Spec == Init /\ [][Next]_vars

-----------------------------------------------------------------------------
(* What the resolution gives, the adapter can do: it refuses an intent only *)
(* when mise would upgrade the tool a version of which is to be removed.    *)
(* Once built, the commands leave no choice out and take none twice; only a *)
(* command for all and the one for casks are of several items.              *)
EveryChoiceIsACommand ==
  /\ stage # "unsupported"
  /\ stage \in {"run", "done"} =>
       LET all == ran \o commands
       IN  /\ \A i \in Updates \cup Removals : \E k \in DOMAIN all : i \in all[k].items
           /\ \A k \in DOMAIN all :
                all[k].items \subseteq IF all[k].verb = "uninstall" THEN Removals ELSE Updates
           /\ \A k, l \in DOMAIN all : k # l => all[k].items \cap all[l].items = {}
           /\ \A k \in DOMAIN all :
                Cardinality(all[k].items) > 1 =>
                  all[k].verb = "upgrade all" \/ (all[k].verb = "upgrade" /\ all[k].items \subseteq cask)

(* A command finds the version it is to remove, unless the user took it away: *)
(* no upgrade before it has replaced that version (ConflictingActions).       *)
RemovalFindsItsVersion ==
  (stage = "run" /\ commands # <<>> /\ Head(commands).verb = "uninstall") =>
    \A i \in Head(commands).items :
      PackageOf[i] \in gone \/ shown[i] \in installed[PackageOf[i]]

(* A version that is too young when a command installs it was forced or left *)
(* to the manager by choice; what is published after planning is not taken   *)
(* by the way.  brew has no such flag: what it finds it installs.            *)
CooldownKept ==
  [][\A p \in Packages :
       LET added == installed'[p] \ installed[p]
           ofIt == {i \in Here : PackageOf[i] = p}
       IN  (ran' # ran /\ manager # "brew" /\ \E v \in added : v > aged[p]) =>
             \E i \in ofIt : choice[i] \in {"forced", "resolved"}]_vars
=============================================================================
