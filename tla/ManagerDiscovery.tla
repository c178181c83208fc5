--------------------------- MODULE ManagerDiscovery ---------------------------
(***************************************************************************)
(* update_inputs and the verbose scan of the eleven adapters of            *)
(* upgate-managers: the commands each runs and in which order, what it     *)
(* makes of their output and their exit status, and how the answers about  *)
(* the single tools become one row per tool or one error for the manager.  *)
(* Meanwhile the user may install, update and remove tools.                *)
(*                                                                         *)
(* A discovery is a sequence of phases, one command or one round of jobs   *)
(* each; `todo` holds those that are left.  What a registry says of one    *)
(* tool is the matter of ReleaseLookup; here a job only knows or does not. *)
(***************************************************************************)
EXTENDS Naturals, FiniteSets, Sequences

CONSTANTS
  Tools,        (* numbers, in the order of their names *)
  Versions,     (* numbers, the larger the newer *)
  Managers,     (* the adapters looked at *)
  MaxChanges    (* how often the user changes what is installed *)

(* with_known_managers *)
Adapters == {"brew", "pnpm", "npm", "bun", "cargo", "pipx", "go", "mise", "gem", "dotnet", "uv"}

DiscoveryAssumption ==
  /\ Managers \subseteq Adapters
  /\ Tools \subseteq Nat /\ Versions \subseteq Nat \ {0} /\ Versions # {}
  /\ MaxChanges \in Nat

VARIABLES
  manager, op, policy,   (* the adapter; "update", "verbose" or go's "lookup"; the version policy *)
  trait,      (* of each tool, see TraitsOf *)
  machine,    (* the versions installed of each tool *)
  kept,       (* history: those that were all the time since the start *)
  changes,    (* how often the user changed them *)
  todo,       (* the phases left *)
  listed,     (* the pairs <<tool, version>> of the listing *)
  outdated,   (* those the manager, or its preview, wants to update *)
  twice,      (* the tools of which mise's preview replaces one version more than once *)
  jobs,       (* those looked up one by one and not answered yet *)
  rows,       (* the inputs made so far: [tool, version, kind] *)
  stopped,    (* a job was interrupted *)
  result,     (* "running", "rows", "failed", "interrupted" *)
  honest,     (* history: the listing said all there was *)
  killed      (* history: the phases with a command that died of a signal *)

inputs == <<manager, op, policy, trait>>
installation == <<machine, kept, changes>>
vars == <<inputs, installation, todo, listed, outdated, twice, jobs, rows, stopped, result, honest, killed>>

Pairs == Tools \X Versions
Rows == [tool : Tools, version : Versions \cup {0},
         kind : {"seed", "unknown", "current", "skipped", "resolver_error", "installed"}]
Row(p, kind) == [tool |-> p[1], version |-> p[2], kind |-> kind]

-----------------------------------------------------------------------------
(* What a command comes back with, and what ProcessRunner makes of it *)

Exits == {"zero", "one", "other", "signal", "spawn"}
(* A body is right, blank, the hint that nothing is installed, or garbage *)
Bodies == {"good", "blank", "hint", "garbage"}
Replies ==
  {r \in [exit : Exits, body : Bodies] :
     /\ r.exit \in {"signal", "spawn"} => r.body = "blank"
     /\ r.exit = "other" => r.body \in {"blank", "hint"}}

(* CommandCheck: the statuses a command may end with.  One that is not *)
(* allowed is an error, and an interruption when there is no code.     *)
Success == {"zero"}
Allow1 == {"zero", "one"}
IgnoreStatus == {"zero", "one", "other", "signal"}

Read(shown) == [end |-> "ok", shown |-> shown]
Refused == [end |-> "failed", shown |-> {}]
Interrupted == [end |-> "interrupted", shown |-> {}]
After(check, r, reading) ==
  CASE r.exit \in check -> reading
    [] r.exit = "signal" /\ r.exit \notin check -> Interrupted
    [] OTHER -> Refused

(* A JSON body that is not right is refused; a text is read line by line, *)
(* and a line that does not match is passed over                          *)
Json(r, shown) == IF r.body = "good" THEN Read(shown) ELSE Refused
Lines(r, shown) == Read(IF r.body = "good" THEN shown ELSE {})

-----------------------------------------------------------------------------
(* What there is to read *)

Newest == CHOOSE v \in Versions : \A w \in Versions : w <= v
Installed == {p \in Pairs : p[2] \in machine[p[1]]}

(* "hidden": an entry without version (npm, pnpm, bun), a default gem, a   *)
(* formula that is there only as a dependency.  "barred": a pinned formula *)
(* or pipx package and what pipx_constraint refuses.  "several": a tool of  *)
(* which mise's configuration asks for several versions, all to be updated.  *)
TraitsOf(m, o) ==
  {"plain"} \cup (IF m \in {"npm", "pnpm", "bun", "gem", "brew"} THEN {"hidden"} ELSE {})
            \cup (IF m \in {"pipx", "brew"} THEN {"barred"} ELSE {})
            \cup (IF m = "mise" /\ o = "update" THEN {"several"} ELSE {})
Visible == {p \in Installed : trait[p[1]] # "hidden"}
Old(pairs) == {p \in pairs : p[2] # Newest}
NamesOf(pairs) == {p[1] : p \in pairs}

-----------------------------------------------------------------------------
(* The listings: installed_global and its parser *)

(* JSON: an entry without a version is passed over, as formulae are that *)
(* only something else depends on                                        *)
NpmInstalled(r) == Json(r, Visible)
NpmList(r) == After(Success, r, NpmInstalled(r))
PnpmInstalled(r) == Json(r, Visible)
PnpmList(r) == After(Success, r, PnpmInstalled(r))
PipxInstalled(r) == Json(r, Visible)
PipxList(r) == After(Success, r, PipxInstalled(r))
BrewInstalled(r) == Json(r, Visible)
BrewList(r) == After(Success, r, BrewInstalled(r))
MiseInstalled(r) == Json(r, Visible)
MiseList(r) == After(Success, r, MiseInstalled(r))

(* Text, line by line; gem's lines tell which versions are default gems *)
CargoInstalled(r) == Lines(r, Visible)
CargoList(r) == After(Success, r, CargoInstalled(r))
GemInstalled(r) == Lines(r, Installed)
GemList(r) == After(Success, r, GemInstalled(r))
UvInstalled(r) == Lines(r, Visible)
UvList(r) == After(Success, r, UvInstalled(r))

(* bun: the hint that there is no lockfile counts before the status *)
EmptyBun(r) == r.body = "hint"
BunInstalled(r) == IF r.body = "blank" THEN Read({}) ELSE Json(r, Visible)
BunList(r) ==
  IF EmptyBun(r) THEN Read({}) ELSE After(Success, r, BunInstalled(r))

(* dotnet: the hint that there is no SDK; a signal is a failure like others *)
NoSdk(r) == r.body = "hint"
DotnetInstalled(r) == IF r.body = "blank" THEN Read({}) ELSE Json(r, Visible)
DotnetList(r) ==
  CASE r.exit = "zero" -> DotnetInstalled(r)
    [] r.exit \in IgnoreStatus \ Success /\ NoSdk(r) -> Read({})
    [] OTHER -> Refused

Listing(r) ==
  CASE manager = "npm" -> NpmList(r)
    [] manager = "pnpm" -> PnpmList(r)
    [] manager = "bun" -> BunList(r)
    [] manager = "cargo" -> CargoList(r)
    [] manager = "gem" -> GemList(r)
    [] manager = "uv" -> UvList(r)
    [] manager = "pipx" -> PipxList(r)
    [] manager = "dotnet" -> DotnetList(r)
    [] manager = "brew" -> BrewList(r)
    [] manager = "mise" -> MiseList(r)

(* What is outdated: npm and pnpm leave with 1 when something is *)
OrBlank(r, shown) == IF r.body = "blank" THEN Read({}) ELSE Json(r, shown)
NpmMap(r) == OrBlank(r, Old(Visible))
NpmOutdated(r) == After(Allow1, r, NpmMap(r))
PnpmMap(r) == OrBlank(r, Old(Visible))
NoManifest(r) == r.body = "hint"
PnpmOutdated(r) ==
  IF NoManifest(r) /\ r.exit \in IgnoreStatus THEN Read({}) ELSE After(Allow1, r, PnpmMap(r))
GemLines(r) == Lines(r, Old(Installed))
GemOutdated(r) == After(Success, r, GemLines(r))
BrewOld(r) == Json(r, Old(Installed))
BrewOutdated(r) == After(Success, r, BrewOld(r))

OutdatedReading(r) ==
  CASE manager = "npm" -> NpmOutdated(r)
    [] manager = "pnpm" -> PnpmOutdated(r)
    [] manager = "gem" -> GemOutdated(r)
    [] manager = "brew" -> BrewOutdated(r)

-----------------------------------------------------------------------------
(* The phases of each discovery *)

NpmUpdate == IF policy = "none" THEN <<"list", "outdated", "choose", "jobs">>
             ELSE <<"list", "choose", "jobs">>
PnpmUpdate == IF policy = "none" THEN <<"list", "outdated", "choose", "jobs">>
              ELSE <<"list", "choose", "jobs">>
BunUpdate == <<"list", "choose", "jobs">>
CargoUpdate == <<"list", "choose", "jobs">>
GemUpdate == <<"list", "outdated", "choose", "ruby", "jobs">>
GoUpdate == <<"bin_dir", "binaries", "choose", "jobs">>
UvUpdate == <<"tool_dir", "list", "advice", "choose", "jobs">>
PipxUpdate == <<"list", "choose", "jobs">>
DotnetUpdate == <<"list", "choose", "jobs">>
BrewUpdate == <<"refresh", "outdated", "list", "choose", "info", "taps", "jobs">>
MiseUpdate == <<"flag", "preview", "list", "choose", "advice", "jobs">>

(* The verbose scan that an adapter gets from the trait, and the others *)
DefaultScan == <<"list", "choose", "jobs">>
UvScan == <<"tool_dir", "list", "choose", "jobs">>
BunScan == <<"list", "choose", "jobs">>
GemScan == <<"list", "ruby", "choose", "jobs">>
GoScan == <<"bin_dir", "binaries", "choose", "jobs">>
BrewScan == <<"list", "taps", "choose", "jobs">>
MiseScan == <<"list", "choose", "jobs">>

Phases ==
  IF op = "verbose"
  THEN CASE manager = "uv" -> UvScan [] manager = "bun" -> BunScan [] manager = "gem" -> GemScan
         [] manager = "go" -> GoScan [] manager = "brew" -> BrewScan [] manager = "mise" -> MiseScan
         [] OTHER -> DefaultScan
  ELSE CASE manager = "npm" -> NpmUpdate [] manager = "pnpm" -> PnpmUpdate
         [] manager = "bun" -> BunUpdate [] manager = "cargo" -> CargoUpdate
         [] manager = "gem" -> GemUpdate [] manager = "go" -> GoUpdate
         [] manager = "uv" -> UvUpdate [] manager = "pipx" -> PipxUpdate
         [] manager = "dotnet" -> DotnetUpdate [] manager = "brew" -> BrewUpdate
         [] manager = "mise" -> MiseUpdate

(* npm and pnpm update everything outdated, or everything for a policy of *)
(* their own; gem knows one policy, uv and mise only their own resolver   *)
SupportsPolicy(m, p) ==
  CASE m = "gem" -> p = "stable"
    [] m \in {"uv", "mise"} -> p = "none"
    [] OTHER -> TRUE

(* A second version of a tool is something only mise keeps in its list *)
Machines(m) == [Tools -> IF m = "mise" THEN SUBSET Versions
                         ELSE {held \in SUBSET Versions : \A v, w \in held : v = w}]

Init ==
  /\ manager \in Managers
  /\ op \in {"update", "verbose"} \cup (IF manager = "go" THEN {"lookup"} ELSE {})
  /\ policy \in IF manager \in {"npm", "pnpm", "gem", "uv"} THEN {"none", "stable"} ELSE {"none"}
  /\ trait \in [Tools -> TraitsOf(manager, op)]
  /\ machine \in Machines(manager)
  /\ kept = machine
  /\ changes = 0
  /\ todo = <<"validate">> \o Phases
  /\ listed = {} /\ outdated = {} /\ twice = {} /\ jobs = {} /\ rows = {}
  /\ stopped = FALSE
  /\ result = "running"
  /\ honest = TRUE
  /\ killed = {}

-----------------------------------------------------------------------------
At(phase) == result = "running" /\ Head(todo) = phase
End(how) == result' = how /\ UNCHANGED todo
Pass == todo' = Tail(todo) /\ UNCHANGED result
Ended(how) == End(IF how = "interrupted" THEN how ELSE "failed")
Died(r) == killed' = IF r.exit = "signal" THEN killed \cup {Head(todo)} ELSE killed

(* update_inputs checks the policy before it runs anything; a scan does not *)
Validate ==
  /\ At("validate")
  /\ IF op = "update" /\ ~SupportsPolicy(manager, policy) THEN End("failed") ELSE Pass
  /\ UNCHANGED <<inputs, installation, listed, outdated, twice, jobs, rows, stopped, honest, killed>>

(* `brew update`, unless it is switched off: however it ends *)
Refresh == \E r \in Replies :
  /\ At("refresh")
  /\ Pass /\ Died(r)
  /\ UNCHANGED <<inputs, installation, listed, outdated, twice, jobs, rows, stopped, honest>>

(* `uv tool dir` has to name a directory *)
ToolDir == \E r \in Replies :
  /\ At("tool_dir")
  /\ LET read == After(Success, r, IF r.body = "blank" THEN Refused ELSE Read({}))
     IN  IF read.end = "ok" THEN Pass ELSE Ended(read.end)
  /\ Died(r)
  /\ UNCHANGED <<inputs, installation, listed, outdated, twice, jobs, rows, stopped, honest>>

(* The tools that are installed; a uv that lists nothing is asked again, *)
(* tool by tool, from the receipts in its directory                      *)
List == \E r \in Replies :
  /\ At("list")
  /\ LET read == Listing(r)
     IN  /\ CASE read.end # "ok" -> Ended(read.end)
              [] read.end = "ok" /\ manager = "uv" /\ read.shown = {} ->
                   todo' = <<"receipts">> \o Tail(todo) /\ UNCHANGED result
              [] OTHER -> Pass
         /\ listed' = read.shown
  /\ honest' = (honest /\ r.body = "good")
  /\ Died(r)
  /\ UNCHANGED <<inputs, installation, outdated, twice, jobs, rows, stopped>>

(* The directory is read, and each python in it prints the version of its *)
(* tool; the first failure is the end                                     *)
Receipts == \E r \in Replies, directory \in BOOLEAN :
  /\ At("receipts")
  /\ LET asked == directory /\ Installed # {}
         read == IF asked THEN After(Success, r, IF r.body = "blank" THEN Refused ELSE Read(Installed))
                 ELSE IF directory THEN Read({}) ELSE Refused
     IN  /\ IF read.end = "ok" THEN Pass ELSE Ended(read.end)
         /\ listed' = read.shown
         /\ IF asked THEN Died(r) ELSE UNCHANGED killed
  /\ UNCHANGED <<inputs, installation, outdated, twice, jobs, rows, stopped, honest>>

Outdated == \E r \in Replies :
  /\ At("outdated")
  /\ LET read == OutdatedReading(r)
     IN  /\ IF read.end = "ok" THEN Pass ELSE Ended(read.end)
         /\ outdated' = read.shown
  /\ Died(r)
  /\ UNCHANGED <<inputs, installation, listed, twice, jobs, rows, stopped, honest>>

-----------------------------------------------------------------------------
(* go: the files of the bin directory, one `go version -m` each *)

(* GOBIN, GOPATH, `go env` and the home directory; what `go env` does if *)
(* it does not answer is not looked at.  Then the directory is read, if  *)
(* it is there.                                                          *)
BinDir == \E r \in Replies, home, readable \in BOOLEAN :
  /\ At("bin_dir")
  /\ IF readable /\ (home \/ (r.exit = "zero" /\ r.body = "good")) THEN Pass ELSE End("failed")
  /\ jobs' = Installed
  /\ Died(r)
  /\ UNCHANGED <<inputs, installation, listed, outdated, twice, rows, stopped, honest>>

FirstOf(pairs) == CHOOSE p \in pairs : \A q \in pairs : p[1] <= q[1]
Now(p) == {q \in Installed : q[1] = p[1]}

(* A binary that go cannot read, for whatever reason, is a skipped row, and *)
(* so is one without a module or with a development version                 *)
Binary == \E r \in Replies :
  /\ At("binaries") /\ jobs # {}
  /\ LET p == FirstOf(jobs)
         readable == r.exit = "zero" /\ r.body = "good" /\ Now(p) # {}
     IN  IF r.exit = "spawn" THEN End("failed") /\ UNCHANGED <<listed, jobs, rows>>
         ELSE /\ jobs' = jobs \ {p}
              /\ listed' = IF readable THEN listed \cup Now(p) ELSE listed
              /\ rows' = IF readable THEN rows ELSE rows \cup {Row(<<p[1], 0>>, "skipped")}
              /\ UNCHANGED <<todo, result>>
  /\ Died(r)
  /\ UNCHANGED <<inputs, installation, outdated, twice, stopped, honest>>

BinariesRead ==
  /\ At("binaries") /\ jobs = {}
  /\ Pass
  /\ UNCHANGED <<inputs, installation, listed, outdated, twice, jobs, rows, stopped, honest, killed>>

-----------------------------------------------------------------------------
(* mise: the preview of `mise upgrade` *)

FallBack == todo' = <<"fallback">> /\ UNCHANGED result

(* Only an interruption of the preview is an error of the discovery *)
Flag == \E r \in Replies :
  /\ At("flag")
  /\ CASE After(Success, r, Read({})).end = "ok" -> Pass
       [] After(Success, r, Read({})).end = "failed" -> FallBack
       [] OTHER -> End("interrupted")
  /\ Died(r)
  /\ UNCHANGED <<inputs, installation, listed, outdated, twice, jobs, rows, stopped, honest>>

(* An item for each line that announces an install: the version whose      *)
(* uninstall was announced last before, or 0 until the listing completes   *)
(* it.  A tool of which several versions are asked for has any number of   *)
(* items, and several may be for one version; an uninstall without an      *)
(* install is no preview.                                                   *)
Previews == SUBSET (Old(Installed) \cup (Tools \X {0}))
OneItem(items) == \A p, q \in items : p[1] = q[1] /\ trait[p[1]] # "several" => p = q

Preview == \E r \in Replies, items \in Previews : \E again \in SUBSET NamesOf(items) :
  /\ At("preview")
  /\ OneItem(items) /\ \A t \in again : trait[t] = "several"
  /\ LET read == After(Success, r, IF r.body = "garbage" THEN Refused ELSE Lines(r, items))
     IN  /\ CASE read.end = "interrupted" -> End("interrupted")
              [] read.end = "failed" -> FallBack
              [] \E p \in read.shown : p[2] = 0 ->
                   todo' = <<"complete">> \o Tail(todo) /\ UNCHANGED result
              [] OTHER -> Pass
         /\ outdated' = read.shown
         /\ twice' = again \cap NamesOf(read.shown)
  /\ Died(r)
  /\ UNCHANGED <<inputs, installation, listed, jobs, rows, stopped, honest>>

(* The version that is replaced: the only active one, or the only one.  It *)
(* is not looked whether another item has it already.                      *)
Sources(t, shown, active) ==
  LET matching == {p \in shown : p[1] = t}
  IN  IF matching \cap active = {} THEN matching ELSE matching \cap active
Complete == \E r \in Replies, active \in SUBSET Installed :
  /\ At("complete")
  /\ LET read == MiseList(r)
         bare == NamesOf({q \in outdated : q[2] = 0})
         found == {t \in bare : \E p \in read.shown : Sources(t, read.shown, active) = {p}}
         completed == UNION {Sources(t, read.shown, active) : t \in found}
     IN  /\ CASE read.end = "interrupted" -> End("interrupted")
              [] read.end = "ok" /\ found = bare -> Pass
              [] OTHER -> FallBack
         /\ outdated' = {p \in outdated : p[2] # 0} \cup completed
         /\ twice' = twice \cup NamesOf(completed \cap outdated)
  /\ Died(r)
  /\ UNCHANGED <<inputs, installation, listed, jobs, rows, stopped, honest>>

(* Without a preview every installed version is a row with the error *)
Fallback == \E r \in Replies :
  /\ At("fallback")
  /\ LET read == MiseList(r)
     IN  /\ IF read.end = "ok" THEN End("rows") ELSE Ended(read.end)
         /\ rows' = {Row(p, "resolver_error") : p \in read.shown}
  /\ twice' = {}
  /\ Died(r)
  /\ UNCHANGED <<inputs, installation, listed, outdated, jobs, stopped, honest>>

-----------------------------------------------------------------------------
(* What is looked up, and what only stays as it is *)

IdOf(p) == IF manager = "mise" THEN p ELSE <<p[1], 0>>
Defaults(pairs) == {p \in pairs : manager = "gem" /\ trait[p[1]] = "hidden"}

(* lookup_release of go: the discovery again, and of it one tool *)
Wanted == CHOOSE t \in Tools : \A u \in Tools : t <= u
Chosen ==
  IF op = "lookup" THEN {p \in listed : p[1] = Wanted}
  ELSE IF op = "update" /\ (manager \in {"gem", "brew", "mise"} \/ (manager \in {"npm", "pnpm"} /\ policy = "none"))
  THEN {p \in outdated : p[1] \notin NamesOf(Defaults(listed))}
  ELSE listed \ Defaults(listed)
CurrentByPair == {p \in listed \ Defaults(listed) : p \notin Chosen}
Current ==
  {p \in listed \ Defaults(listed) : IdOf(p) \notin {IdOf(q) : q \in Chosen}}

(* Tools that are current end a discovery with nothing else to look up *)
Choose ==
  /\ At("choose")
  /\ jobs' = Chosen
  /\ rows' = rows \cup {Row(p, "current") : p \in Current}
  /\ IF Chosen = {} THEN End("rows") ELSE Pass
  /\ UNCHANGED <<inputs, installation, listed, outdated, twice, stopped, honest, killed>>

(* The version of Ruby: a scan does without it, a discovery does not *)
Ruby == \E r \in Replies :
  /\ At("ruby")
  /\ LET read == After(Success, r, Json(r, {}))
     IN  IF read.end = "ok" \/ (op = "verbose" /\ read.end = "failed") THEN Pass ELSE Ended(read.end)
  /\ Died(r)
  /\ UNCHANGED <<inputs, installation, listed, outdated, twice, jobs, rows, stopped, honest>>

AdviceUnread == \E r \in Replies :
  /\ At("advice")
  /\ Pass /\ Died(r)
  /\ UNCHANGED <<inputs, installation, listed, outdated, twice, jobs, rows, stopped, honest>>
(* What uv and mise call newest is advice: a failure is remembered, an *)
(* interruption is the end                                             *)
UvLatest(r) == After(Success, r, Lines(r, {}))
MiseLatest(r) == After(Success, r, Json(r, {}))
Advice == \E r \in Replies :
  /\ At("advice")
  /\ IF (IF manager = "uv" THEN UvLatest(r) ELSE MiseLatest(r)).end = "interrupted"
     THEN End("interrupted") ELSE Pass
  /\ Died(r)
  /\ UNCHANGED <<inputs, installation, listed, outdated, twice, jobs, rows, stopped, honest>>

(* `brew info`: without it no age is looked up *)
Info == \E r \in Replies :
  /\ At("info")
  /\ CASE After(Success, r, Json(r, {})).end = "ok" -> Pass
       [] After(Success, r, Json(r, {})).end = "failed" ->
            todo' = <<"blind_jobs">> /\ UNCHANGED result
       [] OTHER -> End("interrupted")
  /\ Died(r)
  /\ UNCHANGED <<inputs, installation, listed, outdated, twice, jobs, rows, stopped, honest>>

(* `brew tap-info`: however it ends *)
Taps == \E r \in Replies :
  /\ At("taps")
  /\ Pass /\ Died(r)
  /\ UNCHANGED <<inputs, installation, listed, outdated, twice, jobs, rows, stopped, honest>>

-----------------------------------------------------------------------------
(* The jobs: one tool each, side by side *)

(* npm, pnpm, bun and go look up with a process, and see when it dies.  An *)
(* HTTP lookup only fails.                                                  *)
ByProcess == {"known", "unknown", "signal"}
ByHttp == {"known", "unknown"}
(* mise and brew look up with processes too, but one that died is a lookup *)
(* that failed, after which they may still find the release elsewhere      *)
Unheard == manager \in {"mise", "brew"} /\ At("jobs")

(* cargo and uv find a target first, when it is about an update *)
Search == {"found", "unresolved", "signal"}
DryRun == {"found", "unresolved", "signal"}
(* mise asks its registry for the package that is to be audited *)
Subject == {"found", "signal"}

TargetAnswers ==
  CASE manager = "cargo" /\ op = "update" -> Search
    [] manager = "uv" /\ op = "update" -> DryRun
    [] manager = "mise" -> Subject
    [] OTHER -> {"found"}
LookupAnswers == IF manager \in {"npm", "pnpm", "bun", "go"} THEN ByProcess ELSE ByHttp
JobAnswers == (TargetAnswers \ {"found"}) \cup LookupAnswers

(* pipx_constraint, before anything is looked up; a pinned formula likewise *)
Constrained(p) == manager = "pipx" /\ trait[p[1]] = "barred"
Pinned(p) == manager = "brew" /\ trait[p[1]] = "barred"
Barred(p) == op = "update" /\ (Constrained(p) \/ Pinned(p))
KindOf(p, answer) ==
  CASE Barred(p) -> "skipped"
    [] op = "verbose" -> "installed"
    [] answer = "unresolved" -> "resolver_error"
    [] answer = "unknown" -> "unknown"
    [] OTHER -> "seed"

(* bun, gem and go scan one tool after the other and stop at the first error *)
OneByOne == op = "verbose" /\ manager \in {"bun", "gem", "go"}

InJobs == At("jobs") \/ At("blind_jobs")
Job(p) == \E answer \in JobAnswers, died \in BOOLEAN :
  /\ InJobs /\ p \in jobs
  /\ died => Unheard /\ ~Barred(p) /\ answer # "signal"
  /\ OneByOne => p = FirstOf(jobs)
  /\ At("blind_jobs") => answer = "unknown"
  /\ IF answer = "signal" /\ ~Barred(p)
     THEN /\ stopped' = TRUE
          /\ killed' = killed \cup {"jobs"}
          /\ jobs' = IF OneByOne THEN {} ELSE jobs \ {p}
          /\ UNCHANGED rows
     ELSE /\ jobs' = jobs \ {p}
          /\ rows' = rows \cup {Row(p, KindOf(p, answer))}
          /\ killed' = IF died THEN killed \cup {"lookup"} ELSE killed
          /\ UNCHANGED stopped
  /\ UNCHANGED <<inputs, installation, todo, listed, outdated, twice, result, honest>>

CollectKnown ==
  /\ InJobs /\ jobs = {}
  /\ End(IF stopped THEN "interrupted"
         ELSE IF \E r \in rows : r.kind = "unknown" THEN "failed" ELSE "rows")
  /\ UNCHANGED <<inputs, installation, listed, outdated, twice, jobs, rows, stopped, honest, killed>>
(* run_ordered_parallel waits for every job; then one error is the result *)
Collect ==
  /\ InJobs /\ jobs = {}
  /\ End(IF stopped THEN "interrupted" ELSE "rows")
  /\ UNCHANGED <<inputs, installation, listed, outdated, twice, jobs, rows, stopped, honest, killed>>

-----------------------------------------------------------------------------
UserChanges == \E t \in Tools, m \in Machines(manager) :
  /\ result = "running" /\ changes < MaxChanges
  /\ m[t] # machine[t] /\ \A u \in Tools \ {t} : m[u] = machine[u]
  /\ machine' = m
  /\ kept' = [kept EXCEPT ![t] = @ \cap m[t]]
  /\ changes' = changes + 1
  /\ UNCHANGED <<inputs, todo, listed, outdated, twice, jobs, rows, stopped, result, honest, killed>>

Next ==
  \/ Validate \/ Refresh \/ ToolDir \/ List \/ Receipts \/ Outdated
  \/ BinDir \/ Binary \/ BinariesRead
  \/ Flag \/ Preview \/ Complete \/ Fallback
  \/ Choose \/ Ruby \/ Advice \/ Info \/ Taps
  \/ (\E p \in jobs : Job(p)) \/ Collect
  \/ UserChanges

Spec == Init /\ [][Next]_vars

-----------------------------------------------------------------------------
(* No tool is missing and none is there twice, although two commands at two *)
(* times tell of it: what is current is told apart by the identity of the    *)
(* tool, not by the version the listing had, and what was installed all the  *)
(* time has its row when the discovery succeeds, whether its release is      *)
(* known or not, provided the listing told what there was.  (An entry        *)
(* without a version is not shown, nor are default gems and the dependencies *)
(* of other formulae.)  The one way to two rows of one identity is a preview *)
(* of mise that names a tool in several lines: nothing looks whether they    *)
(* replace the same version.                                                 *)
Missing(t, v) == \A r \in rows : r.tool # t \/ (manager = "mise" /\ r.version # v)
EachToolOnce ==
  /\ \A r, s \in rows : IdOf(<<r.tool, r.version>>) = IdOf(<<s.tool, s.version>>) => r = s
  /\ \A r \in rows : r.tool \in twice => trait[r.tool] = "several"
  /\ (result = "rows" /\ op # "lookup" /\ honest) =>
       \A t \in Tools : trait[t] # "hidden" => \A v \in kept[t] : ~Missing(t, v)

(* A release that is not known is the matter of one row: once the tools are  *)
(* looked up, only an interruption ends the discovery without its rows.      *)
FailureStaysLocal ==
  (Head(todo) \in {"jobs", "blind_jobs"} /\ result \in {"failed", "interrupted"}) => "jobs" \in killed

(* A command that dies of a signal, as with Ctrl-C, is not read as an answer: *)
(* the discovery ends without rows.  What may die unnoticed is `brew update`, *)
(* `brew tap-info`, go's own look at its environment and its binaries, and a  *)
(* lookup of mise or brew, which only has failed then (`npm view`,            *)
(* `mise registry`, `mise ls-remote`, `git log`).                             *)
Unwatched == {"refresh", "taps", "bin_dir", "binaries", "lookup"}
InterruptionEndsIt == (killed \ Unwatched # {}) => result # "rows"

=============================================================================
