----------------------------- MODULE ReleaseLookup -----------------------------
(***************************************************************************)
(* How each adapter of upgate-managers turns what a registry says of one   *)
(* package into the ReleaseLookupResult of the planner, and into the       *)
(* target it discovers: which requests it makes and in which order, what   *)
(* it leaves out, and which failure it keeps to itself.                    *)
(*                                                                         *)
(* A document is a partial function from versions to entries [day, mark]:  *)
(* npm's time map, the version list of crates.io, RubyGems, PyPI, a NuGet  *)
(* index with its pages, what `go list` says of a module, `mise ls-remote` *)
(* and mise's versions host, the history of a Homebrew formula.  The mark  *)
(* "unfit" stands for a platform artifact, a yanked crate, an unlisted     *)
(* package or a gem for another Ruby; "odd" for a text that is no version  *)
(* in the manager's scheme; "pre" for a prerelease.                        *)
(***************************************************************************)
EXTENDS Naturals, FiniteSets, Sequences

CONSTANTS
  Versions,     (* of the package: numbers, the larger the newer *)
  Days,         (* on which one may be published: positive numbers *)
  Managers      (* the adapters looked at *)

LookupAssumption ==
  /\ Versions \subseteq Nat /\ Versions # {}
  /\ Days \subseteq 1..999 /\ Days # {}

(* What a document may have in the place of a day *)
Undated == 0
BadDate == 1000
Moments == Days \cup {Undated, BadDate}

Npmlike == {"npm", "pnpm", "bun"}
Http == {"cargo", "gem", "uv", "pipx"}
Sources == 1..2     (* the NuGet indexes; mise's backends or shorts; the git refs of a tap *)

VARIABLES
  manager,    (* the adapter that looks *)
  way,        (* how it looks, when it has several: see WaysOf *)
  docs,       (* what each source holds *)
  host,       (* what mise's versions host, or GitHub for Homebrew, holds *)
  current,    (* the version asked about, the one installed *)
  setting,    (* BUN_INSTALL or HOME is set; Ruby's version is known; the tap is cloned *)
  cutoff,     (* pipx --uploaded-prior-to; the last day for the other managers *)
  step,       (* which request is next *)
  unread,     (* go: the versions whose time has not been read *)
  found,      (* the timeline collected so far *)
  clean,      (* history: no request has failed *)
  answer      (* the ReleaseLookupResult, "none" while there is none *)

vars == <<manager, way, docs, host, current, setting, cutoff, step, unread, found, clean, answer>>
world == <<manager, way, docs, host, current, setting, cutoff>>

Timeline(doc, kept) == [v \in kept |-> doc[v].day]
Nothing == [v \in {} |-> Undated]

Known(timeline) == [kind |-> "known", timeline |-> timeline]
Missing == [kind |-> "missing", timeline |-> Nothing]
Failed == [kind |-> "failed", timeline |-> Nothing]
Interrupted == [kind |-> "interrupted", timeline |-> Nothing]
Unanswered == [kind |-> "none", timeline |-> Nothing]

-----------------------------------------------------------------------------
(* What a request comes back with *)

(* A process that had to succeed; with IgnoreStatus (bun) what a failed one *)
(* wrote is read all the same.                                              *)
ProcessReplies == {"good", "garbage", "status", "signal", "spawn"}
(* A GET of the HTTP client; "absent" is a 404 or a 429 *)
HttpReplies == {"good", "garbage", "status", "absent", "transport"}

-----------------------------------------------------------------------------
(* The parsers: Known, Missing or Failed *)

(* npm, pnpm and bun: a map from versions to times; created and modified  *)
(* and, but for bun, platform artifacts are skipped before their time is  *)
(* parsed, and one bad time refuses the document                          *)
Dated(doc, considered) ==
  IF considered = {} THEN Missing
  ELSE IF \E v \in considered : doc[v].day = BadDate THEN Failed
  ELSE Known(Timeline(doc, considered))

NpmTimeMap(doc) == Dated(doc, {v \in DOMAIN doc : doc[v].mark # "unfit"})
KeepArtifacts(doc) == Dated(doc, DOMAIN doc)   (* a fault: without the filter *)
PnpmTimeMap(doc) == Dated(doc, {v \in DOMAIN doc : doc[v].mark # "unfit"})
BunTimeMap(doc) == Dated(doc, DOMAIN doc)

(* crates.io: yanked versions are left out *)
Listed(doc) == {v \in DOMAIN doc : doc[v].mark # "unfit"}
CratesIo(doc) == Dated(doc, Listed(doc))

(* RubyGems: what the running Ruby cannot use is left out when the runtime *)
(* is known, and what is no version always; a bad time counts as missing   *)
(* metadata                                                                *)
RubyAllows(doc, v) == doc[v].mark # "unfit"
RubyGems(doc, runtimeKnown) ==
  LET usable == {v \in DOMAIN doc : (runtimeKnown => RubyAllows(doc, v)) /\ doc[v].mark # "odd"}
      read == Dated(doc, usable)
  IN  IF read = Failed THEN Missing ELSE read

(* PyPI, for uv and pipx: releases that are no PEP 440 version or have no *)
(* dated file are left out                                                *)
Uploaded(doc) == {v \in DOMAIN doc : doc[v].mark # "odd" /\ doc[v].day # Undated}
UvPypi(doc) == Dated(doc, Uploaded(doc))
PipxPypi(doc) == Dated(doc, Uploaded(doc))

(* pipx: the cutoff the environment was installed with filters a timeline, *)
(* possibly to nothing                                                     *)
ApplyUploadCutoff(result) ==
  IF result.kind # "known" THEN result
  ELSE Known([v \in {w \in DOMAIN result.timeline : result.timeline[w] <= cutoff} |->
                result.timeline[v]])

(* NuGet: unlisted entries and entries without a time are skipped *)
NuGetPage(doc) ==
  Dated(doc, {v \in DOMAIN doc : doc[v].mark # "unfit" /\ doc[v].day # Undated})

(* mise: entries without a time, or with one that does not parse, are *)
(* dropped, from `mise ls-remote` and from the versions host alike    *)
LsRemote(doc) == Timeline(doc, {v \in DOMAIN doc : doc[v].day \in Days})
VersionsHostToml(doc) == Timeline(doc, {v \in DOMAIN doc : doc[v].day \in Days})

-----------------------------------------------------------------------------
(* Init: every document the manager's sources may hold *)

(* What the name of a mise tool starts with; whether go is asked for every *)
(* version of a module or for the installed one; where the remote of a tap *)
(* is, "untapped" for a package whose tap or source file is not known      *)
WaysOf(m) ==
  CASE m = "mise" -> {"npm", "backend", "short"}
    [] m = "go" -> {"timeline", "installed"}
    [] m = "brew" -> {"github", "elsewhere", "nowhere", "untapped"}
    [] OTHER -> {"timeline"}

(* A time map, a crate's versions and a gem's have a text for every time; *)
(* one good day is enough where days are not compared.                    *)
MomentsOf(m) ==
  CASE m \in Npmlike \cup {"cargo", "gem", "brew"} -> Moments \ {Undated}
    [] m = "mise" -> {Undated, BadDate, CHOOSE day \in Days : TRUE}
    [] OTHER -> Moments
MarksOf(m) ==
  CASE m \in Npmlike \cup {"cargo"} -> {"plain", "odd", "unfit"}
    [] m = "gem" -> {"plain", "odd", "unfit", "pre"}
    [] m \in {"go", "uv", "pipx"} -> {"plain", "odd"}
    [] m = "dotnet" -> {"plain", "unfit"}
    [] OTHER -> {"plain"}
Finite(S) == {T \in SUBSET S : IsFiniteSet(T)}
Documents(m, versions) ==
  UNION {[shown -> [day : MomentsOf(m), mark : MarksOf(m)]] : shown \in Finite(versions)}
Empty == [v \in {} |-> [day |-> Undated, mark |-> "plain"]]

Init ==
  /\ manager \in Managers
  /\ way \in WaysOf(manager)
  /\ current \in Versions
  /\ LET held == Documents(IF way = "npm" THEN way ELSE manager,
                           IF manager = "brew" THEN {current} ELSE Versions)
         several == manager \in {"dotnet", "brew"} \/ way \in {"backend", "short"}
     IN  /\ docs \in {d \in [Sources -> held] : several \/ d[2] = Empty}
         /\ host \in IF manager = "brew" \/ way \in {"backend", "short"} THEN held ELSE {Empty}
  /\ setting \in IF manager \in {"bun", "gem", "brew"} THEN BOOLEAN ELSE {TRUE}
  /\ cutoff \in IF manager = "pipx" THEN Days ELSE {BadDate}
  /\ step = 1
  /\ unread = {}
  /\ found = Nothing
  /\ clean = TRUE
  /\ answer = Unanswered

Asking(m, at) == answer = Unanswered /\ manager = m /\ step = at

Answer(result, isClean) ==
  /\ answer' = result
  /\ clean' = (clean /\ isClean)
  /\ UNCHANGED <<world, step, unread, found>>

(* The next request; what failed, if anything, was not the end of it *)
Continue(to, isClean) ==
  /\ step' = to
  /\ clean' = (clean /\ isClean)
  /\ UNCHANGED <<world, answer, unread, found>>

-----------------------------------------------------------------------------
(* One process or one GET *)

(* `npm view`, `pnpm view`: a signal is an interruption, every other *)
(* failure stays with the tool                                       *)
ViewAnswer(reply, parsed) ==
  CASE reply = "good" -> parsed
    [] reply = "signal" -> Interrupted
    [] OTHER -> Failed

AskNpm == \E reply \in ProcessReplies :
  Asking("npm", 1) /\ Answer(ViewAnswer(reply, NpmTimeMap(docs[1])), reply = "good")

AskPnpm == \E reply \in ProcessReplies :
  Asking("pnpm", 1) /\ Answer(ViewAnswer(reply, PnpmTimeMap(docs[1])), reply = "good")

(* `bun pm view` runs in the global directory and only when it is known; *)
(* its exit status is not looked at                                      *)
AskBun ==
  /\ Asking("bun", 1)
  /\ IF ~setting THEN Answer(Missing, TRUE)
     ELSE \E reply \in ProcessReplies, written \in {"good", "garbage"} :
            LET read == IF reply = "status" THEN written ELSE reply
            IN  Answer(ViewAnswer(read, BunTimeMap(docs[1])), read = "good")

(* cargo, gem, uv and pipx: one GET, never an interruption *)
GetAnswer(reply, parsed) == IF reply = "good" THEN parsed ELSE Failed

AskCratesIo == \E reply \in HttpReplies :
  Asking("cargo", 1) /\ Answer(GetAnswer(reply, CratesIo(docs[1])), reply = "good")
AskRubyGems == \E reply \in HttpReplies :
  Asking("gem", 1) /\ Answer(GetAnswer(reply, RubyGems(docs[1], setting)), reply = "good")
AskUvPypi == \E reply \in HttpReplies :
  Asking("uv", 1) /\ Answer(GetAnswer(reply, UvPypi(docs[1])), reply = "good")
AskPipxPypi == \E reply \in HttpReplies :
  /\ Asking("pipx", 1)
  /\ Answer(ApplyUploadCutoff(GetAnswer(reply, PipxPypi(docs[1]))), reply = "good")

-----------------------------------------------------------------------------
(* go: the versions of the module, then the time of each *)

IsGoSemver(doc, v) == doc[v].mark # "odd"

ModuleVersions == \E reply \in ProcessReplies :
  /\ Asking("go", 1) /\ way = "timeline"
  /\ IF reply = "good"
     THEN /\ unread' = {v \in DOMAIN docs[1] : IsGoSemver(docs[1], v)}
          /\ step' = 2
          /\ UNCHANGED <<world, found, clean, answer>>
     ELSE Answer(ViewAnswer(reply, Missing), FALSE)

(* A version the proxy has no time for is passed over *)
ModuleVersionTime == \E reply \in ProcessReplies :
  /\ Asking("go", 2) /\ unread # {}
  /\ LET v == CHOOSE v \in unread : \A w \in unread : v <= w
         day == docs[1][v].day
     IN  IF reply = "good" /\ day # BadDate
         THEN /\ unread' = unread \ {v}
              /\ found' = IF day = Undated THEN found
                          ELSE [w \in DOMAIN found \cup {v} |-> IF w = v THEN day ELSE found[w]]
              /\ UNCHANGED <<world, step, clean, answer>>
         ELSE Answer(IF reply = "signal" THEN Interrupted ELSE Failed, reply = "good")

ModuleTimesRead ==
  /\ Asking("go", 2) /\ unread = {}
  /\ Answer(IF DOMAIN found = {} THEN Missing ELSE Known(found), TRUE)

(* For a scan only the installed version is asked about, whether or not it *)
(* is in the list of versions                                              *)
InstalledModuleTime == \E reply \in ProcessReplies :
  /\ Asking("go", 1) /\ way = "installed"
  /\ LET shown == DOMAIN docs[1] \cap {current}
         timed == {v \in shown : docs[1][v].day # Undated}
     IN  Answer(ViewAnswer(reply, IF shown = {} THEN Failed ELSE Dated(docs[1], timed)), reply = "good")

-----------------------------------------------------------------------------
(* dotnet: the SemVer 2 index, and the older one when it has no entry *)

OneNuGetIndex(i) == \E reply \in HttpReplies :   (* a fault: no second index *)
  Asking("dotnet", i) /\ Answer(GetAnswer(reply, NuGetPage(docs[i])), reply = "good")

AskNuGetIndex(i) == \E reply \in HttpReplies :
  /\ Asking("dotnet", i)
  /\ LET page == NuGetPage(docs[i])
     IN  IF reply = "good" /\ page = Missing /\ i = 1 THEN Continue(2, TRUE)
         ELSE Answer(GetAnswer(reply, page), reply = "good")

-----------------------------------------------------------------------------
(* mise: the backends one after the other, then the versions host *)

(* Versions written differently (a leading v, a missing zero) are the same; *)
(* here they are the same number.                                           *)
HasWanted(timeline) == current \in DOMAIN timeline

(* npm's own registry; whatever fails is the failure of the lookup *)
AskNpmForMise == \E reply \in ProcessReplies :
  /\ Asking("mise", 1) /\ way = "npm"
  /\ Answer(IF reply = "good" THEN NpmTimeMap(docs[1]) ELSE Failed, reply = "good")

(* `mise registry` names the backends of a short name before they are asked; *)
(* none is missing metadata                                                  *)
RegistryBackends == \E reply \in ProcessReplies \cup {"none"} :
  /\ Asking("mise", 1) /\ way = "short"
  /\ CASE reply = "good" -> Continue(2, TRUE)
       [] reply = "none" -> Answer(Missing, FALSE)
       [] OTHER -> Answer(Failed, FALSE)

(* A backend that fails ends the lookup, one without the version does not *)
BackendStep(i) == IF way = "backend" THEN i ELSE i + 1
AskBackend(i) == \E reply \in ProcessReplies :
  /\ Asking("mise", BackendStep(i)) /\ way \in {"backend", "short"}
  /\ i = 2 => way = "short"
  /\ LET timeline == LsRemote(docs[i])
     IN  CASE reply # "good" -> Answer(Failed, FALSE)
           [] reply = "good" /\ HasWanted(timeline) -> Answer(Known(timeline), TRUE)
           [] OTHER -> Continue(step + 1, TRUE)

(* `mise registry` again, for the short names of a backend *)
RegistryShorts == \E reply \in ProcessReplies \cup {"none"} :
  /\ Asking("mise", 2) /\ way = "backend"
  /\ CASE reply = "good" -> Continue(3, TRUE)
       [] reply = "none" -> Answer(Missing, FALSE)
       [] OTHER -> Answer(Failed, FALSE)

(* The host does not know a tool, or cannot answer now: 404 and 429 *)
HostTimeline(reply, doc) ==
  CASE reply = "absent" -> Missing
    [] reply = "good" ->
         IF DOMAIN VersionsHostToml(doc) = {} THEN Missing ELSE Known(VersionsHostToml(doc))
    [] OTHER -> Failed

(* Of the shorts of a backend, the first whose timeline has the version *)
AskHostForBackend(i) == \E reply \in HttpReplies :
  /\ Asking("mise", 2 + i) /\ way = "backend"
  /\ LET read == HostTimeline(reply, IF i = 1 THEN docs[2] ELSE host)
     IN  CASE read = Failed -> Answer(Failed, FALSE)
           [] read.kind = "known" /\ HasWanted(read.timeline) -> Answer(read, TRUE)
           [] OTHER -> IF i = 1 THEN Continue(4, reply = "good") ELSE Answer(Missing, reply = "good")

(* The host's timeline for a short name is the answer whatever it holds *)
AskHostForShort == \E reply \in HttpReplies :
  /\ Asking("mise", 4) /\ way = "short"
  /\ Answer(HostTimeline(reply, host), reply = "good")

-----------------------------------------------------------------------------
(* Homebrew: the history of the file in the cloned tap, then on GitHub *)

CommitOf(doc) == DOMAIN doc # {} /\ doc[current].day # BadDate
CommitTime(doc) == Known([v \in {current} |-> doc[current].day])

(* Without a clone GitHub is asked first; without a remote nobody is *)
FallbackRemote == way \in {"github", "elsewhere"}
StartWithTap ==
  /\ Asking("brew", 1)
  /\ CASE way = "untapped" -> Answer(Missing, TRUE)
       [] way # "untapped" /\ setting -> Continue(2, TRUE)
       [] OTHER -> IF FallbackRemote THEN Continue(4, TRUE) ELSE Answer(Missing, TRUE)

(* Each git ref in turn; no failure, not even a signal, is reported *)
AskGitRef(i) == \E reply \in ProcessReplies :
  /\ Asking("brew", i + 1)
  /\ IF reply = "good" /\ CommitOf(docs[i]) THEN Answer(CommitTime(docs[i]), TRUE)
     ELSE IF i = 1 \/ FallbackRemote THEN Continue(i + 2, reply = "good")
     ELSE Answer(Failed, reply = "good")

AskGitHub == \E reply \in HttpReplies :
  /\ Asking("brew", 4)
  /\ IF way = "github" /\ reply = "good" /\ CommitOf(host) THEN Answer(CommitTime(host), TRUE)
     ELSE Answer(Failed, reply = "good")

Next ==
  \/ AskNpm \/ AskPnpm \/ AskBun
  \/ AskCratesIo \/ AskRubyGems \/ AskUvPypi \/ AskPipxPypi
  \/ ModuleVersions \/ ModuleVersionTime \/ ModuleTimesRead \/ InstalledModuleTime
  \/ \E i \in Sources : AskNuGetIndex(i) \/ AskBackend(i) \/ AskHostForBackend(i) \/ AskGitRef(i)
  \/ AskNpmForMise \/ RegistryBackends \/ RegistryShorts \/ AskHostForShort
  \/ StartWithTap \/ AskGitHub

Spec == Init /\ [][Next]_vars

-----------------------------------------------------------------------------
(* The target a seed is made with *)

MarkOf(v) == IF v \in DOMAIN docs[1] THEN docs[1][v].mark ELSE docs[2][v].mark

(* newest_semver_version and newest_pep440_version: by day, then by version, *)
(* of the entries that are versions                                          *)
NewestByDay(timeline, among) ==
  CHOOSE v \in among : \A w \in among :
    timeline[w] < timeline[v] \/ (timeline[w] = timeline[v] /\ w <= v)

IsVersion(v) == MarkOf(v) # "odd"
OrCurrent(among, newest) == IF among = {} THEN current ELSE newest

RegistryTarget(timeline) ==
  LET among == {v \in DOMAIN timeline : IsVersion(v)}
  IN OrCurrent(among, NewestByDay(timeline, among))

(* gem: never a prerelease *)
GemTarget(timeline) ==
  LET among == {v \in DOMAIN timeline : IsVersion(v) /\ MarkOf(v) # "pre"}
  IN OrCurrent(among, NewestByDay(timeline, among))

(* go: the greatest version, whenever it was published *)
NewestGoVersion(among) == CHOOSE v \in among : \A w \in among : w <= v
GoTarget(timeline) ==
  LET among == {v \in DOMAIN timeline : IsVersion(v)}
  IN OrCurrent(among, NewestGoVersion(among))

(* Without a timeline the target is the installed version.  uv, mise and *)
(* Homebrew have their target from the manager itself.                   *)
DiscoveredTarget ==
  CASE manager = "gem" -> GemTarget(answer.timeline)
    [] manager = "go" -> GoTarget(answer.timeline)
    [] OTHER -> RegistryTarget(answer.timeline)
HasOwnTarget == manager \in {"uv", "mise", "brew"}

-----------------------------------------------------------------------------
(* What a manager must not be offered: see the marks above *)
Withheld(doc, v) ==
  \/ doc[v].mark = "unfit" /\ manager # "bun" /\ (manager = "gem" => setting)
  \/ doc[v].mark = "odd" /\ (manager \in {"gem", "uv", "pipx"} \/ (manager = "go" /\ way = "timeline"))
Held(doc) == {v \in DOMAIN doc : doc[v].day \in Days /\ doc[v].day <= cutoff /\ ~Withheld(doc, v)}

(* Whatever sources were asked and whichever of them failed, a timeline has *)
(* only versions that one of them offers to this manager, each with the day *)
(* that source gives, and the target is one of them that is a version (and  *)
(* no prerelease for gem) or the version installed already.               *)
OnlyFitIsOffered ==
  /\ \A v \in DOMAIN answer.timeline :
       \E doc \in {docs[1], docs[2], host} : v \in Held(doc) /\ answer.timeline[v] = doc[v].day
  /\ answer.kind = "known" /\ ~HasOwnTarget =>
       \/ DiscoveredTarget = current
       \/ /\ DiscoveredTarget \in DOMAIN answer.timeline
          /\ MarkOf(DiscoveredTarget) \notin
               {"odd"} \cup (IF manager = "gem" THEN {"pre"} ELSE {})

(* The versions the lookup is for, and where they may be found *)
Sought == IF manager = "brew" \/ way \in {"backend", "short", "installed"} THEN {current} ELSE Versions
Open(source) ==
  CASE manager = "bun" -> setting
    [] manager = "brew" -> IF source = 3 THEN way = "github" ELSE setting /\ way # "untapped"
    [] OTHER -> TRUE
HeldAt(source) ==
  IF Open(source) THEN Held(<<docs[1], docs[2], host>>[source]) \cap Sought ELSE {}
(* A parser of a whole document refuses it for one bad time *)
Sound == manager # "brew" /\ way \notin {"backend", "short"} =>
           \A i \in Sources : \A v \in DOMAIN docs[i] : docs[i][v].day # BadDate

(* No source is forgotten: when every request was answered, a lookup that   *)
(* ends finds what the first source holding a wanted version says, whatever *)
(* the sources before it lacked (the second NuGet index, a later backend,   *)
(* the versions host, a later git ref, GitHub), and loses no entry of it.   *)
NothingLost ==
  answer # Unanswered /\ clean /\ Sound =>
    \A source \in 1..3 :
      HeldAt(source) # {} /\ (\A earlier \in 1..(source - 1) : HeldAt(earlier) = {}) =>
        answer.kind = "known" /\ HeldAt(source) \subseteq DOMAIN answer.timeline

==============================================================================
