---------------------------- MODULE PlanEvaluation ----------------------------
(***************************************************************************)
(* Planning one installed tool: build_manager_plan of upgate-cli with the  *)
(* evaluation of upgate-planning (evaluate_seed_with_audit).  Between two  *)
(* runs of the program time passes, the registry publishes releases, the   *)
(* advisory database learns of vulnerabilities and the user applies what   *)
(* was planned; a run takes a snapshot of all of it and passes every       *)
(* release through the gates, in the order version, policy, age, audit.    *)
(*                                                                         *)
(* Version texts are opaque: Parsed gives their place in the version order *)
(* (0 when the scheme cannot parse them) and Class their release class.    *)
(* Where two texts parse to the same version and have the same date the    *)
(* code takes the first of the timeline; here either may be taken.         *)
(***************************************************************************)
EXTENDS Integers, FiniteSets

CONSTANTS
  Texts,          (* version texts                                           *)
  Parsed,         (* parse_semver / parse_pep440: the version order          *)
  Class,          (* classify_*_release                                      *)
  InstalledFirst, (* what may be installed at the start                      *)
  SettingsUsed,   (* the settings and managers considered                    *)
  MinAge,         (* min_release_age                                         *)
  MaxClock,       (* bound: the clock stops here                             *)
  MaxReleases,    (* bound: how many releases of the tool are ever public    *)
  MaxAdvisories,  (* bound: how many releases turn out to be vulnerable      *)
  Skew            (* bound: how far a publication date may be ahead of now   *)

Classes == {"dev", "alpha", "beta", "rc", "final", "unknown"}

Policies == {"none", "stable", "same-track"}
Settings == [policy : Policies, scheme : {"semver", "pep440", "native"},
             selectedBy : {"planner", "manager"}, subject : BOOLEAN]

\* A native version scheme comes with manager-selected targets only.
ManagerSettings ==
  {s \in Settings : s.scheme = "native" => s.selectedBy = "manager"}

ASSUME EvaluationAssumption ==
  /\ Parsed \in [Texts -> Nat]
  /\ Class \in [Texts -> Classes]
  /\ SettingsUsed \subseteq ManagerSettings
  /\ InstalledFirst \subseteq Texts
  /\ MinAge \in Nat /\ MaxClock \in Nat /\ MaxReleases \in Nat /\ MaxAdvisories \in Nat /\ Skew \in Nat

Never == -1

VARIABLES
  clock,       (* SystemTime::now()                                          *)
  published,   (* the registry: publication date of each text, or Never      *)
  advisories,  (* the texts the advisory database knows a vulnerability of   *)
  installed,   (* the installed version                                      *)
  settings,    (* policy, scheme, who selects the target, audit subject      *)
  plan         (* the latest plan row with the evidence it was made from     *)

vars == <<clock, published, advisories, installed, settings, plan>>

-----------------------------------------------------------------------------
(* Gates *)

ReleaseClasses == <<"dev", "alpha", "beta", "rc", "final">>
Ranks(class) == {r \in 1..5 : ReleaseClasses[r] = class}

StablePolicy(class) == IF class = "final" THEN "allowed" ELSE "prerelease"

SameTrackPolicy(installedClass, class) ==
  IF Ranks(installedClass) = {} THEN StablePolicy(class)
  ELSE IF class = "final" THEN "allowed"
  ELSE IF Ranks(class) = {} THEN "unknown stability"
  ELSE IF \E r \in Ranks(class), i \in Ranks(installedClass) : r >= i THEN "allowed"
  ELSE "track regression"

EvaluatePolicy(policy, installedClass, class) ==
  CASE policy = "none" -> "allowed"
    [] policy = "stable" -> StablePolicy(class)
    [] OTHER -> SameTrackPolicy(installedClass, class)

PolicyVerdict(t) == EvaluatePolicy(settings.policy, Class[installed], Class[t])

\* duration_since(..).unwrap_or_default(): a date in the future has age 0.
Age(date, now) == IF date > now THEN 0 ELSE now - date
OldEnough(date, now) == Age(date, now) >= MinAge

\* audit_fact_for: no subject, no verdict; a missing answer counts as a failure.
AuditFact(t, results) ==
  IF ~settings.subject THEN "none"
  ELSE IF t \in DOMAIN results THEN results[t]
  ELSE "failed"

AuditNotVulnerable(fact) == fact # "vulnerable"
AuditAllows(fact) == fact \in {"none", "clean"}
AuditBlock(fact) == IF fact = "vulnerable" THEN "vulnerable" ELSE "audit failed"

\* newer_by_date: the date decides, the version breaks ties.
Beats(t, u) ==
  \/ published[t] > published[u]
  \/ published[t] = published[u] /\ Parsed[t] > Parsed[u]

Newest(S) == {t \in S : \A u \in S : ~Beats(u, t)}

-----------------------------------------------------------------------------
(* What a plan row can be *)

Row(kind, target, reason, age) == [kind |-> kind, target |-> target, reason |-> reason, age |-> age]

Update(t, now) == Row("update", t, "none", Age(published[t], now))
Delayed(t, now) == Row("delayed", t, "too fresh", Age(published[t], now))
Blocked(reason) == Row("blocked", installed, reason, 0)
Current == Row("current", installed, "none", 0)
ResolverError == Row("error", installed, "none", 0)

\* newest_semver_version / newest_pep440_version over the timeline
Discovered(known) ==
  IF \A t \in known : Parsed[t] = 0 THEN {installed}
  ELSE Newest({t \in known : Parsed[t] # 0})

Newer(known) == {t \in known : Parsed[t] > Parsed[installed]}
PolicyEligible(known) == {t \in Newer(known) : PolicyVerdict(t) = "allowed"}
FreshestIfOldEnough(known, now) ==
  {t \in Newest(PolicyEligible(known)) : OldEnough(published[t], now)}
AgeEligible(known, now) == {t \in PolicyEligible(known) : OldEnough(published[t], now)}
NewestIfClean(known, now, results) ==
  {t \in Newest(AgeEligible(known, now)) : AuditAllows(AuditFact(t, results))}
AuditEligible(known, now, results) ==
  {t \in AgeEligible(known, now) : AuditAllows(AuditFact(t, results))}

\* audit_queries_for_timeline
TimelineQueries(known, discovered) ==
  IF \/ Parsed[installed] = 0 \/ Parsed[discovered] = 0
     \/ ~settings.subject
     \/ \A t \in known : Parsed[t] # Parsed[discovered]
  THEN {}
  ELSE Newer(known)

\* evaluate_timeline_seed
TimelineRows(known, discovered, now, results) ==
  IF Parsed[installed] = 0 \/ Parsed[discovered] = 0
  THEN {ResolverError}
  ELSE IF settings.scheme = "pep440" /\ \E t \in known : Parsed[t] = 0
  THEN {ResolverError}
  ELSE IF \A t \in known : Parsed[t] # Parsed[discovered]
  THEN {Blocked("missing metadata")}
  ELSE IF Newer(known) = {}
  THEN {Current}
  ELSE IF PolicyEligible(known) = {}
  THEN {Blocked(PolicyVerdict(t)) : t \in Newest(Newer(known))}
  ELSE IF AgeEligible(known, now) = {}
  THEN {Delayed(t, now) : t \in Newest(PolicyEligible(known))}
  ELSE IF AuditEligible(known, now, results) = {}
  THEN {Blocked(AuditBlock(AuditFact(t, results))) : t \in Newest(AgeEligible(known, now))}
  ELSE {Update(t, now) : t \in Newest(AuditEligible(known, now, results))}

\* selected_target_is_update, "error" when it cannot be told
IsUpdate(t) ==
  IF t = installed THEN "no"
  ELSE IF settings.scheme = "native" THEN "yes"
  ELSE IF Parsed[installed] = 0 \/ Parsed[t] = 0 THEN "error"
  ELSE IF Parsed[t] > Parsed[installed] THEN "yes"
  ELSE "no"

\* audit_queries_for_manager_selected_seed
TargetQueries(t) == IF settings.subject /\ IsUpdate(t) = "yes" THEN {t} ELSE {}

\* evaluate_manager_selected_seed; evidence is the outcome of the age lookup
TargetRow(t, evidence, now, results) ==
  IF IsUpdate(t) = "no" THEN Current
  ELSE IF IsUpdate(t) = "error" THEN ResolverError
  ELSE IF PolicyVerdict(t) # "allowed" THEN Blocked(PolicyVerdict(t))
  ELSE IF evidence = "missing" THEN Blocked("missing metadata")
  ELSE IF evidence = "failed" THEN Blocked("lookup failed")
  ELSE IF ~OldEnough(published[t], now) THEN Delayed(t, now)
  ELSE IF ~AuditAllows(AuditFact(t, results)) THEN Blocked(AuditBlock(AuditFact(t, results)))
  ELSE Update(t, now)

-----------------------------------------------------------------------------
(* Actions *)

NoAnswers == [t \in {} |-> "clean"]
NoPlan == [row |-> ResolverError, known |-> {}, now |-> 0, results |-> NoAnswers, run |-> FALSE]

Init ==
  /\ clock = 0
  /\ installed \in InstalledFirst
  /\ published \in {[t \in Texts |-> Never], [t \in Texts |-> IF t = installed THEN 0 ELSE Never]}
  /\ advisories = {}
  /\ settings \in SettingsUsed
  /\ plan = NoPlan

\* Time passes.
Tick ==
  /\ clock < MaxClock
  /\ clock' = clock + 1
  /\ UNCHANGED <<published, advisories, installed, settings, plan>>

Published == {t \in Texts : published[t] # Never}

\* The registry publishes a release; its date may be ahead of the time read at
\* the start of planning, by its own clock or because it came in meanwhile.
Publish(t) ==
  /\ published[t] = Never
  /\ Cardinality(Published) < MaxReleases
  /\ \E date \in clock..(clock + Skew) : published' = [published EXCEPT ![t] = date]
  /\ UNCHANGED <<clock, advisories, installed, settings, plan>>

\* The advisory database learns of a vulnerability.
Disclose(t) ==
  /\ t \notin advisories
  /\ Cardinality(advisories) < MaxAdvisories
  /\ advisories' = advisories \cup {t}
  /\ UNCHANGED <<clock, published, installed, settings, plan>>

\* AuditService.query: each text asked about is answered, or the request fails.
Audit(queries) ==
  {[t \in queries |-> IF t \in advisories THEN "vulnerable" ELSE "clean"],
   [t \in queries |-> "failed"]}

Planned(row, known, results) ==
  plan' = [row |-> row, known |-> known, now |-> clock, results |-> results, run |-> TRUE]

\* The manager has no release metadata, or could not look it up.
PlanWithoutTimeline ==
  /\ settings.selectedBy = "planner"
  /\ \E reason \in {"missing metadata", "lookup failed"} : Planned(Blocked(reason), {}, NoAnswers)
  /\ UNCHANGED <<clock, published, advisories, installed, settings>>

PlanTimeline ==
  /\ settings.selectedBy = "planner"
  /\ \E discovered \in Discovered(Published) :
       \E results \in Audit(TimelineQueries(Published, discovered)) :
         \E row \in TimelineRows(Published, discovered, clock, results) :
           Planned(row, Published, results)
  /\ UNCHANGED <<clock, published, advisories, installed, settings>>

\* The manager's resolver may choose any release.
PlanTarget ==
  /\ settings.selectedBy = "manager"
  /\ \E t \in Published, evidence \in {"known", "missing", "failed"} :
       \E results \in Audit(TargetQueries(t)) :
         Planned(TargetRow(t, evidence, clock, results), {t}, results)
  /\ UNCHANGED <<clock, published, advisories, installed, settings>>

\* The recommended target is applied, some time after it was planned.
Apply ==
  /\ plan.row.kind = "update"
  /\ installed' = plan.row.target
  /\ plan' = NoPlan
  /\ UNCHANGED <<clock, published, advisories, settings>>

Next ==
  \/ Tick
  \/ \E t \in Texts : Publish(t) \/ Disclose(t)
  \/ PlanWithoutTimeline
  \/ PlanTimeline
  \/ PlanTarget
  \/ Apply

Spec == Init /\ [][Next]_vars

-----------------------------------------------------------------------------
(* Properties *)

Reasons == {"none", "prerelease", "unknown stability", "track regression", "too fresh",
            "missing metadata", "lookup failed", "vulnerable", "audit failed"}
Kinds == {"update", "delayed", "blocked", "current", "error"}

\* Every variable stays in its range; in particular no age is negative, however
\* far a publication date is ahead of the time of planning.
TypeOK ==
  /\ clock \in 0..MaxClock
  /\ published \in [Texts -> {Never} \cup (0..(MaxClock + Skew))]
  /\ advisories \subseteq Texts
  /\ installed \in Texts
  /\ settings \in SettingsUsed
  /\ plan.row \in [kind : Kinds, target : Texts, reason : Reasons, age : Nat]
  /\ plan.known \subseteq Texts
  /\ plan.now \in 0..clock
  /\ DOMAIN plan.results \subseteq Texts
  /\ plan.run \in BOOLEAN

\* What the gates of the plan at hand let through, said without their order.
PermittedClass(class) ==
  \/ settings.policy = "none"
  \/ class = "final"
  \/ /\ settings.policy = "same-track"
     /\ \E i \in Ranks(Class[installed]), r \in Ranks(class) : i <= r

Permitted(t) == PermittedClass(Class[t])
Mature(t) == MinAge = 0 \/ plan.now - published[t] >= MinAge
KnownClean(t) == settings.subject => t \in DOMAIN plan.results /\ plan.results[t] = "clean"
NewerThanInstalled(t) == t # installed /\ (settings.scheme = "native" \/ Parsed[t] > Parsed[installed])

Safe(t) == NewerThanInstalled(t) /\ Permitted(t) /\ Mature(t) /\ KnownClean(t)

\* A recommended update passes every gate, and when the planner chose it no
\* other release that passes every gate is newer.
RecommendedIsNewestSafe ==
  plan.row.kind = "update" =>
    /\ plan.row.target \in plan.known
    /\ Safe(plan.row.target)
    /\ settings.selectedBy = "planner" =>
         \A t \in plan.known : Safe(t) => ~Beats(t, plan.row.target)

\* The queries sent before the evaluation cover every release it asks about: a
\* release is refused for a failed audit only if the audit did fail.
EverythingAudited ==
  /\ plan.row.reason = "audit failed" => \E t \in DOMAIN plan.results : plan.results[t] = "failed"
  /\ plan.row.reason = "vulnerable" => \E t \in DOMAIN plan.results : plan.results[t] = "vulnerable"

\* What each gate leaves of the releases that were planned with.
Fresh == {t \in plan.known : NewerThanInstalled(t)}
FreshPermitted == {t \in Fresh : Permitted(t)}
FreshMature == {t \in FreshPermitted : Mature(t)}
FreshClean == {t \in FreshMature : KnownClean(t)}

\* Nothing is withheld that the gates let through, and the row names the first
\* gate, in the order version, policy, age, audit, that let nothing through.  The
\* audit is named only for what it answered.
WithheldForAReason ==
  /\ EverythingAudited
  /\ plan.run /\ plan.known # {} /\ plan.row.reason \notin {"missing metadata", "lookup failed"} =>
       /\ plan.row.kind = "update" => FreshClean # {}
       /\ plan.row.kind = "current" => Fresh = {}
       /\ plan.row.kind = "delayed" =>
            FreshMature = {} /\ plan.row.target \in FreshPermitted /\ plan.row.age < MinAge
       /\ plan.row.kind = "blocked" =>
            IF plan.row.reason \in {"vulnerable", "audit failed"}
            THEN FreshMature # {} /\ FreshClean = {}
            ELSE Fresh # {} /\ FreshPermitted = {}
       /\ plan.row.kind = "error" => \E t \in plan.known \cup {installed} : Parsed[t] = 0

Replanned == plan.run /\ plan'.run /\ plan'.known # {}
SameTool == installed' = installed /\ settings.selectedBy = "planner"
StillClean(t) == settings.subject => t \in DOMAIN plan'.results /\ plan'.results[t] = "clean"
Readable(known) == settings.scheme = "pep440" => \A t \in known : Parsed[t] # 0

\* A release that was recommended stays covered: whatever is published or
\* disclosed afterwards, a later run recommends it, or one it is not newer than,
\* as long as it is clean itself.  A fresh, blocked or vulnerable release never
\* hides the older one.
NewReleaseHidesNothing ==
  [][Replanned /\ SameTool /\ plan.row.kind = "update"
     /\ StillClean(plan.row.target) /\ Readable(plan'.known)
       => plan'.row.kind = "update" /\ ~Beats(plan.row.target, plan'.row.target)]_vars

\* Applying what was recommended, however late, never takes the tool to an older
\* version, nor from a final release to a pre-release the policy forbids.
NeverDowngrades ==
  [][installed' # installed =>
       /\ settings.scheme # "native" => Parsed[installed'] > Parsed[installed]
       /\ settings.policy = "stable" => Class[installed'] = "final"
       /\ settings.policy = "same-track" /\ Class[installed] = "final" => Class[installed'] = "final"]_vars
=============================================================================
