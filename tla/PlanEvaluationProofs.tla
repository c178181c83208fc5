------------------------- MODULE PlanEvaluationProofs -------------------------
(***************************************************************************)
(* What PlanEvaluation promises, for every set of version texts, every     *)
(* order and classification of them, every minimum age and every bound;    *)
(* and what AuditService, whose answers it judges, promises for any number *)
(* of calls and queries and for batches of any size.                       *)
(***************************************************************************)
EXTENDS PlanEvaluation, AuditService, FiniteSetTheorems, TLAPS

-----------------------------------------------------------------------------
(* The gates, said twice *)

\* Safe, of a plan that is being made.
SafeThen(t, now, results) ==
  /\ NewerThanInstalled(t)
  /\ Permitted(t)
  /\ MinAge = 0 \/ now - published[t] >= MinAge
  /\ settings.subject => t \in DOMAIN results /\ results[t] = "clean"

\* What is known of a finished audit request.
Verdicts == {"vulnerable", "clean", "failed"}
AuditResults(queries, results) ==
  DOMAIN results = queries /\ \A t \in queries : results[t] \in Verdicts

\* AuditService answers exactly what it was asked.
LEMMA AuditAnswers ==
  ASSUME NEW queries, NEW results \in Audit(queries)
  PROVE  AuditResults(queries, results)
BY DEF Audit, AuditResults, Verdicts

\* Every verdict of the policy is "allowed" or a reason of its own.
LEMMA VerdictRange ==
  ASSUME NEW t
  PROVE  PolicyVerdict(t) \in {"allowed", "prerelease", "unknown stability", "track regression"}
BY DEF PolicyVerdict, EvaluatePolicy, StablePolicy, SameTrackPolicy

\* evaluate_policy lets through what the policies promise.
LEMMA PermittedIsAllowed ==
  ASSUME TypeOK, NEW t
  PROVE  Permitted(t) <=> PolicyVerdict(t) = "allowed"
<1> DEFINE own == Ranks(Class[installed])
           its == Ranks(Class[t])
<1>1. own \subseteq 1..5 /\ its \subseteq 1..5
  BY DEF Ranks
<1>2. settings.policy \in Policies
  BY EvaluationAssumption DEF TypeOK, ManagerSettings, Settings
<1> HIDE DEF own, its
<1>3. (\E r \in its, i \in own : r >= i) <=> (\E i \in own, r \in its : i <= r)
  BY <1>1
<1>4. PermittedClass(Class[t]) <=>
        \/ settings.policy = "none"
        \/ Class[t] = "final"
        \/ settings.policy = "same-track" /\ \E i \in own, r \in its : i <= r
  BY DEF PermittedClass, own, its
<1>5. SameTrackPolicy(Class[installed], Class[t]) =
        IF own = {} THEN StablePolicy(Class[t])
        ELSE IF Class[t] = "final" THEN "allowed"
        ELSE IF its = {} THEN "unknown stability"
        ELSE IF \E r \in its, i \in own : r >= i THEN "allowed"
        ELSE "track regression"
  BY DEF SameTrackPolicy, own, its
<1>6. CASE settings.policy = "none"
  BY <1>6, <1>4 DEF Permitted, PolicyVerdict, EvaluatePolicy
<1>7. CASE settings.policy = "stable"
  BY <1>7, <1>4 DEF Permitted, PolicyVerdict, EvaluatePolicy, StablePolicy
<1>8. CASE settings.policy = "same-track"
  BY <1>8, <1>3, <1>4, <1>5 DEF Permitted, PolicyVerdict, EvaluatePolicy, StablePolicy
<1>9. QED
  BY <1>2, <1>6, <1>7, <1>8 DEF Policies

\* A date in the future is no older than any other release of age zero.
LEMMA OldEnoughIsMature ==
  ASSUME NEW date \in Int, NEW now \in Int
  PROVE  OldEnough(date, now) <=> (MinAge = 0 \/ now - date >= MinAge)
BY EvaluationAssumption DEF OldEnough, Age

\* The audit gate lets through what was answered to be clean.
LEMMA AllowedIsClean ==
  ASSUME NEW queries, NEW results, AuditResults(queries, results), NEW t
  PROVE  AuditAllows(AuditFact(t, results))
           <=> (settings.subject => t \in DOMAIN results /\ results[t] = "clean")
BY DEF AuditAllows, AuditFact, AuditResults, Verdicts

-----------------------------------------------------------------------------
(* The rows *)

\* What an update row must be, of a plan that is being made.
BestUpdate(row, known, now, results) ==
  row.kind = "update" =>
    /\ row.target \in known
    /\ SafeThen(row.target, now, results)
    /\ settings.selectedBy = "planner" =>
         \A t \in known : SafeThen(t, now, results) => ~Beats(t, row.target)

\* What a row blocked by the audit must be.
BlockedByAnswer(row, results) ==
  /\ row.reason = "audit failed" => \E t \in DOMAIN results : results[t] = "failed"
  /\ row.reason = "vulnerable" => \E t \in DOMAIN results : results[t] = "vulnerable"

\* What each gate leaves, of a plan that is being made.
FreshOf(known) == {t \in known : NewerThanInstalled(t)}
PermittedOf(known) == {t \in FreshOf(known) : Permitted(t)}
MatureOf(known, now) == {t \in PermittedOf(known) : MinAge = 0 \/ now - published[t] >= MinAge}
CleanOf(known, now, results) ==
  {t \in MatureOf(known, now) : settings.subject => t \in DOMAIN results /\ results[t] = "clean"}

\* What a row that recommends nothing must be, of a plan that is being made: it
\* names the first gate that let nothing through.
NamesTheGate(row, known, now, results) ==
  row.reason \notin {"missing metadata", "lookup failed"} =>
    /\ row.kind = "update" => CleanOf(known, now, results) # {}
    /\ row.kind = "current" => FreshOf(known) = {}
    /\ row.kind = "delayed" =>
         MatureOf(known, now) = {} /\ row.target \in PermittedOf(known) /\ row.age < MinAge
    /\ row.kind = "blocked" =>
         IF row.reason \in {"vulnerable", "audit failed"}
         THEN MatureOf(known, now) # {} /\ CleanOf(known, now, results) = {}
         ELSE FreshOf(known) # {} /\ PermittedOf(known) = {}
    /\ row.kind = "error" => \E t \in known \cup {installed} : Parsed[t] = 0

\* Only what can be compared with the installed version is recommended by the planner.
Compared(row) == row.kind = "update" /\ settings.selectedBy = "planner" => Parsed[installed] # 0

\* The rows are of their type.
RowOK(row) == row \in [kind : Kinds, target : Texts, reason : Reasons, age : Nat]

\* A release as old as its age says; no age is negative.
LEMMA AgeIsNatural ==
  ASSUME NEW date \in Int, NEW now \in Int
  PROVE  Age(date, now) \in Nat
BY DEF Age

\* A row blocked by the policy has a reason of the policy.
LEMMA PolicyRow ==
  ASSUME TypeOK, NEW t, PolicyVerdict(t) # "allowed", NEW results
  PROVE  /\ RowOK(Blocked(PolicyVerdict(t)))
         /\ Blocked(PolicyVerdict(t)).kind = "blocked"
         /\ BlockedByAnswer(Blocked(PolicyVerdict(t)), results)
<1>1. PolicyVerdict(t) \in {"prerelease", "unknown stability", "track regression"}
  BY VerdictRange
<1>2. installed \in Texts
  BY DEF TypeOK
<1> HIDE DEF PolicyVerdict
<1>3. QED
  BY <1>1, <1>2 DEF RowOK, Blocked, Row, Kinds, Reasons, BlockedByAnswer

\* A row blocked by the audit rests on an answer for the release it is about.
LEMMA AuditRow ==
  ASSUME TypeOK, NEW queries, NEW results, AuditResults(queries, results),
         NEW t, ~AuditAllows(AuditFact(t, results)), settings.subject => t \in queries
  PROVE  /\ RowOK(Blocked(AuditBlock(AuditFact(t, results))))
         /\ Blocked(AuditBlock(AuditFact(t, results))).kind = "blocked"
         /\ BlockedByAnswer(Blocked(AuditBlock(AuditFact(t, results))), results)
<1>1. t \in DOMAIN results /\ AuditFact(t, results) = results[t] /\ results[t] \in {"vulnerable", "failed"}
  BY DEF AuditAllows, AuditFact, AuditResults, Verdicts
<1>2. installed \in Texts
  BY DEF TypeOK
<1>3. QED
  BY <1>1, <1>2 DEF RowOK, Blocked, Row, Kinds, Reasons, BlockedByAnswer, AuditBlock

\* A row that proposes nothing and was not blocked by the policy or the audit.
LEMMA PlainRow ==
  ASSUME TypeOK, NEW kind \in {"blocked", "current", "error"},
         NEW reason \in {"none", "missing metadata", "lookup failed"},
         NEW known, NEW now, NEW results
  PROVE  /\ RowOK(Row(kind, installed, reason, 0))
         /\ BestUpdate(Row(kind, installed, reason, 0), known, now, results)
         /\ BlockedByAnswer(Row(kind, installed, reason, 0), results)
<1>1. installed \in Texts
  BY DEF TypeOK
<1>2. QED
  BY <1>1 DEF Row, RowOK, Kinds, Reasons, BestUpdate, BlockedByAnswer

\* The installed version and the newest release can both be parsed.
Comparable(discovered) == Parsed[installed] # 0 /\ Parsed[discovered] # 0

\* The rows evaluate_timeline_seed can make, one alternative each.
TimelineCase(row, known, discovered, now, results) ==
  \/ /\ \/ ~Comparable(discovered)
        \/ settings.scheme = "pep440" /\ \E t \in known : Parsed[t] = 0
     /\ row = ResolverError
  \/ /\ \A t \in known : Parsed[t] # Parsed[discovered]
     /\ row = Blocked("missing metadata")
  \/ Newer(known) = {} /\ row = Current
  \/ PolicyEligible(known) = {} /\ \E t \in Newest(Newer(known)) : row = Blocked(PolicyVerdict(t))
  \/ /\ AgeEligible(known, now) = {}
     /\ \E t \in Newest(PolicyEligible(known)) : row = Delayed(t, now)
  \/ /\ Comparable(discovered)
     /\ ~\A t \in known : Parsed[t] # Parsed[discovered]
     /\ AuditEligible(known, now, results) = {}
     /\ \E t \in Newest(AgeEligible(known, now)) : row = Blocked(AuditBlock(AuditFact(t, results)))
  \/ /\ Comparable(discovered)
     /\ \E t \in Newest(AuditEligible(known, now, results)) : row = Update(t, now)

\* Every row that the evaluation of a timeline can give is one of the cases.
LEMMA TimelineCases ==
  ASSUME NEW known, NEW discovered, NEW now, NEW results,
         NEW row \in TimelineRows(known, discovered, now, results)
  PROVE  TimelineCase(row, known, discovered, now, results)
BY DEF TimelineRows, TimelineCase, Comparable

\* What a row must be, of a plan that is being made.
RowIsRight(row, known, now, results) ==
  /\ RowOK(row)
  /\ BestUpdate(row, known, now, results)
  /\ BlockedByAnswer(row, results)
  /\ NamesTheGate(row, known, now, results)
  /\ Compared(row)

\* Where the planner selects, the gates of the code leave what the gates said
\* without their order leave.
LEMMA GatesAgree ==
  ASSUME TypeOK, settings.selectedBy = "planner",
         NEW known, known \subseteq Published, NEW now \in Nat,
         NEW queries, NEW results, AuditResults(queries, results)
  PROVE  /\ Newer(known) = FreshOf(known)
         /\ PolicyEligible(known) = PermittedOf(known)
         /\ AgeEligible(known, now) = MatureOf(known, now)
         /\ AuditEligible(known, now, results) = CleanOf(known, now, results)
<1>1. \A t \in known : t \in Texts /\ published[t] \in Nat
  BY EvaluationAssumption DEF TypeOK, Published, Never
<1>2. settings.scheme # "native"
  BY EvaluationAssumption DEF TypeOK, ManagerSettings, Settings
<1>3. \A t \in known : t \in Newer(known) <=> NewerThanInstalled(t)
  BY <1>1, <1>2, EvaluationAssumption DEF Newer, NewerThanInstalled, TypeOK
<1>4. Newer(known) = FreshOf(known)
  BY <1>3 DEF Newer, FreshOf
<1>5. \A t : PolicyVerdict(t) = "allowed" <=> Permitted(t)
  BY PermittedIsAllowed
<1>6. PolicyEligible(known) = PermittedOf(known)
  BY <1>4, <1>5 DEF PolicyEligible, PermittedOf
<1>7. \A t \in known : OldEnough(published[t], now) <=> (MinAge = 0 \/ now - published[t] >= MinAge)
  BY <1>1, OldEnoughIsMature
<1>8. PermittedOf(known) \subseteq known
  BY DEF PermittedOf, FreshOf
<1>9. AgeEligible(known, now) = MatureOf(known, now)
  BY <1>6, <1>7, <1>8 DEF AgeEligible, MatureOf
<1>10. \A t : AuditAllows(AuditFact(t, results))
                 <=> (settings.subject => t \in DOMAIN results /\ results[t] = "clean")
  BY AllowedIsClean
<1>11. AuditEligible(known, now, results) = CleanOf(known, now, results)
  BY <1>9, <1>10 DEF AuditEligible, CleanOf
<1> QED
  BY <1>4, <1>6, <1>9, <1>11

\* A release passes every gate when it is the last gate's.
LEMMA CleanIsSafe ==
  ASSUME NEW known, NEW t \in known, NEW now, NEW results
  PROVE  t \in CleanOf(known, now, results) <=> SafeThen(t, now, results)
BY DEF CleanOf, MatureOf, PermittedOf, FreshOf, SafeThen

\* The rows of a planner-selected tool: evaluate_timeline_seed.
LEMMA TimelineRowIsRight ==
  ASSUME TypeOK, settings.selectedBy = "planner",
         NEW known, known \subseteq Published,
         NEW discovered \in known \cup {installed}, NEW now \in Nat,
         NEW results, AuditResults(TimelineQueries(known, discovered), results),
         NEW row \in TimelineRows(known, discovered, now, results)
  PROVE  RowIsRight(row, known, now, results)
<1> DEFINE N == Newer(known)
           P == PolicyEligible(known)
           A == AgeEligible(known, now)
           C == AuditEligible(known, now, results)
           Q == TimelineQueries(known, discovered)
<1>1. /\ installed \in Texts
      /\ \A t \in known : t \in Texts /\ published[t] \in Nat
  BY EvaluationAssumption DEF TypeOK, Published, Never
<1>2. /\ N \subseteq known /\ P \subseteq N /\ A \subseteq P /\ C \subseteq A
  BY DEF PolicyEligible, AgeEligible, AuditEligible, Newer
<1>3. \A S : Newest(S) \subseteq S
  BY DEF Newest
<1>4. \A t \in known : t \in C <=> SafeThen(t, now, results)
  BY GatesAgree, CleanIsSafe
<1>5. /\ N = FreshOf(known) /\ P = PermittedOf(known)
      /\ A = MatureOf(known, now) /\ C = CleanOf(known, now, results)
  BY GatesAgree
<1>6. CASE /\ \/ ~Comparable(discovered)
              \/ settings.scheme = "pep440" /\ \E t \in known : Parsed[t] = 0
           /\ row = ResolverError
  <2>1. \E t \in known \cup {installed} : Parsed[t] = 0
    BY <1>6 DEF Comparable
  <2>2. row.kind = "error"
    BY <1>6 DEF ResolverError, Row
  <2>3. RowOK(row) /\ BestUpdate(row, known, now, results) /\ BlockedByAnswer(row, results)
    BY <1>6, PlainRow DEF ResolverError
  <2> QED
    BY <2>1, <2>2, <2>3 DEF RowIsRight, NamesTheGate, Compared
<1>7. CASE row = Blocked("missing metadata")
  <2>1. row.kind = "blocked" /\ row.reason = "missing metadata"
    BY <1>7 DEF Blocked, Row
  <2>2. RowOK(row) /\ BestUpdate(row, known, now, results) /\ BlockedByAnswer(row, results)
    BY <1>7, PlainRow DEF Blocked
  <2> QED
    BY <2>1, <2>2 DEF RowIsRight, NamesTheGate, Compared
<1>8. CASE N = {} /\ row = Current
  <2>1. row.kind = "current"
    BY <1>8 DEF Current, Row
  <2>2. RowOK(row) /\ BestUpdate(row, known, now, results) /\ BlockedByAnswer(row, results)
    BY <1>8, PlainRow DEF Current
  <2>3. FreshOf(known) = {}
    BY <1>5, <1>8
  <2> QED
    BY <2>1, <2>2, <2>3 DEF RowIsRight, NamesTheGate, Compared
<1>9. CASE P = {} /\ \E t \in Newest(N) : row = Blocked(PolicyVerdict(t))
  <2>1. PICK t \in Newest(N) : row = Blocked(PolicyVerdict(t))
    BY <1>9
  <2>2. t \in N /\ PolicyVerdict(t) # "allowed"
    BY <1>3, <1>9, <2>1 DEF PolicyEligible
  <2>3. RowOK(row) /\ row.kind = "blocked" /\ BlockedByAnswer(row, results)
    BY <2>1, <2>2, PolicyRow
  <2>4. row.reason \in {"prerelease", "unknown stability", "track regression"}
    <3>1. PolicyVerdict(t) \in {"prerelease", "unknown stability", "track regression"}
      BY <2>2, VerdictRange
    <3> HIDE DEF PolicyVerdict
    <3> QED
      BY <2>1, <3>1 DEF Blocked, Row
  <2>5. FreshOf(known) # {} /\ PermittedOf(known) = {}
    BY <1>5, <1>9, <2>2
  <2> QED
    BY <2>3, <2>4, <2>5 DEF RowIsRight, BestUpdate, NamesTheGate, Compared
<1>10. CASE A = {} /\ \E t \in Newest(P) : row = Delayed(t, now)
  <2>1. PICK t \in Newest(P) : row = Delayed(t, now)
    BY <1>10
  <2>2. t \in P /\ t \in Texts /\ published[t] \in Int /\ now \in Int
    BY <1>1, <1>2, <1>3
  <2>3. Age(published[t], now) \in Nat
    BY <2>2, AgeIsNatural
  <2>4. Age(published[t], now) < MinAge
    BY <1>10, <2>2, <2>3, EvaluationAssumption DEF AgeEligible, OldEnough
  <2>5. /\ row.kind = "delayed" /\ row.target = t /\ row.age < MinAge
        /\ RowOK(row) /\ BestUpdate(row, known, now, results) /\ BlockedByAnswer(row, results)
    BY <2>1, <2>2, <2>3, <2>4 DEF Delayed, Row, RowOK, Kinds, Reasons, BestUpdate, BlockedByAnswer
  <2>6. MatureOf(known, now) = {} /\ t \in PermittedOf(known)
    BY <1>5, <1>10, <2>2
  <2> QED
    BY <2>5, <2>6 DEF RowIsRight, NamesTheGate, Compared
<1>11. CASE /\ Comparable(discovered)
            /\ ~\A t \in known : Parsed[t] # Parsed[discovered]
            /\ C = {}
            /\ \E t \in Newest(A) : row = Blocked(AuditBlock(AuditFact(t, results)))
  <2>1. PICK t \in Newest(A) : row = Blocked(AuditBlock(AuditFact(t, results)))
    BY <1>11
  <2>2. t \in A /\ ~AuditAllows(AuditFact(t, results))
    BY <1>3, <1>11, <2>1 DEF AuditEligible
  <2>3. settings.subject => t \in Q
    BY <1>2, <1>11, <2>2 DEF TimelineQueries, Comparable
  <2>4. /\ RowOK(row)
        /\ row.kind = "blocked"
        /\ BlockedByAnswer(row, results)
    BY <2>1, <2>2, <2>3, AuditRow
  <2>5. row.reason \in {"vulnerable", "audit failed"}
    BY <2>1 DEF Blocked, Row, AuditBlock
  <2>6. MatureOf(known, now) # {} /\ CleanOf(known, now, results) = {}
    BY <1>5, <1>11, <2>2
  <2> QED
    BY <2>4, <2>5, <2>6 DEF RowIsRight, BestUpdate, NamesTheGate, Compared
<1>12. CASE Comparable(discovered) /\ \E t \in Newest(C) : row = Update(t, now)
  <2>1. PICK t \in Newest(C) : row = Update(t, now)
    BY <1>12
  <2>2. t \in C /\ t \in known /\ t \in Texts /\ \A u \in C : ~Beats(u, t)
    BY <1>1, <1>2, <2>1 DEF Newest
  <2>3. Age(published[t], now) \in Nat
    <3>1. published[t] \in Int /\ now \in Int
      BY <1>1, <2>2
    <3>2. QED
      BY <3>1, AgeIsNatural
  <2>4. row.target = t /\ row.kind = "update" /\ RowOK(row) /\ BlockedByAnswer(row, results)
    BY <2>1, <2>2, <2>3 DEF Update, Row, RowOK, Kinds, Reasons, BlockedByAnswer
  <2>5. BestUpdate(row, known, now, results)
    BY <1>4, <2>2, <2>4 DEF BestUpdate
  <2>6. CleanOf(known, now, results) # {}
    BY <1>5, <2>2
  <2> QED
    BY <1>12, <2>4, <2>5, <2>6 DEF RowIsRight, NamesTheGate, Compared, Comparable
<1>13. TimelineCase(row, known, discovered, now, results)
  BY TimelineCases
<1>14. QED
  BY <1>6, <1>7, <1>8, <1>9, <1>10, <1>11, <1>12, <1>13, Zenon DEF TimelineCase

\* The rows evaluate_manager_selected_seed can make, one alternative each.
TargetCase(row, t, now, results) ==
  \/ IsUpdate(t) = "no" /\ row = Current
  \/ IsUpdate(t) = "error" /\ row = ResolverError
  \/ row = Blocked("missing metadata")
  \/ row = Blocked("lookup failed")
  \/ /\ IsUpdate(t) = "yes"
     /\ PolicyVerdict(t) # "allowed"
     /\ row = Blocked(PolicyVerdict(t))
  \/ /\ IsUpdate(t) = "yes"
     /\ PolicyVerdict(t) = "allowed"
     /\ ~OldEnough(published[t], now)
     /\ row = Delayed(t, now)
  \/ /\ IsUpdate(t) = "yes"
     /\ PolicyVerdict(t) = "allowed"
     /\ OldEnough(published[t], now)
     /\ ~AuditAllows(AuditFact(t, results))
     /\ row = Blocked(AuditBlock(AuditFact(t, results)))
  \/ /\ IsUpdate(t) = "yes"
     /\ PolicyVerdict(t) = "allowed"
     /\ OldEnough(published[t], now)
     /\ AuditAllows(AuditFact(t, results))
     /\ row = Update(t, now)

\* The same of a target that the manager selected.
LEMMA TargetCases ==
  ASSUME NEW t, NEW evidence, NEW now, NEW results
  PROVE  TargetCase(TargetRow(t, evidence, now, results), t, now, results)
<1>1. IsUpdate(t) \in {"yes", "no", "error"}
  BY DEF IsUpdate
<1>2. QED
  BY <1>1 DEF TargetRow, TargetCase

\* selected_target_is_update says yes of a newer version, no of one that is not
\* newer, and gives up when one of the two cannot be parsed.
LEMMA UpdateIsNewer ==
  ASSUME TypeOK, NEW t \in Texts
  PROVE  /\ IsUpdate(t) = "yes" => NewerThanInstalled(t)
         /\ IsUpdate(t) = "no" => ~NewerThanInstalled(t)
         /\ IsUpdate(t) = "error" => Parsed[installed] = 0 \/ Parsed[t] = 0
BY EvaluationAssumption DEF IsUpdate, NewerThanInstalled, TypeOK

\* The row of a manager-selected target: evaluate_manager_selected_seed.
LEMMA TargetRowIsRight ==
  ASSUME TypeOK, settings.selectedBy = "manager",
         NEW t \in Published, NEW now \in Nat,
         NEW results, AuditResults(TargetQueries(t), results),
         NEW row, TargetCase(row, t, now, results)
  PROVE  RowIsRight(row, {t}, now, results)
<1>1. t \in Texts /\ published[t] \in Int /\ now \in Int
  BY EvaluationAssumption DEF TypeOK, Published, Never
<1>2. Age(published[t], now) \in Nat
  BY <1>1, AgeIsNatural
<1>3. IsUpdate(t) = "yes" => NewerThanInstalled(t)
  BY <1>1, UpdateIsNewer
<1>4. Permitted(t) <=> PolicyVerdict(t) = "allowed"
  BY PermittedIsAllowed
<1>5. OldEnough(published[t], now) <=> (MinAge = 0 \/ now - published[t] >= MinAge)
  BY <1>1, OldEnoughIsMature
<1>6. AuditAllows(AuditFact(t, results))
        <=> (settings.subject => t \in DOMAIN results /\ results[t] = "clean")
  BY AllowedIsClean
<1>7. Compared(row)
  BY DEF Compared
<1>8. CASE IsUpdate(t) = "no" /\ row = Current
  <2>1. row.kind = "current"
    BY <1>8 DEF Current, Row
  <2>2. RowOK(row) /\ BestUpdate(row, {t}, now, results) /\ BlockedByAnswer(row, results)
    BY <1>8, PlainRow DEF Current
  <2>3. FreshOf({t}) = {}
    BY <1>1, <1>8, UpdateIsNewer DEF FreshOf
  <2> QED
    BY <1>7, <2>1, <2>2, <2>3 DEF RowIsRight, NamesTheGate
<1>9. CASE IsUpdate(t) = "error" /\ row = ResolverError
  <2>1. row.kind = "error"
    BY <1>9 DEF ResolverError, Row
  <2>2. RowOK(row) /\ BestUpdate(row, {t}, now, results) /\ BlockedByAnswer(row, results)
    BY <1>9, PlainRow DEF ResolverError
  <2>3. \E u \in {t} \cup {installed} : Parsed[u] = 0
    BY <1>1, <1>9, UpdateIsNewer
  <2> QED
    BY <1>7, <2>1, <2>2, <2>3 DEF RowIsRight, NamesTheGate
<1>10. CASE \E reason \in {"missing metadata", "lookup failed"} : row = Blocked(reason)
  <2>1. row.reason \in {"missing metadata", "lookup failed"}
    <3>1. PICK reason \in {"missing metadata", "lookup failed"} : row = Blocked(reason)
      BY <1>10
    <3>2. row.reason = reason
      BY <3>1 DEF Blocked, Row
    <3> QED
      BY <3>2
  <2>2. RowOK(row) /\ BestUpdate(row, {t}, now, results) /\ BlockedByAnswer(row, results)
    BY <1>10, PlainRow DEF Blocked
  <2> QED
    BY <1>7, <2>1, <2>2 DEF RowIsRight, NamesTheGate
<1>11. CASE /\ IsUpdate(t) = "yes"
            /\ PolicyVerdict(t) # "allowed"
            /\ row = Blocked(PolicyVerdict(t))
  <2>1. RowOK(row) /\ row.kind = "blocked" /\ BlockedByAnswer(row, results)
    BY <1>11, PolicyRow
  <2>2. row.reason \in {"prerelease", "unknown stability", "track regression"}
    <3>1. PolicyVerdict(t) \in {"prerelease", "unknown stability", "track regression"}
      BY <1>11, VerdictRange
    <3> HIDE DEF PolicyVerdict
    <3> QED
      BY <1>11, <3>1 DEF Blocked, Row
  <2>3. FreshOf({t}) # {} /\ PermittedOf({t}) = {}
    BY <1>3, <1>4, <1>11 DEF FreshOf, PermittedOf
  <2> QED
    BY <1>7, <2>1, <2>2, <2>3 DEF RowIsRight, BestUpdate, NamesTheGate
<1>12. CASE /\ IsUpdate(t) = "yes"
            /\ PolicyVerdict(t) = "allowed"
            /\ ~OldEnough(published[t], now)
            /\ row = Delayed(t, now)
  <2>1. Age(published[t], now) < MinAge
    BY <1>2, <1>12, EvaluationAssumption DEF OldEnough
  <2>2. /\ row.kind = "delayed" /\ row.target = t /\ row.age < MinAge
        /\ RowOK(row) /\ BestUpdate(row, {t}, now, results) /\ BlockedByAnswer(row, results)
    BY <1>1, <1>2, <1>12, <2>1 DEF Delayed, Row, RowOK, Kinds, Reasons, BestUpdate, BlockedByAnswer
  <2>3. MatureOf({t}, now) = {} /\ t \in PermittedOf({t})
    BY <1>3, <1>4, <1>5, <1>12 DEF MatureOf, PermittedOf, FreshOf
  <2> QED
    BY <1>7, <2>2, <2>3 DEF RowIsRight, NamesTheGate
<1>13. CASE /\ IsUpdate(t) = "yes"
            /\ PolicyVerdict(t) = "allowed"
            /\ OldEnough(published[t], now)
            /\ ~AuditAllows(AuditFact(t, results))
            /\ row = Blocked(AuditBlock(AuditFact(t, results)))
  <2>1. settings.subject => t \in TargetQueries(t)
    BY <1>13 DEF TargetQueries
  <2>2. RowOK(row) /\ row.kind = "blocked" /\ BlockedByAnswer(row, results)
    BY <1>13, <2>1, AuditRow
  <2>3. row.reason \in {"vulnerable", "audit failed"}
    BY <1>13 DEF Blocked, Row, AuditBlock
  <2>4. t \in MatureOf({t}, now) /\ CleanOf({t}, now, results) = {}
    BY <1>3, <1>4, <1>5, <1>6, <1>13 DEF CleanOf, MatureOf, PermittedOf, FreshOf
  <2> QED
    BY <1>7, <2>2, <2>3, <2>4 DEF RowIsRight, BestUpdate, NamesTheGate
<1>14. CASE /\ IsUpdate(t) = "yes"
            /\ PolicyVerdict(t) = "allowed"
            /\ OldEnough(published[t], now)
            /\ AuditAllows(AuditFact(t, results))
            /\ row = Update(t, now)
  <2>1. SafeThen(t, now, results)
    BY <1>3, <1>4, <1>5, <1>6, <1>14 DEF SafeThen
  <2>2. row.target = t /\ row.kind = "update" /\ RowOK(row) /\ BlockedByAnswer(row, results)
    BY <1>1, <1>2, <1>14 DEF Update, Row, RowOK, Kinds, Reasons, BlockedByAnswer
  <2>3. t \in CleanOf({t}, now, results)
    BY <2>1, CleanIsSafe
  <2> QED
    BY <1>7, <2>1, <2>2, <2>3 DEF RowIsRight, BestUpdate, NamesTheGate
<1>15. QED
  BY <1>8, <1>9, <1>10, <1>11, <1>12, <1>13, <1>14, Zenon DEF TargetCase

-----------------------------------------------------------------------------
(* The invariant *)

\* A plan was made from releases that are public, and publication dates stay.
KnownIsPublished == plan.known \subseteq Published

\* The planner recommends only for a tool whose installed version it could parse.
PlannerCompared == Compared(plan.row)

IndInv ==
  /\ TypeOK
  /\ KnownIsPublished
  /\ RecommendedIsNewestSafe
  /\ WithheldForAReason
  /\ PlannerCompared

\* A row made from the state at hand, with the answers it asked for, keeps the
\* invariant.
LEMMA PlanningKeeps ==
  ASSUME TypeOK, NEW row, NEW known, NEW results,
         known \subseteq Published, DOMAIN results \subseteq Texts,
         RowIsRight(row, known, clock, results),
         Planned(row, known, results),
         UNCHANGED <<clock, published, advisories, installed, settings>>
  PROVE  IndInv'
<1>1. /\ plan'.row = row /\ plan'.known = known /\ plan'.results = results
      /\ plan'.now = clock /\ plan'.run = TRUE
  BY DEF Planned
<1>2. TypeOK'
  <2>1. known \subseteq Texts
    BY DEF Published
  <2>2. clock \in 0..clock
    BY EvaluationAssumption DEF TypeOK
  <2>3. QED
    BY <1>1, <2>1, <2>2 DEF TypeOK, RowIsRight, RowOK
<1>3. KnownIsPublished'
  BY <1>1 DEF KnownIsPublished, Published
<1>4. RecommendedIsNewestSafe'
  <2>1. ASSUME NEW t
        PROVE  Safe(t)' <=> SafeThen(t, clock, results)
    BY <1>1 DEF Safe, SafeThen, NewerThanInstalled, Permitted, PermittedClass, Mature, KnownClean
  <2>2. ASSUME NEW t, NEW u
        PROVE  Beats(t, u)' <=> Beats(t, u)
    BY DEF Beats
  <2>3. QED
    BY <1>1, <2>1, <2>2 DEF RecommendedIsNewestSafe, RowIsRight, BestUpdate
<1>5. EverythingAudited'
  BY <1>1 DEF EverythingAudited, RowIsRight, BlockedByAnswer
<1>6. /\ Fresh' = FreshOf(known)
      /\ FreshPermitted' = PermittedOf(known)
      /\ FreshMature' = MatureOf(known, clock)
      /\ FreshClean' = CleanOf(known, clock, results)
  <2>1. Fresh' = FreshOf(known)
    BY <1>1 DEF Fresh, FreshOf, NewerThanInstalled
  <2>2. FreshPermitted' = PermittedOf(known)
    BY <2>1 DEF FreshPermitted, PermittedOf, Permitted, PermittedClass
  <2>3. FreshMature' = MatureOf(known, clock)
    BY <1>1, <2>2 DEF FreshMature, MatureOf, Mature
  <2>4. FreshClean' = CleanOf(known, clock, results)
    BY <1>1, <2>3 DEF FreshClean, CleanOf, KnownClean
  <2> QED
    BY <2>1, <2>2, <2>3, <2>4
<1>7. WithheldForAReason'
  BY <1>1, <1>5, <1>6 DEF WithheldForAReason, RowIsRight, NamesTheGate
<1>8. PlannerCompared'
  BY <1>1 DEF PlannerCompared, RowIsRight, Compared
<1>9. QED
  BY <1>2, <1>3, <1>4, <1>7, <1>8 DEF IndInv

\* A step that leaves the plan, its releases and the tool alone keeps what was
\* planned.
LEMMA WorldKeeps ==
  ASSUME RecommendedIsNewestSafe, WithheldForAReason, PlannerCompared,
         UNCHANGED <<plan, installed, settings>>,
         \A t \in plan.known : published'[t] = published[t]
  PROVE  RecommendedIsNewestSafe' /\ WithheldForAReason' /\ PlannerCompared'
<1>1. ASSUME NEW t \in plan.known
      PROVE  Safe(t)' <=> Safe(t)
  BY DEF Safe, NewerThanInstalled, Permitted, PermittedClass, Mature, KnownClean
<1>2. ASSUME NEW t \in plan.known, NEW u \in plan.known
      PROVE  Beats(t, u)' <=> Beats(t, u)
  BY DEF Beats
<1>3. RecommendedIsNewestSafe'
  BY <1>1, <1>2 DEF RecommendedIsNewestSafe
<1>4. Fresh' = Fresh
  BY <1>1 DEF Fresh, NewerThanInstalled
<1>5. FreshPermitted' = FreshPermitted
  BY <1>4 DEF FreshPermitted, Permitted, PermittedClass
<1>6. FreshMature' = FreshMature
  BY <1>5 DEF FreshMature, FreshPermitted, Fresh, Mature
<1>7. FreshClean' = FreshClean
  BY <1>6 DEF FreshClean, KnownClean
<1>8. WithheldForAReason'
  BY <1>4, <1>5, <1>6, <1>7 DEF WithheldForAReason, EverythingAudited
<1>9. QED
  BY <1>3, <1>8 DEF PlannerCompared, Compared

\* No plan keeps the invariant trivially.
LEMMA NoPlanIsFine ==
  ASSUME plan = NoPlan
  PROVE  KnownIsPublished /\ RecommendedIsNewestSafe /\ WithheldForAReason /\ PlannerCompared
BY DEF NoPlan, ResolverError, Row, KnownIsPublished, RecommendedIsNewestSafe, EverythingAudited,
       WithheldForAReason, PlannerCompared, Compared

\* Nothing has been planned at the start.
LEMMA InitHolds == Init => IndInv
<1> SUFFICES ASSUME Init
             PROVE  IndInv
  OBVIOUS
<1>1. installed \in Texts /\ plan = NoPlan
  BY EvaluationAssumption DEF Init
<1>2. published \in [Texts -> {Never} \cup (0..(MaxClock + Skew))]
  BY EvaluationAssumption DEF Init, Never
<1>3. /\ plan.row = ResolverError /\ plan.known = {} /\ plan.now = 0
      /\ DOMAIN plan.results = {} /\ plan.run = FALSE
  BY <1>1 DEF NoPlan, NoAnswers
<1>4. plan.row \in [kind : Kinds, target : Texts, reason : Reasons, age : Nat]
  BY <1>1, <1>3 DEF ResolverError, Row, Kinds, Reasons
<1>5. clock \in 0..MaxClock /\ 0 \in 0..clock /\ advisories \subseteq Texts /\ settings \in SettingsUsed
  BY EvaluationAssumption DEF Init
<1>6. TypeOK
  BY <1>1, <1>2, <1>3, <1>4, <1>5 DEF TypeOK
<1>7. QED
  BY <1>1, <1>6, NoPlanIsFine DEF IndInv

\* No step disturbs the invariant: time and advisories pass, a plan is made or applied.
LEMMA NextKeeps == IndInv /\ [Next]_vars => IndInv'
<1> SUFFICES ASSUME IndInv, [Next]_vars
             PROVE  IndInv'
  OBVIOUS
<1> USE DEF IndInv
<1>1. CASE Tick
  <2>1. clock \in Nat /\ clock' = clock + 1 /\ clock' \in 0..MaxClock /\ plan.now \in 0..clock'
    BY <1>1, EvaluationAssumption DEF Tick, TypeOK
  <2>2. TypeOK'
    BY <1>1, <2>1 DEF Tick, TypeOK
  <2>3. RecommendedIsNewestSafe' /\ WithheldForAReason' /\ PlannerCompared'
    BY <1>1, WorldKeeps DEF Tick
  <2>4. QED
    BY <1>1, <2>2, <2>3 DEF Tick, KnownIsPublished, Published
<1>2. ASSUME NEW t \in Texts, Publish(t)
      PROVE  IndInv'
  <2>1. PICK date \in clock..(clock + Skew) : published' = [published EXCEPT ![t] = date]
    BY <1>2 DEF Publish
  <2>2. date \in 0..(MaxClock + Skew)
    BY <2>1, EvaluationAssumption DEF TypeOK
  <2>3. TypeOK'
    BY <1>2, <2>1, <2>2 DEF Publish, TypeOK
  <2>4. \A u \in Published : u \in Texts /\ published[u] # Never /\ u # t /\ published'[u] = published[u]
    BY <1>2, <2>1 DEF Publish, Published, TypeOK
  <2>5. KnownIsPublished'
    BY <1>2, <2>4 DEF Publish, KnownIsPublished, Published
  <2>6. RecommendedIsNewestSafe' /\ WithheldForAReason' /\ PlannerCompared'
    BY <1>2, <2>4, WorldKeeps DEF Publish, KnownIsPublished
  <2>7. QED
    BY <2>3, <2>5, <2>6
<1>3. ASSUME NEW t \in Texts, Disclose(t)
      PROVE  IndInv'
  <2>1. TypeOK'
    BY <1>3 DEF Disclose, TypeOK
  <2>2. RecommendedIsNewestSafe' /\ WithheldForAReason' /\ PlannerCompared'
    BY <1>3, WorldKeeps DEF Disclose
  <2>3. QED
    BY <1>3, <2>1, <2>2 DEF Disclose, KnownIsPublished, Published
<1>4. CASE PlanWithoutTimeline
  <2>1. PICK reason \in {"missing metadata", "lookup failed"} : Planned(Blocked(reason), {}, NoAnswers)
    BY <1>4 DEF PlanWithoutTimeline
  <2>2. DOMAIN NoAnswers = {}
    BY DEF NoAnswers
  <2> DEFINE row == Blocked(reason)
  <2>3. RowIsRight(row, {}, clock, NoAnswers)
    <3>1. RowOK(row) /\ BestUpdate(row, {}, clock, NoAnswers) /\ BlockedByAnswer(row, NoAnswers)
      BY PlainRow DEF Blocked
    <3>2. row.kind = "blocked" /\ row.reason \in {"missing metadata", "lookup failed"}
      BY DEF Blocked, Row
    <3> HIDE DEF row
    <3> QED
      BY <3>1, <3>2 DEF RowIsRight, NamesTheGate, Compared
  <2>4. Planned(row, {}, NoAnswers)
    BY <2>1
  <2> HIDE DEF row
  <2>5. QED
    BY <1>4, <2>2, <2>3, <2>4, PlanningKeeps DEF PlanWithoutTimeline
<1>5. CASE PlanTimeline
  <2>1. PICK discovered \in Discovered(Published) :
               \E results \in Audit(TimelineQueries(Published, discovered)) :
                 \E row \in TimelineRows(Published, discovered, clock, results) :
                   Planned(row, Published, results)
    BY <1>5 DEF PlanTimeline
  <2>2. PICK results \in Audit(TimelineQueries(Published, discovered)) :
               \E row \in TimelineRows(Published, discovered, clock, results) :
                 Planned(row, Published, results)
    BY <2>1
  <2>3. PICK row \in TimelineRows(Published, discovered, clock, results) :
               Planned(row, Published, results)
    BY <2>2
  <2>4. AuditResults(TimelineQueries(Published, discovered), results)
    BY AuditAnswers
  <2>5. DOMAIN results \subseteq Texts
    BY <2>4 DEF AuditResults, TimelineQueries, Newer, Published
  <2>6. clock \in Nat
    BY DEF TypeOK
  <2>7. settings.selectedBy = "planner"
    BY <1>5 DEF PlanTimeline
  <2>8. RowIsRight(row, Published, clock, results)
    <3>1. discovered \in Published \cup {installed}
      BY DEF Discovered, Newest
    <3> QED
      BY <2>4, <2>6, <2>7, <3>1, TimelineRowIsRight
  <2>9. QED
    BY <1>5, <2>3, <2>5, <2>8, PlanningKeeps DEF PlanTimeline
<1>6. CASE PlanTarget
  <2>1. PICK t \in Published, evidence \in {"known", "missing", "failed"} :
               \E results \in Audit(TargetQueries(t)) :
                 Planned(TargetRow(t, evidence, clock, results), {t}, results)
    BY <1>6 DEF PlanTarget
  <2>2. PICK results \in Audit(TargetQueries(t)) :
               Planned(TargetRow(t, evidence, clock, results), {t}, results)
    BY <2>1
  <2>3. AuditResults(TargetQueries(t), results)
    BY AuditAnswers
  <2>4. DOMAIN results \subseteq Texts /\ {t} \subseteq Published
    BY <2>3 DEF AuditResults, TargetQueries, Published
  <2>5. clock \in Nat
    BY DEF TypeOK
  <2>6. settings.selectedBy = "manager"
    BY <1>6 DEF PlanTarget
  <2> DEFINE row == TargetRow(t, evidence, clock, results)
  <2>7. TargetCase(row, t, clock, results)
    BY TargetCases
  <2> HIDE DEF row
  <2>8. RowIsRight(row, {t}, clock, results)
    BY <2>3, <2>5, <2>6, <2>7, TargetRowIsRight
  <2>9. Planned(row, {t}, results)
    BY <2>2 DEF row
  <2>10. QED
    BY <1>6, <2>4, <2>8, <2>9, PlanningKeeps DEF PlanTarget
<1>7. CASE Apply
  <2>1. plan' = NoPlan /\ installed' \in Texts /\ installed \in Texts
    BY <1>7 DEF Apply, TypeOK
  <2>2. /\ plan'.row = Row("error", installed, "none", 0) /\ plan'.known = {} /\ plan'.now = 0
        /\ DOMAIN plan'.results = {} /\ plan'.run = FALSE
    BY <2>1 DEF NoPlan, NoAnswers, ResolverError, Row
  <2>3. plan'.row \in [kind : Kinds, target : Texts, reason : Reasons, age : Nat]
    BY <2>1, <2>2 DEF Row, Kinds, Reasons
  <2>4. TypeOK'
    <3>1. 0 \in 0..clock
      BY EvaluationAssumption DEF TypeOK
    <3>2. QED
      BY <1>7, <2>1, <2>2, <2>3, <3>1 DEF Apply, TypeOK
  <2>5. plan'.row.kind = "error" /\ plan'.row.reason = "none"
    BY <2>2 DEF Row
  <2>6. QED
    BY <2>2, <2>4, <2>5 DEF KnownIsPublished, RecommendedIsNewestSafe, EverythingAudited,
                            WithheldForAReason, PlannerCompared, Compared
<1>8. CASE UNCHANGED vars
  <2>1. RecommendedIsNewestSafe' /\ WithheldForAReason' /\ PlannerCompared'
    BY <1>8, WorldKeeps DEF vars
  <2> QED
    BY <1>8, <2>1 DEF vars, TypeOK, KnownIsPublished, Published
<1>9. QED
  BY <1>1, <1>2, <1>3, <1>4, <1>5, <1>6, <1>7, <1>8 DEF Next

-----------------------------------------------------------------------------
(* Theorems *)

\* IndInv holds in every reachable state.
THEOREM Inductive == Spec => []IndInv
<1>1. Init => IndInv
  BY InitHolds
<1>2. IndInv /\ [Next]_vars => IndInv'
  BY NextKeeps
<1>3. QED
  BY <1>1, <1>2, PTL DEF Spec

\* Every variable keeps its type; no age is ever negative.
THEOREM TypeCorrect == Spec => []TypeOK
<1>1. IndInv => TypeOK
  BY DEF IndInv
<1>2. QED
  BY <1>1, Inductive, PTL

\* What is recommended passes every gate and nothing that does is newer.
THEOREM Recommended == Spec => []RecommendedIsNewestSafe
<1>1. IndInv => RecommendedIsNewestSafe
  BY DEF IndInv
<1>2. QED
  BY <1>1, Inductive, PTL

\* A release is refused over the audit only when the audit was asked about one
\* and said so.
THEOREM Audited == Spec => []EverythingAudited
<1>1. IndInv => EverythingAudited
  BY DEF IndInv, WithheldForAReason
<1>2. QED
  BY <1>1, Inductive, PTL

\* What is not recommended is withheld for the first gate that let nothing through.
THEOREM Withheld == Spec => []WithheldForAReason
<1>1. IndInv => WithheldForAReason
  BY DEF IndInv
<1>2. QED
  BY <1>1, Inductive, PTL

\* A track is left for a final release only, and a final one never for a
\* pre-release, whatever the policy the plan was made under.
LEMMA FinalStaysFinal ==
  ASSUME TypeOK, NEW t, Permitted(t)
  PROVE  /\ settings.policy = "stable" => Class[t] = "final"
         /\ settings.policy = "same-track" /\ Class[installed] = "final" => Class[t] = "final"
<1>1. \A i \in Ranks("final") : i = 5
  BY DEF Ranks, ReleaseClasses
<1>2. \A r \in Ranks(Class[t]) : 5 <= r => Class[t] = "final"
  BY DEF Ranks, ReleaseClasses
<1>3. QED
  BY <1>1, <1>2 DEF Permitted, PermittedClass

\* Applying a recommendation, however late, never downgrades the tool.
THEOREM NoDowngrade == Spec => NeverDowngrades
<1>1. ASSUME IndInv, [Next]_vars, installed' # installed
      PROVE  /\ settings.scheme # "native" => Parsed[installed'] > Parsed[installed]
             /\ settings.policy = "stable" => Class[installed'] = "final"
             /\ settings.policy = "same-track" /\ Class[installed] = "final" => Class[installed'] = "final"
  <2>1. Apply
    BY <1>1 DEF Next, vars, Tick, Publish, Disclose, PlanWithoutTimeline, PlanTimeline, PlanTarget
  <2>2. Safe(plan.row.target) /\ installed' = plan.row.target
    BY <1>1, <2>1 DEF Apply, IndInv, RecommendedIsNewestSafe
  <2>3. QED
    BY <1>1, <2>2, FinalStaysFinal DEF Safe, NewerThanInstalled, IndInv
<1>2. QED
  BY <1>1, Inductive, PTL DEF Spec, NeverDowngrades

\* Where a release of the releases at hand passes every gate, the evaluation of
\* their timeline recommends one, provided the installed version and the newest
\* release can be parsed.
LEMMA SafeIsRecommended ==
  ASSUME TypeOK, settings.selectedBy = "planner",
         NEW known, known \subseteq Published,
         NEW discovered, Comparable(discovered), discovered \in known,
         settings.scheme = "pep440" => \A t \in known : Parsed[t] # 0,
         NEW now \in Nat,
         NEW results, AuditResults(TimelineQueries(known, discovered), results),
         NEW row \in TimelineRows(known, discovered, now, results),
         NEW u \in known, SafeThen(u, now, results)
  PROVE  row.kind = "update" /\ ~Beats(u, row.target)
<1> DEFINE N == Newer(known)
           P == PolicyEligible(known)
           A == AgeEligible(known, now)
           C == AuditEligible(known, now, results)
<1>1. u \in C
  BY GatesAgree, CleanIsSafe
<1>2. C # {} /\ A # {} /\ P # {} /\ N # {}
  BY <1>1 DEF AuditEligible, AgeEligible, PolicyEligible
<1>3. ~(settings.scheme = "pep440" /\ \E t \in known : Parsed[t] = 0)
  OBVIOUS
<1>4. ~\A t \in known : Parsed[t] # Parsed[discovered]
  OBVIOUS
<1>5. TimelineRows(known, discovered, now, results) = {Update(t, now) : t \in Newest(C)}
  BY <1>2, <1>3, <1>4 DEF TimelineRows, Comparable
<1>6. PICK t \in Newest(C) : row = Update(t, now)
  BY <1>5
<1> QED
  BY <1>1, <1>6 DEF Update, Row, Newest

\* No new release hides one that was recommended: a later run recommends that
\* one, or one that is not older, as long as it is clean itself.
THEOREM NothingHidden == Spec => NewReleaseHidesNothing
<1>1. ASSUME IndInv, [Next]_vars,
             Replanned, SameTool, plan.row.kind = "update",
             StillClean(plan.row.target), Readable(plan'.known)
      PROVE  plan'.row.kind = "update" /\ ~Beats(plan.row.target, plan'.row.target)
  <2> DEFINE u == plan.row.target
  <2>1. u \in plan.known /\ Safe(u) /\ u \in Published /\ Parsed[installed] # 0
    BY <1>1 DEF IndInv, RecommendedIsNewestSafe, KnownIsPublished, PlannerCompared, Compared, SameTool
  <2>2. u \in Texts /\ published[u] \in Int /\ Parsed[u] \in Nat /\ Parsed[installed] \in Nat
    BY <1>1, <2>1, EvaluationAssumption DEF IndInv, TypeOK, Published, Never
  <2>3. ~Beats(u, u)
    BY <2>2 DEF Beats
  <2>4. CASE plan' = plan
    BY <1>1, <2>3, <2>4
  <2>5. CASE PlanTimeline
    <3>1. PICK discovered \in Discovered(Published) :
                 \E results \in Audit(TimelineQueries(Published, discovered)) :
                   \E row \in TimelineRows(Published, discovered, clock, results) :
                     Planned(row, Published, results)
      BY <2>5 DEF PlanTimeline
    <3>2. PICK results \in Audit(TimelineQueries(Published, discovered)) :
                 \E row \in TimelineRows(Published, discovered, clock, results) :
                   Planned(row, Published, results)
      BY <3>1
    <3>3. PICK row \in TimelineRows(Published, discovered, clock, results) :
                 Planned(row, Published, results)
      BY <3>2
    <3>4. plan'.row = row /\ plan'.known = Published /\ plan'.results = results
      BY <3>3 DEF Planned
    <3>5. Parsed[u] # 0
      BY <1>1, <2>1, <2>2, EvaluationAssumption
         DEF Safe, NewerThanInstalled, SameTool, IndInv, TypeOK, ManagerSettings, Settings
    <3>6. discovered \in Published /\ Parsed[discovered] # 0
      BY <2>1, <3>1, <3>5 DEF Discovered, Newest
    <3>7. SafeThen(u, clock, results)
      <4>1. MinAge = 0 \/ clock - published[u] >= MinAge
        BY <1>1, <2>1, <2>2, EvaluationAssumption DEF Safe, Mature, IndInv, TypeOK
      <4>2. settings.subject => u \in DOMAIN results /\ results[u] = "clean"
        BY <1>1, <3>4 DEF StillClean
      <4> QED
        BY <2>1, <4>1, <4>2 DEF Safe, SafeThen
    <3>8. AuditResults(TimelineQueries(Published, discovered), results)
      BY AuditAnswers
    <3>9. settings.scheme = "pep440" => \A t \in Published : Parsed[t] # 0
      BY <1>1, <3>4 DEF Readable
    <3>10. TypeOK /\ clock \in Nat /\ settings.selectedBy = "planner" /\ Comparable(discovered)
      BY <1>1, <2>1, <3>6 DEF IndInv, TypeOK, SameTool, Comparable
    <3>11. row.kind = "update" /\ ~Beats(u, row.target)
      <4>1. u \in Published /\ Published \subseteq Published
        BY <2>1
      <4> HIDE DEF u
      <4> QED
        BY <3>3, <3>6, <3>7, <3>8, <3>9, <3>10, <4>1, SafeIsRecommended
    <3> QED
      BY <3>4, <3>11
  <2>6. CASE PlanWithoutTimeline
    <3>1. PICK reason \in {"missing metadata", "lookup failed"} :
                 Planned(Blocked(reason), {}, NoAnswers)
      BY <2>6 DEF PlanWithoutTimeline
    <3>2. plan'.known = {}
      BY <3>1 DEF Planned
    <3> QED
      BY <1>1, <3>2 DEF Replanned
  <2>7. CASE PlanTarget
    BY <1>1, <2>7 DEF PlanTarget, SameTool
  <2>8. CASE Apply
    BY <1>1, <2>8 DEF Apply, NoPlan, Replanned
  <2> QED
    BY <1>1, <2>4, <2>5, <2>6, <2>7, <2>8 DEF Next, vars, Tick, Publish, Disclose
<1>2. QED
  BY <1>1, Inductive, PTL DEF Spec, NewReleaseHidesNothing

-----------------------------------------------------------------------------
(* The audit service: batches *)

\* A query's place in a set is a number below the size of the set.
LEMMA PlaceInSet ==
  ASSUME NEW S \in SUBSET Queries, NEW q \in S
  PROVE  /\ Cardinality(S) \in Nat
         /\ Place(q, S) \in Nat
         /\ Place(q, S) + 1 \in 1..Cardinality(S)
<1> DEFINE below == {p \in S : p < q}
<1>1. IsFiniteSet(S)
  <2>1. IsFiniteSet(Queries)
    BY FS_Interval, AuditAssumption DEF Queries
  <2>2. QED
    BY <2>1, FS_Subset
<1>2. below \in SUBSET S
  OBVIOUS
<1>3. below # S
  BY AuditAssumption DEF Queries
<1>4. /\ IsFiniteSet(below) /\ Cardinality(below) <= Cardinality(S)
      /\ Cardinality(below) = Cardinality(S) => below = S
  BY <1>1, <1>2, FS_Subset
<1>5. Cardinality(S) \in Nat /\ Cardinality(below) \in Nat
  BY <1>1, <1>4, FS_CardinalityType
<1>6. Place(q, S) = Cardinality(below)
  BY DEF Place
<1> HIDE DEF below
<1>7. QED
  BY <1>3, <1>4, <1>5, <1>6

\* Chunks are numbered.
LEMMA ChunkNumber ==
  ASSUME NEW S \in SUBSET Queries, NEW q \in S
  PROVE  ChunkOf(q, S) \in Nat
<1>1. Place(q, S) \in Nat
  BY PlaceInSet
<1>2. ChunkSize \in Nat \ {0}
  BY AuditAssumption
<1>3. QED
  BY <1>1, <1>2 DEF ChunkOf

\* Whatever comes back for a chunk, every query of it gets an answer.
LEMMA ChunkGetsAnswers ==
  ASSUME NEW chunk \in SUBSET Queries, NEW q \in chunk,
         NEW D, NEW response \in [D -> AuditVerdicts]
  PROVE  AnswerFrom(q, chunk, response) \in Answers
<1>1. Place(q, chunk) + 1 \in 1..Cardinality(chunk)
  BY PlaceInSet
<1>2. CASE D = 1..Cardinality(chunk)
  <2>1. response[Place(q, chunk) + 1] \in AuditVerdicts
    BY <1>1, <1>2
  <2>2. QED
    BY <1>2, <2>1 DEF AnswerFrom, Answers
<1>3. CASE D # 1..Cardinality(chunk)
  BY <1>3 DEF AnswerFrom, Answers
<1>4. QED
  BY <1>2, <1>3

\* The responses are functions to verdicts.
LEMMA ResponseIsVerdicts ==
  ASSUME NEW chunk
  PROVE  Response(chunk) \in [1..Cardinality(chunk) -> AuditVerdicts]
BY DEF Response, Verdict, AuditVerdicts

-----------------------------------------------------------------------------
(* The audit service: the inductive invariant *)

\* A call that has the lock and waits for answers: every query it was asked is
\* in the cache, answered, or in a chunk that is still to come, and it asks only
\* about what is not in the cache.
AskingIsCovered(c) ==
  /\ \A q \in missing[c] : cache[q] = "none"
  /\ \A q \in Queries : answers[c][q] # "none" => cache[q] = "none"
  /\ \A q \in requested[c] :
       \/ cache[q] # "none"
       \/ answers[c][q] # "none"
       \/ q \in missing[c] /\ ChunkOf(q, missing[c]) \in pending[c]

\* What a call returned is what the cache still holds.
ReturnedIsCached(c) ==
  \A q \in requested[c] : result[c][q] = cache[q] /\ cache[q] # "none"

AuditIInv ==
  /\ AuditTypeOK
  /\ \A c \in Callers :
       /\ state[c] \in {"idle", "waiting"} => answers[c] = NoAnswer
       /\ state[c] = "asking" => AskingIsCovered(c)
       /\ state[c] = "returned" => ReturnedIsCached(c)

\* Nothing is asked, answered or cached at the start.
LEMMA AuditInitIInv == AuditInit => AuditIInv
BY AuditAssumption DEF AuditInit, AuditIInv, AuditTypeOK, NoAnswer, Answers, AuditVerdicts

\* A call starts; without queries it returns at once.
LEMMA CallKeeps ==
  ASSUME AuditIInv, NEW c \in Callers, Call(c)
  PROVE  AuditIInv'
<1> USE DEF AuditIInv, AuditTypeOK
<1>1. AuditTypeOK'
  BY DEF Call, Go
<1>2. \A d \in Callers :
        /\ state'[d] \in {"idle", "waiting"} => answers'[d] = NoAnswer
        /\ state'[d] = "asking" => AskingIsCovered(d)'
        /\ state'[d] = "returned" => ReturnedIsCached(d)'
  BY DEF Call, Go, AskingIsCovered, ReturnedIsCached
<1>3. QED
  BY <1>1, <1>2

\* The lock is taken and what is not in the cache is divided into chunks.
LEMMA LockedKeeps ==
  ASSUME AuditIInv, NEW c \in Callers, Locked(c)
  PROVE  AuditIInv'
<1> USE DEF AuditIInv
<1>1. Uncached(c) \in SUBSET Queries
  BY DEF Uncached, AuditTypeOK
<1>2. {ChunkOf(q, Uncached(c)) : q \in Uncached(c)} \in SUBSET Nat
  BY <1>1, ChunkNumber
<1>3. \A d \in Callers : state[d] # "asking"
  BY DEF AuditTypeOK, Locked, LockIsFree
<1>4. AuditTypeOK'
  BY <1>1, <1>2, <1>3 DEF AuditTypeOK, Locked, Go
<1>5. ASSUME NEW d \in Callers
      PROVE  /\ state'[d] \in {"idle", "waiting"} => answers'[d] = NoAnswer
             /\ state'[d] = "asking" => AskingIsCovered(d)'
             /\ state'[d] = "returned" => ReturnedIsCached(d)'
  <2>1. CASE d = c
    <3>1. state'[c] = "asking" /\ answers'[c] = NoAnswer /\ missing'[c] = Uncached(c)
          /\ pending'[c] = {ChunkOf(q, Uncached(c)) : q \in Uncached(c)}
          /\ requested' = requested /\ cache' = cache
      BY DEF Locked, Go, AuditTypeOK
    <3>2. AskingIsCovered(c)'
      BY <3>1 DEF AskingIsCovered, NoAnswer, Uncached, AuditTypeOK
    <3>3. QED
      BY <2>1, <3>1, <3>2
  <2>2. CASE d # c
    BY <2>2, <1>3 DEF Locked, Go, AuditTypeOK, ReturnedIsCached
  <2>3. QED
    BY <2>1, <2>2
<1>6. QED
  BY <1>4, <1>5

\* A chunk is answered, whatever the response.
LEMMA TakeKeeps ==
  ASSUME AuditIInv, NEW c \in Callers, NEW k, NEW D, NEW response \in [D -> AuditVerdicts],
         Take(c, k, response)
  PROVE  AuditIInv'
<1> DEFINE chunk == Chunk(k, missing[c])
           new == [q \in Queries |-> IF q \in chunk THEN AnswerFrom(q, chunk, response) ELSE answers[c][q]]
<1> USE DEF AuditIInv
<1>1. missing[c] \in SUBSET Queries /\ chunk \in SUBSET Queries
  BY DEF AuditTypeOK, Chunk
<1>2. \A q \in chunk : AnswerFrom(q, chunk, response) \in Answers
  BY <1>1, ChunkGetsAnswers
<1>3. /\ answers' = [answers EXCEPT ![c] = new]
      /\ pending' = [pending EXCEPT ![c] = @ \ {k}]
      /\ state[c] = "asking"
      /\ UNCHANGED <<state, requested, missing, result, lock, cache, disclosed, initially>>
  BY DEF Take
<1>4. \A q \in missing[c] : q \in chunk <=> ChunkOf(q, missing[c]) = k
  BY DEF Chunk
<1>5. chunk \subseteq missing[c]
  BY DEF Chunk
<1> HIDE DEF chunk
<1>6. new \in [Queries -> Answers \cup {"none"}]
  BY <1>2 DEF AuditTypeOK
<1>7. AuditTypeOK'
  BY <1>3, <1>6 DEF AuditTypeOK
<1>8. \A q \in Queries : new[q] = IF q \in chunk THEN AnswerFrom(q, chunk, response) ELSE answers[c][q]
  OBVIOUS
<1> HIDE DEF new
<1>9. answers'[c] = new /\ pending'[c] = pending[c] \ {k}
  BY <1>3 DEF AuditTypeOK
<1>10. AskingIsCovered(c)'
  <2>1. AskingIsCovered(c) /\ requested[c] \in SUBSET Queries
    BY <1>3 DEF AuditTypeOK
  <2>2. \A q \in missing[c] : cache[q] = "none"
    BY <2>1 DEF AskingIsCovered
  <2>3. \A q \in Queries : new[q] # "none" => cache[q] = "none"
    BY <2>1, <2>2, <1>5, <1>8 DEF AskingIsCovered
  <2>4. \A q \in chunk : new[q] # "none"
    BY <1>1, <1>2, <1>8 DEF Answers, AuditVerdicts
  <2>5. \A q \in requested[c] :
          \/ cache[q] # "none"
          \/ new[q] # "none"
          \/ q \in missing[c] /\ ChunkOf(q, missing[c]) \in pending[c] \ {k}
    BY <2>1, <2>4, <1>4, <1>8 DEF AskingIsCovered
  <2>6. QED
    BY <1>3, <1>9, <2>2, <2>3, <2>5 DEF AskingIsCovered
<1>11. ASSUME NEW d \in Callers, d # c
       PROVE  /\ state'[d] \in {"idle", "waiting"} => answers'[d] = NoAnswer
              /\ state'[d] # "asking"
              /\ state'[d] = "returned" => ReturnedIsCached(d)'
  BY <1>3, <1>11 DEF AuditTypeOK, ReturnedIsCached
<1>12. QED
  BY <1>3, <1>7, <1>10, <1>11

\* The query ends without results.
LEMMA FailureKeeps ==
  ASSUME AuditIInv, NEW c \in Callers, LockFails(c) \/ PoolFails(c) \/ WorkerPanics(c)
  PROVE  AuditIInv'
<1> USE DEF AuditIInv
<1>1. NoAnswer \in [Queries -> Answers \cup {"none"}]
  BY DEF NoAnswer
<1>2. AuditTypeOK'
  <2>1. CASE LockFails(c)
    BY <2>1 DEF LockFails, Go, AuditTypeOK
  <2>2. CASE PoolFails(c)
    BY <2>2 DEF PoolFails, Go, AuditTypeOK
  <2>3. CASE WorkerPanics(c)
    BY <2>3, <1>1 DEF WorkerPanics, Go, AuditTypeOK
  <2>4. QED
    BY <2>1, <2>2, <2>3
<1>3. ASSUME NEW d \in Callers
      PROVE  /\ state'[d] \in {"idle", "waiting"} => answers'[d] = NoAnswer
             /\ state'[d] = "asking" => AskingIsCovered(d)'
             /\ state'[d] = "returned" => ReturnedIsCached(d)'
  <2>1. CASE d = c
    BY <2>1 DEF LockFails, PoolFails, WorkerPanics, Go, AuditTypeOK
  <2>2. CASE d # c
    BY <2>2 DEF LockFails, PoolFails, WorkerPanics, Go, AuditTypeOK, AskingIsCovered, ReturnedIsCached
  <2>3. QED
    BY <2>1, <2>2
<1>4. QED
  BY <1>2, <1>3

\* The answers are stored and read back.
LEMMA ReturnKeeps ==
  ASSUME AuditIInv, NEW c \in Callers, Return(c)
  PROVE  AuditIInv'
<1> USE DEF AuditIInv
<1>1. /\ state[c] = "asking" /\ pending[c] = {}
      /\ AskingIsCovered(c)
      /\ requested[c] \in SUBSET Queries
  BY DEF Return, AuditTypeOK
<1>2. /\ cache' = Extend(c)
      /\ result' = [result EXCEPT ![c] = [q \in Queries |-> IF q \in requested[c] THEN cache'[q] ELSE "none"]]
      /\ state' = [state EXCEPT ![c] = "returned"]
      /\ lock' = "free"
      /\ UNCHANGED <<requested, missing, pending, answers, disclosed, initially>>
  BY DEF Return, Go
<1>3. \A q \in Queries : Extend(c)[q] = IF answers[c][q] # "none" THEN answers[c][q] ELSE cache[q]
  BY DEF Extend
<1>4. Extend(c) \in [Queries -> Answers \cup {"none"}]
  BY DEF Extend, AuditTypeOK
<1>5. AuditTypeOK'
  BY <1>1, <1>2, <1>4 DEF AuditTypeOK
<1>6. ReturnedIsCached(c)'
  <2>1. \A q \in requested[c] : cache'[q] # "none"
    BY <1>1, <1>2, <1>3 DEF AskingIsCovered
  <2>2. \A q \in requested[c] : result'[c][q] = cache'[q]
    BY <1>1, <1>2 DEF AuditTypeOK
  <2>3. QED
    BY <1>2, <2>1, <2>2 DEF ReturnedIsCached
<1>7. ASSUME NEW d \in Callers, d # c
      PROVE  /\ state'[d] \in {"idle", "waiting"} => answers'[d] = NoAnswer
             /\ state'[d] # "asking"
             /\ state'[d] = "returned" => ReturnedIsCached(d)'
  <2>1. \A q \in Queries : cache[q] # "none" => cache'[q] = cache[q]
    BY <1>1, <1>2, <1>3 DEF AskingIsCovered
  <2>2. requested[d] \in SUBSET Queries
    BY DEF AuditTypeOK
  <2>3. state'[d] = state[d] /\ result'[d] = result[d]
    BY <1>2, <1>7 DEF AuditTypeOK
  <2>4. QED
    BY <1>1, <1>2, <1>7, <2>1, <2>2, <2>3 DEF AuditTypeOK, ReturnedIsCached
<1>8. state'[c] = "returned"
  BY <1>1, <1>2 DEF AuditTypeOK
<1>9. QED
  BY <1>5, <1>6, <1>7, <1>8

\* A chunk ends in one of three ways, each a response of verdicts.
LEMMA ChunkKeeps ==
  ASSUME AuditIInv, NEW c \in Callers, NEW k \in pending[c],
         ChunkAnswered(c, k) \/ ChunkCutShort(c, k) \/ ChunkFails(c, k)
  PROVE  AuditIInv'
<1> DEFINE chunk == Chunk(k, missing[c])
<1>1. CASE ChunkAnswered(c, k)
  <2>1. Response(chunk) \in [1..Cardinality(chunk) -> AuditVerdicts]
    BY ResponseIsVerdicts
  <2>2. QED
    BY <1>1, <2>1, TakeKeeps DEF ChunkAnswered
<1>2. CASE ChunkCutShort(c, k)
  <2>1. Response(chunk) \in [1..Cardinality(chunk) -> AuditVerdicts]
    BY ResponseIsVerdicts
  <2>2. chunk \in SUBSET Queries
    BY DEF AuditIInv, AuditTypeOK, Chunk
  <2>3. Cardinality(chunk) \in Nat
    <3>1. IsFiniteSet(Queries)
      BY FS_Interval, AuditAssumption DEF Queries
    <3>2. QED
      BY <2>2, <3>1, FS_Subset, FS_CardinalityType
  <2>4. Cardinality(chunk) > 1
    BY <1>2 DEF ChunkCutShort
  <2>5. 1 \in 1..Cardinality(chunk)
    BY <2>3, <2>4
  <2>6. FirstOnly(Response(chunk)) \in [1..1 -> AuditVerdicts]
    <3>1. \A i \in 1..1 : i = 1
      OBVIOUS
    <3>2. \A i \in 1..1 : Response(chunk)[i] \in AuditVerdicts
      BY <2>1, <2>5, <3>1
    <3>3. QED
      BY <3>2 DEF FirstOnly
  <2>7. QED
    BY <1>2, <2>6, TakeKeeps DEF ChunkCutShort
<1>3. CASE ChunkFails(c, k)
  <2>1. NoResponse \in [{} -> AuditVerdicts]
    BY DEF NoResponse
  <2>2. QED
    BY <1>3, <2>1, TakeKeeps DEF ChunkFails
<1>4. QED
  BY <1>1, <1>2, <1>3

\* No step disturbs the invariant.
LEMMA AuditNextIInv == AuditIInv /\ [AuditNext]_auditVars => AuditIInv'
<1> SUFFICES ASSUME AuditIInv, [AuditNext]_auditVars PROVE AuditIInv'
  OBVIOUS
<1>1. ASSUME NEW c \in Callers, Call(c) PROVE AuditIInv'
  BY <1>1, CallKeeps
<1>2. ASSUME NEW c \in Callers, QueryStep(c) PROVE AuditIInv'
  BY <1>2, LockedKeeps, FailureKeeps, ChunkKeeps, ReturnKeeps DEF QueryStep
<1>3. ASSUME NEW q \in Queries, PublishAdvisory(q) PROVE AuditIInv'
  BY <1>3 DEF PublishAdvisory, AuditIInv, AuditTypeOK, AskingIsCovered, ReturnedIsCached
<1>4. ASSUME UNCHANGED auditVars PROVE AuditIInv'
  BY <1>4 DEF auditVars, AuditIInv, AuditTypeOK, AskingIsCovered, ReturnedIsCached
<1>5. QED
  BY <1>1, <1>2, <1>3, <1>4 DEF AuditNext, Done

-----------------------------------------------------------------------------
(* The audit service: theorems *)

\* The inductive invariant holds.
THEOREM AuditInductive == AuditSpec => []AuditIInv
BY AuditInitIInv, AuditNextIInv, PTL DEF AuditSpec

\* Types are kept, and at most one call holds the lock of AuditService::query.
THEOREM AuditTypeCorrect == AuditSpec => []AuditTypeOK
<1>1. AuditIInv => AuditTypeOK
  BY DEF AuditIInv
<1>2. QED
  BY <1>1, AuditInductive, PTL

\* AuditService::query returns an answer for every query it was asked.
THEOREM Answered == AuditSpec => []EverythingIsAnswered
<1>1. AuditIInv => EverythingIsAnswered
  BY DEF AuditIInv, AuditTypeOK, ReturnedIsCached, EverythingIsAnswered
<1>2. QED
  BY <1>1, AuditInductive, PTL

\* Two calls of AuditService::query agree on what both were asked.
THEOREM Agreed == AuditSpec => []OneAnswerForAll
<1>1. AuditIInv => OneAnswerForAll
  BY DEF AuditIInv, ReturnedIsCached, OneAnswerForAll
<1>2. QED
  BY <1>1, AuditInductive, PTL

\* An answer in the cache is neither replaced nor asked for again.
THEOREM Final == AuditSpec => CachedIsFinal
<1> DEFINE Kept == \A q \in Queries : cache[q] # "none" =>
                     /\ cache'[q] = cache[q]
                     /\ \A c \in Callers : answers[c][q] = "none" => answers'[c][q] = "none"
<1>1. ASSUME AuditIInv, NEW c \in Callers, NEW k, NEW response, Take(c, k, response) PROVE Kept
  <2>1. missing[c] \in SUBSET Queries /\ Chunk(k, missing[c]) \subseteq missing[c]
    BY <1>1 DEF AuditIInv, AuditTypeOK, Chunk
  <2>2. \A q \in Chunk(k, missing[c]) : cache[q] = "none"
    BY <1>1, <2>1 DEF AuditIInv, Take, AskingIsCovered
  <2>3. \A q \in Queries \ Chunk(k, missing[c]) : answers'[c][q] = answers[c][q]
    BY <1>1 DEF AuditIInv, AuditTypeOK, Take
  <2>4. \A d \in Callers : d # c => answers'[d] = answers[d]
    BY <1>1 DEF AuditIInv, AuditTypeOK, Take
  <2>5. cache' = cache
    BY <1>1 DEF Take
  <2>6. QED
    BY <2>2, <2>3, <2>4, <2>5
<1>2. ASSUME AuditIInv, NEW c \in Callers, Return(c) PROVE Kept
  <2>1. /\ AskingIsCovered(c) /\ cache' = Extend(c) /\ answers' = answers
    BY <1>2 DEF AuditIInv, Return
  <2>2. QED
    BY <2>1 DEF AskingIsCovered, Extend
<1>3. ASSUME AuditIInv, NEW c \in Callers, WorkerPanics(c) PROVE Kept
  BY <1>3 DEF AuditIInv, AuditTypeOK, WorkerPanics, NoAnswer
<1>4. ASSUME cache' = cache, answers' = answers PROVE Kept
  BY <1>4
<1> HIDE DEF Kept
<1>5. AuditIInv /\ [AuditNext]_auditVars => Kept
  <2> SUFFICES ASSUME AuditIInv, [AuditNext]_auditVars PROVE Kept
    OBVIOUS
  <2>1. ASSUME NEW c \in Callers, QueryStep(c) PROVE Kept
    <3>1. ASSUME NEW k \in pending[c], ChunkAnswered(c, k) \/ ChunkCutShort(c, k) \/ ChunkFails(c, k)
          PROVE  Kept
      BY <3>1, <1>1 DEF ChunkAnswered, ChunkCutShort, ChunkFails
    <3>2. ASSUME Locked(c) \/ LockFails(c) \/ PoolFails(c) PROVE Kept
      <4>1. cache' = cache /\ answers' = answers
        BY <3>2 DEF Locked, LockFails, PoolFails
      <4>2. QED
        BY <4>1, <1>4
    <3>3. QED
      BY <2>1, <3>1, <3>2, <1>2, <1>3 DEF QueryStep
  <2>2. ASSUME NEW c \in Callers, Call(c) PROVE Kept
    <3>1. cache' = cache /\ answers' = answers
      BY <2>2 DEF Call
    <3>2. QED
      BY <3>1, <1>4
  <2>3. ASSUME NEW q \in Queries, PublishAdvisory(q) PROVE Kept
    <3>1. cache' = cache /\ answers' = answers
      BY <2>3 DEF PublishAdvisory
    <3>2. QED
      BY <3>1, <1>4
  <2>4. ASSUME UNCHANGED auditVars PROVE Kept
    <3>1. cache' = cache /\ answers' = answers
      BY <2>4 DEF auditVars
    <3>2. QED
      BY <3>1, <1>4
  <2>5. QED
    BY <2>1, <2>2, <2>3, <2>4 DEF AuditNext, Done
<1>6. AuditIInv /\ [AuditNext]_auditVars => [Kept]_auditVars
  BY <1>5
<1>7. QED
  BY <1>6, AuditInductive, PTL DEF AuditSpec, CachedIsFinal, Kept

-----------------------------------------------------------------------------
(* The audit service: answers are told apart *)

\* No two queries of a set have the same place in it.
LEMMA PlaceTellsApart ==
  ASSUME NEW S \in SUBSET Queries, NEW p \in S, NEW q \in S, p < q
  PROVE  Place(p, S) < Place(q, S)
<1> DEFINE below(r) == {x \in S : x < r}
<1>1. IsFiniteSet(S)
  <2>1. IsFiniteSet(Queries)
    BY FS_Interval, AuditAssumption DEF Queries
  <2>2. QED
    BY <2>1, FS_Subset
<1>2. IsFiniteSet(below(q)) /\ below(p) \in SUBSET below(q) /\ below(p) # below(q)
  <2>1. \A r \in S : r \in Nat
    BY DEF Queries
  <2>2. below(q) \in SUBSET S
    OBVIOUS
  <2>3. p \in below(q) /\ p \notin below(p) /\ below(p) \subseteq below(q)
    BY <2>1
  <2>4. QED
    BY <1>1, <2>2, <2>3, FS_Subset
<1> HIDE DEF below
<1>3. /\ IsFiniteSet(below(p)) /\ Cardinality(below(p)) <= Cardinality(below(q))
      /\ Cardinality(below(p)) # Cardinality(below(q))
  BY <1>2, FS_Subset
<1>4. Cardinality(below(p)) \in Nat /\ Cardinality(below(q)) \in Nat
  BY <1>2, <1>3, FS_CardinalityType
<1>5. Place(p, S) = Cardinality(below(p)) /\ Place(q, S) = Cardinality(below(q))
  BY DEF Place, below
<1>6. QED
  BY <1>3, <1>4, <1>5

\* The result a query finds at its place in a full response is its own, so what
\* parse_batch_response makes of a response is the verdict about the query or
\* the failure of its lookup.
LEMMA FullResponseIsOwn ==
  ASSUME NEW chunk \in SUBSET Queries, NEW q \in chunk
  PROVE  Response(chunk)[Place(q, chunk) + 1] = Verdict(q)
<1> DEFINE i == Place(q, chunk) + 1
           there == CHOOSE p \in chunk : Place(p, chunk) = i - 1
<1>1. Place(q, chunk) \in Nat /\ i \in 1..Cardinality(chunk)
  BY PlaceInSet
<1>2. Place(q, chunk) = i - 1
  BY <1>1
<1>3. there \in chunk /\ Place(there, chunk) = Place(q, chunk)
  BY <1>2
<1>4. there \in Nat /\ q \in Nat
  <2>1. Queries \subseteq Nat
    BY DEF Queries
  <2> HIDE DEF there
  <2>2. QED
    BY <1>3, <2>1
<1>5. ~(there < q) /\ ~(q < there)
  BY <1>1, <1>3, PlaceTellsApart
<1>6. there = q
  BY <1>4, <1>5
<1>7. Response(chunk)[i] = Verdict(there)
  BY <1>1 DEF Response
<1>8. QED
  BY <1>6, <1>7

\* A query of a batch is answered with what is known of it.
LEMMA AnswerIsOwn ==
  ASSUME NEW chunk \in SUBSET Queries, NEW q \in chunk, NEW response,
         \/ response = Response(chunk)
         \/ response = FirstOnly(Response(chunk)) /\ Cardinality(chunk) > 1
         \/ response = NoResponse
  PROVE  AnswerFrom(q, chunk, response) \in {Verdict(q), "failed"}
<1>1. Cardinality(chunk) \in Nat /\ 1 \in 1..Cardinality(chunk)
  <2>1. Cardinality(chunk) \in Nat /\ Place(q, chunk) \in Nat
        /\ Place(q, chunk) + 1 \in 1..Cardinality(chunk)
    BY PlaceInSet
  <2>2. QED
    BY <2>1
<1>2. CASE response = Response(chunk)
  BY <1>2, FullResponseIsOwn DEF AnswerFrom
<1>3. CASE response = FirstOnly(Response(chunk)) /\ Cardinality(chunk) > 1
  <2>1. 2 \in 1..Cardinality(chunk) /\ 2 \notin 1..1
    BY <1>1, <1>3
  <2>2. DOMAIN response = 1..1
    BY <1>3 DEF FirstOnly
  <2>3. QED
    BY <2>1, <2>2 DEF AnswerFrom
<1>4. CASE response = NoResponse
  <2>1. DOMAIN response = {}
    BY <1>4 DEF NoResponse
  <2>2. QED
    BY <1>1, <2>1 DEF AnswerFrom
<1>5. QED
  BY <1>2, <1>3, <1>4

\* An answer is right about a query: see AnswersAreTheirOwn.
Own(answer, q) ==
  /\ answer = "clean" => q \notin initially
  /\ answer = "vulnerable" => q \in disclosed

\* Advisories stay, so an answer that was right when it came is right wherever it
\* is kept: with the call, in the cache, in a result.
OwnInv ==
  /\ initially \subseteq disclosed
  /\ \A q \in Queries :
       /\ Own(cache[q], q)
       /\ \A c \in Callers : Own(answers[c][q], q) /\ Own(result[c][q], q)

\* What a call takes from a response is its own.
LEMMA TakeKeepsOwn ==
  ASSUME AuditTypeOK, OwnInv, NEW c \in Callers, NEW k, NEW response, Take(c, k, response),
         \/ response = Response(Chunk(k, missing[c]))
         \/ /\ response = FirstOnly(Response(Chunk(k, missing[c])))
            /\ Cardinality(Chunk(k, missing[c])) > 1
         \/ response = NoResponse
  PROVE  OwnInv'
<1> DEFINE chunk == Chunk(k, missing[c])
<1>1. chunk \in SUBSET Queries
  BY DEF AuditTypeOK, Chunk
<1>2. /\ answers' = [answers EXCEPT ![c] =
             [q \in Queries |-> IF q \in chunk THEN AnswerFrom(q, chunk, response) ELSE answers[c][q]]]
      /\ UNCHANGED <<result, cache, disclosed, initially>>
  BY DEF Take
<1>3. \A q \in chunk : AnswerFrom(q, chunk, response) \in {Verdict(q), "failed"}
  BY <1>1, AnswerIsOwn
<1> HIDE DEF chunk
<1>4. \A q \in chunk : Own(AnswerFrom(q, chunk, response), q)
  <2>1. \A q \in Queries : Own(Verdict(q), q) /\ Own("failed", q)
    BY DEF OwnInv, Own, Verdict
  <2>2. QED
    BY <1>1, <1>3, <2>1
<1>5. ASSUME NEW q \in Queries, NEW d \in Callers
      PROVE  Own(answers'[d][q], q)
  <2>1. answers'[d][q] = IF d = c /\ q \in chunk THEN AnswerFrom(q, chunk, response) ELSE answers[d][q]
    BY <1>2 DEF AuditTypeOK
  <2>2. QED
    BY <1>4, <2>1 DEF OwnInv
<1>6. QED
  BY <1>2, <1>5 DEF OwnInv, Own

\* The answers are copied into the cache, and from there into the result.
LEMMA ReturnKeepsOwn ==
  ASSUME AuditTypeOK, OwnInv, NEW c \in Callers, Return(c)
  PROVE  OwnInv'
<1>1. /\ cache' = Extend(c)
      /\ result' = [result EXCEPT ![c] = [q \in Queries |-> IF q \in requested[c] THEN cache'[q] ELSE "none"]]
      /\ UNCHANGED <<answers, disclosed, initially>>
  BY DEF Return
<1>2. \A q \in Queries : Own(cache'[q], q)
  BY <1>1 DEF Extend, OwnInv
<1>3. ASSUME NEW q \in Queries, NEW d \in Callers
      PROVE  Own(result'[d][q], q)
  <2>1. result'[d][q] = IF d # c THEN result[d][q] ELSE IF q \in requested[c] THEN cache'[q] ELSE "none"
    BY <1>1 DEF AuditTypeOK
  <2>2. QED
    BY <1>2, <2>1 DEF OwnInv, Own
<1>4. QED
  BY <1>1, <1>2, <1>3 DEF OwnInv, Own

\* Answers stay with their queries from step to step.
LEMMA NextOwn == AuditTypeOK /\ OwnInv /\ [AuditNext]_auditVars => OwnInv'
<1> SUFFICES ASSUME AuditTypeOK, OwnInv, [AuditNext]_auditVars PROVE OwnInv'
  OBVIOUS
<1>1. ASSUME UNCHANGED <<answers, result, cache, disclosed, initially>> PROVE OwnInv'
  BY <1>1 DEF OwnInv, Own
<1>2. ASSUME NEW c \in Callers, QueryStep(c) PROVE OwnInv'
  <2>1. ASSUME NEW k \in pending[c], ChunkAnswered(c, k) \/ ChunkCutShort(c, k) \/ ChunkFails(c, k)
        PROVE  OwnInv'
    BY <2>1, TakeKeepsOwn DEF ChunkAnswered, ChunkCutShort, ChunkFails
  <2>2. CASE Locked(c) \/ LockFails(c) \/ PoolFails(c)
    BY <2>2, <1>1 DEF Locked, LockFails, PoolFails
  <2>3. CASE WorkerPanics(c)
    BY <2>3 DEF WorkerPanics, AuditTypeOK, OwnInv, Own, NoAnswer
  <2>4. CASE Return(c)
    BY <2>4, ReturnKeepsOwn
  <2>5. QED
    BY <1>2, <2>1, <2>2, <2>3, <2>4 DEF QueryStep
<1>3. ASSUME NEW c \in Callers, Call(c) PROVE OwnInv'
  BY <1>1, <1>3 DEF Call
<1>4. ASSUME NEW q \in Queries, PublishAdvisory(q) PROVE OwnInv'
  BY <1>4 DEF PublishAdvisory, OwnInv, Own
<1>5. CASE UNCHANGED auditVars
  BY <1>1, <1>5 DEF auditVars
<1>6. QED
  BY <1>2, <1>3, <1>4, <1>5 DEF AuditNext, Done

\* What AuditService::query says of a package version is what OSV says of that
\* version, in whatever batch it was and whichever batch was answered first.
THEOREM NothingMixedUp == AuditSpec => []AnswersAreTheirOwn
<1>1. AuditInit => OwnInv
  BY DEF AuditInit, OwnInv, Own, NoAnswer
<1>2. OwnInv => AnswersAreTheirOwn
  BY DEF OwnInv, Own, AnswersAreTheirOwn
<1>3. QED
  BY <1>1, <1>2, NextOwn, AuditTypeCorrect, PTL DEF AuditSpec

=============================================================================
