--------------------------- MODULE MCPlanEvaluation ---------------------------
(* Two finals with two pre-releases of different tracks in between, and a    *)
(* text no scheme can parse: enough for an older release to be eligible      *)
(* behind one that is too fresh, blocked or vulnerable, for a track to       *)
(* regress, and for every row the evaluation can make.                       *)
EXTENDS PlanEvaluation

MCTexts == {"1.0", "1.1-rc", "1.2-beta", "1.2", "nightly"}
MCParsed == [t \in MCTexts |->
  CASE t = "nightly" -> 0 [] t = "1.0" -> 1 [] t = "1.1-rc" -> 2 [] t = "1.2-beta" -> 3 [] t = "1.2" -> 4]
MCClass == [t \in MCTexts |->
  CASE t = "1.1-rc" -> "rc" [] t = "1.2-beta" -> "beta" [] t = "nightly" -> "unknown" [] OTHER -> "final"]
MCInstalledFirst == {"1.0", "1.1-rc"}

MCUse(policy, scheme, selectedBy, subject) ==
  [policy |-> policy, scheme |-> scheme, selectedBy |-> selectedBy, subject |-> subject]
MCSettings ==
  {MCUse("none", "semver", "planner", TRUE),
   MCUse("same-track", "pep440", "planner", TRUE),
   MCUse("stable", "semver", "planner", FALSE),
   MCUse("stable", "pep440", "manager", TRUE),
   MCUse("same-track", "native", "manager", TRUE)}
=============================================================================
