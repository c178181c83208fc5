-------------------------- MODULE MCManagerSelection --------------------------
(* Two installed versions of one tool, and two versions a candidate may      *)
(* have; every kind of row, with the planned target too young, old enough,   *)
(* and missing from the candidates.                                          *)
EXTENDS ManagerSelection

MCItems == {"i", "j", "k"}
MCPackageOf == [i \in MCItems |-> IF i = "k" THEN "other" ELSE "tool"]
MCVersions == {"1.1", "1.2"}
MCManagers == {"npm", "bun", "brew", "mise", "uv"}

Row(kind, planned, candidates, young, blocking, removable) ==
  [kind |-> kind, target |-> planned, candidates |-> candidates, young |-> young,
   blocking |-> blocking, removable |-> removable]

MCRows ==
  {Row("update", "1.1", {"1.1"}, {}, NoVersion, TRUE),
   Row("update", "1.1", {"1.1", "1.2"}, {"1.2"}, NoVersion, TRUE),
   Row("delayed", "1.2", {"1.2"}, {"1.2"}, NoVersion, TRUE),
   Row("delayed", "1.2", {"1.1", "1.2"}, {"1.2"}, NoVersion, FALSE),
   Row("policy", "1.2", {"1.2"}, {}, NoVersion, TRUE),
   Row("policy", "1.2", {"1.1"}, {"1.1"}, NoVersion, TRUE),
   Row("audit", "1.1", {"1.1"}, {}, "1.1", TRUE),
   Row("audit", "1.2", {"1.1", "1.2"}, {"1.2"}, "1.1", TRUE),
   Row("metadata", "1.2", {}, {}, NoVersion, TRUE),
   Row("lookup", "1.2", {}, {}, NoVersion, FALSE),
   Row("current", NoVersion, {}, {}, NoVersion, TRUE),
   Row("skipped", NoVersion, {}, {}, NoVersion, FALSE)}

MCRemembered ==
  {[mode |-> "include", except |-> {}], [mode |-> "skip", except |-> {}]}
=============================================================================
