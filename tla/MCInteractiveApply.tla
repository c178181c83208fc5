-------------------------- MODULE MCInteractiveApply --------------------------
(* Two managers; the first has an item to update, one to remove and one that *)
(* varies, the second two items.  Packages of one manager may share a name,   *)
(* as two installed versions of one tool do.                                  *)
EXTENDS InteractiveApply

MCItems == {"a", "b", "c", "d"}
MCManagerOf == [i \in MCItems |-> IF i \in {"a", "b", "c"} THEN 1 ELSE 2]
MCPackageOf == [i \in MCItems |-> IF i = "b" THEN "a" ELSE i]
MCPolicies ==
  {[mode |-> "include", except |-> {"a"}], [mode |-> "skip", except |-> {"a", "d"}]}
MCStored == <<[mode |-> "skip", except |-> {"c"}], [mode |-> "include", except |-> {"d"}]>>
MCSelections ==
  {s \in [MCItems -> {"none", "update", "remove"}] : s["a"] = "update"}
=============================================================================
