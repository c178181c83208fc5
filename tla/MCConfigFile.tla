----------------------------- MODULE MCConfigFile -----------------------------
(***************************************************************************)
(* Three managers with the rules of npm (whole days), gem (only the stable *)
(* policy, off by default) and brew (accepts no_update), a section of an   *)
(* unknown name, and one run; other processes write the file meanwhile.    *)
(***************************************************************************)
EXTENDS ConfigFile

MCManagers == {"npm", "gem", "brew"}
MCOrder == <<"brew", "npm", "gem">>
MCTexts == STRING
MCHours == [d7 |-> 168, h12 |-> 12]
MCSupported == [m \in MCManagers |-> IF m = "gem" THEN {"stable"} ELSE VersionPolicies]
MCFallback == [m \in MCManagers |-> IF m = "gem" THEN "stable" ELSE "none"]

With(m, section) == [EmptyDoc EXCEPT !.section[m] = section]
\* A file with a stranger, a plan-only npm and selections; one run could refuse
\* each of the others: an unknown key, an age of half a day, a section that is
\* no table, a pool of no workers, no TOML.
Ordinary ==
    [EmptyDoc EXCEPT
        !.upgate.manager_concurrency = 2,
        !.section["npm"] = [NoSection EXCEPT !.mode = "plan", !.selection = [mode |-> "skip", except |-> {"p"}]],
        !.section["brew"] = [NoSection EXCEPT !.no_update = "true", !.selection = [mode |-> "absent", except |-> {"p"}]],
        !.section["apt"] = [NoSection EXCEPT !.mode = "off"]]
OldKey == With("npm", [NoSection EXCEPT !.strange = TRUE])
HalfDay == With("npm", [NoSection EXCEPT !.min_release_age = "h12"])
NoTable == With("brew", [NoSection EXCEPT !.table = FALSE])
NoWorkers == [EmptyDoc EXCEPT !.upgate.audit_concurrency = 17]
MCDocuments == {EmptyDoc, Ordinary, OldKey, HalfDay, NoTable, NoWorkers, Junk}

Set(section, key, value) == [section |-> section, key |-> key, value |-> value, number |-> Unset]
Limit(key, number) == [section |-> "upgate", key |-> key, value |-> "absent", number |-> number]
Line(managers, overrides) ==
    [managers |-> managers, overrides |-> overrides, concurrency |-> Unset, dryRun |-> FALSE]
MCCommands ==
    {Line(<<>>, <<>>),
     Line(<<"npm", "gem", "npm">>, <<Set("gem", "mode", "plan"), Set("npm", "min_release_age", "d7")>>),
     Line(<<"npm">>, <<Set("npm", "mode", "off"), Set("npm", "mode", "apply")>>),
     Line(<<>>, <<Set("gem", "version_policy", "none")>>),
     Line(<<"brew">>, <<Set("brew", "no_update", "true"), Limit("audit_concurrency", 16)>>),
     Line(<<"npm">>, <<Set("npm", "min_release_age", "h12")>>),
     Line(<<"npm">>, <<Set("npm", "no_update", "true")>>),
     Line(<<"apt">>, <<>>),
     [Line(<<"brew">>, <<>>) EXCEPT !.dryRun = TRUE, !.concurrency = 3]}
==============================================================================
