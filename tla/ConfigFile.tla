------------------------------ MODULE ConfigFile ------------------------------
(***************************************************************************)
(* The user's config file and the runs of upgate that read and rewrite it: *)
(* crates/upgate-cli/src/config.rs and the part of                         *)
(* crates/upgate-cli/src/interactive.rs that calls it.                     *)
(*                                                                         *)
(* An interactive run loads the file once, lays the command line over the  *)
(* copy it keeps in memory (the managers it names get mode "apply", then   *)
(* each --set in order), resolves every manager it was asked for, shows    *)
(* the screen, and after the confirmation saves the selection policy of    *)
(* each confirmed manager: it reads the file AGAIN, edits that manager's   *)
(* selection table and writes the whole text back.  Reading and writing    *)
(* are separate steps, fs::write empties the file before it fills it, the  *)
(* user may save the file at any time, and a second run may do the same.   *)
(*                                                                         *)
(* Data.  A value is the text the user wrote; "absent" stands for a key    *)
(* that is not there.  A file that is missing or blank reads like the      *)
(* empty document in both readers, so the three are one value, EmptyDoc.   *)
(* TOML text is a document, or Junk when no TOML reader accepts it.        *)
(***************************************************************************)
EXTENDS Integers, Sequences, FiniteSets

CONSTANTS
    Managers,       \* the managers of the registry
    Strangers,      \* section names that are no manager's
    Order,          \* the registry's processing order, a sequence of Managers
    Packages,       \* package names
    Texts,          \* what may stand in the file and on the command line
    Hours,          \* the ages that parse: text -> hours
    OnByDefault,    \* managers whose default mode is apply (the others: off)
    WholeDays,      \* managers that take only whole days
    SkipsUpdate,    \* managers that accept no_update
    Supported,      \* manager -> the version policies it supports
    Fallback,       \* manager -> the version policy it has when none is set
    Sessions,       \* runs of upgate
    Documents,      \* what the user may save as config file
    Commands,       \* the command lines
    MaxEdits        \* bound: how often the user saves the file

Unset == -1
Sections == Managers \cup Strangers
Modes == {"off", "plan", "apply"}
VersionPolicies == {"none", "stable", "same-track"}

ASSUME OrderIsAll == Order \in Seq(Managers) /\ \A m \in Managers : \E i \in DOMAIN Order : Order[i] = m
ASSUME NoStrangers == Managers \cap Strangers = {} /\ "upgate" \notin Sections
ASSUME FallbackFits == \A m \in Managers : Fallback[m] \in Supported[m] \cap VersionPolicies
ASSUME Vocabulary ==
    /\ Sections \cup Modes \cup VersionPolicies \cup DOMAIN Hours \subseteq Texts
    /\ {"absent", "include", "skip", "true", "false"} \subseteq Texts
ASSUME CommandLines ==
    Commands \subseteq
        [managers : Seq(Texts),
         overrides : Seq([section : Texts, key : Texts, value : Texts, number : Int]),
         concurrency : {Unset} \cup (Nat \ {0}), dryRun : BOOLEAN]
ASSUME EditsBounded == MaxEdits \in Nat

VARIABLES
    disk,           \* the file
    edits,          \* saves by the user so far
    pc,             \* where each run is
    cmd,            \* its command line
    config,         \* its copy of the file
    next,           \* the override it applies next
    runnable,       \* the places, in its list, of the managers that may apply
    policy,         \* the confirmed selection policy of each manager
    todo,           \* those whose policy it has yet to save
    draft,          \* the edited document it is about to write
    everSaved,      \* history: the documents the user ever saved
    base,           \* history: the file when the run was confirmed
    disturbed       \* history: runs whose file somebody else wrote since then
history == <<everSaved, base, disturbed>>
vars == <<disk, edits, pc, cmd, config, next, runnable, policy, todo, draft, history>>
runVars == <<cmd, config, next, runnable, policy, todo, draft>>

------------------------------------------------------------------------------
\* Documents.

RawSelections == [mode : Texts, except : SUBSET Packages]
RawSections == [table : BOOLEAN, strange : BOOLEAN, min_release_age : Texts,
                version_policy : Texts, no_update : Texts, mode : Texts,
                selection : RawSelections]
RawLimits == [manager_concurrency : Int, audit_concurrency : Int]
Docs == [toml : BOOLEAN, upgate : RawLimits, section : [Sections -> RawSections]]
ASSUME SavesAreDocuments == Documents \subseteq Docs

NoSelection == [mode |-> "absent", except |-> {}]
NoSection == [table |-> TRUE, strange |-> FALSE, min_release_age |-> "absent",
              version_policy |-> "absent", no_update |-> "absent", mode |-> "absent",
              selection |-> NoSelection]
NoLimits == [manager_concurrency |-> Unset, audit_concurrency |-> Unset]
EmptyDoc == [toml |-> TRUE, upgate |-> NoLimits, section |-> [s \in Sections |-> NoSection]]
Junk == [EmptyDoc EXCEPT !.toml = FALSE]

\* serde reads the file into typed sections: a section that is no table or
\* has a key of no such name is an error, a section of an unknown name is not.
Loads(doc) == doc.toml /\ \A s \in Sections : doc.section[s].table /\ ~doc.section[s].strange

------------------------------------------------------------------------------
\* Resolving one manager.

DefaultPolicy == [mode |-> "include", except |-> {}]
SelectionPolicies == [mode : {"include", "skip"}, except : SUBSET Packages]

\* parse_selection_policy
SelectionOf(selection) ==
    [mode |-> IF selection.mode = "absent" THEN "include" ELSE selection.mode,
     except |-> selection.except]

AgeOK(m, age) ==
    /\ age \in DOMAIN Hours
    /\ m \in WholeDays => Hours[age] % 24 = 0
VersionPolicyOK(m, p) == p \in VersionPolicies \cap Supported[m]

Resolves(c, m) ==
    LET section == c.section[m]
    IN  /\ section.min_release_age # "absent" => AgeOK(m, section.min_release_age)
        /\ section.version_policy # "absent" => VersionPolicyOK(m, section.version_policy)
        /\ section.mode # "absent" => section.mode \in Modes
        /\ SelectionOf(section.selection) \in SelectionPolicies

ModeOf(c, m) ==
    IF c.section[m].mode # "absent" THEN c.section[m].mode
    ELSE IF m \in OnByDefault THEN "apply" ELSE "off"

\* manager_mode_allows_run for apply
MayApply(c, m) == ModeOf(c, m) = "apply"

ManagerConcurrency(c) ==
    IF c.upgate.manager_concurrency = Unset THEN 4 ELSE c.upgate.manager_concurrency
AuditConcurrency(c) ==
    IF c.upgate.audit_concurrency = Unset THEN 8 ELSE c.upgate.audit_concurrency
ManagerConcurrencyOK(n) == n > 0
AuditConcurrencyOK(n) == n \in 1..16

------------------------------------------------------------------------------
\* The command line, laid over the copy in memory.  A --set that does not
\* have the form section.key=value is one with a section nobody knows.

OverrideOK(o) ==
    \/ /\ o.section = "upgate"
       /\ \/ o.key = "manager_concurrency" /\ ManagerConcurrencyOK(o.number)
          \/ o.key = "audit_concurrency" /\ AuditConcurrencyOK(o.number)
    \/ /\ o.section \in Managers
       /\ \/ o.key = "min_release_age" /\ AgeOK(o.section, o.value)
          \/ o.key = "version_policy" /\ VersionPolicyOK(o.section, o.value)
          \/ o.key = "no_update" /\ o.section \in SkipsUpdate /\ o.value \in {"true", "false"}
          \/ o.key = "mode" /\ o.value \in Modes

Overridden(c, o) ==
    IF o.section = "upgate"
    THEN [c EXCEPT !.upgate[o.key] = o.number]
    ELSE [c EXCEPT !.section[o.section][o.key] = o.value]

\* apply_selected_managers_cli_override
WithSelectedManagers(c, managers) ==
    [c EXCEPT !.section = [s \in Sections |->
        IF \E i \in DOMAIN managers : managers[i] = s
        THEN [c.section[s] EXCEPT !.mode = "apply"] ELSE c.section[s]]]

\* All managers when the command line names none.
Listed(managers) == IF managers = <<>> THEN Order ELSE managers

EveryMention(managers) == DOMAIN Listed(managers)

\* selected_manager_ids: the places of the managers to run, each one's first.
Asked(managers) ==
    {i \in DOMAIN Listed(managers) : \A j \in 1..(i - 1) : Listed(managers)[j] # Listed(managers)[i]}

------------------------------------------------------------------------------
\* A run, up to the screen.

Init ==
    /\ disk \in Documents
    /\ edits = 0
    /\ pc = [s \in Sessions |-> "idle"]
    /\ cmd \in [Sessions -> Commands]
    /\ config = [s \in Sessions |-> EmptyDoc]
    /\ next = [s \in Sessions |-> 1]
    /\ runnable = [s \in Sessions |-> {}]
    /\ policy = [s \in Sessions |-> [m \in Managers |-> DefaultPolicy]]
    /\ todo = [s \in Sessions |-> {}]
    /\ draft = [s \in Sessions |-> EmptyDoc]
    /\ everSaved = {disk}
    /\ base = [s \in Sessions |-> EmptyDoc]
    /\ disturbed = [s \in Sessions |-> FALSE]

Goto(s, place) == pc' = [pc EXCEPT ![s] = place]
DiskUnchanged == UNCHANGED <<disk, edits, history>>
Fail(s) == Goto(s, "failed") /\ UNCHANGED runVars /\ DiskUnchanged

\* ConfigFile::load; reading a file that is there may also fail.
Load(s) ==
    /\ pc[s] = "idle"
    /\ Loads(disk)
    /\ config' = [config EXCEPT ![s] = disk]
    /\ Goto(s, "select")
    /\ UNCHANGED <<cmd, next, runnable, policy, todo, draft>>
    /\ DiskUnchanged
LoadFails(s) == pc[s] = "idle" /\ Fail(s)

KnowsAll(managers) == \A i \in DOMAIN managers : managers[i] \in Managers

SelectManagers(s) ==
    /\ pc[s] = "select"
    /\ KnowsAll(cmd[s].managers)
    /\ config' = [config EXCEPT ![s] = WithSelectedManagers(@, cmd[s].managers)]
    /\ Goto(s, "override")
    /\ UNCHANGED <<cmd, next, runnable, policy, todo, draft>>
    /\ DiskUnchanged
SelectsUnknown(s) == pc[s] = "select" /\ ~KnowsAll(cmd[s].managers) /\ Fail(s)

Override(s) ==
    /\ pc[s] = "override"
    /\ next[s] \in DOMAIN cmd[s].overrides
    /\ OverrideOK(cmd[s].overrides[next[s]])
    /\ config' = [config EXCEPT ![s] = Overridden(@, cmd[s].overrides[next[s]])]
    /\ next' = [next EXCEPT ![s] = @ + 1]
    /\ UNCHANGED <<pc, cmd, runnable, policy, todo, draft>>
    /\ DiskUnchanged
OverrideFails(s) ==
    /\ pc[s] = "override"
    /\ next[s] \in DOMAIN cmd[s].overrides
    /\ ~OverrideOK(cmd[s].overrides[next[s]])
    /\ Fail(s)

\* prepare_interactive_manager_configs, available_manager_configs and the two
\* limits.  --manager-concurrency is one more override, of a value above 0.
Manager(s, i) == Listed(cmd[s].managers)[i]
AllResolve(s) == \A i \in Asked(cmd[s].managers) : Resolves(config[s], Manager(s, i))
Limited(s) ==
    IF cmd[s].concurrency = Unset THEN config[s]
    ELSE [config[s] EXCEPT !.upgate.manager_concurrency = cmd[s].concurrency]
LimitsOK(c) == ManagerConcurrencyOK(ManagerConcurrency(c)) /\ AuditConcurrencyOK(AuditConcurrency(c))

Resolving(s) == pc[s] = "override" /\ next[s] \notin DOMAIN cmd[s].overrides

Resolve(s) ==
    /\ Resolving(s)
    /\ AllResolve(s)
    /\ \E available \in SUBSET Managers :
         LET found == {i \in Asked(cmd[s].managers) :
                          MayApply(config[s], Manager(s, i)) /\ Manager(s, i) \in available}
         IN  IF found = {}
             THEN Goto(s, "done") /\ UNCHANGED <<config, runnable>>
             ELSE /\ LimitsOK(Limited(s))
                  /\ config' = [config EXCEPT ![s] = Limited(s)]
                  /\ runnable' = [runnable EXCEPT ![s] = found]
                  /\ Goto(s, "screen")
    /\ UNCHANGED <<cmd, next, policy, todo, draft>>
    /\ DiskUnchanged
ResolveFails(s) == Resolving(s) /\ ~AllResolve(s) /\ Fail(s)
LimitsFail(s) ==
    /\ Resolving(s)
    /\ AllResolve(s)
    /\ \E i \in Asked(cmd[s].managers) : MayApply(config[s], Manager(s, i))
    /\ ~LimitsOK(Limited(s))
    /\ Fail(s)

\* The screen: the user confirms any policy, removals already taken out of
\* it; or leaves, or planning fails.  A dry run saves nothing.
Confirm(s) ==
    /\ pc[s] = "screen"
    /\ \E chosen \in [{Manager(s, i) : i \in runnable[s]} -> SelectionPolicies] :
         policy' = [policy EXCEPT ![s] =
            [m \in Managers |-> IF m \in DOMAIN chosen THEN chosen[m] ELSE @[m]]]
    /\ IF cmd[s].dryRun THEN Goto(s, "run") /\ UNCHANGED <<todo, base, disturbed>>
       ELSE /\ Goto(s, "save")
            /\ todo' = [todo EXCEPT ![s] = runnable[s]]
            /\ base' = [base EXCEPT ![s] = disk]
            /\ disturbed' = [disturbed EXCEPT ![s] = FALSE]
    /\ UNCHANGED <<cmd, config, next, runnable, draft, disk, edits, everSaved>>
Leave(s) ==
    /\ pc[s] = "screen"
    /\ \/ Goto(s, "done")
       \/ Goto(s, "failed")
    /\ UNCHANGED runVars /\ DiskUnchanged

------------------------------------------------------------------------------
\* Saving the policies, one manager at a time.

\* set_manager_selection_policy; the default policy is what an absent table says.
SelectionTable(p) == IF p = DefaultPolicy THEN NoSelection ELSE p
Remembering(c, m, p) == [c EXCEPT !.section[m].selection = p]

LeaveDefault(doc, m, p) ==
    IF p = DefaultPolicy THEN doc ELSE [doc EXCEPT !.section[m].selection = p]

\* persist_manager_selection_policy: the file is read again, and only the
\* selection table of this manager is replaced or taken out.
Edited(doc, m, p) == [doc EXCEPT !.section[m].selection = SelectionTable(p)]

First(places) == {i \in places : \A j \in places : i <= j}

SaveFromMemory(s) ==
    /\ pc[s] = "save"
    /\ \E i \in First(todo[s]) :
         LET m == Manager(s, i)
             c == Remembering(config[s], m, policy[s][m])
         IN  /\ config' = [config EXCEPT ![s] = c]
             /\ draft' = [draft EXCEPT ![s] = Edited(c, m, policy[s][m])]
    /\ Goto(s, "empty")
    /\ UNCHANGED <<cmd, next, runnable, policy, todo>>
    /\ DiskUnchanged

Reread(s) ==
    /\ pc[s] = "save"
    /\ \E i \in First(todo[s]) :
         LET m == Manager(s, i)
             c == Remembering(config[s], m, policy[s][m])
         IN  /\ config' = [config EXCEPT ![s] = c]
             /\ disk.toml /\ disk.section[m].table
             /\ draft' = [draft EXCEPT ![s] = Edited(disk, m, SelectionOf(c.section[m].selection))]
    /\ Goto(s, "empty")
    /\ UNCHANGED <<cmd, next, runnable, policy, todo>>
    /\ DiskUnchanged
RereadFails(s) == pc[s] = "save" /\ Fail(s)

\* Everybody in the middle of saving, but this run.
Disturb(s) ==
    disturbed' = [t \in Sessions |->
        disturbed[t] \/ (t # s /\ pc[t] \in {"save", "empty", "fill", "run"})]

\* fs::write opens the file and cuts it to nothing ...
Empty(s) ==
    /\ pc[s] = "empty"
    /\ disk' = EmptyDoc
    /\ Disturb(s)
    /\ Goto(s, "fill")
    /\ UNCHANGED runVars /\ UNCHANGED <<edits, everSaved, base>>
EmptyFails(s) == pc[s] = "empty" /\ Fail(s)

\* ... and fills it.
Fill(s) ==
    /\ pc[s] = "fill"
    /\ disk' = draft[s]
    /\ Disturb(s)
    /\ todo' = [todo EXCEPT ![s] = @ \ First(@)]
    /\ Goto(s, IF todo[s] = First(todo[s]) THEN "run" ELSE "save")
    /\ UNCHANGED <<cmd, config, next, runnable, policy, draft, edits, everSaved, base>>

\* A write that fails, or a run that is killed in it, leaves a part of the text:
\* some of the sections, or what no reader accepts.
Part(doc, kept) ==
    [doc EXCEPT !.section = [x \in Sections |-> IF x \in kept THEN doc.section[x] ELSE NoSection],
                !.upgate = IF "upgate" \in kept THEN doc.upgate ELSE NoLimits]
FillCut(s) ==
    /\ pc[s] = "fill"
    /\ \/ disk' = Junk
       \/ \E kept \in SUBSET (Sections \cup {"upgate"}) : disk' = Part(draft[s], kept)
    /\ Disturb(s)
    /\ Goto(s, "failed")
    /\ UNCHANGED runVars /\ UNCHANGED <<edits, everSaved, base>>

\* Ctrl-C, a signal or a power cut, anywhere but in the middle of the write.
Killed(s) ==
    /\ pc[s] \in {"select", "override", "screen", "save", "empty"}
    /\ Fail(s)

\* The commands have run.
Finish(s) == pc[s] = "run" /\ Goto(s, "done") /\ UNCHANGED runVars /\ DiskUnchanged

\* The user saves the file in an editor.
UserSaves ==
    /\ edits < MaxEdits
    /\ \E doc \in Documents :
         /\ disk' = doc
         /\ everSaved' = everSaved \cup {doc}
    /\ edits' = edits + 1
    /\ disturbed' = [t \in Sessions |-> disturbed[t] \/ pc[t] \in {"save", "empty", "fill", "run"}]
    /\ UNCHANGED <<pc, base>> /\ UNCHANGED runVars

Saving(s) == Reread(s) \/ RereadFails(s) \/ Empty(s) \/ EmptyFails(s) \/ Fill(s) \/ FillCut(s)
Run(s) ==
    \/ Load(s) \/ LoadFails(s) \/ SelectManagers(s) \/ SelectsUnknown(s)
    \/ Override(s) \/ OverrideFails(s) \/ Resolve(s) \/ ResolveFails(s) \/ LimitsFail(s)
    \/ Confirm(s) \/ Leave(s) \/ Saving(s) \/ Killed(s) \/ Finish(s)

Over == \A s \in Sessions : pc[s] \in {"done", "failed"}
Next ==
    \/ \E s \in Sessions : Run(s)
    \/ UserSaves
    \/ Over /\ UNCHANGED vars
Spec == Init /\ [][Next]_vars

------------------------------------------------------------------------------
\* Properties.

Places == {"idle", "select", "override", "screen", "save", "empty", "fill", "run", "done", "failed"}
TypeOK ==
    /\ disk \in Docs
    /\ edits \in 0..MaxEdits
    /\ pc \in [Sessions -> Places]
    /\ cmd \in [Sessions -> Commands]
    /\ config \in [Sessions -> Docs]
    /\ next \in [Sessions -> Nat]
    /\ runnable \in [Sessions -> SUBSET Nat]
    /\ policy \in [Sessions -> [Managers -> SelectionPolicies]]
    /\ todo \in [Sessions -> SUBSET Nat]
    /\ draft \in [Sessions -> Docs]
    /\ everSaved \subseteq Docs
    /\ base \in [Sessions -> Docs]
    /\ disturbed \in [Sessions -> BOOLEAN]

\* What of a section does not belong to the screen.
Bare(section) == [section EXCEPT !.selection = NoSelection]

\* No value the user did not write gets into the file: the mode a manager has
\* because the command line named it, and every --set, "for this run", stay in
\* memory whatever is saved, cut short or overwritten.
OverridesNeverSaved ==
    disk.toml =>
        /\ \A x \in Sections :
             Bare(disk.section[x]) \in {NoSection} \cup {Bare(doc.section[x]) : doc \in everSaved}
        /\ disk.upgate \in {NoLimits} \cup {doc.upgate : doc \in everSaved}

\* The text saved for a policy is read back as that policy, for the default,
\* which is written by leaving it out, like for the others; and saving one
\* manager's policy does not undo the one saved before it.  (Unless somebody
\* else writes the file between the confirmation and the commands.)
Saved(s) == pc[s] = "run" /\ ~cmd[s].dryRun
InFile(s, m) == SelectionOf(disk.section[m].selection) = policy[s][m]
ConfirmedIsSaved ==
    \A s \in Sessions : Saved(s) /\ ~disturbed[s] =>
        \A i \in runnable[s] : InFile(s, Manager(s, i))

\* Saving keeps everything else as it is in the file at the confirmation, not
\* as it was when the run read it: what the user changed while the screen was
\* open, other sections, keys the run itself would reject.
OnlySelectionsChange ==
    \A s \in Sessions : Saved(s) /\ ~disturbed[s] =>
        /\ disk.upgate = base[s].upgate
        /\ \A x \in Sections :
             IF \E i \in runnable[s] : Manager(s, i) = x
             THEN Bare(disk.section[x]) = Bare(base[s].section[x])
             ELSE disk.section[x] = base[s].section[x]

\* A save is exactly what was confirmed: every confirmed policy is in the file
\* when the commands run, and nothing else in it has changed.
SavesExactly == ConfirmedIsSaved /\ OnlySelectionsChange

\* A manager the file gives sound settings never becomes one that cannot be
\* resolved: what the command line and the screen put in memory is judged, when
\* it is put there, by the rules it will be resolved by.
SoundStaysSound ==
    [][\A s \in Sessions, m \in Managers :
        pc[s] # "idle" /\ Resolves(config[s], m) => Resolves(config'[s], m)]_vars

\* The mode a manager is meant to have, read off the command line: the last
\* --set of it, else apply if the manager is named, else the file's, else the
\* manager's own.
LastMode(s, m) ==
    {i \in DOMAIN cmd[s].overrides :
        /\ cmd[s].overrides[i].section = m /\ cmd[s].overrides[i].key = "mode"
        /\ \A j \in DOMAIN cmd[s].overrides :
             cmd[s].overrides[j].section = m /\ cmd[s].overrides[j].key = "mode" => j <= i}
Named(s, m) == \E i \in DOMAIN cmd[s].managers : cmd[s].managers[i] = m
MeantToApply(s, m) ==
    IF LastMode(s, m) # {} THEN \A i \in LastMode(s, m) : cmd[s].overrides[i].value = "apply"
    ELSE Named(s, m) \/ (cmd[s].managers = <<>> /\ MayApply(config[s], m))

\* What reaches the screen, and so may run, is what was asked for: a manager
\* set to "off" or "plan" does not, one that was not named does not, and none
\* comes twice.
RunsWhatWasAsked ==
    \A s \in Sessions : pc[s] = "screen" =>
        /\ \A i \in runnable[s] : MeantToApply(s, Manager(s, i))
        /\ \A i \in runnable[s], j \in runnable[s] : i # j => Manager(s, i) # Manager(s, j)

==============================================================================
