--------------------------- MODULE ConfigFileProofs ---------------------------
(***************************************************************************)
(* What ConfigFile promises, for any number of runs and of managers, every *)
(* command line and every file the user may save, as often as he likes.    *)
(***************************************************************************)
EXTENDS ConfigFile, TLAPS

------------------------------------------------------------------------------
(* Documents *)

\* The constant documents are documents.
LEMMA EmptyIsDoc ==
  EmptyDoc \in Docs /\ Junk \in Docs /\ NoSection \in RawSections /\ NoLimits \in RawLimits
<1>1. NoSelection \in RawSelections
  BY Vocabulary DEF NoSelection, RawSelections
<1>2. NoSection \in RawSections
  BY <1>1, Vocabulary DEF NoSection, RawSections
<1>3. NoLimits \in RawLimits
  BY DEF NoLimits, RawLimits, Unset
<1> QED
  BY <1>2, <1>3 DEF EmptyDoc, Junk, Docs

\* A resolved policy is a table one may find in a file, and is read as itself.
LEMMA PolicyRoundTrip ==
  ASSUME NEW p \in SelectionPolicies
  PROVE  /\ p \in RawSelections
         /\ SelectionOf(p) = p
         /\ SelectionTable(p) \in RawSelections
         /\ SelectionOf(SelectionTable(p)) = p
<1>1. p \in RawSelections /\ p.mode # "absent"
  BY Vocabulary DEF SelectionPolicies, RawSelections
<1>2. SelectionOf(p) = p
  BY <1>1 DEF SelectionOf, RawSelections
<1>3. CASE p = DefaultPolicy
  <2>1. SelectionTable(p) = NoSelection
    BY <1>3 DEF SelectionTable
  <2>2. NoSelection \in RawSelections /\ SelectionOf(NoSelection) = DefaultPolicy
    BY Vocabulary DEF NoSelection, RawSelections, SelectionOf, DefaultPolicy
  <2> QED
    BY <1>1, <1>2, <1>3, <2>1, <2>2
<1>4. CASE p # DefaultPolicy
  BY <1>1, <1>2, <1>4 DEF SelectionTable
<1> QED
  BY <1>3, <1>4

WithTable(doc, m, table) == [doc EXCEPT !.section[m].selection = table]

\* Giving a section another selection table gives it nothing else.
LEMMA SelectionSet ==
  ASSUME NEW doc \in Docs, NEW m \in Sections, NEW table \in RawSelections
  PROVE  /\ WithTable(doc, m, table) \in Docs
         /\ WithTable(doc, m, table).toml = doc.toml /\ WithTable(doc, m, table).upgate = doc.upgate
         /\ \A x \in Sections : x # m => WithTable(doc, m, table).section[x] = doc.section[x]
         /\ \A x \in Sections : Bare(WithTable(doc, m, table).section[x]) = Bare(doc.section[x])
         /\ WithTable(doc, m, table).section[m].selection = table
         /\ WithTable(doc, m, table).section[m].min_release_age = doc.section[m].min_release_age
         /\ WithTable(doc, m, table).section[m].version_policy = doc.section[m].version_policy
         /\ WithTable(doc, m, table).section[m].mode = doc.section[m].mode
<1> DEFINE new == WithTable(doc, m, table)
           old == doc.section[m]
           sec == [old EXCEPT !.selection = table]
<1>1. old \in RawSections
  BY DEF Docs
<1>2. sec \in RawSections /\ Bare(sec) = Bare(old) /\ sec.selection = table
      /\ sec.min_release_age = old.min_release_age /\ sec.version_policy = old.version_policy
      /\ sec.mode = old.mode
  BY <1>1 DEF RawSections, Bare
<1>3. new.section = [doc.section EXCEPT ![m] = sec] /\ new.toml = doc.toml /\ new.upgate = doc.upgate
      /\ DOMAIN new = DOMAIN doc
  BY DEF Docs, WithTable
<1>4. new.section \in [Sections -> RawSections]
  <2> HIDE DEF sec
  <2> QED BY <1>2, <1>3 DEF Docs
<1>5. new \in Docs
  <2>1. new = [toml |-> doc.toml, upgate |-> doc.upgate, section |-> [doc.section EXCEPT ![m] = sec]]
    BY DEF Docs, WithTable
  <2> QED BY <1>3, <1>4, <2>1 DEF Docs
<1>6. new.section[m] = sec /\ \A x \in Sections : x # m => new.section[x] = doc.section[x]
  <2> HIDE DEF sec
  <2> QED BY <1>3 DEF Docs
<1> HIDE DEF sec
<1> QED
  BY <1>2, <1>3, <1>5, <1>6

\* One key of one section, or one limit, replaced by a sound value.
LEMMA OverrideSound ==
  ASSUME NEW c \in Docs, NEW o, o.value \in Texts, o.number \in Int, OverrideOK(o)
  PROVE  /\ Overridden(c, o) \in Docs
         /\ \A m \in Managers : Resolves(c, m) => Resolves(Overridden(c, o), m)
<1> DEFINE new == Overridden(c, o)
<1>1. CASE o.section = "upgate"
  <2>1. o.key \in {"manager_concurrency", "audit_concurrency"}
    BY <1>1, NoStrangers DEF OverrideOK, Sections
  <2>2. new = [c EXCEPT !.upgate = [c.upgate EXCEPT ![o.key] = o.number]]
    BY <1>1 DEF Overridden, Docs
  <2>3. [c.upgate EXCEPT ![o.key] = o.number] \in RawLimits
    BY <2>1 DEF Docs, RawLimits
  <2>4. new \in Docs /\ new.section = c.section
    BY <2>2, <2>3 DEF Docs
  <2> QED
    BY <2>4 DEF Resolves
<1>2. CASE o.section # "upgate"
  <2> DEFINE m == o.section
             old == c.section[m]
             sec == [old EXCEPT ![o.key] = o.value]
  <2>1. m \in Managers /\ m \in Sections
    BY <1>2 DEF OverrideOK, Sections
  <2>2. o.key \in {"min_release_age", "version_policy", "no_update", "mode"}
    BY <1>2 DEF OverrideOK
  <2>3. old \in RawSections
    BY <2>1 DEF Docs
  <2>4. sec \in RawSections
    BY <2>2, <2>3 DEF RawSections
  <2>5. /\ sec.selection = old.selection
        /\ sec.min_release_age = old.min_release_age \/ (o.key = "min_release_age" /\ sec.min_release_age = o.value)
        /\ sec.version_policy = old.version_policy \/ (o.key = "version_policy" /\ sec.version_policy = o.value)
        /\ sec.mode = old.mode \/ (o.key = "mode" /\ sec.mode = o.value)
    BY <2>2, <2>3 DEF RawSections
  <2>6. new = [c EXCEPT !.section = [c.section EXCEPT ![m] = sec]]
    BY <1>2 DEF Overridden, Docs
  <2> HIDE DEF sec
  <2>7. new \in Docs /\ new.section[m] = sec /\ \A x \in Sections : x # m => new.section[x] = c.section[x]
    BY <2>1, <2>4, <2>6 DEF Docs
  <2>8. Resolves(c, m) => Resolves(new, m)
    BY <1>2, <2>5, <2>7 DEF Resolves, OverrideOK
  <2> HIDE DEF new, m
  <2>9. ASSUME NEW n \in Managers, n # m, Resolves(c, n)
        PROVE  Resolves(new, n)
    BY <2>7, <2>9 DEF Resolves, Sections
  <2> QED
    BY <2>7, <2>8, <2>9 DEF m, new
<1> QED
  BY <1>1, <1>2

\* Naming managers sets nothing but sound modes.
LEMMA SelectSound ==
  ASSUME NEW c \in Docs, NEW managers
  PROVE  /\ WithSelectedManagers(c, managers) \in Docs
         /\ \A m \in Managers : Resolves(c, m) => Resolves(WithSelectedManagers(c, managers), m)
<1> DEFINE new == WithSelectedManagers(c, managers)
           apply(x) == [c.section[x] EXCEPT !.mode = "apply"]
<1>1. \A x \in Sections : /\ apply(x) \in RawSections
                          /\ apply(x).selection = c.section[x].selection
                          /\ apply(x).min_release_age = c.section[x].min_release_age
                          /\ apply(x).version_policy = c.section[x].version_policy
                          /\ apply(x).mode = "apply"
  <2> SUFFICES ASSUME NEW x \in Sections
               PROVE  /\ apply(x) \in RawSections
                      /\ apply(x).selection = c.section[x].selection
                      /\ apply(x).min_release_age = c.section[x].min_release_age
                      /\ apply(x).version_policy = c.section[x].version_policy
                      /\ apply(x).mode = "apply"
    OBVIOUS
  <2>1. c.section[x] \in RawSections /\ "apply" \in Texts
    BY Vocabulary DEF Docs, Modes
  <2> QED
    BY <2>1 DEF RawSections
<1>2. new.section = [x \in Sections |->
                      IF \E i \in DOMAIN managers : managers[i] = x THEN apply(x) ELSE c.section[x]]
      /\ new = [c EXCEPT !.section = new.section]
  BY DEF WithSelectedManagers, Docs
<1> HIDE DEF new, apply
<1>3. new.section \in [Sections -> RawSections]
  BY <1>1, <1>2 DEF Docs
<1>4. new \in Docs
  BY <1>2, <1>3 DEF Docs
<1>5. ASSUME NEW m \in Managers, Resolves(c, m)
      PROVE  Resolves(new, m)
  <2>1. m \in Sections
    BY DEF Sections
  <2>2. new.section[m] = apply(m) \/ new.section[m] = c.section[m]
    BY <1>2, <2>1
  <2>3. CASE new.section[m] = c.section[m]
    BY <1>5, <2>3 DEF Resolves
  <2>4. CASE new.section[m] = apply(m)
    BY <1>1, <1>5, <2>1, <2>4 DEF Resolves, Modes
  <2> QED
    BY <2>2, <2>3, <2>4
<1> QED
  BY <1>4, <1>5 DEF new

\* Remembering a confirmed policy, and writing it.
LEMMA RememberSound ==
  ASSUME NEW c \in Docs, NEW m \in Sections, NEW p \in SelectionPolicies
  PROVE  /\ Remembering(c, m, p) \in Docs
         /\ Remembering(c, m, p).section[m].selection = p
         /\ \A n \in Managers : Resolves(c, n) => Resolves(Remembering(c, m, p), n)
<1> DEFINE new == Remembering(c, m, p)
<1>1. p \in RawSelections /\ SelectionOf(p) = p
  BY PolicyRoundTrip
<1>2. new = WithTable(c, m, p)
  BY DEF Remembering, WithTable
<1> HIDE DEF new
<1>3. /\ new \in Docs
      /\ \A x \in Sections : x # m => new.section[x] = c.section[x]
      /\ new.section[m].selection = p
      /\ new.section[m].min_release_age = c.section[m].min_release_age
      /\ new.section[m].version_policy = c.section[m].version_policy
      /\ new.section[m].mode = c.section[m].mode
  BY <1>1, <1>2, SelectionSet
<1>4. ASSUME NEW n \in Managers, Resolves(c, n)
      PROVE  Resolves(new, n)
  <2>1. CASE n = m
    BY <1>1, <1>3, <1>4, <2>1 DEF Resolves
  <2>2. CASE n # m
    BY <1>3, <1>4, <2>2 DEF Resolves, Sections
  <2> QED
    BY <2>1, <2>2
<1> QED
  BY <1>3, <1>4 DEF new

LEMMA EditSound ==
  ASSUME NEW doc \in Docs, NEW m \in Sections, NEW p \in SelectionPolicies
  PROVE  /\ Edited(doc, m, p) \in Docs
         /\ Edited(doc, m, p).toml = doc.toml
         /\ Edited(doc, m, p).upgate = doc.upgate
         /\ \A x \in Sections : x # m => Edited(doc, m, p).section[x] = doc.section[x]
         /\ \A x \in Sections : Bare(Edited(doc, m, p).section[x]) = Bare(doc.section[x])
         /\ SelectionOf(Edited(doc, m, p).section[m].selection) = p
<1> DEFINE new == Edited(doc, m, p)
<1>1. SelectionTable(p) \in RawSelections /\ SelectionOf(SelectionTable(p)) = p
  BY PolicyRoundTrip
<1>2. new = WithTable(doc, m, SelectionTable(p))
  BY DEF Edited, WithTable
<1> HIDE DEF new
<1> QED
  BY <1>1, <1>2, SelectionSet DEF new

\* A cut text is a document of some of the sections.
LEMMA PartIsDoc ==
  ASSUME NEW doc \in Docs, NEW kept
  PROVE  /\ Part(doc, kept) \in Docs
         /\ Part(doc, kept).toml = doc.toml
         /\ Part(doc, kept).upgate \in {doc.upgate, NoLimits}
         /\ \A x \in Sections : Part(doc, kept).section[x] \in {doc.section[x], NoSection}
<1>1. NoSection \in RawSections /\ NoLimits \in RawLimits
  BY EmptyIsDoc
<1> QED
  BY <1>1 DEF Part, Docs

------------------------------------------------------------------------------
(* Types *)

\* A run past the command line knows the managers it was given, and works on
\* places of their list.
Listing ==
  \A s \in Sessions :
    /\ pc[s] \in {"override", "screen", "save", "empty", "fill", "run"} => KnowsAll(cmd[s].managers)
    /\ runnable[s] \subseteq DOMAIN Listed(cmd[s].managers)
    /\ todo[s] \subseteq DOMAIN Listed(cmd[s].managers)

LEMMA CommandType ==
  ASSUME TypeOK, NEW s \in Sessions
  PROVE  /\ cmd[s].managers \in Seq(Texts)
         /\ cmd[s].concurrency \in Int
         /\ \A i \in DOMAIN cmd[s].overrides :
              cmd[s].overrides[i].value \in Texts /\ cmd[s].overrides[i].number \in Int
<1> DEFINE Line == [section : Texts, key : Texts, value : Texts, number : Int]
<1>1. cmd[s] \in [managers : Seq(Texts), overrides : Seq(Line),
                  concurrency : {Unset} \cup (Nat \ {0}), dryRun : BOOLEAN]
  BY CommandLines DEF TypeOK
<1>2. cmd[s].managers \in Seq(Texts) /\ cmd[s].concurrency \in Int
  BY <1>1 DEF Unset
<1>3. cmd[s].overrides \in Seq(Line)
  BY <1>1
<1>4. ASSUME NEW i \in DOMAIN cmd[s].overrides
      PROVE  cmd[s].overrides[i] \in Line
  <2> HIDE DEF Line
  <2> QED BY <1>3
<1> QED
  BY <1>2, <1>4

LEMMA ManagerType ==
  ASSUME TypeOK, NEW s \in Sessions, KnowsAll(cmd[s].managers),
         NEW i \in DOMAIN Listed(cmd[s].managers)
  PROVE  i \in Nat /\ Manager(s, i) \in Managers /\ Manager(s, i) \in Sections
<1>1. cmd[s].managers \in Seq(Texts)
  BY CommandType
<1> QED
  BY <1>1, OrderIsAll DEF Listed, Manager, KnowsAll, Sections

LEMMA TypeInit == Init => TypeOK /\ Listing
<1> SUFFICES ASSUME Init PROVE TypeOK /\ Listing
  OBVIOUS
<1>1. DefaultPolicy \in SelectionPolicies
  BY DEF DefaultPolicy, SelectionPolicies
<1>2. TypeOK
  <2>1. [m \in Managers |-> DefaultPolicy] \in [Managers -> SelectionPolicies]
    BY <1>1
  <2> HIDE DEF DefaultPolicy
  <2> QED
    BY <2>1, EmptyIsDoc, SavesAreDocuments, EditsBounded DEF Init, TypeOK, Places
<1>3. Listing
  BY DEF Init, Listing
<1> QED
  BY <1>2, <1>3

\* A step that only fails.
LEMMA FailType ==
  ASSUME TypeOK, Listing, NEW s \in Sessions, Fail(s)
  PROVE  TypeOK' /\ Listing'
<1>1. /\ UNCHANGED <<disk, edits, cmd, config, next, runnable, policy, todo, draft, everSaved, base, disturbed>>
      /\ pc' = [pc EXCEPT ![s] = "failed"]
  BY DEF Fail, Goto, runVars, DiskUnchanged, history
<1>2. TypeOK'
  BY <1>1 DEF TypeOK, Places
<1>3. Listing'
  BY <1>1 DEF Listing, TypeOK
<1> QED
  BY <1>2, <1>3

LEMMA RunType ==
  ASSUME TypeOK, Listing, NEW s \in Sessions, Run(s)
  PROVE  TypeOK' /\ Listing'
<1>1. CASE Fail(s)
  BY <1>1, FailType
<1>2. CASE Load(s)
  <2>1. TypeOK'
    BY <1>2 DEF Load, Goto, DiskUnchanged, history, TypeOK, Places
  <2>2. Listing'
    BY <1>2 DEF Load, Goto, DiskUnchanged, history, TypeOK, Listing
  <2> QED BY <2>1, <2>2
<1>3. CASE SelectManagers(s)
  <2>1. WithSelectedManagers(config[s], cmd[s].managers) \in Docs
    BY SelectSound DEF TypeOK
  <2>2. TypeOK'
    BY <1>3, <2>1 DEF SelectManagers, Goto, DiskUnchanged, history, TypeOK, Places
  <2>3. Listing'
    BY <1>3 DEF SelectManagers, Goto, DiskUnchanged, history, TypeOK, Listing
  <2> QED BY <2>2, <2>3
<1>4. CASE Override(s)
  <2>1. Overridden(config[s], cmd[s].overrides[next[s]]) \in Docs
    BY <1>4, OverrideSound, CommandType DEF TypeOK, Override
  <2>2. TypeOK'
    BY <1>4, <2>1 DEF Override, DiskUnchanged, history, TypeOK
  <2>3. Listing'
    BY <1>4 DEF Override, DiskUnchanged, history, Listing
  <2> QED BY <2>2, <2>3
<1>5. CASE Resolve(s)
  <2>1. Limited(s) \in Docs
    <3>1. cmd[s].concurrency \in Int /\ config[s] \in Docs
      BY CommandType DEF TypeOK
    <3> QED
      BY <3>1 DEF Limited, Docs, RawLimits
  <2>2. PICK available \in SUBSET Managers :
          LET found == {i \in Asked(cmd[s].managers) :
                          MayApply(config[s], Manager(s, i)) /\ Manager(s, i) \in available}
          IN  IF found = {}
              THEN Goto(s, "done") /\ UNCHANGED <<config, runnable>>
              ELSE /\ LimitsOK(Limited(s))
                   /\ config' = [config EXCEPT ![s] = Limited(s)]
                   /\ runnable' = [runnable EXCEPT ![s] = found]
                   /\ Goto(s, "screen")
    BY <1>5 DEF Resolve
  <2> DEFINE found == {i \in Asked(cmd[s].managers) :
                          MayApply(config[s], Manager(s, i)) /\ Manager(s, i) \in available}
  <2>3. found \subseteq DOMAIN Listed(cmd[s].managers)
    BY DEF Asked
  <2>4. DOMAIN Listed(cmd[s].managers) \subseteq Nat
    BY CommandType, OrderIsAll DEF Listed
  <2>5. \/ Goto(s, "done") /\ UNCHANGED <<config, runnable>>
        \/ /\ config' = [config EXCEPT ![s] = Limited(s)]
           /\ runnable' = [runnable EXCEPT ![s] = found]
           /\ Goto(s, "screen")
    BY <2>2
  <2> HIDE DEF found
  <2>6. /\ UNCHANGED <<disk, edits, cmd, next, policy, todo, draft, everSaved, base, disturbed>>
        /\ pc[s] = "override"
    BY <1>5 DEF Resolve, Resolving, DiskUnchanged, history
  <2> HIDE DEF Docs
  <2>a. found \in SUBSET Nat
    BY <2>3, <2>4
  <2>b. /\ config' \in [Sessions -> Docs]
        /\ runnable' \in [Sessions -> SUBSET Nat]
        /\ pc' \in [Sessions -> Places]
    <3>1. CASE Goto(s, "done") /\ UNCHANGED <<config, runnable>>
      BY <3>1 DEF Goto, TypeOK, Places
    <3>2. CASE /\ config' = [config EXCEPT ![s] = Limited(s)]
               /\ runnable' = [runnable EXCEPT ![s] = found]
               /\ Goto(s, "screen")
      <4>1. config' \in [Sessions -> Docs]
        BY <2>1, <3>2 DEF TypeOK
      <4>2. runnable' \in [Sessions -> SUBSET Nat]
        BY <2>a, <3>2 DEF TypeOK
      <4>3. pc' \in [Sessions -> Places]
        BY <3>2 DEF Goto, TypeOK, Places
      <4> QED BY <4>1, <4>2, <4>3
    <3> QED BY <2>5, <3>1, <3>2
  <2>7. TypeOK'
    BY <2>b, <2>6 DEF TypeOK
  <2>8. Listing'
    BY <2>3, <2>5, <2>6 DEF Goto, TypeOK, Listing
  <2> QED BY <2>7, <2>8
<1>6. CASE Confirm(s)
  <2>1. PICK chosen \in [{Manager(s, i) : i \in runnable[s]} -> SelectionPolicies] :
          policy' = [policy EXCEPT ![s] =
            [m \in Managers |-> IF m \in DOMAIN chosen THEN chosen[m] ELSE policy[s][m]]]
    BY <1>6 DEF Confirm, TypeOK
  <2>2. policy' \in [Sessions -> [Managers -> SelectionPolicies]]
    BY <2>1 DEF TypeOK
  <2>a. /\ pc' \in [Sessions -> Places]
        /\ todo' \in [Sessions -> SUBSET Nat]
        /\ base' \in [Sessions -> Docs]
        /\ disturbed' \in [Sessions -> BOOLEAN]
    <3>1. CASE cmd[s].dryRun
      BY <1>6, <3>1 DEF Confirm, Goto, TypeOK, Places
    <3>2. CASE ~cmd[s].dryRun
      <4>1. pc' \in [Sessions -> Places]
        BY <1>6, <3>2 DEF Confirm, Goto, TypeOK, Places
      <4>2. todo' \in [Sessions -> SUBSET Nat]
        BY <1>6, <3>2 DEF Confirm, TypeOK
      <4>3. base' \in [Sessions -> Docs] /\ disturbed' \in [Sessions -> BOOLEAN]
        BY <1>6, <3>2 DEF Confirm, TypeOK
      <4> QED BY <4>1, <4>2, <4>3
    <3> QED BY <3>1, <3>2
  <2>3. TypeOK'
    BY <1>6, <2>2, <2>a DEF Confirm, TypeOK
  <2>4. Listing'
    BY <1>6 DEF Confirm, Goto, TypeOK, Listing
  <2> QED BY <2>3, <2>4
<1>7. CASE Leave(s)
  <2>1. TypeOK'
    BY <1>7 DEF Leave, Goto, runVars, DiskUnchanged, history, TypeOK, Places
  <2>2. Listing'
    BY <1>7 DEF Leave, Goto, runVars, DiskUnchanged, history, TypeOK, Listing
  <2> QED BY <2>1, <2>2
<1>8. CASE Reread(s)
  <2>1. PICK i \in First(todo[s]) :
          LET m == Manager(s, i)
              c == Remembering(config[s], m, policy[s][m])
          IN  /\ config' = [config EXCEPT ![s] = c]
              /\ draft' = [draft EXCEPT ![s] = Edited(disk, m, SelectionOf(c.section[m].selection))]
    BY <1>8 DEF Reread
  <2> DEFINE m == Manager(s, i)
             c == Remembering(config[s], m, policy[s][m])
  <2>2. m \in Managers /\ m \in Sections
    BY <1>8, ManagerType DEF Reread, Listing, First
  <2>3. policy[s][m] \in SelectionPolicies /\ config[s] \in Docs /\ disk \in Docs
    BY <2>2 DEF TypeOK
  <2>4. c \in Docs /\ c.section[m].selection = policy[s][m]
    BY <2>2, <2>3, RememberSound
  <2>5. Edited(disk, m, SelectionOf(c.section[m].selection)) \in Docs
    BY <2>2, <2>3, <2>4, PolicyRoundTrip, EditSound
  <2> HIDE DEF m, c
  <2>6. config' \in [Sessions -> Docs] /\ draft' \in [Sessions -> Docs]
    BY <2>1, <2>4, <2>5 DEF TypeOK, m, c
  <2>7. TypeOK'
    BY <1>8, <2>6 DEF Reread, Goto, DiskUnchanged, history, TypeOK, Places
  <2>8. Listing'
    BY <1>8 DEF Reread, Goto, DiskUnchanged, history, TypeOK, Listing
  <2> QED BY <2>7, <2>8
<1>9. CASE Empty(s)
  <2>1. disturbed' \in [Sessions -> BOOLEAN]
    BY <1>9 DEF Empty, Disturb, TypeOK
  <2>2. TypeOK'
    BY <1>9, <2>1, EmptyIsDoc DEF Empty, Goto, runVars, TypeOK, Places
  <2>3. Listing'
    BY <1>9 DEF Empty, Goto, runVars, TypeOK, Listing
  <2> QED BY <2>2, <2>3
<1>10. CASE Fill(s)
  <2>1. disturbed' \in [Sessions -> BOOLEAN]
    BY <1>10 DEF Fill, Disturb, TypeOK
  <2>2. TypeOK'
    BY <1>10, <2>1 DEF Fill, Goto, TypeOK, Places
  <2>3. Listing'
    BY <1>10 DEF Fill, Goto, TypeOK, Listing
  <2> QED BY <2>2, <2>3
<1>11. CASE FillCut(s)
  <2>1. disturbed' \in [Sessions -> BOOLEAN]
    BY <1>11 DEF FillCut, Disturb, TypeOK
  <2>2. disk' \in Docs
    BY <1>11, EmptyIsDoc, PartIsDoc DEF FillCut, TypeOK
  <2>3. TypeOK'
    BY <1>11, <2>1, <2>2 DEF FillCut, Goto, runVars, TypeOK, Places
  <2>4. Listing'
    BY <1>11 DEF FillCut, Goto, runVars, TypeOK, Listing
  <2> QED BY <2>3, <2>4
<1>12. CASE Finish(s)
  <2>1. TypeOK'
    BY <1>12 DEF Finish, Goto, runVars, DiskUnchanged, history, TypeOK, Places
  <2>2. Listing'
    BY <1>12 DEF Finish, Goto, runVars, DiskUnchanged, history, TypeOK, Listing
  <2> QED BY <2>1, <2>2
<1> QED
  BY <1>1, <1>2, <1>3, <1>4, <1>5, <1>6, <1>7, <1>8, <1>9, <1>10, <1>11, <1>12
     DEF Run, Saving, LoadFails, SelectsUnknown, OverrideFails, ResolveFails, LimitsFail,
         RereadFails, EmptyFails, Killed

LEMMA TypeStep == TypeOK /\ Listing /\ [Next]_vars => TypeOK' /\ Listing'
<1> SUFFICES ASSUME TypeOK, Listing, [Next]_vars PROVE TypeOK' /\ Listing'
  OBVIOUS
<1>1. CASE \E s \in Sessions : Run(s)
  BY <1>1, RunType
<1>2. CASE UserSaves
  <2>1. TypeOK'
    BY <1>2, SavesAreDocuments, EditsBounded DEF UserSaves, runVars, TypeOK
  <2>2. Listing'
    BY <1>2 DEF UserSaves, runVars, Listing
  <2> QED BY <2>1, <2>2
<1>3. CASE UNCHANGED vars
  BY <1>3 DEF vars, history, TypeOK, Listing
<1> QED
  BY <1>1, <1>2, <1>3 DEF Next

\* Every variable keeps its type.
THEOREM TypeCorrect == Spec => []TypeOK
<1> QED
  BY TypeInit, TypeStep, PTL DEF Spec

------------------------------------------------------------------------------
(* What the command line set stays in memory *)

\* A text made of what the user once saved.
Clean(doc) ==
  doc.toml =>
    /\ \A x \in Sections :
         Bare(doc.section[x]) \in {NoSection} \cup {Bare(d.section[x]) : d \in everSaved}
    /\ doc.upgate \in {NoLimits} \cup {d.upgate : d \in everSaved}

\* So is the file, and what is about to be written into it.
Untainted ==
  /\ Clean(disk)
  /\ \A s \in Sessions : pc[s] \in {"empty", "fill"} => Clean(draft[s])

LEMMA BareOfNothing == Bare(NoSection) = NoSection
<1>1. NoSection \in RawSections
  BY EmptyIsDoc
<1>2. NoSection.selection = NoSelection
  BY DEF NoSection
<1> QED
  BY <1>1, <1>2 DEF Bare, RawSections

LEMMA RunUntainted ==
  ASSUME TypeOK, Listing, Untainted, NEW s \in Sessions, Run(s)
  PROVE  Untainted'
<1> USE DEF Clean
<1>0. everSaved' = everSaved
  BY DEF Run, Saving, Load, LoadFails, SelectManagers, SelectsUnknown, Override, OverrideFails, Resolve,
         ResolveFails, LimitsFail, Confirm, Leave, Reread, RereadFails, Empty, EmptyFails, Fill, FillCut,
         Killed, Finish, Fail, DiskUnchanged, history
<1>1. CASE /\ UNCHANGED <<disk, draft>>
           /\ pc' \in [Sessions -> Places]
           /\ \A t \in Sessions : t # s => pc'[t] = pc[t]
           /\ pc'[s] \notin {"empty", "fill"}
  BY <1>0, <1>1 DEF Untainted
<1>2. CASE Reread(s)
  <2>1. PICK i \in First(todo[s]) :
          LET m == Manager(s, i)
              c == Remembering(config[s], m, policy[s][m])
          IN  draft' = [draft EXCEPT ![s] = Edited(disk, m, SelectionOf(c.section[m].selection))]
    BY <1>2 DEF Reread
  <2> DEFINE m == Manager(s, i)
             c == Remembering(config[s], m, policy[s][m])
             new == Edited(disk, m, SelectionOf(c.section[m].selection))
  <2>2. m \in Managers /\ m \in Sections
    BY <1>2, ManagerType DEF Reread, Listing, First
  <2>3. policy[s][m] \in SelectionPolicies /\ config[s] \in Docs /\ disk \in Docs
    BY <2>2 DEF TypeOK
  <2>4. SelectionOf(c.section[m].selection) = policy[s][m]
    BY <2>2, <2>3, RememberSound, PolicyRoundTrip
  <2>5. /\ new.toml = disk.toml /\ new.upgate = disk.upgate
        /\ \A x \in Sections : Bare(new.section[x]) = Bare(disk.section[x])
    BY <2>2, <2>3, <2>4, EditSound
  <2>6. draft' = [draft EXCEPT ![s] = new]
    BY <2>1
  <2> HIDE DEF m, c, new
  <2>7. Clean(new)
    BY <2>5 DEF Untainted
  <2>8. disk' = disk /\ pc' = [pc EXCEPT ![s] = "empty"]
    BY <1>2 DEF Reread, Goto, DiskUnchanged
  <2> QED
    BY <1>0, <2>6, <2>7, <2>8 DEF Untainted, TypeOK
<1>3. CASE Empty(s)
  <2>1. Clean(EmptyDoc)
    BY BareOfNothing DEF EmptyDoc
  <2> QED
    BY <1>0, <1>3, <2>1 DEF Empty, Goto, runVars, Untainted, TypeOK
<1>4. CASE Fill(s)
  BY <1>0, <1>4 DEF Fill, Goto, Untainted, TypeOK
<1>5. CASE FillCut(s)
  <2>1. Clean(Junk)
    BY DEF Junk, EmptyDoc
  <2>2. ASSUME NEW kept PROVE Clean(Part(draft[s], kept))
    <3>1. draft[s] \in Docs /\ Clean(draft[s])
      BY <1>5 DEF TypeOK, FillCut, Untainted
    <3> QED
      BY <3>1, PartIsDoc, BareOfNothing
  <2>3. Clean(disk')
    BY <1>5, <2>1, <2>2 DEF FillCut
  <2> QED
    BY <1>0, <1>5, <2>3 DEF FillCut, Goto, runVars, Untainted, TypeOK
<1> HIDE DEF Clean
<1>6. ASSUME UNCHANGED <<disk, draft>>,
             NEW place \in Places \ {"empty", "fill"}, Goto(s, place)
      PROVE  Untainted'
  BY <1>1, <1>6 DEF Goto, TypeOK
<1>7. CASE Confirm(s)
  BY <1>6, <1>7 DEF Confirm, Places
<1>8. CASE \/ Load(s) \/ SelectManagers(s) \/ Resolve(s) \/ Leave(s) \/ Finish(s)
  BY <1>6, <1>8 DEF Load, SelectManagers, Resolve, Leave, Finish, DiskUnchanged, runVars, Places
<1>9. CASE Override(s)
  BY <1>1, <1>9 DEF Override, DiskUnchanged, TypeOK
<1>10. CASE Fail(s)
  BY <1>6, <1>10 DEF Fail, DiskUnchanged, runVars, Places
<1> QED
  BY <1>2, <1>3, <1>4, <1>5, <1>7, <1>8, <1>9, <1>10
     DEF Run, Saving, LoadFails, SelectsUnknown, OverrideFails, ResolveFails, LimitsFail, RereadFails,
         EmptyFails, Killed

LEMMA UserUntainted ==
  ASSUME TypeOK, Untainted, UserSaves
  PROVE  Untainted'
<1>1. PICK doc \in Documents : disk' = doc /\ everSaved' = everSaved \cup {doc}
  BY DEF UserSaves
<1>2. pc' = pc /\ draft' = draft
  BY DEF UserSaves, runVars
<1>3. ASSUME NEW d, Clean(d)
      PROVE  Clean(d)'
  BY <1>1, <1>3 DEF Clean
<1>4. Clean(disk)'
  BY <1>1 DEF Clean
<1> QED
  BY <1>2, <1>3, <1>4 DEF Untainted

LEMMA UntaintedInit == Init => Untainted
BY DEF Init, Untainted, Clean

LEMMA UntaintedStep == TypeOK /\ Listing /\ Untainted /\ [Next]_vars => Untainted'
<1>1. TypeOK /\ Untainted /\ UNCHANGED vars => Untainted'
  BY DEF vars, history, Untainted, Clean
<1> QED
  BY <1>1, RunUntainted, UserUntainted DEF Next

\* No value of the command line reaches the file.
THEOREM NothingLeaks == Spec => []OverridesNeverSaved
<1>1. Untainted => OverridesNeverSaved
  BY DEF Untainted, Clean, OverridesNeverSaved
<1> QED
  BY <1>1, TypeInit, TypeStep, UntaintedInit, UntaintedStep, PTL DEF Spec

------------------------------------------------------------------------------
(* Sound settings stay sound *)

LEMMA RunSound ==
  ASSUME TypeOK, Listing, NEW s \in Sessions, Run(s),
         NEW t \in Sessions, NEW n \in Managers, pc[t] # "idle", Resolves(config[t], n)
  PROVE  Resolves(config'[t], n)
<1>1. CASE config' = config \/ t # s
  <2>1. config'[t] = config[t]
    BY <1>1 DEF Run, Saving, Load, LoadFails, SelectManagers, SelectsUnknown, Override, OverrideFails,
         Resolve, ResolveFails, LimitsFail, Confirm, Leave, Reread, RereadFails, Empty, EmptyFails, Fill,
         FillCut, Killed, Finish, Fail, runVars, TypeOK
  <2> QED BY <2>1
<1>2. CASE t = s /\ SelectManagers(s)
  BY <1>2, SelectSound DEF SelectManagers, TypeOK
<1>3. CASE t = s /\ Override(s)
  <2>1. config[s] \in Docs /\ config'[s] = Overridden(config[s], cmd[s].overrides[next[s]])
    BY <1>3 DEF Override, TypeOK
  <2> QED
    BY <1>3, <2>1, OverrideSound, CommandType DEF Override
<1>4. CASE t = s /\ Resolve(s)
  <2>1. config' = config \/ config' = [config EXCEPT ![s] = Limited(s)]
    BY <1>4 DEF Resolve
  <2>2. Limited(s).section = config[s].section
    <3>1. config[s] \in Docs
      BY DEF TypeOK
    <3> QED BY <3>1 DEF Limited, Docs
  <2>3. config'[s].section = config[s].section
    BY <2>1, <2>2 DEF TypeOK
  <2> QED
    BY <1>4, <2>3 DEF Resolves
<1>5. CASE t = s /\ Reread(s)
  <2>1. PICK i \in First(todo[s]) :
          config' = [config EXCEPT ![s] =
                       Remembering(config[s], Manager(s, i), policy[s][Manager(s, i)])]
    BY <1>5 DEF Reread
  <2>2. Manager(s, i) \in Managers /\ Manager(s, i) \in Sections
    BY <1>5, ManagerType DEF Reread, Listing, First
  <2>3. policy[s][Manager(s, i)] \in SelectionPolicies /\ config[s] \in Docs
    BY <2>2 DEF TypeOK
  <2>4. config'[s] = Remembering(config[s], Manager(s, i), policy[s][Manager(s, i)])
    BY <2>1 DEF TypeOK
  <2> QED
    BY <1>5, <2>2, <2>3, <2>4, RememberSound
<1>6. CASE t = s /\ Load(s)
  BY <1>6 DEF Load
<1> QED
  BY <1>1, <1>2, <1>3, <1>4, <1>5, <1>6
     DEF Run, Saving, LoadFails, SelectsUnknown, OverrideFails, ResolveFails, LimitsFail, Confirm, Leave,
         RereadFails, Empty, EmptyFails, Fill, FillCut, Killed, Finish, Fail, runVars

\* Nothing the run puts in memory spoils a manager's settings.
THEOREM SettingsStaySound == Spec => SoundStaysSound
<1> DEFINE Step == \A s \in Sessions, m \in Managers :
             pc[s] # "idle" /\ Resolves(config[s], m) => Resolves(config'[s], m)
<1>1. TypeOK /\ Listing /\ Next => Step
  <2>1. UserSaves \/ UNCHANGED vars => config' = config
    BY DEF UserSaves, runVars, vars
  <2> QED
    BY <2>1, RunSound DEF Next
<1>2. TypeOK /\ Listing /\ [Next]_vars => [Step]_vars
  BY <1>1
<1> QED
  BY <1>2, TypeInit, TypeStep, PTL DEF Spec, SoundStaysSound

------------------------------------------------------------------------------
(* What was confirmed is in the file, and nothing else has changed *)

Mine(s, x) == \E i \in runnable[s] : Manager(s, i) = x

\* doc is the file of the confirmation, but for the selection tables of this run ...
Kept(s, doc) ==
  /\ doc.upgate = base[s].upgate
  /\ \A x \in Sections : Bare(doc.section[x]) = Bare(base[s].section[x])
  /\ \A x \in Sections : ~Mine(s, x) => doc.section[x] = base[s].section[x]

\* ... which hold the confirmed policies, the ones still left excepted.
Written(s, doc, left) ==
  \A i \in runnable[s] \ left : SelectionOf(doc.section[Manager(s, i)].selection) = policy[s][Manager(s, i)]

\* Of one run that nobody wrote under: before the file is emptied the file is
\* so, and from rereading to filling it the draft is.
SavesWell(s) ==
  ~disturbed[s] /\ ~cmd[s].dryRun =>
    /\ pc[s] \in {"save", "empty", "fill"} => todo[s] \subseteq runnable[s]
    /\ pc[s] \in {"save", "empty"} => Kept(s, disk) /\ Written(s, disk, todo[s])
    /\ pc[s] \in {"empty", "fill"} => Kept(s, draft[s]) /\ Written(s, draft[s], todo[s] \ First(todo[s]))
    /\ pc[s] = "run" => Kept(s, disk) /\ Written(s, disk, {})

\* The part of the state that belongs to one run.
Own(s) == <<pc[s], cmd[s], runnable[s], policy[s], todo[s], draft[s], base[s]>>

\* Steps of somebody else.
LEMMA OthersSaveWell ==
  ASSUME NEW t \in Sessions, SavesWell(t), UNCHANGED Own(t),
         \/ disk' = disk /\ disturbed'[t] = disturbed[t]
         \/ disturbed'[t] = (disturbed[t] \/ pc[t] \in {"save", "empty", "fill", "run"})
  PROVE  SavesWell(t)'
<1>1. /\ pc'[t] = pc[t] /\ cmd'[t] = cmd[t] /\ runnable'[t] = runnable[t] /\ policy'[t] = policy[t]
      /\ todo'[t] = todo[t] /\ draft'[t] = draft[t] /\ base'[t] = base[t]
  BY DEF Own
<1>2. CASE disk' = disk /\ disturbed'[t] = disturbed[t]
  BY <1>1, <1>2 DEF SavesWell, Kept, Written, Mine, Manager
<1>3. CASE disturbed'[t] = (disturbed[t] \/ pc[t] \in {"save", "empty", "fill", "run"})
  <2>1. CASE pc[t] \in {"save", "empty", "fill", "run"}
    BY <1>3, <2>1 DEF SavesWell
  <2>2. CASE pc[t] \notin {"save", "empty", "fill", "run"}
    BY <1>1, <2>2 DEF SavesWell
  <2> QED BY <2>1, <2>2
<1> QED
  BY <1>2, <1>3

\* The first place is one place.
LEMMA FirstIsOne ==
  ASSUME NEW S \in SUBSET Nat, NEW i \in First(S)
  PROVE  First(S) = {i}
<1>1. ASSUME NEW j \in First(S)
      PROVE  j = i
  BY DEF First
<1> QED
  BY <1>1

LEMMA RunSavesWell ==
  ASSUME TypeOK, Listing, NEW s \in Sessions, SavesWell(s), Run(s)
  PROVE  SavesWell(s)'
<1>1. CASE pc'[s] \notin {"save", "empty", "fill", "run"}
  BY <1>1 DEF SavesWell
<1>2. CASE Confirm(s)
  <2>1. CASE cmd[s].dryRun
    BY <1>2, <2>1 DEF Confirm, SavesWell
  <2>2. CASE ~cmd[s].dryRun
    <3>1. /\ pc'[s] = "save" /\ todo'[s] = runnable[s] /\ base'[s] = disk
          /\ disk' = disk /\ runnable' = runnable /\ cmd' = cmd
      BY <1>2, <2>2 DEF Confirm, Goto, TypeOK
    <3> QED
      BY <3>1 DEF SavesWell, Kept, Written
  <2> QED BY <2>1, <2>2
<1>3. CASE Reread(s)
  <2>1. PICK i \in First(todo[s]) :
          LET m == Manager(s, i)
              c == Remembering(config[s], m, policy[s][m])
          IN  draft' = [draft EXCEPT ![s] = Edited(disk, m, SelectionOf(c.section[m].selection))]
    BY <1>3 DEF Reread
  <2> DEFINE m == Manager(s, i)
             c == Remembering(config[s], m, policy[s][m])
             new == Edited(disk, m, policy[s][m])
  <2>2. m \in Managers /\ m \in Sections /\ i \in todo[s]
    BY <1>3, ManagerType DEF Reread, Listing, First
  <2>3. policy[s][m] \in SelectionPolicies /\ config[s] \in Docs /\ disk \in Docs
    BY <2>2 DEF TypeOK
  <2>4. SelectionOf(c.section[m].selection) = policy[s][m]
    BY <2>2, <2>3, RememberSound, PolicyRoundTrip
  <2>5. draft'[s] = new
    BY <2>1, <2>4 DEF TypeOK
  <2>6. /\ new.upgate = disk.upgate
        /\ \A x \in Sections : x # m => new.section[x] = disk.section[x]
        /\ \A x \in Sections : Bare(new.section[x]) = Bare(disk.section[x])
        /\ SelectionOf(new.section[m].selection) = policy[s][m]
    BY <2>2, <2>3, EditSound
  <2>7. /\ pc[s] = "save" /\ pc'[s] = "empty" /\ disk' = disk /\ disturbed' = disturbed /\ base' = base
        /\ UNCHANGED <<cmd, runnable, policy, todo>>
    BY <1>3 DEF Reread, Goto, DiskUnchanged, history, TypeOK
  <2>8. CASE disturbed[s] \/ cmd[s].dryRun
    BY <2>7, <2>8 DEF SavesWell
  <2>9. CASE ~disturbed[s] /\ ~cmd[s].dryRun
    <3>1. todo[s] \subseteq runnable[s] /\ Kept(s, disk) /\ Written(s, disk, todo[s])
      BY <2>7, <2>9 DEF SavesWell
    <3>2. Mine(s, m)
      BY <2>2, <3>1 DEF Mine
    <3> HIDE DEF m, c, new
    <3>3. Kept(s, new)
      BY <2>6, <3>1, <3>2 DEF Kept
    <3>4. Written(s, new, todo[s] \ First(todo[s]))
      <4> SUFFICES ASSUME NEW j \in runnable[s] \ (todo[s] \ First(todo[s]))
                   PROVE  SelectionOf(new.section[Manager(s, j)].selection) = policy[s][Manager(s, j)]
        BY DEF Written
      <4>1. CASE Manager(s, j) = m
        BY <2>6, <4>1
      <4>2. CASE Manager(s, j) # m
        <5>1. j \notin First(todo[s])
          BY <4>2, FirstIsOne DEF m, TypeOK
        <5>2. Manager(s, j) \in Sections
          BY <1>3, ManagerType DEF Reread, Listing
        <5> QED
          BY <2>6, <3>1, <4>2, <5>1, <5>2 DEF Written
      <4> QED BY <4>1, <4>2
    <3>5. /\ (todo[s] \subseteq runnable[s])'
          /\ Kept(s, disk)' /\ Written(s, disk, todo[s])'
      BY <2>7, <3>1 DEF Kept, Written, Mine, Manager
    <3>6. Kept(s, draft[s])' /\ Written(s, draft[s], todo[s] \ First(todo[s]))'
      BY <2>5, <2>7, <3>3, <3>4 DEF Kept, Written, Mine, Manager
    <3> QED
      BY <2>7, <3>5, <3>6 DEF SavesWell
  <2> QED BY <2>8, <2>9
<1>4. CASE Empty(s)
  <2>1. /\ pc[s] = "empty" /\ pc'[s] = "fill" /\ disturbed'[s] = disturbed[s]
        /\ UNCHANGED <<cmd, runnable, policy, todo, draft, base>>
    BY <1>4 DEF Empty, Goto, Disturb, runVars, TypeOK
  <2> QED
    BY <2>1 DEF SavesWell, Kept, Written, Mine, Manager
<1>5. CASE Fill(s)
  <2>1. /\ pc[s] = "fill" /\ disturbed'[s] = disturbed[s] /\ disk' = draft[s]
        /\ UNCHANGED <<cmd, runnable, policy, draft, base>>
        /\ todo'[s] = todo[s] \ First(todo[s])
        /\ pc'[s] = IF todo[s] = First(todo[s]) THEN "run" ELSE "save"
    BY <1>5 DEF Fill, Goto, Disturb, TypeOK
  <2>2. CASE disturbed[s] \/ cmd[s].dryRun
    BY <2>1, <2>2 DEF SavesWell
  <2>3. CASE ~disturbed[s] /\ ~cmd[s].dryRun
    <3>1. /\ todo[s] \subseteq runnable[s]
          /\ Kept(s, draft[s]) /\ Written(s, draft[s], todo[s] \ First(todo[s]))
      BY <2>1, <2>3 DEF SavesWell
    <3>2. Kept(s, disk)' /\ Written(s, disk, todo[s])' /\ (todo[s] \subseteq runnable[s])'
      BY <2>1, <3>1 DEF Kept, Written, Mine, Manager
    <3>3. pc'[s] = "run" => todo'[s] = {}
      BY <2>1
    <3>4. pc'[s] = "run" => Written(s, disk, {})'
      BY <3>2, <3>3 DEF Written
    <3> QED
      BY <2>1, <3>2, <3>4 DEF SavesWell
  <2> QED BY <2>2, <2>3
<1> QED
  BY <1>1, <1>2, <1>3, <1>4, <1>5
     DEF Run, Saving, Load, LoadFails, SelectManagers, SelectsUnknown, Override, OverrideFails, Resolve,
         ResolveFails, LimitsFail, Leave, RereadFails, EmptyFails, FillCut, Killed, Finish, Fail,
         Goto, TypeOK

\* A run leaves alone what belongs to the others, and says so when it writes.
LEMMA RunDisturbs ==
  ASSUME TypeOK, NEW s \in Sessions, Run(s), NEW t \in Sessions, t # s
  PROVE  /\ UNCHANGED Own(t)
         /\ \/ disk' = disk /\ disturbed'[t] = disturbed[t]
            \/ disturbed'[t] = (disturbed[t] \/ pc[t] \in {"save", "empty", "fill", "run"})
<1>1. CASE Empty(s) \/ Fill(s) \/ FillCut(s)
  BY <1>1 DEF Empty, Fill, FillCut, Disturb, Goto, runVars, Own, TypeOK
<1>2. CASE Confirm(s)
  BY <1>2 DEF Confirm, Goto, Own, TypeOK
<1> QED
  BY <1>1, <1>2
     DEF Run, Saving, Load, LoadFails, SelectManagers, SelectsUnknown, Override, OverrideFails, Resolve,
         ResolveFails, LimitsFail, Leave, Reread, RereadFails, EmptyFails, Killed, Finish, Fail,
         DiskUnchanged, history, runVars, Goto, Own, TypeOK

AllSaveWell == \A s \in Sessions : SavesWell(s)

LEMMA SavesInit == Init => AllSaveWell
BY DEF Init, AllSaveWell, SavesWell

LEMMA SavesStep == TypeOK /\ Listing /\ AllSaveWell /\ [Next]_vars => AllSaveWell'
<1> SUFFICES ASSUME TypeOK, Listing, AllSaveWell, [Next]_vars, NEW t \in Sessions
             PROVE  SavesWell(t)'
  BY DEF AllSaveWell
<1>1. CASE \E s \in Sessions : Run(s)
  <2>1. PICK s \in Sessions : Run(s)
    BY <1>1
  <2> QED
    BY <2>1, RunSavesWell, RunDisturbs, OthersSaveWell DEF AllSaveWell
<1>2. CASE UserSaves
  <2>1. /\ UNCHANGED Own(t)
        /\ disturbed'[t] = (disturbed[t] \/ pc[t] \in {"save", "empty", "fill", "run"})
    BY <1>2 DEF UserSaves, runVars, Own
  <2> QED
    BY <2>1, OthersSaveWell DEF AllSaveWell
<1>3. CASE UNCHANGED vars
  <2>1. UNCHANGED Own(t) /\ disk' = disk /\ disturbed'[t] = disturbed[t]
    BY <1>3 DEF vars, history, Own
  <2> QED
    BY <2>1, OthersSaveWell DEF AllSaveWell
<1> QED
  BY <1>1, <1>2, <1>3 DEF Next

\* What is saved is read back.
THEOREM PoliciesAreSaved == Spec => []ConfirmedIsSaved
<1>1. AllSaveWell => ConfirmedIsSaved
  BY DEF AllSaveWell, SavesWell, Written, ConfirmedIsSaved, Saved, InFile
<1> QED
  BY <1>1, TypeInit, TypeStep, SavesInit, SavesStep, PTL DEF Spec

\* The rest of the file is what it was.
THEOREM RestIsKept == Spec => []OnlySelectionsChange
<1>1. AllSaveWell => OnlySelectionsChange
  BY DEF AllSaveWell, SavesWell, Kept, Mine, OnlySelectionsChange, Saved
<1> QED
  BY <1>1, TypeInit, TypeStep, SavesInit, SavesStep, PTL DEF Spec

\* A save is exactly what was confirmed.
THEOREM SavedAsConfirmed == Spec => []SavesExactly
<1>1. ConfirmedIsSaved /\ OnlySelectionsChange => SavesExactly
  BY DEF SavesExactly
<1> QED
  BY <1>1, PoliciesAreSaved, RestIsKept, PTL

------------------------------------------------------------------------------
(* The command line decides *)

\* An override replaces the mode of the manager it names, by a mode, and no other.
LEMMA OverriddenMode ==
  ASSUME NEW c \in Docs, NEW o, o.value \in Texts, o.number \in Int, OverrideOK(o), NEW m \in Managers
  PROVE  IF o.section = m /\ o.key = "mode"
         THEN Overridden(c, o).section[m].mode = o.value /\ o.value \in Modes
         ELSE Overridden(c, o).section[m].mode = c.section[m].mode
<1> DEFINE new == Overridden(c, o)
<1>0. m \in Sections /\ m # "upgate"
  BY NoStrangers DEF Sections
<1>1. CASE o.section = "upgate"
  <2>1. new = [c EXCEPT !.upgate = [c.upgate EXCEPT ![o.key] = o.number]]
    BY <1>1 DEF Overridden, Docs
  <2>2. new.section = c.section
    BY <2>1 DEF Docs
  <2> QED
    BY <1>0, <1>1, <2>2
<1>2. CASE o.section # "upgate"
  <2> DEFINE x == o.section
             sec == [c.section[x] EXCEPT ![o.key] = o.value]
  <2>1. x \in Managers /\ x \in Sections
    BY <1>2 DEF OverrideOK, Sections
  <2>2. /\ o.key \in {"min_release_age", "version_policy", "no_update", "mode"}
        /\ o.key = "mode" => o.value \in Modes
    BY <1>2 DEF OverrideOK
  <2>3. c.section[x] \in RawSections
    BY <2>1 DEF Docs
  <2>4. sec.mode = IF o.key = "mode" THEN o.value ELSE c.section[x].mode
    BY <2>2, <2>3 DEF RawSections
  <2>5. new = [c EXCEPT !.section = [c.section EXCEPT ![x] = sec]]
    BY <1>2 DEF Overridden, Docs
  <2> HIDE DEF sec
  <2>6. new.section[m] = IF m = x THEN sec ELSE c.section[m]
    BY <1>0, <2>1, <2>5 DEF Docs
  <2> QED
    BY <2>2, <2>4, <2>6
<1> QED
  BY <1>1, <1>2

\* The i-th override sets the mode of m.
SetsMode(s, m, i) ==
  i \in DOMAIN cmd[s].overrides /\ cmd[s].overrides[i].section = m /\ cmd[s].overrides[i].key = "mode"

\* The mode in memory is that of the last override applied so far or, when none of
\* these set it, "apply" for a manager that was named.
ModeSoFar(s, m) ==
  \/ /\ \A i \in 1..(next[s] - 1) : ~SetsMode(s, m, i)
     /\ Named(s, m) => config[s].section[m].mode = "apply"
  \/ \E i \in 1..(next[s] - 1) :
       /\ SetsMode(s, m, i)
       /\ \A j \in 1..(next[s] - 1) : SetsMode(s, m, j) => j <= i
       /\ config[s].section[m].mode = cmd[s].overrides[i].value
       /\ cmd[s].overrides[i].value \in Modes

\* What RunsWhatWasAsked says of one run.
AsAsked(s) ==
  /\ \A i \in runnable[s] : MeantToApply(s, Manager(s, i))
  /\ \A i \in runnable[s], j \in runnable[s] : i # j => Manager(s, i) # Manager(s, j)

Obeyed(s) ==
  /\ pc[s] \in {"idle", "select"} => next[s] = 1
  /\ pc[s] = "override" =>
       /\ next[s] \in 1..(Len(cmd[s].overrides) + 1)
       /\ \A m \in Managers : ModeSoFar(s, m)
  /\ pc[s] = "screen" => AsAsked(s)

\* The overrides are numbered from 1.
LEMMA OverridesNumbered ==
  ASSUME TypeOK, NEW s \in Sessions
  PROVE  /\ Len(cmd[s].overrides) \in Nat
         /\ DOMAIN cmd[s].overrides = 1..Len(cmd[s].overrides)
<1> DEFINE Line == [section : Texts, key : Texts, value : Texts, number : Int]
<1>1. cmd[s] \in [managers : Seq(Texts), overrides : Seq(Line),
                  concurrency : {Unset} \cup (Nat \ {0}), dryRun : BOOLEAN]
  BY CommandLines DEF TypeOK
<1>2. cmd[s].overrides \in Seq(Line)
  BY <1>1
<1> HIDE DEF Line
<1> QED
  BY <1>2

\* Another run, and the user, leave a run's memory alone.
LEMMA ObeyedFrame ==
  ASSUME NEW s \in Sessions, Obeyed(s),
         pc'[s] = pc[s] \/ pc'[s] \notin {"idle", "select", "override", "screen"},
         cmd'[s] = cmd[s], next'[s] = next[s], config'[s] = config[s], runnable'[s] = runnable[s]
  PROVE  Obeyed(s)'
<1>1. \A m \in Managers : ModeSoFar(s, m)' <=> ModeSoFar(s, m)
  BY DEF ModeSoFar, SetsMode, Named
<1>2. AsAsked(s)' <=> AsAsked(s)
  BY DEF AsAsked, MeantToApply, LastMode, Named, MayApply, ModeOf, Manager
<1> QED
  BY <1>1, <1>2 DEF Obeyed

LEMMA SelectObeys ==
  ASSUME TypeOK, NEW s \in Sessions, Obeyed(s), SelectManagers(s)
  PROVE  Obeyed(s)'
<1>1. /\ config[s] \in Docs /\ config'[s] = WithSelectedManagers(config[s], cmd[s].managers)
      /\ pc'[s] = "override" /\ next'[s] = 1 /\ cmd' = cmd
  BY DEF SelectManagers, Goto, TypeOK, Obeyed
<1>2. ASSUME NEW m \in Managers, Named(s, m)
      PROVE  config'[s].section[m].mode = "apply"
  <2>1. m \in Sections /\ config[s].section[m] \in RawSections
    BY <1>1 DEF Sections, Docs
  <2>2. config'[s].section = [x \in Sections |->
            IF \E i \in DOMAIN cmd[s].managers : cmd[s].managers[i] = x
            THEN [config[s].section[x] EXCEPT !.mode = "apply"] ELSE config[s].section[x]]
    BY <1>1 DEF WithSelectedManagers, Docs
  <2>3. config'[s].section[m] = [config[s].section[m] EXCEPT !.mode = "apply"]
    BY <1>2, <2>1, <2>2 DEF Named
  <2> QED
    BY <2>1, <2>3 DEF RawSections
<1>3. \A m \in Managers : ModeSoFar(s, m)'
  BY <1>1, <1>2 DEF ModeSoFar, Named
<1> QED
  BY <1>1, <1>3, OverridesNumbered DEF Obeyed

LEMMA OverrideObeys ==
  ASSUME TypeOK, NEW s \in Sessions, Obeyed(s), Override(s)
  PROVE  Obeyed(s)'
<1> DEFINE n == next[s]
           o == cmd[s].overrides[n]
<1>1. /\ n \in DOMAIN cmd[s].overrides /\ n \in Nat /\ n \in 1..Len(cmd[s].overrides)
      /\ config[s] \in Docs /\ config'[s] = Overridden(config[s], o)
      /\ pc[s] = "override" /\ pc' = pc /\ next'[s] = n + 1 /\ cmd' = cmd
      /\ o.value \in Texts /\ o.number \in Int /\ OverrideOK(o)
  BY OverridesNumbered, CommandType DEF Override, TypeOK
<1>2. Len(cmd[s].overrides) \in Nat
  BY OverridesNumbered
<1>3. ASSUME NEW m \in Managers
      PROVE  ModeSoFar(s, m)'
  <2>1. ModeSoFar(s, m)
    BY <1>1 DEF Obeyed
  <2>2. \A i : SetsMode(s, m, i)' <=> SetsMode(s, m, i)
    BY <1>1 DEF SetsMode
  <2>3. SetsMode(s, m, n) <=> o.section = m /\ o.key = "mode"
    BY <1>1 DEF SetsMode
  <2>4. next'[s] - 1 = n /\ \A i \in 1..n : i = n \/ i \in 1..(n - 1)
    BY <1>1
  <2>5. CASE SetsMode(s, m, n)
    <3>1. config'[s].section[m].mode = o.value /\ o.value \in Modes
      BY <1>1, <2>3, <2>5, OverriddenMode
    <3> HIDE DEF o
    <3>2. n \in 1..n /\ \A j \in 1..n : j <= n
      BY <1>1
    <3> QED
      BY <1>1, <2>2, <2>4, <2>5, <3>1, <3>2 DEF ModeSoFar, o
  <2>6. CASE ~SetsMode(s, m, n)
    <3>1. config'[s].section[m].mode = config[s].section[m].mode
      BY <1>1, <2>3, <2>6, OverriddenMode
    <3>2. 1..(n - 1) \subseteq 1..n
      BY <1>1
    <3>3. CASE /\ \A i \in 1..(n - 1) : ~SetsMode(s, m, i)
               /\ Named(s, m) => config[s].section[m].mode = "apply"
      BY <1>1, <2>2, <2>4, <2>6, <3>1, <3>3 DEF ModeSoFar, Named
    <3>4. CASE \E i \in 1..(n - 1) :
                 /\ SetsMode(s, m, i)
                 /\ \A j \in 1..(n - 1) : SetsMode(s, m, j) => j <= i
                 /\ config[s].section[m].mode = cmd[s].overrides[i].value
                 /\ cmd[s].overrides[i].value \in Modes
      <4>1. PICK i \in 1..(n - 1) :
                 /\ SetsMode(s, m, i)
                 /\ \A j \in 1..(n - 1) : SetsMode(s, m, j) => j <= i
                 /\ config[s].section[m].mode = cmd[s].overrides[i].value
                 /\ cmd[s].overrides[i].value \in Modes
        BY <3>4
      <4>2. \A j \in 1..n : SetsMode(s, m, j) => j <= i
        BY <2>4, <2>6, <4>1
      <4> HIDE DEF n
      <4> QED
        BY <1>1, <2>2, <2>4, <3>1, <3>2, <4>1, <4>2 DEF ModeSoFar
    <3> QED
      BY <2>1, <3>3, <3>4 DEF ModeSoFar
  <2> QED
    BY <2>5, <2>6
<1> QED
  BY <1>1, <1>2, <1>3 DEF Obeyed

\* A manager found runnable after the last override is one that was meant.
LEMMA FoundIsMeant ==
  ASSUME TypeOK, Listing, NEW s \in Sessions, Obeyed(s), Resolving(s),
         NEW i \in Asked(cmd[s].managers), MayApply(config[s], Manager(s, i))
  PROVE  MeantToApply(s, Manager(s, i))
<1> DEFINE m == Manager(s, i)
           last == next[s] - 1
<1>1. /\ KnowsAll(cmd[s].managers) /\ i \in DOMAIN Listed(cmd[s].managers)
      /\ pc[s] = "override"
  BY DEF Resolving, Listing, Asked
<1>2. m \in Managers
  BY <1>1, ManagerType
<1>3. last = Len(cmd[s].overrides) /\ DOMAIN cmd[s].overrides = 1..last
  BY <1>1, OverridesNumbered DEF Resolving, Obeyed
<1>4. ModeSoFar(s, m)
  BY <1>1, <1>2 DEF Obeyed
<1>5. cmd[s].managers # <<>> => Named(s, m)
  BY <1>1 DEF Named, Listed, Manager
<1> HIDE DEF m, last
<1>6. LastMode(s, m) =
        {k \in 1..last : SetsMode(s, m, k) /\ \A j \in 1..last : SetsMode(s, m, j) => j <= k}
  BY <1>3 DEF LastMode, SetsMode
<1>7. CASE \A k \in 1..last : ~SetsMode(s, m, k)
  <2>1. LastMode(s, m) = {}
    BY <1>6, <1>7
  <2> QED
    BY <1>5, <2>1 DEF MeantToApply, m
<1>8. CASE \E k \in 1..last :
             /\ SetsMode(s, m, k)
             /\ \A j \in 1..last : SetsMode(s, m, j) => j <= k
             /\ config[s].section[m].mode = cmd[s].overrides[k].value
             /\ cmd[s].overrides[k].value \in Modes
  <2>1. PICK k \in 1..last :
             /\ SetsMode(s, m, k)
             /\ \A j \in 1..last : SetsMode(s, m, j) => j <= k
             /\ config[s].section[m].mode = cmd[s].overrides[k].value
             /\ cmd[s].overrides[k].value \in Modes
    BY <1>8
  <2>2. LastMode(s, m) = {k}
    BY <1>3, <1>6, <2>1
  <2>3. cmd[s].overrides[k].value = "apply"
    BY <2>1 DEF MayApply, ModeOf, Modes, m
  <2> QED
    BY <2>2, <2>3 DEF MeantToApply, m
<1> QED
  BY <1>4, <1>7, <1>8 DEF ModeSoFar, last

LEMMA ResolveObeys ==
  ASSUME TypeOK, Listing, NEW s \in Sessions, Obeyed(s), Resolve(s)
  PROVE  Obeyed(s)'
<1>1. PICK available \in SUBSET Managers :
        LET found == {i \in Asked(cmd[s].managers) :
                        MayApply(config[s], Manager(s, i)) /\ Manager(s, i) \in available}
        IN  IF found = {}
            THEN Goto(s, "done") /\ UNCHANGED <<config, runnable>>
            ELSE /\ LimitsOK(Limited(s))
                 /\ config' = [config EXCEPT ![s] = Limited(s)]
                 /\ runnable' = [runnable EXCEPT ![s] = found]
                 /\ Goto(s, "screen")
  BY DEF Resolve
<1> DEFINE found == {i \in Asked(cmd[s].managers) :
                        MayApply(config[s], Manager(s, i)) /\ Manager(s, i) \in available}
<1>2. \/ pc'[s] = "done"
      \/ /\ config'[s] = Limited(s) /\ runnable'[s] = found
         /\ pc'[s] = "screen"
  BY <1>1 DEF Goto, TypeOK
<1>3. cmd' = cmd /\ Resolving(s)
  BY DEF Resolve
<1>4. CASE pc'[s] = "done"
  BY <1>4 DEF Obeyed
<1>5. CASE config'[s] = Limited(s) /\ runnable'[s] = found /\ pc'[s] = "screen"
  <2>1. config'[s].section = config[s].section
    BY <1>5 DEF Limited, TypeOK, Docs
  <2>2. \A i \in found : MeantToApply(s, Manager(s, i))
    BY <1>3, FoundIsMeant
  <2>3. \A m : MeantToApply(s, m)' <=> MeantToApply(s, m)
    BY <1>3, <2>1 DEF MeantToApply, LastMode, Named, MayApply, ModeOf
  <2>4. \A i \in found, j \in found : i # j => Manager(s, i) # Manager(s, j)
    <3>1. DOMAIN Listed(cmd[s].managers) \subseteq Nat
          /\ \A i \in DOMAIN Listed(cmd[s].managers) : i >= 1
      BY CommandType, OrderIsAll DEF Listed
    <3>2. ASSUME NEW i \in found, NEW j \in found, i < j
          PROVE  Manager(s, i) # Manager(s, j)
      <4>1. i \in 1..(j - 1)
        BY <3>1, <3>2 DEF Asked
      <4> QED
        BY <4>1 DEF Asked, Manager
    <3>3. \A i \in found : i \in Nat
      BY <3>1 DEF Asked
    <3> HIDE DEF found
    <3> QED
      BY <3>2, <3>3
  <2>5. \A i : Manager(s, i)' = Manager(s, i)
    BY <1>3 DEF Manager
  <2> HIDE DEF found
  <2>6. AsAsked(s)'
    BY <1>5, <2>2, <2>3, <2>4, <2>5 DEF AsAsked
  <2> QED
    BY <1>5, <2>6 DEF Obeyed
<1> QED
  BY <1>2, <1>4, <1>5

\* Every other step of a run leaves the command line and the settings of the
\* managers as they are, or is past the screen.
LEMMA RunObeys ==
  ASSUME TypeOK, Listing, NEW s \in Sessions, Run(s), NEW t \in Sessions, Obeyed(t)
  PROVE  Obeyed(t)'
<1>1. CASE t # s
  <2>1. /\ pc'[t] = pc[t] /\ cmd'[t] = cmd[t] /\ next'[t] = next[t]
        /\ config'[t] = config[t] /\ runnable'[t] = runnable[t]
    BY <1>1 DEF Run, Saving, Load, LoadFails, SelectManagers, SelectsUnknown, Override, OverrideFails,
         Resolve, ResolveFails, LimitsFail, Confirm, Leave, Reread, RereadFails, Empty, EmptyFails, Fill,
         FillCut, Killed, Finish, Fail, Goto, runVars, TypeOK
  <2> QED
    BY <2>1, ObeyedFrame
<1>2. CASE t = s /\ Load(s)
  BY <1>2 DEF Load, Goto, TypeOK, Obeyed
<1>3. CASE t = s /\ SelectManagers(s)
  BY <1>3, SelectObeys
<1>4. CASE t = s /\ Override(s)
  BY <1>4, OverrideObeys
<1>5. CASE t = s /\ Resolve(s)
  BY <1>5, ResolveObeys
<1>6. CASE t = s /\ (Fail(s) \/ Confirm(s) \/ Leave(s) \/ Reread(s) \/ Empty(s) \/ Fill(s)
                      \/ FillCut(s) \/ Finish(s))
  <2>1. pc'[s] \in {"failed", "run", "save", "done", "empty", "fill"}
    BY <1>6 DEF Fail, Confirm, Leave, Reread, Empty, Fill, FillCut, Finish, Goto, TypeOK
  <2> QED
    BY <1>6, <2>1 DEF Obeyed
<1> QED
  BY <1>1, <1>2, <1>3, <1>4, <1>5, <1>6
     DEF Run, Saving, LoadFails, SelectsUnknown, OverrideFails, ResolveFails, LimitsFail,
         RereadFails, EmptyFails, Killed

AllObeyed == \A s \in Sessions : Obeyed(s)

LEMMA ObeyedStep == TypeOK /\ Listing /\ AllObeyed /\ [Next]_vars => AllObeyed'
<1> SUFFICES ASSUME TypeOK, Listing, AllObeyed, [Next]_vars PROVE AllObeyed'
  OBVIOUS
<1>1. CASE \E s \in Sessions : Run(s)
  BY <1>1, RunObeys DEF AllObeyed
<1>2. CASE UserSaves \/ UNCHANGED vars
  <2>1. UNCHANGED <<pc, cmd, next, config, runnable>>
    BY <1>2 DEF UserSaves, runVars, vars
  <2> QED
    BY <2>1, ObeyedFrame DEF AllObeyed
<1> QED
  BY <1>1, <1>2 DEF Next

\* What reaches the screen is what the command line asked for: whatever the file
\* says, the last --set of a manager's mode decides, then being named, and no
\* manager is there twice.
THEOREM RunsAsAsked == Spec => []RunsWhatWasAsked
<1>1. Init => AllObeyed
  BY DEF Init, AllObeyed, Obeyed
<1>2. AllObeyed => RunsWhatWasAsked
  BY DEF AllObeyed, Obeyed, AsAsked, RunsWhatWasAsked
<1> QED
  BY <1>1, <1>2, ObeyedStep, TypeInit, TypeStep, PTL DEF Spec
==============================================================================
