------------------------ MODULE InteractiveApplyProofs ------------------------
(***************************************************************************)
(* What holds of InteractiveApply for any number of managers, any items    *)
(* and any selection.                                                      *)
(***************************************************************************)
EXTENDS InteractiveApply, TLAPS

-----------------------------------------------------------------------------
(* Lemmas about the command lists. *)

\* Every item of the selection is in exactly one command of the list, and no
\* command is empty.
LEMMA CommandListsPartition ==
  ASSUME NEW S, S \subseteq Items, NEW cs \in CommandLists(S)
  PROVE  /\ cs \subseteq Command
         /\ \A c \in cs : c.items # {} /\ c.items \subseteq S
         /\ \A c, d \in cs : c # d => c.items \cap d.items = {}
         /\ \A i \in S : \E c \in cs : i \in c.items
<1>1. PICK P \in Partitions(S) :
        \E g \in SUBSET {p \in P : Cardinality(p) > 1} :
          cs = {[items |-> p, grouped |-> p \in g] : p \in P}
  BY DEF CommandLists
<1>0. PICK g \in SUBSET {p \in P : Cardinality(p) > 1} :
        cs = {[items |-> p, grouped |-> p \in g] : p \in P}
  BY <1>1
<1>2. /\ P \subseteq SUBSET S
      /\ UNION P = S
      /\ \A p \in P : p # {}
      /\ \A p, q \in P : p # q => p \cap q = {}
  BY DEF Partitions
<1>3. \A c \in cs : \E p \in P : c = [items |-> p, grouped |-> p \in g]
  BY <1>0
<1>4. \A p \in P : [items |-> p, grouped |-> p \in g] \in cs
  BY <1>0
<1>5. cs \subseteq Command
  <2> SUFFICES ASSUME NEW c \in cs PROVE c \in Command
    OBVIOUS
  <2>1. PICK p \in P : c = [items |-> p, grouped |-> p \in g]
    BY <1>3
  <2>2. p \in SUBSET Items /\ (p \in g) \in BOOLEAN
    BY <1>2
  <2> QED
    BY <2>1, <2>2 DEF Command
<1>6. \A c \in cs : c.items \in P
  BY <1>3
<1>7. \A c, d \in cs : c # d => c.items # d.items
  BY <1>3
<1>8. \A i \in S : \E c \in cs : i \in c.items
  <2> TAKE i \in S
  <2>1. PICK p \in P : i \in p
    BY <1>2
  <2>2. [items |-> p, grouped |-> p \in g].items = p
    OBVIOUS
  <2> QED
    BY <1>4, <2>1, <2>2
<1> QED
  BY <1>2, <1>5, <1>6, <1>7, <1>8

-----------------------------------------------------------------------------
(* Type correctness. *)

USE ConstantsAssumption

\* The initial values have their types.
LEMMA InitTypeOK == Init => TypeOK
<1> USE DEF SelectionPolicy, Managers, Statuses, Outcomes, Stages
<1> SUFFICES ASSUME Init PROVE TypeOK
  OBVIOUS
<1>1. action \in [Items -> Actions]
  BY DEF Init
<1>2. draft \in [Managers -> SelectionPolicy] /\ disk \in [Managers -> SelectionPolicy]
  BY DEF Init
<1>3. /\ updates \in [Managers -> SUBSET Command]
      /\ removals \in [Managers -> SUBSET Command]
  BY DEF Init
<1>4. at \in 1..(N + 1)
  BY DEF Init
<1> QED
  BY <1>1, <1>2, <1>3, <1>4 DEF Init, TypeOK, NoResults

\* Every variable keeps its type along every behaviour.
THEOREM TypeCorrect == Spec => []TypeOK
<1> USE DEF SelectionPolicy, Managers, Statuses, Outcomes, Stages
<1>2. TypeOK /\ [Next]_vars => TypeOK'
  <2> SUFFICES ASSUME TypeOK, [Next]_vars PROVE TypeOK'
    OBVIOUS
  <2> USE DEF TypeOK, Return, selectionVars, buildVars, runVars
  <2>1. CASE ResolveAll
    BY <2>1 DEF ResolveAll
  <2>2. CASE ResolveFails
    BY <2>2 DEF ResolveFails
  <2>3. CASE Persist
    <3>1. draft[at] \in SelectionPolicy
      BY <2>3 DEF Persist
    <3>2. CleanedPolicy(at) \in SelectionPolicy
      BY <3>1 DEF CleanedPolicy
    <3> QED
      BY <2>3, <3>2 DEF Persist
  <2>4. CASE PersistFails
    BY <2>4 DEF PersistFails, DefaultPolicy, Modes
  <2>5. CASE PersistDone
    BY <2>5 DEF PersistDone
  <2>6. CASE Build
    <3>1. PICK cs \in CommandLists(ItemsOf(at)) :
            \/ errored' = errored \cup {at} /\ UNCHANGED <<updates, removals>>
            \/ /\ updates' = [updates EXCEPT ![at] = {c \in cs : ~IsRemoval(c)}]
               /\ removals' = [removals EXCEPT ![at] = {c \in cs : IsRemoval(c)}]
               /\ UNCHANGED errored
      BY <2>6 DEF Build
    <3>2. cs \subseteq Command
      <4>1. ItemsOf(at) \subseteq Items
        BY DEF ItemsOf
      <4> QED
        BY <4>1, CommandListsPartition
    <3>3. /\ updates' \in [Managers -> SUBSET Command]
          /\ removals' \in [Managers -> SUBSET Command]
          /\ errored' \subseteq Managers
          /\ hadError' \in BOOLEAN
      <4>1. hadError' \in BOOLEAN /\ at \in Managers
        BY <2>6 DEF Build
      <4>2. /\ {c \in cs : ~IsRemoval(c)} \in SUBSET Command
            /\ {c \in cs : IsRemoval(c)} \in SUBSET Command
        BY <3>2
      <4>3. CASE errored' = errored \cup {at} /\ UNCHANGED <<updates, removals>>
        BY <4>1, <4>3
      <4>4. CASE /\ updates' = [updates EXCEPT ![at] = {c \in cs : ~IsRemoval(c)}]
                 /\ removals' = [removals EXCEPT ![at] = {c \in cs : IsRemoval(c)}]
                 /\ UNCHANGED errored
        <5>1. updates' \in [Managers -> SUBSET Command]
          BY <4>1, <4>2, <4>4
        <5>2. removals' \in [Managers -> SUBSET Command]
          BY <4>1, <4>2, <4>4
        <5> QED
          BY <4>1, <4>4, <5>1, <5>2
      <4> QED
        BY <3>1, <4>3, <4>4
    <3> QED
      BY <2>6, <3>3 DEF Build
  <2>7. CASE BuildFails
    BY <2>7 DEF BuildFails
  <2>8. CASE BuildInterrupted
    BY <2>8 DEF BuildInterrupted
  <2>9. CASE BuildDone
    BY <2>9 DEF BuildDone
  <2>10. CASE \E m \in Managers : \E c \in updates[m] \cup removals[m] : RunCommand(c)
    <3>1. PICK c \in Command : RunCommand(c)
      BY <2>10
    <3>2. /\ updates' \in [Managers -> SUBSET Command]
          /\ removals' \in [Managers -> SUBSET Command]
          /\ attempted' \subseteq Items
      <4>1. StartCommand(c)
        BY <3>1 DEF RunCommand, CommandSucceeds, CommandFails, CommandInterrupted
      <4>2. c.items \subseteq Items
        BY DEF Command
      <4>3. updates[at] \ {c} \in SUBSET Command /\ removals[at] \ {c} \in SUBSET Command
        BY <4>1 DEF StartCommand
      <4> QED
        BY <4>1, <4>2, <4>3 DEF StartCommand
    <3>3. CASE CommandSucceeds(c)
      BY <3>2, <3>3 DEF CommandSucceeds, Record, Effect, Wanted
    <3>4. CASE CommandFails(c)
      BY <3>2, <3>4 DEF CommandFails, Record, Effect, Uncertain
    <3>5. CASE CommandInterrupted(c)
      BY <3>2, <3>5 DEF CommandInterrupted, Effect, Uncertain
    <3> QED
      BY <3>1, <3>3, <3>4, <3>5 DEF RunCommand
  <2>11. CASE FinishManager
    BY <2>11 DEF FinishManager, HasFailures, NoResults
  <2>12. CASE FinishUpdates
    BY <2>12 DEF FinishUpdates
  <2>13. CASE FinishRemovals
    BY <2>13 DEF FinishRemovals
  <2>14. CASE Killed
    BY <2>14 DEF Killed, DefaultPolicy, Modes
  <2>15. CASE UNCHANGED vars
    BY <2>15 DEF vars
  <2> QED
    BY <2>1, <2>2, <2>3, <2>4, <2>5, <2>6, <2>7, <2>8, <2>9, <2>10, <2>11, <2>12,
       <2>13, <2>14, <2>15 DEF Next, Step, Work, Returned
<1> QED
  BY InitTypeOK, <1>2, PTL DEF Spec

-----------------------------------------------------------------------------
(***************************************************************************)
(* The inductive invariant.  The properties of InteractiveApply speak of   *)
(* the items attempted, the file and the report; what makes them inductive *)
(* is that the items not yet attempted are exactly those of the commands   *)
(* that are left, and that the stage and the manager being worked on say   *)
(* which commands can be left.                                             *)
(***************************************************************************)

\* The commands left in a list are disjoint, name only items of their manager
\* that are still waiting, and do one kind of thing.
ListOK(list, m, kind) ==
  /\ \A c \in list : /\ c.items # {}
                     /\ \A i \in c.items : /\ action[i] = kind
                                         /\ ManagerOf[i] = m
                                         /\ i \notin attempted
  /\ \A c, d \in list : c # d => c.items \cap d.items = {}

ListsOK ==
  \A m \in Managers :
    /\ ListOK(updates[m], m, "update")
    /\ ListOK(removals[m], m, "remove")
    /\ m \in errored => updates[m] = {} /\ removals[m] = {}

\* No item of an accepted manager has been forgotten.
Covered(m) ==
  m \notin errored =>
    \A i \in ItemsOf(m) :
      i \in attempted \/ \E c \in updates[m] \cup removals[m] : i \in c.items

StageOK ==
  /\ pc \in {"resolve", "persist", "build"} => attempted = {}
  /\ pc \in {"resolve", "persist"} =>
       \A m \in Managers : updates[m] = {} /\ removals[m] = {} /\ m \notin errored
  /\ pc = "build" =>
       \A m \in Managers :
         IF m < at THEN Covered(m)
         ELSE updates[m] = {} /\ removals[m] = {} /\ m \notin errored
  /\ pc \in {"updates", "removals"} => \A m \in Managers : Covered(m)
  /\ pc = "updates" =>
       /\ \A i \in attempted : action[i] = "update"
       /\ \A m \in Managers : m < at => updates[m] = {}
  /\ pc = "removals" =>
       \A m \in Managers : updates[m] = {} /\ (m < at => removals[m] = {})
  /\ \A i \in attempted : Accepted(i)

SaveOK ==
  /\ pc = "resolve" => at = 1 /\ disk = Stored
  /\ pc = "persist" =>
       ~dryRun /\ (exit = "none" => \A m \in Managers : m < at => disk[m] = CleanedPolicy(m))
  /\ pc \in {"build", "updates", "removals"} =>
       disk = IF dryRun THEN Stored ELSE [m \in Managers |-> CleanedPolicy(m)]

\* The result of an item, whether or not its manager's call has returned.
Result(i) == IF batch[i] # "none" THEN batch[i] ELSE report[i]

ReportOK ==
  exit \in {"none", "ok", "failed"} =>
    /\ \A i \in Items :
         /\ Result(i) # "none" <=> i \in attempted
         /\ batch[i] # "none" => report[i] = "none"
         /\ Result(i) = "succeeded" <=> world[i] \in {"updated", "removed"}
         /\ Result(i) \in {"failed", "unknown"} <=> world[i] = "uncertain"
    /\ at = N + 1 \/ pc \notin {"updates", "removals"} => batch = NoResults
    /\ hadError <=> errored # {} \/ \E i \in Items : report[i] \in {"failed", "unknown"}

ExitOK ==
  exit \in {"ok", "failed"} =>
    pc = "removals" /\ at = N + 1 /\ (exit = "failed" <=> hadError)

IndInv == TypeOK /\ ListsOK /\ StageOK /\ SaveOK /\ ReportOK /\ ExitOK

-----------------------------------------------------------------------------
(* Each part of the invariant is preserved.  Most actions leave the variables *)
(* of a part alone; the lemmas name the few that do not.                      *)

\* What starting a command does to the lists and to the attempted items.
LEMMA StartCommandEffect ==
  ASSUME TypeOK, ListsOK, NEW c, StartCommand(c), UNCHANGED <<action, errored>>
  PROVE  /\ ListsOK'
         /\ at \in Managers /\ at \notin errored
         /\ c \in Command
         /\ \A i \in c.items :
              /\ action[i] = (IF pc = "updates" THEN "update" ELSE "remove")
              /\ ManagerOf[i] = at
              /\ i \notin attempted
         /\ c.items # {}
<1> USE DEF TypeOK, StartCommand, Remaining
<1>1. at \in Managers /\ at \notin errored
  OBVIOUS
<1>2. CASE pc = "updates"
  <2>1. c \in updates[at]
    BY <1>2
  <2>2. c \in Command /\ c.items # {}
    BY <1>1, <2>1 DEF ListsOK, ListOK
  <2>3. \A i \in c.items : action[i] = "update" /\ ManagerOf[i] = at /\ i \notin attempted
    BY <1>1, <2>1 DEF ListsOK, ListOK
  <2>4. /\ updates' = [updates EXCEPT ![at] = @ \ {c}]
        /\ UNCHANGED removals
        /\ attempted' = attempted \cup c.items
    BY <1>2
  <2>5. \A m \in Managers : \A d \in updates'[m] : d \in updates[m] /\ d.items \cap c.items = {}
    <3> SUFFICES ASSUME NEW m \in Managers, NEW d \in updates'[m]
                 PROVE  d \in updates[m] /\ d.items \cap c.items = {}
      OBVIOUS
    <3>1. d \in updates[m] /\ (m = at => d # c)
      BY <1>1, <2>4
    <3>2. CASE m = at
      BY <1>1, <2>1, <3>1, <3>2 DEF ListsOK, ListOK
    <3>3. CASE m # at
      BY <1>1, <2>3, <3>1, <3>3 DEF ListsOK, ListOK
    <3> QED
      BY <3>1, <3>2, <3>3
  <2>6. \A m \in Managers : \A d \in removals[m] : d.items \cap c.items = {}
    BY <2>3 DEF ListsOK, ListOK
  <2>7. ListsOK'
    BY <1>1, <2>4, <2>5, <2>6 DEF ListsOK, ListOK
  <2> QED
    BY <1>1, <1>2, <2>2, <2>3, <2>7
<1>3. CASE pc = "removals"
  <2>1. c \in removals[at]
    BY <1>3
  <2>2. c \in Command /\ c.items # {}
    BY <1>1, <2>1 DEF ListsOK, ListOK
  <2>3. \A i \in c.items : action[i] = "remove" /\ ManagerOf[i] = at /\ i \notin attempted
    BY <1>1, <2>1 DEF ListsOK, ListOK
  <2>4. /\ removals' = [removals EXCEPT ![at] = @ \ {c}]
        /\ UNCHANGED updates
        /\ attempted' = attempted \cup c.items
    BY <1>3
  <2>5. \A m \in Managers : \A d \in removals'[m] : d \in removals[m] /\ d.items \cap c.items = {}
    <3> SUFFICES ASSUME NEW m \in Managers, NEW d \in removals'[m]
                 PROVE  d \in removals[m] /\ d.items \cap c.items = {}
      OBVIOUS
    <3>1. d \in removals[m] /\ (m = at => d # c)
      BY <1>1, <2>4
    <3>2. CASE m = at
      BY <1>1, <2>1, <3>1, <3>2 DEF ListsOK, ListOK
    <3>3. CASE m # at
      BY <1>1, <2>3, <3>1, <3>3 DEF ListsOK, ListOK
    <3> QED
      BY <3>1, <3>2, <3>3
  <2>6. \A m \in Managers : \A d \in updates[m] : d.items \cap c.items = {}
    BY <2>3 DEF ListsOK, ListOK
  <2>7. ListsOK'
    BY <1>1, <2>4, <2>5, <2>6 DEF ListsOK, ListOK
  <2> QED
    BY <1>1, <1>3, <2>2, <2>3, <2>7
<1> QED
  BY <1>2, <1>3

\* What one successful turn of the construction loop leaves in the lists.
LEMMA BuildEffect ==
  ASSUME TypeOK, ListsOK, StageOK, Build
  PROVE  /\ ListsOK'
         /\ at \in Managers
         /\ \A m \in Managers : m = at => Covered(m)'
         /\ \A m \in Managers : m # at =>
              /\ updates'[m] = updates[m] /\ removals'[m] = removals[m]
              /\ m \in errored' <=> m \in errored
<1> USE DEF TypeOK, runVars, selectionVars
<1>1. /\ at \in Managers /\ updates[at] = {} /\ removals[at] = {} /\ at \notin errored
      /\ attempted = {}
  BY DEF Build, Managers, StageOK
<1>2. UNCHANGED <<action, attempted>>
  BY DEF Build
<1>3. PICK cs \in CommandLists(ItemsOf(at)) :
        \/ errored' = errored \cup {at} /\ UNCHANGED <<updates, removals>>
        \/ /\ \A c \in cs : ~IsMixed(c)
           /\ updates' = [updates EXCEPT ![at] = {c \in cs : ~IsRemoval(c)}]
           /\ removals' = [removals EXCEPT ![at] = {c \in cs : IsRemoval(c)}]
           /\ UNCHANGED errored
  BY DEF Build
<1>4. CASE errored' = errored \cup {at} /\ UNCHANGED <<updates, removals>>
  <2>1. ListsOK'
    BY <1>1, <1>2, <1>4 DEF ListsOK, ListOK
  <2>2. \A m \in Managers : m = at => Covered(m)'
    BY <1>4 DEF Covered
  <2> QED
    BY <1>1, <1>4, <2>1, <2>2
<1>5. CASE /\ \A c \in cs : ~IsMixed(c)
           /\ updates' = [updates EXCEPT ![at] = {c \in cs : ~IsRemoval(c)}]
           /\ removals' = [removals EXCEPT ![at] = {c \in cs : IsRemoval(c)}]
           /\ UNCHANGED errored
  <2>1. ItemsOf(at) \subseteq Items
    BY DEF ItemsOf
  <2>2. /\ cs \subseteq Command
        /\ \A c \in cs : c.items # {} /\ c.items \subseteq ItemsOf(at)
        /\ \A c, d \in cs : c # d => c.items \cap d.items = {}
        /\ \A i \in ItemsOf(at) : \E c \in cs : i \in c.items
    BY <2>1, CommandListsPartition
  <2>3. \A c \in cs : \A i \in c.items : i \in Items /\ ManagerOf[i] = at /\ action[i] # "none"
    BY <2>2 DEF ItemsOf
  <2>4. \A c \in cs : ~IsRemoval(c) => \A i \in c.items : action[i] = "update"
    BY <2>3 DEF IsRemoval, Actions
  <2>5. \A c \in cs : IsRemoval(c) => \A i \in c.items : action[i] = "remove"
    BY <1>5 DEF IsMixed
  <2>6. \A m \in Managers : m # at => updates'[m] = updates[m] /\ removals'[m] = removals[m]
    BY <1>1, <1>5
  <2>7. ListOK(updates'[at], at, "update") /\ ListOK(removals'[at], at, "remove")
    <3>1. /\ updates'[at] = {c \in cs : ~IsRemoval(c)}
          /\ removals'[at] = {c \in cs : IsRemoval(c)}
      BY <1>1, <1>5
    <3> QED
      BY <1>1, <2>2, <2>3, <2>4, <2>5, <3>1 DEF ListOK
  <2>8. \A m \in Managers : /\ ListOK(updates'[m], m, "update")
                            /\ ListOK(removals'[m], m, "remove")
    BY <2>6, <2>7 DEF ListsOK
  <2>9. ListsOK'
    BY <1>1, <1>2, <1>5, <2>6, <2>8 DEF ListsOK, ListOK
  <2>10. \A i \in ItemsOf(at) : \E c \in updates'[at] \cup removals'[at] : i \in c.items
    BY <1>1, <1>5, <2>2
  <2>11. \A m \in Managers : ItemsOf(m)' = ItemsOf(m)
    BY <1>2 DEF ItemsOf
  <2>12. \A m \in Managers : m = at => Covered(m)'
    BY <2>10, <2>11 DEF Covered
  <2> QED
    BY <1>1, <1>5, <2>6, <2>9, <2>12
<1> QED
  BY <1>3, <1>4, <1>5

\* The confirmed selection never changes.
LEMMA SelectionFixed ==
  ASSUME [Next]_vars PROVE UNCHANGED <<action, draft, dryRun>>
BY DEF Next, Step, Work, vars, selectionVars, ResolveAll, ResolveFails, Persist, PersistFails,
       PersistDone, Build, BuildFails, BuildInterrupted, BuildDone, RunCommand,
       CommandSucceeds, CommandFails, CommandInterrupted, FinishManager, FinishUpdates,
       FinishRemovals, Killed, Returned

\* Only building and running touch the lists and what was attempted.
LEMMA ListsFixed ==
  ASSUME [Next]_vars, ~Build, ~BuildFails, \A c \in Command : ~RunCommand(c), TypeOK
  PROVE  UNCHANGED <<updates, removals, errored, attempted>>
BY DEF Next, Step, Work, vars, buildVars, runVars, ResolveAll, ResolveFails, Persist, PersistFails,
       PersistDone, BuildInterrupted, BuildDone, FinishManager, FinishUpdates,
       FinishRemovals, Killed, Returned, TypeOK

\* A command step starts a command and leaves the managers in error alone.
LEMMA RunCommandStarts ==
  ASSUME TypeOK, NEW c, RunCommand(c)
  PROVE  /\ StartCommand(c) /\ UNCHANGED <<action, draft, dryRun, disk, pc, at, errored, report, hadError>>
         /\ exit' = exit \/ exit' \in {"interrupted", "killed"}
BY DEF RunCommand, CommandSucceeds, CommandFails, CommandInterrupted, Return, selectionVars

\* What is left in the command lists, and what was attempted, stay a partition
\* of the accepted items.
LEMMA ListsStep ==
  ASSUME IndInv, [Next]_vars PROVE ListsOK'
<1> USE DEF IndInv
<1>1. CASE Build
  BY <1>1, BuildEffect
<1>2. CASE BuildFails
  BY <1>2 DEF BuildFails, ListsOK, ListOK, StageOK, runVars, selectionVars, TypeOK, Managers
<1>3. CASE \E c \in Command : RunCommand(c)
  BY <1>3, RunCommandStarts, StartCommandEffect
<1>4. CASE ~Build /\ ~BuildFails /\ \A c \in Command : ~RunCommand(c)
  BY <1>4, ListsFixed, SelectionFixed DEF ListsOK, ListOK
<1> QED
  BY <1>1, <1>2, <1>3, <1>4

\* Each stage keeps what it promises to the next one: the lists are final
\* before the first pass, and the update lists empty before the second.
LEMMA StageStep ==
  ASSUME IndInv, [Next]_vars PROVE StageOK'
<1> USE DEF IndInv
<1>1. CASE Build
  <2>1. /\ at \in Managers /\ at' = at + 1 /\ pc = "build" /\ pc' = "build"
        /\ UNCHANGED <<attempted, action>>
    BY <1>1 DEF Build, runVars, selectionVars
  <2>2. attempted' = {}
    BY <2>1 DEF StageOK
  <2>3. \A m \in Managers : m < at => Covered(m)'
    BY <1>1, <2>1, BuildEffect DEF StageOK, Covered, ItemsOf
  <2>4. \A m \in Managers : m < at' => Covered(m)'
    BY <1>1, <2>1, <2>3, BuildEffect DEF TypeOK, Managers
  <2>5. \A m \in Managers :
          m >= at' => updates'[m] = {} /\ removals'[m] = {} /\ m \notin errored'
    BY <1>1, <2>1, BuildEffect DEF StageOK, TypeOK, Managers
  <2> QED
    BY <2>1, <2>2, <2>4, <2>5 DEF StageOK, TypeOK, Managers
<1>2. CASE BuildFails
  BY <1>2 DEF BuildFails, StageOK, Covered, ItemsOf, runVars, selectionVars, TypeOK, Managers
<1>3. CASE \E c \in Command : RunCommand(c)
  <2>1. PICK c \in Command : RunCommand(c)
    BY <1>3
  <2>2. /\ StartCommand(c) /\ UNCHANGED <<action, pc, at, errored>>
        /\ at \in Managers /\ at \notin errored
        /\ attempted' = attempted \cup c.items
    BY <2>1, RunCommandStarts, StartCommandEffect DEF StartCommand
  <2>3. \A i \in c.items :
          /\ i \in Items
          /\ action[i] = (IF pc = "updates" THEN "update" ELSE "remove")
          /\ ManagerOf[i] = at
    BY <2>1, <2>2, RunCommandStarts, StartCommandEffect DEF Command
  <2>4. \A i \in attempted' : Accepted(i)'
    BY <2>2, <2>3 DEF StageOK, Accepted
  <2>5. \A m \in Managers : Covered(m)'
    <3>1. \A m \in Managers : Covered(m)
      BY <2>2 DEF StageOK, StartCommand
    <3>2. ASSUME NEW m \in Managers, NEW d \in updates[m] \cup removals[m], d # c
          PROVE  d \in updates'[m] \cup removals'[m]
      BY <2>2, <3>2 DEF StartCommand, TypeOK
    <3> QED
      BY <2>2, <3>1, <3>2 DEF Covered, ItemsOf
  <2>6. CASE pc = "updates"
    <3>1. \A i \in attempted' : action'[i] = "update"
      BY <2>2, <2>3, <2>6 DEF StageOK
    <3>2. \A m \in Managers : m < at' => updates'[m] = {}
      <4>1. updates' = [updates EXCEPT ![at] = @ \ {c}] /\ at' = at
        BY <2>2, <2>6 DEF StartCommand
      <4>2. \A m \in Managers : m < at => updates[m] = {}
        BY <2>6 DEF StageOK
      <4> QED
        BY <4>1, <4>2 DEF TypeOK, Managers
    <3>3. pc' = "updates"
      BY <2>2, <2>6
    <3> QED
      BY <2>4, <2>5, <3>1, <3>2, <3>3 DEF StageOK
  <2>7. CASE pc = "removals"
    <3>1. \A m \in Managers : updates'[m] = {} /\ (m < at' => removals'[m] = {})
      <4>1. removals' = [removals EXCEPT ![at] = @ \ {c}] /\ updates' = updates /\ at' = at
        BY <2>2, <2>7 DEF StartCommand
      <4>2. \A m \in Managers : updates[m] = {} /\ (m < at => removals[m] = {})
        BY <2>7 DEF StageOK
      <4> QED
        BY <4>1, <4>2 DEF TypeOK, Managers
    <3>2. pc' = "removals"
      BY <2>2, <2>7
    <3> QED
      BY <2>4, <2>5, <3>1, <3>2 DEF StageOK
  <2> QED
    BY <2>2, <2>6, <2>7 DEF StartCommand
<1>4. CASE ResolveAll \/ PersistDone
  <2>1. /\ pc \in {"resolve", "persist"} /\ pc' \in {"persist", "build"} /\ at' = 1
        /\ UNCHANGED <<action, updates, removals, errored, attempted>>
    BY <1>4 DEF ResolveAll, PersistDone, SaveOK, selectionVars, buildVars, runVars
  <2> QED
    BY <2>1 DEF StageOK, Accepted, Managers
<1>5. CASE BuildDone
  BY <1>5 DEF BuildDone, StageOK, Covered, ItemsOf, Accepted, selectionVars, buildVars,
              runVars, TypeOK, Managers
<1>6. CASE FinishManager
  <2>1. /\ at \in Managers /\ at' = at + 1 /\ pc \in {"updates", "removals"}
        /\ UNCHANGED <<action, pc, updates, removals, errored, attempted>>
        /\ at \notin errored => Remaining(at) = {}
    BY <1>6 DEF FinishManager, selectionVars, buildVars
  <2>2. Remaining(at) = {}
    BY <2>1 DEF ListsOK, Remaining
  <2>3. \A m \in Managers : m < at' => m < at \/ m = at
    BY <2>1 DEF Managers, TypeOK
  <2>4. \A m \in Managers : Covered(m)'
    BY <2>1 DEF StageOK, Covered, ItemsOf
  <2> QED
    BY <2>1, <2>2, <2>3, <2>4 DEF StageOK, Remaining, Accepted
<1>7. CASE FinishUpdates
  BY <1>7 DEF FinishUpdates, StageOK, Covered, ItemsOf, Accepted, selectionVars, buildVars,
              runVars, TypeOK, Managers
<1>8. CASE ResolveFails \/ Persist \/ PersistFails \/ BuildInterrupted \/ FinishRemovals
           \/ Killed \/ UNCHANGED vars
  <2>1. /\ UNCHANGED <<action, pc, updates, removals, errored, attempted>>
        /\ UNCHANGED at \/ pc \in {"persist", "resolve"}
    BY <1>8 DEF ResolveFails, Persist, PersistFails, BuildInterrupted, FinishRemovals, Killed,
                Return, vars, selectionVars, buildVars, runVars
  <2> QED
    BY <2>1 DEF StageOK, Covered, ItemsOf, Accepted
<1> QED
  BY <1>1, <1>2, <1>3, <1>4, <1>5, <1>6, <1>7, <1>8 DEF Next, Step, Work, Returned, TypeOK

\* Every step keeps the saved prefix of the managers saved, and the rest as it
\* was found.
LEMMA SaveStep ==
  ASSUME IndInv, [Next]_vars PROVE SaveOK'
<1> USE DEF IndInv
<1>1. /\ UNCHANGED <<action, draft, dryRun>>
      /\ \A m \in Managers : CleanedPolicy(m)' = CleanedPolicy(m)
  BY SelectionFixed DEF CleanedPolicy, ItemsOf
<1>2. CASE exit = "none" /\ Persist
  <2>1. /\ pc = "persist" /\ pc' = "persist" /\ at' = at + 1 /\ at \in Managers
        /\ disk' = [disk EXCEPT ![at] = CleanedPolicy(at)]
    BY <1>2 DEF Persist
  <2>2. \A m \in Managers : m < at' => disk'[m] = CleanedPolicy(m)
    BY <1>2, <2>1 DEF SaveOK, TypeOK, Managers
  <2> QED
    BY <1>1, <2>1, <2>2 DEF SaveOK
<1>3. CASE exit = "none" /\ PersistDone
  <2>1. /\ pc = "persist" /\ pc' = "build" /\ disk' = disk /\ at = N + 1
    BY <1>3 DEF PersistDone
  <2>2. disk = [m \in Managers |-> CleanedPolicy(m)] /\ ~dryRun
    BY <1>3, <2>1 DEF SaveOK, TypeOK, Managers
  <2> QED
    BY <1>1, <2>1, <2>2 DEF SaveOK
<1>4. CASE exit = "none" /\ ResolveAll
  BY <1>1, <1>4 DEF SaveOK, ResolveAll, Managers
<1>5. CASE exit = "none" /\ pc = "persist" /\ (PersistFails \/ Killed)
  BY <1>1, <1>5 DEF SaveOK, PersistFails, Killed, Return
<1>6. ASSUME disk' = disk,
             \/ pc' = pc /\ at' = at
             \/ {pc, pc'} \subseteq {"build", "updates", "removals"},
             exit' = "none" => exit = "none"
      PROVE  SaveOK'
  BY <1>1, <1>6 DEF SaveOK
<1>7. CASE UNCHANGED vars
  BY <1>6, <1>7 DEF vars
<1>8. CASE exit = "none" /\ ResolveFails
  BY <1>6, <1>8 DEF ResolveFails, Return
<1>9. CASE exit = "none" /\ (Build \/ BuildFails \/ BuildInterrupted \/ BuildDone)
  BY <1>6, <1>9 DEF Build, BuildFails, BuildInterrupted, BuildDone, Return
<1>10. CASE exit = "none" /\ \E c \in Command : RunCommand(c)
  BY <1>6, <1>10, RunCommandStarts
<1>11. CASE exit = "none" /\ (FinishManager \/ FinishUpdates \/ FinishRemovals)
  BY <1>6, <1>11 DEF FinishManager, FinishUpdates, FinishRemovals, Return
<1>12. CASE exit = "none" /\ pc # "persist" /\ (PersistFails \/ Killed)
  BY <1>6, <1>12 DEF PersistFails, Killed, Return
<1> QED
  BY <1>2, <1>3, <1>4, <1>5, <1>7, <1>8, <1>9, <1>10, <1>11, <1>12
     DEF Next, Step, Work, Returned, TypeOK

\* Every step keeps the results, the accumulated report and had_error in
\* agreement with what happened to the items.
LEMMA ReportStep ==
  ASSUME IndInv, [Next]_vars PROVE ReportOK'
<1> USE DEF IndInv
<1>1. CASE exit = "none" /\ FinishManager
  <2>1. /\ \A i \in Items : batch'[i] = "none" /\ report'[i] = Result(i)
        /\ batch' = NoResults
        /\ UNCHANGED <<world, attempted, errored, exit>>
        /\ hadError' = (hadError \/ \E i \in Items : batch[i] \in {"failed", "unknown"})
    BY <1>1 DEF FinishManager, HasFailures, NoResults, Result, buildVars
  <2>2. \A i \in Items : Result(i)' = Result(i)
    BY <2>1 DEF Result
  <2>3. (\E i \in Items : report'[i] \in {"failed", "unknown"}) <=>
          \E i \in Items : batch[i] \in {"failed", "unknown"} \/ report[i] \in {"failed", "unknown"}
    BY <1>1, <2>1 DEF Result, ReportOK
  <2>4. hadError' <=> errored' # {} \/ \E i \in Items : report'[i] \in {"failed", "unknown"}
    BY <1>1, <2>1, <2>3 DEF ReportOK
  <2> QED
    BY <1>1, <2>1, <2>2, <2>4 DEF ReportOK
<1>2. CASE exit = "none" /\ \E c \in Command : RunCommand(c)
  <2>1. PICK c \in Command : RunCommand(c)
    BY <1>2
  <2>2. /\ StartCommand(c) /\ at \in Managers /\ c.items \subseteq Items
        /\ UNCHANGED <<action, pc, at, errored, report, hadError>>
        /\ attempted' = attempted \cup c.items
        /\ \A i \in c.items : i \notin attempted
    BY <2>1, RunCommandStarts, StartCommandEffect DEF StartCommand, Command
  <2>3. \A i \in c.items : /\ batch[i] = "none" /\ report[i] = "none"
                           /\ world[i] \notin {"updated", "removed", "uncertain"}
    BY <1>2, <2>2 DEF ReportOK, Result
  <2>4. at' # N + 1 /\ pc' \in {"updates", "removals"}
    BY <2>2 DEF StartCommand, Managers
  <2>5. CASE CommandInterrupted(c)
    BY <2>5 DEF CommandInterrupted, Return, ReportOK
  <2>6. ASSUME NEW status \in {"succeeded", "skipped", "failed", "unknown"},
               exit' = exit,
               batch' = [i \in Items |-> IF i \in c.items THEN status ELSE batch[i]],
               \A i \in Items \ c.items : world'[i] = world[i],
               \A i \in c.items : /\ status = "succeeded" <=> world'[i] \in {"updated", "removed"}
                                  /\ status \in {"failed", "unknown"} <=> world'[i] = "uncertain"
        PROVE  ReportOK'
    <3>1. \A i \in c.items : Result(i)' = status
      BY <2>2, <2>6 DEF Result
    <3>2. \A i \in Items \ c.items : Result(i)' = Result(i) /\ batch'[i] = batch[i]
      BY <2>2, <2>6 DEF Result
    <3>3. \A i \in Items :
            /\ Result(i)' # "none" <=> i \in attempted'
            /\ batch'[i] # "none" => report'[i] = "none"
            /\ Result(i)' = "succeeded" <=> world'[i] \in {"updated", "removed"}
            /\ Result(i)' \in {"failed", "unknown"} <=> world'[i] = "uncertain"
      <4> TAKE i \in Items
      <4>1. CASE i \in c.items
        <5>1. Result(i)' = status /\ i \in attempted' /\ report'[i] = "none"
          BY <2>2, <2>3, <3>1, <4>1
        <5>2. /\ status # "none"
              /\ status = "succeeded" <=> world'[i] \in {"updated", "removed"}
              /\ status \in {"failed", "unknown"} <=> world'[i] = "uncertain"
          BY <2>6, <4>1
        <5> QED
          BY <5>1, <5>2
      <4>2. CASE i \notin c.items
        <5>1. /\ Result(i)' = Result(i) /\ batch'[i] = batch[i] /\ report'[i] = report[i]
              /\ world'[i] = world[i]
              /\ i \in attempted' <=> i \in attempted
          BY <2>2, <2>6, <3>2, <4>2
        <5> QED
          BY <1>2, <5>1 DEF ReportOK
      <4> QED
        BY <4>1, <4>2
    <3> QED
      BY <1>2, <2>2, <2>4, <3>3 DEF ReportOK
  <2>7. CASE CommandSucceeds(c)
    <3>1. CASE dryRun
      BY <2>2, <2>3, <2>6, <2>7, <3>1 DEF CommandSucceeds, Record
    <3>2. CASE ~dryRun
      BY <2>2, <2>6, <2>7, <3>2 DEF CommandSucceeds, Record, Effect, Wanted
    <3> QED
      BY <3>1, <3>2
  <2>8. CASE CommandFails(c)
    BY <2>2, <2>6, <2>8 DEF CommandFails, Record, Effect, Uncertain
  <2> QED
    BY <2>1, <2>5, <2>7, <2>8 DEF RunCommand
<1>3. CASE exit = "none" /\ (Build \/ BuildFails)
  <2>1. /\ UNCHANGED <<batch, report, world, attempted, pc, exit>>
        /\ pc = "build"
        /\ \/ hadError' = TRUE /\ at \in errored'
           \/ UNCHANGED <<hadError, errored>>
    BY <1>3 DEF Build, BuildFails, runVars
  <2>2. \A i \in Items : Result(i)' = Result(i)
    BY <2>1 DEF Result
  <2>3. batch' = NoResults
    BY <1>3, <2>1 DEF ReportOK
  <2>4. hadError' <=> errored' # {} \/ \E i \in Items : report'[i] \in {"failed", "unknown"}
    BY <1>3, <2>1 DEF ReportOK
  <2> QED
    BY <1>3, <2>1, <2>2, <2>3, <2>4 DEF ReportOK
<1>4. ASSUME UNCHANGED <<batch, report, world, attempted, errored, hadError>>,
             exit \in {"none", "ok", "failed"} \/ exit' \notin {"none", "ok", "failed"},
             (pc' = pc /\ at' = at) \/ batch = NoResults
      PROVE  ReportOK'
  <2>1. \A i \in Items : Result(i)' = Result(i)
    BY <1>4 DEF Result
  <2> QED
    BY <1>4, <2>1 DEF ReportOK, NoResults
<1>5. CASE exit = "none" /\ (ResolveAll \/ Persist \/ PersistDone \/ BuildDone \/ FinishUpdates)
  <2>1. batch = NoResults
    BY <1>5 DEF ReportOK, ResolveAll, Persist, PersistDone, BuildDone, FinishUpdates
  <2> QED
    BY <1>4, <1>5, <2>1 DEF ResolveAll, Persist, PersistDone, BuildDone, FinishUpdates,
                            buildVars, runVars
<1>6. CASE exit = "none" /\ (ResolveFails \/ PersistFails \/ BuildInterrupted \/ FinishRemovals \/ Killed)
  BY <1>4, <1>6 DEF ResolveFails, PersistFails, BuildInterrupted, FinishRemovals, Killed,
                    Return, buildVars, runVars
<1>7. CASE UNCHANGED vars
  BY <1>4, <1>7 DEF vars, runVars, buildVars
<1> QED
  BY <1>1, <1>2, <1>3, <1>5, <1>6, <1>7 DEF Next, Step, Work, Returned, TypeOK

\* The function only returns from the stage its outcome belongs to.
LEMMA ExitStep ==
  ASSUME IndInv, [Next]_vars PROVE ExitOK'
<1>1. CASE UNCHANGED <<exit, pc, at, hadError>>
  BY <1>1 DEF IndInv, ExitOK
<1>2. CASE exit = "none" /\ exit' \notin {"ok", "failed"}
  BY <1>2 DEF ExitOK
<1>3. CASE exit = "none" /\ FinishRemovals
  BY <1>3 DEF ExitOK, FinishRemovals, Return, IndInv, TypeOK
<1>4. CASE exit = "none" /\ \E c \in Command : RunCommand(c)
  BY <1>2, <1>4, RunCommandStarts DEF IndInv
<1>5. CASE exit = "none" /\ (ResolveFails \/ PersistFails \/ BuildInterrupted \/ Killed)
  BY <1>2, <1>5 DEF ResolveFails, PersistFails, BuildInterrupted, Killed, Return
<1>6. CASE exit = "none" /\ (ResolveAll \/ Persist \/ PersistDone \/ Build \/ BuildFails
                            \/ BuildDone \/ FinishManager \/ FinishUpdates)
  BY <1>2, <1>6 DEF ResolveAll, Persist, PersistDone, Build, BuildFails, BuildDone,
                    FinishManager, FinishUpdates
<1>7. CASE UNCHANGED vars
  BY <1>1, <1>7 DEF vars
<1> QED
  BY <1>3, <1>4, <1>5, <1>6, <1>7 DEF Next, Step, Work, Returned, IndInv, TypeOK

-----------------------------------------------------------------------------
(* The theorems. *)

\* The inductive invariant holds along every behaviour.
THEOREM Inductive == Spec => []IndInv
<1>1. Init => IndInv
  <2> SUFFICES ASSUME Init, TypeOK PROVE IndInv
    BY InitTypeOK
  <2>1. ListsOK
    BY DEF Init, ListsOK, ListOK
  <2>2. StageOK
    BY DEF Init, StageOK
  <2>3. SaveOK
    BY DEF Init, SaveOK
  <2>4. ReportOK
    BY DEF Init, ReportOK, Result, NoResults
  <2> QED
    BY <2>1, <2>2, <2>3, <2>4 DEF Init, IndInv, ExitOK
<1>2. IndInv /\ TypeOK' /\ [Next]_vars => IndInv'
  BY ListsStep, StageStep, SaveStep, ReportStep, ExitStep DEF IndInv
<1> QED
  BY <1>1, <1>2, TypeCorrect, PTL DEF Spec

\* No removal starts before every accepted update has: the accepted items are
\* all covered by commands, and no update command is left in the second pass.
THEOREM RemovalsComeLast == Spec => []RemovalsAfterUpdates
<1>1. IndInv => RemovalsAfterUpdates
  <2> SUFFICES ASSUME IndInv, NEW r \in attempted, action[r] = "remove",
                      NEW u \in Items, action[u] = "update", Accepted(u)
               PROVE  u \in attempted
    BY DEF RemovalsAfterUpdates
  <2>1. pc = "removals"
    BY DEF IndInv, StageOK, TypeOK, Stages
  <2>2. ManagerOf[u] \in Managers /\ u \in ItemsOf(ManagerOf[u])
    BY DEF ItemsOf
  <2>3. u \in attempted \/ \E c \in removals[ManagerOf[u]] : u \in c.items
    BY <2>1, <2>2 DEF IndInv, StageOK, Covered, Accepted
  <2> QED
    BY <2>2, <2>3 DEF IndInv, ListsOK, ListOK
<1> QED
  BY <1>1, Inductive, PTL

\* Preferences are saved before the first command, and never by a dry run.
THEOREM SavedFirst == Spec => []SavedBeforeRun
<1>1. IndInv => SavedBeforeRun
  BY DEF IndInv, SavedBeforeRun, StageOK, SaveOK, TypeOK, Stages
<1> QED
  BY <1>1, Inductive, PTL

\* The printed table accounts for every selected item and only reports what
\* happened.
THEOREM TruthfulReport == Spec => []ReportTellsTheTruth
<1>1. IndInv => ReportTellsTheTruth
  <2> SUFFICES ASSUME IndInv, exit \in {"ok", "failed"}, NEW i \in Items
               PROVE  /\ i \in attempted <=> Accepted(i)
                      /\ report[i] # "none" <=> Accepted(i)
                      /\ report[i] = "succeeded" <=> world[i] \in {"updated", "removed"}
                      /\ report[i] \in {"failed", "unknown"} <=> world[i] = "uncertain"
    BY DEF ReportTellsTheTruth
  <2>1. pc = "removals" /\ at = N + 1
    BY DEF IndInv, ExitOK
  <2>2. \A m \in Managers : updates[m] = {} /\ removals[m] = {}
    BY <2>1 DEF IndInv, StageOK, Managers
  <2>3. i \in attempted <=> Accepted(i)
    <3>1. Accepted(i) => i \in attempted
      BY <2>1, <2>2 DEF IndInv, StageOK, Covered, Accepted, ItemsOf
    <3> QED
      BY <3>1 DEF IndInv, StageOK
  <2>4. Result(i) = report[i]
    BY <2>1 DEF IndInv, ReportOK, Result, NoResults
  <2> QED
    BY <2>3, <2>4 DEF IndInv, ReportOK
<1> QED
  BY <1>1, Inductive, PTL

\* The exit status is a success exactly when everything selected succeeded.
THEOREM HonestExit == Spec => []SuccessMeansAll
<1>1. IndInv /\ ReportTellsTheTruth => SuccessMeansAll
  <2> SUFFICES ASSUME IndInv, ReportTellsTheTruth, exit \in {"ok", "failed"}
               PROVE  exit = "ok" <=>
                        /\ errored = {}
                        /\ \A i \in Items :
                             action[i] # "none" => report[i] \in {"succeeded", "skipped"}
    BY DEF SuccessMeansAll
  <2>1. exit = "ok" <=> errored = {} /\ \A i \in Items : report[i] \notin {"failed", "unknown"}
    BY DEF IndInv, ExitOK, ReportOK
  <2>2. \A i \in Items : report[i] # "none" <=> Accepted(i)
    BY DEF ReportTellsTheTruth
  <2>3. \A i \in Items : report[i] \in Statuses
    BY DEF IndInv, TypeOK
  <2> QED
    BY <2>1, <2>2, <2>3 DEF Accepted, Statuses
<1> QED
  BY <1>1, Inductive, TruthfulReport, PTL

-----------------------------------------------------------------------------
(* Properties of steps, and the refinement of TwoPhaseApply.                 *)

\* A command only starts for items that were waiting, so the state of an item
\* changes at most once.
THEOREM AttemptedOnce == Spec => OneAttemptPerItem
<1>1. IndInv /\ [Next]_vars =>
        [\A i \in Items : world'[i] # world[i] => i \in attempted' \ attempted]_vars
  <2> SUFFICES ASSUME IndInv, Next, NEW i \in Items, world'[i] # world[i]
               PROVE  i \in attempted' \ attempted
    OBVIOUS
  <2>1. PICK c : RunCommand(c)
    BY DEF Next, Step, Work, vars, runVars, ResolveAll, ResolveFails, Persist, PersistFails,
           PersistDone, Build, BuildFails, BuildInterrupted, BuildDone, FinishManager,
           FinishUpdates, FinishRemovals, Killed, Returned
  <2>2. StartCommand(c) /\ UNCHANGED <<action, errored>>
    BY <2>1, RunCommandStarts DEF IndInv
  <2>3. i \in c.items
    BY <2>1 DEF RunCommand, CommandSucceeds, CommandFails, CommandInterrupted, Effect
  <2>4. attempted' = attempted \cup c.items
    BY <2>2 DEF StartCommand
  <2> QED
    BY <2>2, <2>3, <2>4, StartCommandEffect DEF IndInv
<1> QED
  BY <1>1, Inductive, PTL DEF Spec, OneAttemptPerItem

\* Returning, wherever it happens, closes the promise.
LEMMA ReturnCloses ==
  ASSUME IndInv, exit = "none", NEW how \in Outcomes \ {"none"}, Return(how),
         UNCHANGED <<action, errored, attempted>>
  PROVE  Promise!Close
BY DEF Return, Promise!Close, PhaseOf, AcceptedItems, Accepted, IndInv, TypeOK, Stages

\* Every step of the function is a step of the promise, or invisible to it.
LEMMA StepKeepsPromise ==
  ASSUME IndInv, [Next]_vars PROVE [Promise!Next]_(Promise!vars)
<1> USE DEF Promise!vars
<1>1. CASE UNCHANGED <<action, pc, exit, errored, attempted>>
  BY <1>1 DEF PhaseOf, AcceptedItems, Accepted
<1>2. CASE exit = "none" /\ pc # "updates" /\ pc # "removals" /\ pc' # "updates" /\ pc' # "removals"
           /\ UNCHANGED <<action, exit, attempted>>
  BY <1>2 DEF PhaseOf, AcceptedItems
<1>3. CASE exit = "none" /\ (\E how \in Outcomes \ {"none"} : Return(how))
           /\ UNCHANGED <<action, errored, attempted>>
  BY <1>3, ReturnCloses DEF Promise!Next
<1>4. CASE exit = "none" /\ BuildDone
  <2>1. /\ PhaseOf = "prepare" /\ PhaseOf' = "updates"
        /\ UNCHANGED <<action, attempted>>
    BY <1>4 DEF BuildDone, PhaseOf, runVars, selectionVars
  <2>2. AcceptedItems' \subseteq Promise!UpdateItems \cup Promise!RemovalItems
    BY <1>4 DEF BuildDone, AcceptedItems, Accepted, buildVars, selectionVars,
                Promise!UpdateItems, Promise!RemovalItems, IndInv, TypeOK, Actions
  <2> QED
    BY <2>1, <2>2 DEF Promise!Next, Promise!Begin
<1>5. CASE exit = "none" /\ FinishUpdates
  <2>1. /\ PhaseOf = "updates" /\ PhaseOf' = "removals"
        /\ UNCHANGED <<action, attempted, errored>>
        /\ pc = "updates" /\ pc' = "removals" /\ at = N + 1
    BY <1>5 DEF FinishUpdates, PhaseOf, runVars, selectionVars, buildVars
  <2>2. UNCHANGED AcceptedItems
    BY <2>1 DEF AcceptedItems, Accepted
  <2>3. ASSUME NEW u \in Items, action[u] = "update", Accepted(u)
        PROVE  u \in attempted
    <3>1. ManagerOf[u] \in Managers /\ u \in ItemsOf(ManagerOf[u])
      BY <2>3, ConstantsAssumption DEF ItemsOf
    <3>2. updates[ManagerOf[u]] = {}
      BY <2>1, <3>1, ConstantsAssumption DEF IndInv, StageOK, Managers
    <3>3. u \in attempted \/ \E c \in removals[ManagerOf[u]] : u \in c.items
      BY <2>1, <2>3, <3>1, <3>2 DEF IndInv, StageOK, Covered, Accepted
    <3> QED
      BY <2>3, <3>1, <3>3 DEF IndInv, ListsOK, ListOK
  <2>4. AcceptedItems \cap Promise!UpdateItems \subseteq attempted
    BY <2>3 DEF AcceptedItems, Promise!UpdateItems
  <2> QED
    BY <2>1, <2>2, <2>4 DEF Promise!Next, Promise!StartRemovals
<1>6. CASE exit = "none" /\ \E c \in Command : RunCommand(c)
  <2>1. PICK c \in Command : RunCommand(c)
    BY <1>6
  <2>2. /\ StartCommand(c) /\ UNCHANGED <<action, pc, errored>>
        /\ exit' = exit \/ exit' \in {"interrupted", "killed"}
    BY <2>1, RunCommandStarts DEF IndInv
  <2>3. /\ at \in Managers /\ at \notin errored
        /\ c.items # {} /\ c.items \subseteq Items
        /\ \A i \in c.items :
             /\ action[i] = (IF pc = "updates" THEN "update" ELSE "remove")
             /\ ManagerOf[i] = at
             /\ i \notin attempted
    BY <2>2, StartCommandEffect DEF IndInv, Command
  <2>4. attempted' = attempted \cup c.items /\ PhaseOf = pc /\ pc \in {"updates", "removals"}
    BY <1>6, <2>2 DEF StartCommand, PhaseOf
  <2>5. UNCHANGED AcceptedItems /\ c.items \subseteq AcceptedItems \ attempted
    BY <2>2, <2>3, <2>4 DEF AcceptedItems, Accepted
  <2>6. PhaseOf' = PhaseOf \/ PhaseOf' = "closed"
    BY <1>6, <2>2 DEF PhaseOf
  <2>7. c.items \in SUBSET (Promise!UpdateItems \cup Promise!RemovalItems)
    BY <2>3, <2>4 DEF Promise!UpdateItems, Promise!RemovalItems
  <2>8. Promise!Attempt(c.items)
    BY <2>2, <2>3, <2>4, <2>5 DEF Promise!Attempt, Promise!UpdateItems, Promise!RemovalItems
  <2> QED
    BY <2>6, <2>7, <2>8 DEF Promise!Next, Promise!AttemptAndStay, Promise!AttemptAndClose
<1>7. CASE exit = "none" /\ Step /\ ~BuildDone /\ ~FinishUpdates /\ ~(\E c \in Command : RunCommand(c))
  BY <1>1, <1>2, <1>3, <1>7
     DEF Step, Work, buildVars, runVars, selectionVars, ResolveAll, ResolveFails, Persist,
         PersistFails, PersistDone, Build, BuildFails, BuildInterrupted, FinishManager,
         FinishRemovals, Killed, Outcomes, IndInv, TypeOK
<1>8. CASE Returned \/ UNCHANGED vars
  BY <1>1, <1>8 DEF Returned, vars, selectionVars, buildVars, runVars
<1> QED
  BY <1>4, <1>5, <1>6, <1>7, <1>8 DEF Next

\* The function implements TwoPhaseApply: what was promised at confirmation is
\* what happens, whatever fails on the way.
THEOREM PromiseKept == Spec => KeepsPromise
<1>1. Init => Promise!Init
  BY ConstantsAssumption DEF Init, Promise!Init, PhaseOf, AcceptedItems, Actions
<1> QED
  BY <1>1, StepKeepsPromise, Inductive, PTL DEF Spec, KeepsPromise, Promise!Spec
=============================================================================
