---------------------------- MODULE TwoPhaseApply ----------------------------
(***************************************************************************)
(* What applying a confirmed selection promises to the person who          *)
(* confirmed it, without managers, commands, files or error handling: a    *)
(* set of accepted items is fixed before the first mutation, every item is *)
(* attempted at most once, and no removal is attempted while an accepted   *)
(* update is still waiting.  The run may be closed at any point.           *)
(***************************************************************************)
CONSTANT Items   (* the items that could be selected *)

VARIABLES
  action,     (* the selection: "none", "update" or "remove" per item *)
  phase,      (* "prepare", "updates", "removals" or "closed"         *)
  accepted,   (* the items a command exists for, fixed by Begin       *)
  attempted   (* the items whose command was started                  *)

vars == <<action, phase, accepted, attempted>>

UpdateItems == {i \in Items : action[i] = "update"}
RemovalItems == {i \in Items : action[i] = "remove"}

Init ==
  /\ action \in [Items -> {"none", "update", "remove"}]
  /\ phase = "prepare"
  /\ accepted = {}
  /\ attempted = {}

Begin ==
  /\ phase = "prepare"
  /\ phase' = "updates"
  /\ accepted' \in SUBSET (UpdateItems \cup RemovalItems)
  /\ UNCHANGED <<action, attempted>>

\* One command starts: it attempts some accepted items of the current phase,
\* none of which was attempted before.
Attempt(S) ==
  /\ S # {}
  /\ \/ phase = "updates" /\ S \subseteq UpdateItems
     \/ phase = "removals" /\ S \subseteq RemovalItems
  /\ S \subseteq accepted \ attempted
  /\ attempted' = attempted \cup S
  /\ UNCHANGED <<action, accepted>>

\* The command of Attempt was interrupted by a signal, which closes the run.
AttemptAndClose(S) == Attempt(S) /\ phase' = "closed"

AttemptAndStay(S) == Attempt(S) /\ phase' = phase

StartRemovals ==
  /\ phase = "updates"
  /\ accepted \cap UpdateItems \subseteq attempted
  /\ phase' = "removals"
  /\ UNCHANGED <<action, accepted, attempted>>

Close ==
  /\ phase # "closed"
  /\ phase' = "closed"
  /\ UNCHANGED <<action, accepted, attempted>>

Next ==
  \/ Begin
  \/ \E S \in SUBSET (UpdateItems \cup RemovalItems) :
       AttemptAndStay(S) \/ AttemptAndClose(S)
  \/ StartRemovals
  \/ Close

Spec == Init /\ [][Next]_vars
=============================================================================
