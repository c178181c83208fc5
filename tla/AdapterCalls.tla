----------------------------- MODULE AdapterCalls -----------------------------
(***************************************************************************)
(* The calls of a ManagerAdapter, and the ProcessRunner::run below them,   *)
(* as one specification: a behavior is one call, to one of the adapters,   *)
(* with whatever its commands and requests come back with.  Each call has  *)
(* its module, and the variables of the other three rest:                  *)
(*   update_inputs and the scan             ManagerDiscovery               *)
(*   lookup_release, the target of a seed   ReleaseLookup                  *)
(*   commands_for_execution_plan, with the  ManagerCommands                *)
(*     execution of these commands                                         *)
(*   run, of one command                    ProcessRunner                  *)
(***************************************************************************)
EXTENDS Naturals, FiniteSets, Sequences

CONSTANTS
  Managers, Versions,                       (* of the first two              *)
  Tools, MaxChanges,                        (* of ManagerDiscovery           *)
  Days,                                     (* of ReleaseLookup              *)
  Packages, Items, PackageOf, LastVersion,  (* of ManagerCommands            *)
  MaxNews,
  PipeSize, Programs                        (* of ProcessRunner              *)

VARIABLES
  call,     (* which one it is                                               *)
  manager,  (* the adapter it is made to                                     *)
  op, policy, trait, machine, kept, changes, todo, listed, outdated, twice, jobs, rows,
  stopped, result, honest, killed,
  way, docs, host, current, setting, cutoff, step, unread, found, clean, answer,
  choice, shown, cask, target, latest, aged, installed, news, gone, stage, commands, ran,
  skips, mutation, check, logger, verbose, pc, child, helper, left, wrote, pipe, got,
  reader, status, outcome, log

Discovery == INSTANCE ManagerDiscovery
Lookup == INSTANCE ReleaseLookup
Commands == INSTANCE ManagerCommands
Runner == INSTANCE ProcessRunner

ASSUME CallsAssumption ==
  /\ Discovery!DiscoveryAssumption
  /\ Lookup!LookupAssumption
  /\ Commands!CommandsAssumption
  /\ Runner!RunnerAssumption

discoveryVars == <<op, policy, trait, machine, kept, changes, todo, listed, outdated, twice, jobs, rows,
                   stopped, result, honest, killed>>
lookupVars == <<way, docs, host, current, setting, cutoff, step, unread, found, clean, answer>>
commandVars == <<choice, shown, cask, target, latest, aged, installed, news, gone, stage, commands, ran>>
runnerVars == <<skips, mutation, check, logger, verbose, pc, child, helper, left, wrote, pipe, got,
                reader, status, outcome, log>>
vars == <<call, manager, discoveryVars, lookupVars, commandVars, runnerVars>>

-----------------------------------------------------------------------------
(* The variables of a call that is not made *)

DiscoveryRests ==
  /\ op = "none" /\ policy = "none" /\ trait = <<>>
  /\ machine = <<>> /\ kept = <<>> /\ changes = 0
  /\ todo = <<"none">> /\ listed = {} /\ outdated = {} /\ twice = {} /\ jobs = {} /\ rows = {}
  /\ stopped = FALSE /\ result = "none" /\ honest = TRUE /\ killed = {}

LookupRests ==
  /\ way = "none" /\ docs = <<>> /\ host = <<>> /\ current = 0
  /\ setting = TRUE /\ cutoff = 0 /\ step = 1 /\ unread = {} /\ found = <<>>
  /\ clean = TRUE /\ answer = Lookup!Unanswered

CommandsRest ==
  /\ choice = <<>> /\ shown = <<>> /\ cask = {} /\ target = <<>>
  /\ latest = <<>> /\ aged = <<>> /\ installed = <<>> /\ news = 0 /\ gone = {}
  /\ stage = "none" /\ commands = <<>> /\ ran = <<>>

RunnerRests ==
  /\ skips = FALSE /\ mutation = FALSE /\ check = "success"
  /\ logger = FALSE /\ verbose = FALSE
  /\ pc = "start" /\ child = "none" /\ helper = "none" /\ left = <<>>
  /\ wrote = <<>> /\ pipe = <<>> /\ got = <<>> /\ reader = <<>>
  /\ status = "none" /\ outcome = "none" /\ log = {}

Init ==
  \/ call = "discover" /\ Discovery!Init /\ LookupRests /\ CommandsRest /\ RunnerRests
  \/ call = "look up" /\ Lookup!Init /\ DiscoveryRests /\ CommandsRest /\ RunnerRests
  \/ call = "apply" /\ Commands!Init /\ DiscoveryRests /\ LookupRests /\ RunnerRests
  \/ /\ call = "run" /\ Runner!Init
     /\ manager = "none" /\ DiscoveryRests /\ LookupRests /\ CommandsRest

Discover ==
  /\ call = "discover" /\ Discovery!Next
  /\ UNCHANGED <<call, lookupVars, commandVars, runnerVars>>

LookUp ==
  /\ call = "look up" /\ Lookup!Next
  /\ UNCHANGED <<call, discoveryVars, commandVars, runnerVars>>

Apply ==
  /\ call = "apply" /\ Commands!Next
  /\ UNCHANGED <<call, discoveryVars, lookupVars, runnerVars>>

InRun(A) ==
  /\ call = "run" /\ A
  /\ UNCHANGED <<call, manager, discoveryVars, lookupVars, commandVars>>

Next == Discover \/ LookUp \/ Apply \/ InRun(Runner!Next)

(* Fairness is that of ProcessRunner: its threads are scheduled, and the   *)
(* child and its helper come to an end.                                    *)
Fairness ==
  /\ WF_vars(InRun(Runner!Caller))
  /\ \A s \in Runner!Streams : WF_vars(InRun(Runner!Reader(s)))
  /\ WF_vars(InRun(Runner!External))

Spec == Init /\ [][Next]_vars /\ Fairness

-----------------------------------------------------------------------------
(* Properties.  Each is explained in the module it comes from. *)

(* A discovery has one row for each installed tool (update_inputs), but for *)
(* what a preview of mise names in several lines.                           *)
EachToolOnce == Discovery!EachToolOnce

(* What is not known of one tool does not end the discovery of the others. *)
FailureStaysLocal == Discovery!FailureStaysLocal

(* A command that died of a signal is not read as an answer, where the code *)
(* watches it.                                                              *)
InterruptionEndsIt == Discovery!InterruptionEndsIt

(* A timeline and the target found in it have only what a source offers. *)
OnlyFitIsOffered == Lookup!OnlyFitIsOffered

(* Of several sources, the first that holds a wanted version is the answer. *)
NothingLost == Lookup!NothingLost

(* The commands carry out the choices, each once. *)
EveryChoiceIsACommand == Commands!EveryChoiceIsACommand

(* The version to be removed is still there when its command runs. *)
RemovalFindsItsVersion == Commands!RemovalFindsItsVersion

(* No version too young is installed unless it was chosen. *)
CooldownKept == Commands!CooldownKept

(* The output of a command is all that was written. *)
AllOutputRead == Runner!AllOutputRead

(* A command that ends lets its caller go on. *)
EveryCallReturns == call = "run" => Runner!EveryCallReturns

=============================================================================
