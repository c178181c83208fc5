---------------------------- MODULE ProcessRunner ----------------------------
(***************************************************************************)
(* One ProcessRunner::run of upgate-infra: the caller, the child it spawns *)
(* with two piped streams, the thread that reads each of them, a helper    *)
(* that the child may leave behind with the pipes still open, the mutation *)
(* mode, the check of the status, and the log of the commands.             *)
(*                                                                         *)
(* A pipe holds PipeSize bytes; who writes to a full one waits.  There is  *)
(* no timeout: the call ends when the child and the holders of its pipes   *)
(* do.  Bytes are counted, their values are not looked at.                 *)
(***************************************************************************)
EXTENDS Naturals, Sequences

CONSTANTS
  PipeSize,   (* bytes a pipe holds *)
  Programs    (* what children may write: sequences of streams *)

Streams == {"stdout", "stderr"}
Codes == {"zero", "allowed", "other", "signal"}
Checks == {"success", "allow", "ignore"}

RunnerAssumption ==
  PipeSize \in Nat \ {0} /\ Programs \subseteq Seq(Streams)

VARIABLES
  skips, mutation, check,  (* MutationMode::Skip; the command's kind; its CommandCheck *)
  logger, verbose,         (* LOGGER is set; log_commands *)
  pc,        (* the caller: "start", "spawn", "wait", "join stdout", "join stderr", "check", "done", "killed" *)
  child,     (* "none", "runs", "exited" *)
  helper,    (* "none", "runs", "gone" *)
  left,      (* what the child, or then the helper, has yet to write *)
  wrote,     (* bytes written to each stream *)
  pipe,      (* bytes in each pipe *)
  got,       (* bytes each reader has *)
  reader,    (* each reader: "none", "reads", "ended", "failed" *)
  status,    (* the exit status, "none" before there is one *)
  outcome,   (* "none", "output", "skipped", "refused", "spawn error", "reader error" *)
  log        (* the lines in core.log *)

call == <<skips, mutation, check, logger, verbose>>
processes == <<child, helper, left, wrote>>
vars == <<call, pc, processes, pipe, got, reader, status, outcome, log>>

Zero == [s \in Streams |-> 0]
Joining == [stdout |-> "join stdout", stderr |-> "join stderr"]

Init ==
  /\ skips \in BOOLEAN /\ mutation \in BOOLEAN /\ logger \in BOOLEAN /\ verbose \in BOOLEAN
  /\ check \in Checks
  /\ pc = "start"
  /\ child = "none" /\ helper = "none"
  /\ left \in Programs
  /\ wrote = Zero /\ pipe = Zero /\ got = Zero
  /\ reader = [s \in Streams |-> "none"]
  /\ status = "none" /\ outcome = "none"
  /\ log = {}

Write(line, due) == log' = IF logger /\ due THEN log \cup {line} ELSE log

-----------------------------------------------------------------------------
(* The caller *)

(* on_command_start, then the mutation mode: a skipped mutation has succeeded *)
Start ==
  /\ pc = "start"
  /\ Write("start", mutation \/ verbose)
  /\ IF skips /\ mutation
     THEN pc' = "check" /\ status' = "zero"
     ELSE pc' = "spawn" /\ UNCHANGED status
  /\ UNCHANGED <<call, processes, pipe, got, reader, outcome>>

SpawnFails ==
  /\ pc = "spawn"
  /\ pc' = "done" /\ outcome' = "spawn error"
  /\ Write("spawn error", TRUE)
  /\ UNCHANGED <<call, processes, pipe, got, reader, status>>

(* A fault: the streams are drained one after the other *)
OneReader ==
  /\ pc = "spawn"
  /\ pc' = "wait" /\ child' = "runs"
  /\ reader' = [reader EXCEPT !["stdout"] = "reads"]
  /\ UNCHANGED <<call, helper, left, wrote, pipe, got, status, outcome, log>>

(* A thread per stream before the child is waited for *)
Spawn ==
  /\ pc = "spawn"
  /\ pc' = "wait" /\ child' = "runs"
  /\ reader' = [s \in Streams |-> "reads"]
  /\ UNCHANGED <<call, helper, left, wrote, pipe, got, status, outcome, log>>

Wait ==
  /\ pc = "wait" /\ child = "exited"
  /\ pc' = "join stdout"
  /\ UNCHANGED <<call, processes, pipe, got, reader, status, outcome, log>>

(* A fault: what has been read when the child is gone is taken for all *)
JoinNobody(s, next) ==
  /\ pc = Joining[s]
  /\ pc' = next
  /\ UNCHANGED <<call, processes, pipe, got, reader, status, outcome, log>>

(* stdout is joined first; if its reader failed, the other is left alone *)
Join(s, next) ==
  /\ pc = Joining[s]
  /\ \/ reader[s] = "ended" /\ pc' = next /\ UNCHANGED outcome
     \/ reader[s] = "failed" /\ pc' = "done" /\ outcome' = "reader error"
  /\ UNCHANGED <<call, processes, pipe, got, reader, status, log>>

(* A signal is no code, and only IgnoreStatus lets it pass *)
StatusAllowed ==
  CASE check = "success" -> status = "zero"
    [] check = "allow" -> status \in {"zero", "allowed"}
    [] check = "ignore" -> TRUE

Check ==
  /\ pc = "check"
  /\ pc' = "done"
  /\ outcome' = IF ~StatusAllowed THEN "refused" ELSE IF child = "none" THEN "skipped" ELSE "output"
  /\ Write(IF StatusAllowed THEN "finish" ELSE "finish with error", mutation \/ verbose \/ ~StatusAllowed)
  /\ UNCHANGED <<call, processes, pipe, got, reader, status>>

Caller == Start \/ SpawnFails \/ Spawn \/ Wait \/ Join("stdout", "join stderr") \/ Join("stderr", "check") \/ Check

-----------------------------------------------------------------------------
(* The readers: read_to_end, until nobody holds the other end *)

Open == child = "runs" \/ helper = "runs"

ReadByte(s) ==
  /\ reader[s] = "reads" /\ pipe[s] > 0
  /\ pipe' = [pipe EXCEPT ![s] = @ - 1]
  /\ got' = [got EXCEPT ![s] = @ + 1]
  /\ UNCHANGED <<call, pc, processes, reader, status, outcome, log>>

ReadEnds(s) ==
  /\ reader[s] = "reads" /\ pipe[s] = 0 /\ ~Open
  /\ reader' = [reader EXCEPT ![s] = "ended"]
  /\ UNCHANGED <<call, pc, processes, pipe, got, status, outcome, log>>

(* read_to_end may fail *)
ReadFails(s) ==
  /\ reader[s] = "reads"
  /\ reader' = [reader EXCEPT ![s] = "failed"]
  /\ UNCHANGED <<call, pc, processes, pipe, got, status, outcome, log>>

Reader(s) == ReadByte(s) \/ ReadEnds(s)

-----------------------------------------------------------------------------
(* External: the child, and a helper that inherits its streams *)

(* Writing to a pipe nobody reads any more is the end of the writer *)
WriteByte ==
  /\ Open /\ left # <<>>
  /\ LET s == Head(left)
     IN  IF reader[s] \in {"reads", "none"}
         THEN /\ pipe[s] < PipeSize
              /\ pipe' = [pipe EXCEPT ![s] = @ + 1]
              /\ wrote' = [wrote EXCEPT ![s] = @ + 1]
              /\ left' = Tail(left)
         ELSE left' = <<>> /\ UNCHANGED <<pipe, wrote>>
  /\ UNCHANGED <<call, pc, child, helper, got, reader, status, outcome, log>>

(* It may leave the rest of the writing to the helper *)
Exit == \E code \in Codes \ {"signal"}, behind \in BOOLEAN :
  /\ child = "runs"
  /\ ~behind => left = <<>>
  /\ child' = "exited" /\ status' = code
  /\ helper' = IF behind THEN "runs" ELSE helper
  /\ UNCHANGED <<call, pc, left, wrote, pipe, got, reader, outcome, log>>

(* A signal ends the child *)
Killed ==
  /\ child = "runs"
  /\ child' = "exited" /\ status' = "signal" /\ left' = <<>>
  /\ UNCHANGED <<call, pc, helper, wrote, pipe, got, reader, outcome, log>>

HelperEnds ==
  /\ helper = "runs" /\ left = <<>>
  /\ helper' = "gone"
  /\ UNCHANGED <<call, pc, child, left, wrote, pipe, got, reader, status, outcome, log>>

External == WriteByte \/ Exit \/ HelperEnds

(* upgate itself may be killed at any time, with the child or without it *)
UpgateKilled ==
  /\ pc \notin {"done", "killed"}
  /\ pc' = "killed"
  /\ reader' = [s \in Streams |-> IF reader[s] = "reads" THEN "failed" ELSE reader[s]]
  /\ UNCHANGED <<call, processes, pipe, got, status, outcome, log>>

Finished == pc \in {"done", "killed"} /\ UNCHANGED vars
Next == Caller \/ (\E s \in Streams : Reader(s) \/ ReadFails(s)) \/ External \/ Killed \/ UpgateKilled \/ Finished

(* The threads are scheduled, and the child and its helper write and end. *)
FairSpec ==
  /\ Init /\ [][Next]_vars
  /\ WF_vars(Caller) /\ (\A s \in Streams : WF_vars(Reader(s))) /\ WF_vars(External)

-----------------------------------------------------------------------------
(* What the caller is given of a stream is all that was written to it, by the *)
(* child and by what it left behind, although the child was gone before.      *)
AllOutputRead ==
  outcome \in {"output", "refused"} /\ child # "none" =>
    ~Open /\ \A s \in Streams : got[s] = wrote[s]

(* A child that fills both pipes does not wait for a reader that waits for    *)
(* it: if the child and its helper come to an end, so does the call.          *)
EveryCallReturns == <>(pc \in {"done", "killed"})
==============================================================================
