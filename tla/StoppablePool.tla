----------------------------- MODULE StoppablePool -----------------------------
(***************************************************************************)
(* run_ordered_parallel_stoppable of upgate-infra: jobs in a mutex-guarded *)
(* queue, scoped worker threads that check a stop flag, pop the next job,  *)
(* run it, raise the flag when its result asks for that, and send the      *)
(* result; when all workers have ended the results are sorted back into    *)
(* input order.                                                            *)
(*                                                                         *)
(* Each access to something shared (the flag, the queue, the channel) is   *)
(* an action of its own, so a worker may be overtaken between its check of *)
(* the flag and its pop.  Jobs are named by their index and leave the      *)
(* queue in that order: "next" is the index at its front.                  *)
(***************************************************************************)
EXTENDS Naturals, Sequences, FiniteSets

CONSTANTS
  JobCount,       (* jobs.len()                                              *)
  Threads,        (* the number of threads asked for                         *)
  Results,        (* what a job can return                                   *)
  StopResults,    (* the results for which should_stop_after_result is true  *)
  Cancellable,    (* the caller may raise the stop flag while jobs run       *)
  MayPanic        (* a job may panic instead of returning                    *)

ASSUME ConstantsAssumption ==
  /\ JobCount \in Nat \ {0}
  /\ Threads \in Nat
  /\ StopResults \subseteq Results
  /\ Cancellable \in BOOLEAN
  /\ MayPanic \in BOOLEAN

Jobs == 1..JobCount
AtLeastOne(n) == IF n = 0 THEN 1 ELSE n
WorkerCount == IF AtLeastOne(Threads) < JobCount THEN AtLeastOne(Threads) ELSE JobCount
Workers == 1..WorkerCount

VARIABLES
  next,       (* the index at the front of the queue                         *)
  stop,       (* the stop flag                                               *)
  pc,         (* what each worker does next                                  *)
  held,       (* the job each worker has popped and not yet sent, 0 for none *)
  value,      (* what the held job returned                                  *)
  channel,    (* the results sent, in the order of sending                   *)
  outcome,    (* "running", then "ok", "error" or "panic"                    *)
  returned,   (* the results handed to the caller                            *)
  late,       (* history: jobs each worker popped after the flag was raised  *)
  cancelled   (* history: the caller raised the flag                         *)

vars == <<next, stop, pc, held, value, channel, outcome, returned, late, cancelled>>

Init ==
  /\ next = 1
  /\ stop = FALSE
  /\ pc = [w \in Workers |-> "check"]
  /\ held = [w \in Workers |-> 0]
  /\ value = [w \in Workers |-> "none"]
  /\ channel = <<>>
  /\ outcome = "running"
  /\ returned = <<>>
  /\ late = [w \in Workers |-> 0]
  /\ cancelled = FALSE

GoTo(w, label) == pc' = [pc EXCEPT ![w] = label]

\* stop_requested.load
Unchecked == "pop"
AfterCheck == IF stop THEN "done" ELSE "pop"

CheckFlag(w) ==
  /\ pc[w] = "check"
  /\ GoTo(w, AfterCheck)
  /\ UNCHANGED <<next, stop, held, value, channel, outcome, returned, late, cancelled>>

\* queue.lock().pop_front(): the lock is released before the job starts.
TakeFront(w) ==
  /\ held' = [held EXCEPT ![w] = next]
  /\ next' = next + 1

QueueNotEmpty == next <= JobCount

Pop(w) ==
  /\ pc[w] = "pop"
  /\ QueueNotEmpty
  /\ TakeFront(w)
  /\ late' = [late EXCEPT ![w] = IF stop THEN @ + 1 ELSE @]
  /\ GoTo(w, "run")
  /\ UNCHANGED <<stop, value, channel, outcome, returned, cancelled>>

PopNothing(w) ==
  /\ pc[w] = "pop"
  /\ ~QueueNotEmpty
  /\ GoTo(w, "done")
  /\ UNCHANGED <<next, stop, held, value, channel, outcome, returned, late, cancelled>>

\* worker(job) returns; should_stop_after_result is asked about the result.
AfterRun(result) == IF result \in StopResults THEN "stop" ELSE "send"

JobReturns(w) ==
  /\ pc[w] = "run"
  /\ \E result \in Results :
       /\ value' = [value EXCEPT ![w] = result]
       /\ GoTo(w, AfterRun(result))
  /\ UNCHANGED <<next, stop, held, channel, outcome, returned, late, cancelled>>

\* The thread ends without sending; the queue is not locked, so not poisoned.
JobPanics(w) ==
  /\ MayPanic
  /\ pc[w] = "run"
  /\ GoTo(w, "panicked")
  /\ UNCHANGED <<next, stop, held, value, channel, outcome, returned, late, cancelled>>

\* stop_requested.store(true)
RaiseFlag(w) ==
  /\ pc[w] = "stop"
  /\ stop' = TRUE
  /\ GoTo(w, "send")
  /\ UNCHANGED <<next, held, value, channel, outcome, returned, late, cancelled>>

\* result_tx.send: the receiver outlives the workers, so it never fails.
Send(w) ==
  /\ pc[w] = "send"
  /\ channel' = Append(channel, [index |-> held[w], result |-> value[w]])
  /\ held' = [held EXCEPT ![w] = 0]
  /\ value' = [value EXCEPT ![w] = "none"]
  /\ GoTo(w, "check")
  /\ UNCHANGED <<next, stop, outcome, returned, late, cancelled>>

\* The caller raises the flag from another thread.
Cancel ==
  /\ Cancellable
  /\ outcome = "running"
  /\ ~stop
  /\ stop' = TRUE
  /\ cancelled' = TRUE
  /\ UNCHANGED <<next, pc, held, value, channel, outcome, returned, late>>

Panicked == {w \in Workers : pc[w] = "panicked"}
Ended == \A w \in Workers : pc[w] \in {"done", "panicked"}

\* sort_unstable_by_key: a result's place is how many are not after it.  Equal
\* indices, which EachJobOnce excludes, would keep their order here.
Place(results, k) ==
  Cardinality({l \in 1..Len(results) :
    \/ results[l].index < results[k].index
    \/ results[l].index = results[k].index /\ l <= k})

InSendOrder(results) == results
InInputOrder(results) ==
  [p \in 1..Len(results) |-> results[CHOOSE k \in 1..Len(results) : Place(results, k) = p]]

Collect == LET sorted == InInputOrder(channel)
           IN  [k \in 1..Len(sorted) |-> sorted[k].result]

\* Every thread has ended and been joined.  The first join that reports a panic
\* returns an error out of the scope; the scope joins the other threads itself,
\* and panics when one of those had panicked too.
Return ==
  /\ outcome = "running"
  /\ Ended
  /\ \/ /\ Panicked = {}
        /\ outcome' = "ok"
        /\ returned' = Collect
     \/ /\ \E w \in Workers : Panicked = {w}
        /\ outcome' = "error"
        /\ UNCHANGED returned
     \/ /\ \E v, w \in Panicked : v # w
        /\ outcome' = "panic"
        /\ UNCHANGED returned
  /\ UNCHANGED <<next, stop, pc, held, value, channel, late, cancelled>>

WorkerStep(w) ==
  \/ CheckFlag(w)
  \/ Pop(w)
  \/ PopNothing(w)
  \/ JobReturns(w)
  \/ JobPanics(w)
  \/ RaiseFlag(w)
  \/ Send(w)

Running ==
  \/ \E w \in Workers : WorkerStep(w)
  \/ Cancel
  \/ Return

Returned == outcome # "running" /\ UNCHANGED vars

Next == Running \/ Returned

Spec == Init /\ [][Next]_vars

-----------------------------------------------------------------------------
(* Properties *)

Labels == {"check", "pop", "run", "stop", "send", "done", "panicked"}

\* Every variable stays in its range.
TypeOK ==
  /\ next \in 1..(JobCount + 1)
  /\ stop \in BOOLEAN
  /\ pc \in [Workers -> Labels]
  /\ held \in [Workers -> 0..JobCount]
  /\ value \in [Workers -> Results \cup {"none"}]
  /\ channel \in Seq([index : Jobs, result : Results])
  /\ outcome \in {"running", "ok", "error", "panic"}
  /\ returned \in Seq(Results)
  /\ late \in [Workers -> Nat]
  /\ cancelled \in BOOLEAN

Sent(j) == \E k \in 1..Len(channel) : channel[k].index = j
Holds(w, j) == held[w] = j

\* A popped job is with one worker or in the channel, once: no result is lost
\* or produced twice, whatever the workers' interleaving.
EachJobOnce ==
  /\ \A j \in Jobs : j < next <=> Sent(j) \/ \E w \in Workers : Holds(w, j)
  /\ \A v, w \in Workers : v # w /\ held[v] # 0 => held[v] # held[w]
  /\ \A w \in Workers : ~Sent(held[w])
  /\ \A k, l \in 1..Len(channel) : k # l => channel[k].index # channel[l].index

\* What the caller gets are the results of the first jobs in input order,
\* without a gap; it is all of them unless the flag was raised, and the result
\* that raised it is among them.
PrefixReturned ==
  outcome = "ok" =>
    /\ Len(returned) = next - 1
    /\ \A k \in 1..Len(channel) : returned[channel[k].index] = channel[k].result
    /\ next <= JobCount => stop
    /\ stop => cancelled \/ \E j \in 1..Len(returned) : returned[j] \in StopResults

\* "Already-running jobs are allowed to finish; the stop flag prevents starting
\* additional queued work.": after the flag was raised a worker starts at most the
\* one job it was about to pop.
OneLateJobEach == \A w \in Workers : late[w] <= 1

=============================================================================
