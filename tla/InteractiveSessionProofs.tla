----------------------- MODULE InteractiveSessionProofs -----------------------
(***************************************************************************)
(* What the interactive session promises for any number of managers,       *)
(* planning threads and items: the user confirms what was planned, and     *)
(* what was confirmed is carried out.  The two channels between the        *)
(* threads are not synchronised with each other; they agree because an     *)
(* answer of a job is told to the screen before the pool gets it, and the  *)
(* end of planning is told after every answer.  The pool's own invariants  *)
(* come from StoppablePoolProofs.                                          *)
(***************************************************************************)
EXTENDS InteractiveSession, StoppablePoolProofs

-----------------------------------------------------------------------------
(* The invariant *)

EventKinds == {"started", "ready", "error", "planning failed", "finished"}
EventRecords ==
  [kind : EventKinds, manager : 0..JobCount, items : SUBSET Items, selected : SUBSET Items]
Statuses == {"waiting", "planning", "ready", "empty", "error"}

\* The types of what the two threads keep.
SessionTypes ==
  /\ said \in [Workers -> {"nothing", "started", "ready", "failed"}]
  /\ planner \in {"pool", "tell finished", "tell failure", "send ok", "send error", "drop",
                  "ended", "panicked"}
  /\ plans \in [Managers -> SUBSET Items]
  /\ prepared \in {"none", "ok", "error"}
  /\ events \in Seq(EventRecords)
  /\ tui \in {"drain", "poll", "drain again", "keys", "confirmed", "failed", "cancelled",
              "interrupted"}
  /\ status \in [Managers -> Statuses]
  /\ rows \in [Managers -> SUBSET Items]
  /\ chosen \in [Managers -> SUBSET Items]
  /\ finished \in BOOLEAN /\ failure \in BOOLEAN /\ dialog \in BOOLEAN
  /\ exit \in {"none", "confirmed", "error", "cancelled", "interrupted"}

\* A worker has told something about the job it runs, and an event of a manager
\* is not about all of them.
Speaking ==
  /\ \A w \in Workers : pc[w] # "run" => said[w] = "nothing"
  /\ \A i \in 1..Len(events) :
       events[i].manager = 0 <=> events[i].kind \in {"planning failed", "finished"}

\* The answer to a manager's job, told to the screen, wherever it is now.
Answered(m, word) ==
  \/ \E k \in 1..Len(channel) : channel[k].index = m /\ channel[k].result = word
  \/ \E w \in Workers :
       /\ held[w] = m
       /\ \/ pc[w] \in {"stop", "send"} /\ value[w] = word
          \/ pc[w] = "run" /\ said[w] = word

NothingPending(m) == \A i \in 1..Len(events) : events[i].manager # m
LastWord(i, m) ==
  /\ events[i].manager = m
  /\ \A j \in 1..Len(events) : i < j => events[j].manager # m

\* The rows of a manager's plan are on the screen.
Shown(m) == status[m] \in {"ready", "empty"} /\ rows[m] = plans[m] /\ chosen[m] \subseteq plans[m]

PlanIsTold(i, m) ==
  /\ LastWord(i, m)
  /\ events[i].kind = "ready" /\ events[i].items = plans[m] /\ events[i].selected \subseteq plans[m]
ErrorIsTold(i, m) == LastWord(i, m) /\ events[i].kind = "error"

PlanArrives(m) ==
  (NothingPending(m) /\ Shown(m)) \/ \E i \in 1..Len(events) : PlanIsTold(i, m)
ErrorArrives(m) ==
  (NothingPending(m) /\ status[m] = "error") \/ \E i \in 1..Len(events) : ErrorIsTold(i, m)

\* What a job answered is on the screen or on its way there.
Truth ==
  \A m \in Managers :
    /\ Answered(m, "ready") => PlanArrives(m)
    /\ Answered(m, "failed") => ErrorArrives(m)

\* Where the planning thread is, and what it knows there.
Course ==
  /\ planner \in {"tell finished", "send ok"} => outcome = "ok" /\ ~AnyInterrupted
  /\ prepared # "none" <=> planner \in {"drop", "ended"}

\* Planning has ended well.
WellDone ==
  /\ outcome = "ok"
  /\ \A m \in Managers : Answered(m, "ready") \/ Answered(m, "failed")
  /\ planner \in {"send ok", "drop", "ended"}
  /\ prepared # "error"

\* The screen learns of the end after everything else, and only of a good one.
EndIsLast ==
  /\ finished /\ ~failure => events = <<>> /\ WellDone
  /\ \A i \in 1..Len(events) : events[i].kind = "finished" => i = Len(events) /\ WellDone

\* What is reviewed is complete and without errors.
Reviewing == dialog \/ tui = "confirmed" => finished /\ ~AnyError

PoolInv == IndInv /\ ReturnOK
SessionInv == SessionTypes /\ Speaking /\ Truth /\ Course /\ EndIsLast /\ Reviewing /\ ConfirmationIsKept

-----------------------------------------------------------------------------
(* The pool *)

\* Raising the flag from the main thread keeps what the pool relies on.
LEMMA FlagKeeps == ASSUME PoolInv, RaiseStop PROVE PoolInv'
<1>1. IndInv'
  BY EachJobOnceFrame DEF PoolInv, IndInv, RaiseStop, Types, HeldOK, LateOK, StopOK, Ended, Panicked
<1>2. ReturnOK'
  BY DEF PoolInv, RaiseStop, ReturnOK, Ended, Panicked, Collect
<1> QED
  BY <1>1, <1>2 DEF PoolInv

\* So does every step of the session.
LEMMA PoolKeeps == ASSUME PoolInv, [SessionNext]_sessionVars PROVE PoolInv'
<1>1. [Next]_vars \/ RaiseStop
  <2>1. CASE PoolStep
    BY <2>1 DEF PoolStep, Next, Running, WorkerStep
  <2>2. CASE \E w \in Workers : WorkerTells(w)
    BY <2>2 DEF WorkerTells, TellStarted, TellReady, TellError, JobEnds, poolVars, Next, Running,
                WorkerStep
  <2>3. CASE PoolReturned \/ TellFinished \/ TellFailure \/ SendPrepared \/ DropSenders
    BY <2>3 DEF PoolReturned, TellFinished, TellFailure, SendPrepared, DropSenders, poolVars
  <2>4. CASE DrainOne \/ DrainEmpty \/ DrainDisconnected \/ PollTimesOut \/ KeysHandled \/ KeyPressed
    BY <2>4 DEF DrainOne, DrainEmpty, DrainDisconnected, PollTimesOut, KeysHandled, KeyPressed,
                PlannerIdle, poolVars
  <2>5. CASE \E m \in Managers, item \in Items : ChangeChoice(m, item)
    BY <2>5 DEF ChangeChoice, PlannerIdle, poolVars
  <2>6. CASE AskToConfirm \/ CloseDialog \/ Confirm \/ TerminalFails
    BY <2>6 DEF AskToConfirm, CloseDialog, Confirm, TerminalFails, PlannerIdle, poolVars
  <2>7. CASE CancelSession \/ StopAfterError \/ JoinAfterError \/ ReceivePrepared
    BY <2>7 DEF CancelSession, StopAfterError, JoinAfterError, ReceivePrepared, poolVars
  <2>8. CASE UNCHANGED sessionVars
    BY <2>8 DEF sessionVars, poolVars
  <2> QED
    BY <2>1, <2>2, <2>3, <2>4, <2>5, <2>6, <2>7, <2>8 DEF SessionNext, SessionRunning, Exited
<1>2. CASE [Next]_vars
  BY <1>2, StepInv, ReturnInv DEF PoolInv
<1> QED
  BY <1>1, <1>2, FlagKeeps

\* Once the pool has returned, no worker does or tells anything more.
LEMMA NothingMoves ==
  ASSUME PoolInv, outcome # "running"
  PROVE  ~PoolStep /\ \A w \in Workers : ~WorkerTells(w)
<1>1. \A w \in Workers : pc[w] \in {"done", "panicked"}
  BY DEF PoolInv, ReturnOK, Ended
<1> QED
  BY <1>1 DEF PoolStep, WorkerTells, CheckFlag, Pop, PopNothing, RaiseFlag, Send, Return,
              TellStarted, TellReady, TellError, JobEnds, JobReturns, JobPanics

\* What was answered is what the pool returns.
LEMMA AnswerIsReturned ==
  ASSUME PoolInv, outcome = "ok", NEW m \in Managers, NEW word, Answered(m, word)
  PROVE  m \in 1..Len(returned) /\ returned[m] = word
<1>1. \A w \in Workers : pc[w] = "done"
  BY DEF PoolInv, ReturnOK, Ended, Panicked
<1>2. PICK k \in 1..Len(channel) : channel[k].index = m /\ channel[k].result = word
  BY <1>1 DEF Answered
<1>3. PrefixReturned /\ AllSent
  BY PrefixByInv DEF PoolInv, ReturnOK, AllSent
<1>4. m \in 1..(next - 1)
  BY <1>2, <1>3, JobsInChannel DEF PoolInv
<1> QED
  BY <1>2, <1>3, <1>4 DEF PrefixReturned

\* Without an interruption or a flag every manager has answered.
LEMMA EverybodyAnswered ==
  ASSUME PoolInv, outcome = "ok", ~AnyInterrupted, ~stop, NEW m \in Managers
  PROVE  Answered(m, "ready") \/ Answered(m, "failed")
<1>1. PrefixReturned /\ AllSent /\ next \in 1..(JobCount + 1)
  BY PrefixByInv DEF PoolInv, ReturnOK, AllSent, IndInv, Types
<1>2. m \in 1..(next - 1) /\ m \in 1..Len(returned)
  BY <1>1, ConstantsAssumption DEF PrefixReturned, Managers, Jobs
<1>3. PICK k \in 1..Len(channel) : channel[k].index = m
  BY <1>1, <1>2, JobsInChannel DEF PoolInv
<1>4. channel[k].result \in Results /\ channel[k].result = returned[m]
  <2>1. returned \in Seq(Results)
    BY <1>1, SortedByJob DEF PoolInv, ReturnOK
  <2> QED
    BY <1>1, <1>2, <1>3, <2>1 DEF PrefixReturned
<1>5. returned[m] # "interrupted"
  BY <1>2 DEF AnyInterrupted
<1> QED
  BY <1>3, <1>4, <1>5, SessionAssumption DEF Answered, JobResults

-----------------------------------------------------------------------------
(* The event channel *)

\* Sending appends to the channel.
LEMMA Sending ==
  ASSUME events \in Seq(EventRecords), NEW e \in EventRecords, events' = Append(events, e)
  PROVE  /\ events' \in Seq(EventRecords)
         /\ Len(events) \in Nat /\ Len(events') = Len(events) + 1
         /\ \A i \in 1..Len(events) : events'[i] = events[i]
         /\ events'[Len(events')] = e
<1> HIDE DEF EventRecords
<1> QED
  OBVIOUS

\* Receiving takes the first event away.
LEMMA Receiving ==
  ASSUME events \in Seq(EventRecords), events # <<>>, events' = Tail(events)
  PROVE  /\ events' \in Seq(EventRecords)
         /\ Len(events') \in Nat /\ Len(events) = Len(events') + 1
         /\ Head(events) = events[1] /\ events[1] \in EventRecords
         /\ \A i \in 1..Len(events') : events'[i] = events[i + 1]
<1> HIDE DEF EventRecords
<1> QED
  OBVIOUS

\* The records of the five kinds.
LEMMA EventTypes ==
  ASSUME NEW m \in Managers, NEW told \in SUBSET Items, NEW selected \in SUBSET Items
  PROVE  /\ Started(m) \in EventRecords /\ Ready(m, told, selected) \in EventRecords
         /\ ManagerError(m) \in EventRecords /\ PlanningFailed \in EventRecords
         /\ Finished \in EventRecords /\ m # 0
BY ConstantsAssumption
   DEF Started, Ready, ManagerError, PlanningFailed, Finished, Event, EventRecords, EventKinds,
       Managers, Jobs

\* An event about somebody else changes nothing about what arrives at a manager.
LEMMA OthersEvent ==
  ASSUME SessionTypes, NEW e \in EventRecords, events' = Append(events, e),
         NEW m \in Managers, e.manager # m,
         UNCHANGED <<status, rows, chosen>>, plans'[m] = plans[m]
  PROVE  /\ PlanArrives(m) => PlanArrives(m)'
         /\ ErrorArrives(m) => ErrorArrives(m)'
<1>1. /\ Len(events) \in Nat /\ Len(events') = Len(events) + 1
      /\ \A i \in 1..Len(events) : events'[i] = events[i]
      /\ events'[Len(events')] = e
  BY Sending DEF SessionTypes
<1>2. \A j \in 1..Len(events') : j \in 1..Len(events) \/ j = Len(events')
  BY <1>1
<1>3. NothingPending(m) => NothingPending(m)'
  BY <1>1, <1>2 DEF NothingPending
<1>4. \A i \in 1..Len(events) : i \in 1..Len(events') /\ (LastWord(i, m) => LastWord(i, m)')
  BY <1>1, <1>2 DEF LastWord
<1>5. Shown(m) => Shown(m)'
  BY DEF Shown
<1>6. \A i \in 1..Len(events) : PlanIsTold(i, m) => PlanIsTold(i, m)'
  BY <1>1, <1>4 DEF PlanIsTold
<1>7. \A i \in 1..Len(events) : ErrorIsTold(i, m) => ErrorIsTold(i, m)'
  BY <1>1, <1>4 DEF ErrorIsTold
<1> QED
  BY <1>3, <1>4, <1>5, <1>6, <1>7 DEF PlanArrives, ErrorArrives

\* The newest event is the last word about its manager.
LEMMA NewestEvent ==
  ASSUME SessionTypes, NEW e \in EventRecords, events' = Append(events, e),
         NEW n, n = Len(events')
  PROVE  n \in 1..n /\ events'[n] = e /\ LastWord(n, e.manager)'
<1>1. Len(events) \in Nat /\ Len(events') = Len(events) + 1 /\ events'[Len(events')] = e
  BY Sending DEF SessionTypes
<1>2. n \in Nat \ {0} /\ events'[n] = e
  BY <1>1
<1> QED
  BY <1>2 DEF LastWord

-----------------------------------------------------------------------------
(* What was answered *)

\* Nothing but the pool and the workers' words decides what was answered.
LEMMA SameAnswers ==
  ASSUME UNCHANGED <<channel, held, pc, value, said>>, NEW m, NEW word
  PROVE  Answered(m, word)' = Answered(m, word)
BY DEF Answered

\* A job is answered by the worker that has it, and by no other.
LEMMA OneAnswer ==
  ASSUME PoolInv, NEW w \in Workers, held[w] # 0, NEW word, Answered(held[w], word)
  PROVE  \/ pc[w] \in {"stop", "send"} /\ value[w] = word
         \/ pc[w] = "run" /\ said[w] = word
<1>1. ~Sent(held[w]) /\ \A v \in Workers : v # w => held[v] # held[w]
  BY DEF PoolInv, IndInv, EachJobOnce
<1>2. ~\E k \in 1..Len(channel) : channel[k].index = held[w] /\ channel[k].result = word
  BY <1>1 DEF Sent
<1> QED
  BY <1>1, <1>2 DEF Answered

\* No step of the pool makes up an answer.
LEMMA PoolAnswers ==
  ASSUME PoolInv, Speaking, SessionTypes, PoolStep, NEW m \in Managers, NEW word \in {"ready", "failed"},
         Answered(m, word)'
  PROVE  Answered(m, word)
<1>1. UNCHANGED said /\ Types /\ HeldOK
  BY DEF PoolStep, plannerVars, PoolInv, IndInv
<1>2. CASE Return
  BY <1>1, <1>2, SameAnswers DEF Return
<1>3. CASE \E w \in Workers : Send(w)
  <2>1. PICK w \in Workers : Send(w)
    BY <1>3
  <2> DEFINE entry == [index |-> held[w], result |-> value[w]]
  <2>2. channel' = Append(channel, entry) /\ channel \in Seq([index : Jobs, result : Results])
    BY <1>1, <2>1 DEF Send, Types
  <2>3. entry \in [index : Jobs, result : Results]
    BY <1>1, <2>1 DEF Send, Types, HeldOK, Jobs
  <2>4. /\ Len(channel) \in Nat /\ Len(channel') = Len(channel) + 1
        /\ \A k \in 1..Len(channel) : channel'[k] = channel[k]
        /\ channel'[Len(channel) + 1] = entry
    <3> HIDE DEF entry
    <3> QED
      BY <2>2, <2>3
  <2>5. CASE \E k \in 1..Len(channel') : channel'[k].index = m /\ channel'[k].result = word
    <3>1. PICK k \in 1..Len(channel') : channel'[k].index = m /\ channel'[k].result = word
      BY <2>5
    <3>2. CASE k \in 1..Len(channel)
      BY <2>4, <3>1, <3>2 DEF Answered
    <3>3. CASE k = Len(channel) + 1
      BY <2>1, <2>4, <3>1, <3>3 DEF Answered, Send
    <3> QED
      BY <2>4, <3>1, <3>2, <3>3
  <2>6. CASE \E v \in Workers :
               /\ held'[v] = m
               /\ \/ pc'[v] \in {"stop", "send"} /\ value'[v] = word
                  \/ pc'[v] = "run" /\ said'[v] = word
    BY <1>1, <2>1, <2>6 DEF Answered, Send, GoTo, Types
  <2> QED
    BY <2>5, <2>6 DEF Answered
<1>4. CASE \E w \in Workers : CheckFlag(w) \/ Pop(w) \/ PopNothing(w) \/ RaiseFlag(w)
  <2>1. PICK w \in Workers : CheckFlag(w) \/ Pop(w) \/ PopNothing(w) \/ RaiseFlag(w)
    BY <1>4
  <2>2. UNCHANGED <<channel, value>>
    BY <2>1 DEF CheckFlag, Pop, PopNothing, RaiseFlag
  <2>3. CASE \E v \in Workers :
               /\ held'[v] = m
               /\ \/ pc'[v] \in {"stop", "send"} /\ value'[v] = word
                  \/ pc'[v] = "run" /\ said'[v] = word
    <3>1. PICK v \in Workers :
               /\ held'[v] = m
               /\ \/ pc'[v] \in {"stop", "send"} /\ value'[v] = word
                  \/ pc'[v] = "run" /\ said'[v] = word
      BY <2>3
    <3>2. v # w => held'[v] = held[v] /\ pc'[v] = pc[v]
      BY <1>1, <2>1 DEF CheckFlag, Pop, PopNothing, RaiseFlag, TakeFront, GoTo, Types
    <3>3. said[w] = "nothing" /\ pc'[w] \in {"pop", "done", "run", "send"}
      BY <1>1, <2>1 DEF CheckFlag, Pop, PopNothing, RaiseFlag, GoTo, Types, Speaking, AfterCheck
    <3>4. pc'[w] = "send" => held'[w] = held[w] /\ pc[w] = "stop"
      BY <1>1, <2>1 DEF CheckFlag, Pop, PopNothing, RaiseFlag, GoTo, Types, AfterCheck
    <3> QED
      BY <1>1, <2>2, <3>1, <3>2, <3>3, <3>4 DEF Answered
  <2> QED
    BY <2>2, <2>3 DEF Answered
<1> QED
  BY <1>2, <1>3, <1>4 DEF PoolStep

\* A job that ends keeps its answer.
LEMMA EndAnswers ==
  ASSUME PoolInv, SessionTypes, NEW w \in Workers, JobEnds(w), NEW m \in Managers,
         NEW word \in {"ready", "failed"}, Answered(m, word)'
  PROVE  Answered(m, word)
<1>1. /\ UNCHANGED <<channel, held>> /\ Types
      /\ said' = [said EXCEPT ![w] = "nothing"]
  BY DEF JobEnds, JobReturns, JobPanics, Say, PoolInv, IndInv
<1>2. pc[w] = "run" /\ pc'[w] \in {"stop", "send", "panicked"}
  BY <1>1 DEF JobEnds, JobReturns, JobPanics, GoTo, AfterRun, Types
<1>3. \A v \in Workers : v # w => pc'[v] = pc[v] /\ value'[v] = value[v] /\ said'[v] = said[v]
  BY <1>1 DEF JobEnds, JobReturns, JobPanics, GoTo, Types, SessionTypes
<1>4. pc'[w] # "panicked" /\ value'[w] = word => said[w] = word
  BY <1>1 DEF JobEnds, JobPanics, GoTo, Types
<1> QED
  BY <1>1, <1>2, <1>3, <1>4 DEF Answered

-----------------------------------------------------------------------------
(* The planning thread keeps the invariant *)

\* The screen, as far as the planning thread is concerned.
LEMMA ScreenUntouched ==
  ASSUME SessionTypes, Reviewing, ConfirmationIsKept, MainIdle
  PROVE  Reviewing' /\ ConfirmationIsKept'
BY DEF MainIdle, screenVars, Reviewing, ConfirmationIsKept, AnyError

\* Nothing has changed about the end: no planning thread that still works has
\* told of it.
LEMMA NoEndYet ==
  ASSUME SessionInv, MainIdle, ~WellDone,
         \/ UNCHANGED events
         \/ \E e \in EventRecords : e.kind # "finished" /\ events' = Append(events, e)
  PROVE  EndIsLast'
<1>1. ~(finished' /\ ~failure')
  BY DEF SessionInv, EndIsLast, MainIdle, screenVars
<1>2. \A i \in 1..Len(events) : events[i].kind # "finished"
  BY DEF SessionInv, EndIsLast
<1>3. CASE UNCHANGED events
  BY <1>1, <1>2, <1>3 DEF EndIsLast
<1>4. CASE \E e \in EventRecords : e.kind # "finished" /\ events' = Append(events, e)
  <2>1. PICK e \in EventRecords : e.kind # "finished" /\ events' = Append(events, e)
    BY <1>4
  <2>2. /\ Len(events) \in Nat /\ Len(events') = Len(events) + 1
        /\ \A i \in 1..Len(events) : events'[i] = events[i]
        /\ events'[Len(events')] = e
    BY <2>1, Sending DEF SessionInv, SessionTypes
  <2>3. \A i \in 1..Len(events') : events'[i].kind # "finished"
    BY <1>2, <2>1, <2>2
  <2> QED
    BY <1>1, <2>3 DEF EndIsLast
<1> QED
  BY <1>3, <1>4

\* As long as nobody tells anything and no answer is made up, the truth stays.
LEMMA TruthStays ==
  ASSUME Truth, UNCHANGED <<events, status, rows, chosen, plans>>,
         \A m \in Managers : \A word \in {"ready", "failed"} : Answered(m, word)' => Answered(m, word)
  PROVE  Truth'
<1>1. \A m \in Managers : PlanArrives(m)' = PlanArrives(m) /\ ErrorArrives(m)' = ErrorArrives(m)
  BY DEF PlanArrives, ErrorArrives, NothingPending, Shown, PlanIsTold, ErrorIsTold, LastWord
<1> QED
  BY <1>1 DEF Truth

\* The pool works on.
LEMMA PoolStepKeeps == ASSUME PoolInv, SessionInv, PoolStep PROVE SessionInv'
<1>1. outcome = "running"
  BY NothingMoves
<1>2. SessionTypes'
  <2>1. UNCHANGED <<said, planner, plans, prepared, events, tui, status, rows, chosen, finished,
                    failure, dialog, exit>>
    BY DEF PoolStep, MainIdle, screenVars, plannerVars
  <2> QED
    BY <2>1 DEF SessionInv, SessionTypes
<1>6. Speaking'
  <2>1. \A v \in Workers : pc'[v] # "run" => pc[v] # "run"
    BY DEF PoolStep, CheckFlag, Pop, PopNothing, RaiseFlag, Send, Return, GoTo, PoolInv, IndInv, Types
  <2>2. UNCHANGED <<said, events>>
    BY DEF PoolStep, plannerVars
  <2> QED
    BY <2>1, <2>2 DEF SessionInv, Speaking
<1>3. Truth'
  BY PoolAnswers, TruthStays DEF PoolStep, SessionInv, MainIdle, screenVars, plannerVars
<1>4. Course'
  BY <1>1 DEF PoolStep, SessionInv, Course, plannerVars
<1>5. EndIsLast' /\ Reviewing' /\ ConfirmationIsKept'
  BY <1>1, NoEndYet, ScreenUntouched DEF PoolStep, SessionInv, WellDone
<1> QED
  BY <1>2, <1>6, <1>3, <1>4, <1>5 DEF SessionInv

\* A job ends.
LEMMA JobEndsKeeps ==
  ASSUME PoolInv, SessionInv, NEW w \in Workers, JobEnds(w) PROVE SessionInv'
<1>1. outcome = "running"
  BY NothingMoves DEF WorkerTells
<1>2. SessionTypes'
  <2>1. UNCHANGED <<planner, plans, prepared, events, tui, status, rows, chosen, finished,
                    failure, dialog, exit>>
    BY DEF JobEnds, MainIdle, screenVars
  <2>2. said' = [said EXCEPT ![w] = "nothing"]
    BY DEF JobEnds, Say
  <2> QED
    BY <2>1, <2>2 DEF SessionInv, SessionTypes
<1>6. Speaking'
  <2>1. \A v \in Workers : v # w => pc'[v] = pc[v]
    BY DEF JobEnds, JobReturns, JobPanics, GoTo, PoolInv, IndInv, Types
  <2>2. UNCHANGED events /\ \A v \in Workers : said'[v] = IF v = w THEN "nothing" ELSE said[v]
    BY DEF JobEnds, Say, SessionInv, SessionTypes
  <2> QED
    BY <2>1, <2>2 DEF SessionInv, Speaking
<1>3. Truth'
  BY EndAnswers, TruthStays DEF JobEnds, SessionInv, MainIdle, screenVars
<1>4. Course'
  BY <1>1 DEF JobEnds, SessionInv, Course
<1>5. EndIsLast' /\ Reviewing' /\ ConfirmationIsKept'
  BY <1>1, NoEndYet, ScreenUntouched DEF JobEnds, SessionInv, WellDone
<1> QED
  BY <1>2, <1>6, <1>3, <1>4, <1>5 DEF SessionInv

\* What all the words of a worker have in common: it says something new about
\* the manager whose job it runs and has not answered.
LEMMA WordsKeep ==
  ASSUME PoolInv, SessionInv, NEW w \in Workers, pc[w] = "run",
         said[w] \in {"nothing", "started"},
         NEW word \in {"started", "ready", "failed"}, Say(w, word),
         NEW e \in EventRecords, Tell(e), e.manager = held[w], e.manager # 0,
         e.kind \in {"started", "ready", "error"},
         UNCHANGED <<poolVars, planner, prepared>>, MainIdle,
         plans' \in [Managers -> SUBSET Items],
         \A m \in Managers : m # held[w] => plans'[m] = plans[m],
         word = "ready" => /\ e.kind = "ready" /\ e.items = plans'[held[w]]
                           /\ e.selected \subseteq e.items,
         word = "failed" => e.kind = "error"
  PROVE  SessionInv'
<1>1. outcome = "running" /\ pc \in [Workers -> Labels]
  BY DEF PoolInv, IndInv, Types, ReturnOK, Ended
<1>2. UNCHANGED <<channel, held, pc, value, outcome, returned>>
  BY DEF poolVars, vars
<1>3. /\ events' \in Seq(EventRecords)
      /\ Len(events) \in Nat /\ Len(events') = Len(events) + 1
      /\ \A i \in 1..Len(events) : events'[i] = events[i]
      /\ events'[Len(events')] = e
  BY Sending DEF SessionInv, SessionTypes, Tell
<1>4. \A v \in Workers : said'[v] = IF v = w THEN word ELSE said[v]
  BY DEF Say, SessionInv, SessionTypes
<1>5. SessionTypes'
  <2>1. UNCHANGED <<planner, prepared, tui, status, rows, chosen, finished, failure, dialog, exit>>
    BY DEF MainIdle, screenVars
  <2>2. said' \in [Workers -> {"nothing", "started", "ready", "failed"}]
    BY DEF Say, SessionInv, SessionTypes
  <2> QED
    BY <1>3, <2>1, <2>2 DEF SessionInv, SessionTypes
<1>6. Speaking'
  <2>1. \A v \in Workers : pc'[v] # "run" => said'[v] = "nothing"
    BY <1>2, <1>4 DEF SessionInv, Speaking
  <2>2. \A i \in 1..Len(events') :
          events'[i].manager = 0 <=> events'[i].kind \in {"planning failed", "finished"}
    <3> SUFFICES ASSUME NEW i \in 1..Len(events')
                 PROVE  events'[i].manager = 0 <=> events'[i].kind \in {"planning failed", "finished"}
      OBVIOUS
    <3>1. CASE i \in 1..Len(events)
      <4>1. events'[i] = events[i]
        BY <1>3, <3>1
      <4> QED
        BY <3>1, <4>1 DEF SessionInv, Speaking
    <3>2. CASE i = Len(events')
      <4>1. events'[i] = e
        BY <1>3, <3>2
      <4> QED
        BY <4>1
    <3>3. i \in 1..Len(events) \/ i = Len(events')
      BY <1>3
    <3> QED
      BY <3>1, <3>2, <3>3
  <2> QED
    BY <2>1, <2>2 DEF Speaking
<1>7. Truth'
  <2> SUFFICES ASSUME NEW m \in Managers
               PROVE  /\ Answered(m, "ready")' => PlanArrives(m)'
                      /\ Answered(m, "failed")' => ErrorArrives(m)'
    BY DEF Truth
  <2>1. CASE m # held[w]
    <3>1. \A answer : Answered(m, answer)' => Answered(m, answer)
      BY <1>2, <1>4, <2>1 DEF Answered
    <3>2. /\ PlanArrives(m) => PlanArrives(m)'
          /\ ErrorArrives(m) => ErrorArrives(m)'
      BY <2>1, OthersEvent DEF SessionInv, Tell, MainIdle, screenVars
    <3> QED
      BY <3>1, <3>2 DEF SessionInv, Truth
  <2>2. CASE m = held[w]
    <3>2. \A answer : Answered(m, answer)' => word = answer
      <4> SUFFICES ASSUME NEW answer, Answered(m, answer)', word # answer PROVE FALSE
        OBVIOUS
      <4>1. ~Sent(held[w]) /\ \A v \in Workers : v # w => held[v] # held[w]
        BY DEF PoolInv, IndInv, EachJobOnce
      <4>2. ~\E k \in 1..Len(channel) : channel[k].index = m /\ channel[k].result = answer
        BY <2>2, <4>1 DEF Sent
      <4> QED
        BY <1>2, <1>4, <2>2, <4>1, <4>2 DEF Answered
    <3>3. PICK n : n = Len(events')
      OBVIOUS
    <3>4. n \in 1..n /\ events'[n] = e /\ LastWord(n, e.manager)'
      BY <3>3, NewestEvent DEF SessionInv, Tell
    <3>5. word = "ready" => PlanIsTold(n, m)'
      BY <2>2, <3>4 DEF PlanIsTold
    <3>6. word = "failed" => ErrorIsTold(n, m)'
      BY <2>2, <3>4 DEF ErrorIsTold
    <3> QED
      BY <3>2, <3>3, <3>4, <3>5, <3>6 DEF PlanArrives, ErrorArrives
  <2> QED
    BY <2>1, <2>2
<1>8. Course'
  BY <1>2 DEF SessionInv, Course, AnyInterrupted
<1>9. EndIsLast' /\ Reviewing' /\ ConfirmationIsKept'
  BY <1>1, NoEndYet, ScreenUntouched DEF SessionInv, WellDone, Tell
<1> QED
  BY <1>5, <1>6, <1>7, <1>8, <1>9 DEF SessionInv

\* The words of a worker.
LEMMA TellStartedKeeps ==
  ASSUME PoolInv, SessionInv, NEW w \in Workers, TellStarted(w) PROVE SessionInv'
<1>1. held[w] \in Managers
  BY DEF TellStarted, PoolInv, IndInv, Types, HeldOK, Managers, Jobs
<1>2. Started(held[w]) \in EventRecords /\ held[w] # 0
  BY <1>1, EventTypes
<1>3. Started(held[w]).manager = held[w] /\ Started(held[w]).kind = "started"
  BY DEF Started, Event
<1>4. plans \in [Managers -> SUBSET Items]
  BY DEF SessionInv, SessionTypes
<1> QED
  BY <1>2, <1>3, <1>4, WordsKeep DEF TellStarted

\* A failed job tells the screen.
LEMMA TellErrorKeeps ==
  ASSUME PoolInv, SessionInv, NEW w \in Workers, TellError(w) PROVE SessionInv'
<1>1. held[w] \in Managers
  BY DEF TellError, PoolInv, IndInv, Types, HeldOK, Managers, Jobs
<1>2. ManagerError(held[w]) \in EventRecords /\ held[w] # 0
  BY <1>1, EventTypes
<1>3. ManagerError(held[w]).manager = held[w] /\ ManagerError(held[w]).kind = "error"
  BY DEF ManagerError, Event
<1>4. plans \in [Managers -> SUBSET Items]
  BY DEF SessionInv, SessionTypes
<1> QED
  BY <1>2, <1>3, <1>4, WordsKeep DEF TellError

\* A planned manager tells the screen its rows.
LEMMA TellReadyKeeps ==
  ASSUME PoolInv, SessionInv, NEW w \in Workers, TellReady(w) PROVE SessionInv'
<1>1. held[w] \in Managers
  BY DEF TellReady, PoolInv, IndInv, Types, HeldOK, Managers, Jobs
<1>2. PICK told \in SUBSET Items, selected \in SUBSET Items :
        /\ selected \subseteq told
        /\ plans' = [plans EXCEPT ![held[w]] = told]
        /\ Tell(Ready(held[w], told, selected))
  BY DEF TellReady, InitialChoices
<1> DEFINE e == Ready(held[w], told, selected)
<1>3. e \in EventRecords /\ held[w] # 0
  BY <1>1, EventTypes
<1>4. e.manager = held[w] /\ e.kind = "ready" /\ e.items = told /\ e.selected = selected
  BY DEF Ready, Event
<1>5. /\ plans' \in [Managers -> SUBSET Items] /\ plans'[held[w]] = told
      /\ \A m \in Managers : m # held[w] => plans'[m] = plans[m]
  BY <1>1, <1>2 DEF SessionInv, SessionTypes
<1>6. /\ pc[w] = "run" /\ said[w] \in {"nothing", "started"} /\ Say(w, "ready")
      /\ UNCHANGED <<poolVars, planner, prepared>> /\ MainIdle
  BY DEF TellReady
<1> HIDE DEF e
<1> QED
  BY <1>2, <1>3, <1>4, <1>5, <1>6, WordsKeep DEF e

\* The steps of the planning thread after its pool.
LEMMA PlannerKeeps ==
  ASSUME PoolInv, SessionInv,
         PoolReturned \/ TellFinished \/ TellFailure \/ SendPrepared \/ DropSenders
  PROVE  SessionInv'
<1>1. /\ UNCHANGED <<channel, held, pc, value, said, outcome, returned, stop>>
      /\ UNCHANGED <<said, plans, tui, status, rows, chosen, finished, failure, dialog, exit>>
      /\ MainIdle
  BY DEF PoolReturned, TellFinished, TellFailure, SendPrepared, DropSenders, poolVars, vars, MainIdle,
         screenVars
<1>2. \A m, word : Answered(m, word)' = Answered(m, word)
  BY <1>1, SameAnswers
<1>3. Reviewing' /\ ConfirmationIsKept'
  BY <1>1, ScreenUntouched DEF SessionInv
<1>4. CASE UNCHANGED events
  <2>1. CASE PoolReturned
    <3>1. SessionTypes' /\ Course' /\ ~WellDone
      BY <1>1, <1>4, <2>1
         DEF PoolReturned, SessionInv, SessionTypes, Course, AnyInterrupted, WellDone, PoolInv, ReturnOK
    <3>2. EndIsLast'
      BY <1>1, <1>4, <3>1, NoEndYet
    <3> QED
      BY <1>1, <1>2, <1>3, <1>4, <3>1, <3>2, TruthStays DEF SessionInv, Speaking
  <2>2. CASE TellFinished \/ TellFailure \/ SendPrepared \/ DropSenders
    <3>1. SessionTypes' /\ Course'
      BY <1>1, <1>4, <2>2
         DEF TellFinished, TellFailure, SendPrepared, DropSenders, SessionInv, SessionTypes, Course,
             AnyInterrupted
    <3>2. WellDone => WellDone'
      BY <1>1, <1>2, <2>2
         DEF TellFinished, TellFailure, SendPrepared, DropSenders, WellDone, SessionInv, Course
    <3>3. EndIsLast'
      BY <1>1, <1>4, <3>2 DEF SessionInv, EndIsLast
    <3> QED
      BY <1>1, <1>2, <1>3, <1>4, <3>1, <3>3, TruthStays DEF SessionInv, Speaking
  <2> QED
    BY <2>1, <2>2
<1>5. CASE events' # events
  <2>1. \/ TellFinished /\ ~stop /\ Tell(Finished)
        \/ TellFailure /\ Tell(PlanningFailed)
    BY <1>5 DEF PoolReturned, TellFinished, TellFailure, SendPrepared, DropSenders
  <2>2. PICK e \in {Finished, PlanningFailed} :
          /\ events' = Append(events, e)
          /\ e = Finished => TellFinished /\ ~stop
          /\ e = PlanningFailed => TellFailure
    BY <2>1 DEF Tell, Finished, PlanningFailed, Event
  <2>3. /\ e \in EventRecords /\ e.manager = 0
        /\ e.kind \in {"finished", "planning failed"} /\ (e.kind = "finished" <=> e = Finished)
    <3>1. 0 \in 0..JobCount
      BY ConstantsAssumption
    <3>2. CASE e = Finished
      BY <3>1, <3>2 DEF Finished, Event, EventRecords, EventKinds
    <3>3. CASE e = PlanningFailed
      BY <3>1, <3>3 DEF Finished, PlanningFailed, Event, EventRecords, EventKinds
    <3> QED
      BY <2>2, <3>2, <3>3
  <2>4. /\ events' \in Seq(EventRecords)
        /\ Len(events) \in Nat /\ Len(events') = Len(events) + 1
        /\ \A i \in 1..Len(events) : events'[i] = events[i]
        /\ events'[Len(events')] = e
    BY <2>2, <2>3, Sending DEF SessionInv, SessionTypes
  <2>5. SessionTypes' /\ Course' /\ ~WellDone
    BY <1>1, <2>1, <2>4
       DEF TellFinished, TellFailure, SessionInv, SessionTypes, Course, AnyInterrupted, WellDone
  <2>6. Speaking'
    <3>1. \A i \in 1..Len(events') : i \in 1..Len(events) \/ i = Len(events')
      BY <2>4
    <3> QED
      BY <1>1, <2>3, <2>4, <3>1 DEF SessionInv, Speaking
  <2>7. Truth'
    <3>1. \A m \in Managers : m # 0
      BY ConstantsAssumption DEF Managers, Jobs
    <3>2. \A m \in Managers : /\ PlanArrives(m) => PlanArrives(m)'
                              /\ ErrorArrives(m) => ErrorArrives(m)'
      BY <1>1, <2>2, <2>3, <3>1, OthersEvent DEF SessionInv
    <3> QED
      BY <1>2, <3>2 DEF SessionInv, Truth
  <2>8. EndIsLast'
    <3>1. CASE e = PlanningFailed
      BY <1>1, <2>2, <2>3, <2>5, <3>1, NoEndYet DEF Finished, PlanningFailed, Event
    <3>2. CASE e = Finished
      <4>1. WellDone'
        BY <1>1, <1>2, <2>2, <3>2, EverybodyAnswered
           DEF TellFinished, WellDone, SessionInv, Course
      <4>2. ~(finished' /\ ~failure') /\ \A i \in 1..Len(events) : events'[i].kind # "finished"
        BY <1>1, <2>4, <2>5 DEF SessionInv, EndIsLast
      <4>3. \A i \in 1..Len(events') : i \in 1..Len(events) \/ i = Len(events')
        BY <2>4
      <4> QED
        BY <4>1, <4>2, <4>3 DEF EndIsLast
    <3> QED
      BY <3>1, <3>2
  <2> QED
    BY <1>3, <2>5, <2>6, <2>7, <2>8 DEF SessionInv
<1> QED
  BY <1>4, <1>5

-----------------------------------------------------------------------------
(* The selection loop keeps the invariant *)

\* What the loop leaves alone, whatever it does.
LEMMA LoopFrame ==
  ASSUME SessionInv, UNCHANGED plannerVars,
         UNCHANGED <<channel, held, pc, value, outcome, returned>>
  PROVE  /\ UNCHANGED <<said, planner, plans, prepared>>
         /\ \A m, word : Answered(m, word)' = Answered(m, word)
         /\ Course' /\ WellDone' = WellDone
<1>1. UNCHANGED <<said, planner, plans, prepared>>
  BY DEF plannerVars
<1>2. \A m, word : Answered(m, word)' = Answered(m, word)
  BY <1>1, SameAnswers
<1> QED
  BY <1>1, <1>2 DEF SessionInv, Course, AnyInterrupted, WellDone

\* The planning thread and its pool are not touched by the loop.
LEMMA Idle ==
  ASSUME PlannerIdle
  PROVE  /\ UNCHANGED plannerVars /\ UNCHANGED exit
         /\ UNCHANGED <<channel, held, pc, value, outcome, returned>>
BY DEF PlannerIdle, poolVars, vars

\* An event about a manager is shown, and the others are left as they are.
LEMMA ApplyShows ==
  ASSUME SessionInv, events # <<>>, Apply(Head(events)), NEW m \in Managers
  PROVE  LET event == Head(events) IN
         /\ event.manager # m => /\ status[m] \notin {"waiting", "planning"} => status'[m] = status[m]
                                /\ rows'[m] = rows[m] /\ chosen'[m] = chosen[m]
         /\ event.manager = m /\ event.kind = "ready" =>
              status'[m] \in {"ready", "empty"} /\ rows'[m] = event.items /\ chosen'[m] = event.selected
         /\ event.manager = m /\ event.kind = "error" => status'[m] = "error"
<1> DEFINE event == Head(events)
<1>1. event = events[1] /\ event \in EventRecords /\ 1 \in 1..Len(events)
  <2> HIDE DEF EventRecords
  <2>1. events \in Seq(EventRecords)
    BY DEF SessionInv, SessionTypes
  <2> QED
    BY <2>1
<1>2. event.manager = 0 <=> event.kind \in {"planning failed", "finished"}
  BY <1>1 DEF SessionInv, Speaking
<1>3. /\ event.kind \in EventKinds /\ event.manager \in 0..JobCount
      /\ event.items \in SUBSET Items /\ event.selected \in SUBSET Items
  BY <1>1 DEF EventRecords
<1>4. /\ status \in [Managers -> Statuses] /\ rows \in [Managers -> SUBSET Items]
      /\ chosen \in [Managers -> SUBSET Items] /\ m # 0
  <2>1. m # 0
    BY ConstantsAssumption DEF Managers, Jobs
  <2> QED
    BY <2>1 DEF SessionInv, SessionTypes
<1> HIDE DEF event
<1>5. CASE event.kind = "started"
  BY <1>4, <1>5 DEF Apply, Show, event
<1>6. CASE event.kind = "ready"
  BY <1>4, <1>6 DEF Apply, Show, event
<1>7. CASE event.kind = "error"
  BY <1>4, <1>7 DEF Apply, Show, event
<1>8. CASE event.kind = "planning failed"
  BY <1>2, <1>4, <1>8 DEF Apply, ShowFailure, event
<1>9. CASE event.kind = "finished"
  BY <1>2, <1>4, <1>9 DEF Apply, event
<1> QED
  BY <1>3, <1>5, <1>6, <1>7, <1>8, <1>9 DEF EventKinds, event

\* The types of the screen after an event.
LEMMA ApplyTypes ==
  ASSUME SessionInv, events # <<>>, Apply(Head(events))
  PROVE  /\ status' \in [Managers -> Statuses] /\ rows' \in [Managers -> SUBSET Items]
         /\ chosen' \in [Managers -> SUBSET Items]
         /\ finished' \in BOOLEAN /\ failure' \in BOOLEAN /\ dialog' = dialog
         /\ finished' /\ ~failure' =>
              \/ finished /\ ~failure
              \/ Head(events).kind = "finished"
<1> DEFINE event == Head(events)
<1>1. event \in EventRecords
  <2> HIDE DEF EventRecords
  <2>1. events \in Seq(EventRecords)
    BY DEF SessionInv, SessionTypes
  <2> QED
    BY <2>1
<1>2. /\ event.kind \in EventKinds
      /\ event.items \in SUBSET Items /\ event.selected \in SUBSET Items
  BY <1>1 DEF EventRecords
<1>3. /\ status \in [Managers -> Statuses] /\ rows \in [Managers -> SUBSET Items]
      /\ chosen \in [Managers -> SUBSET Items] /\ finished \in BOOLEAN /\ failure \in BOOLEAN
  BY DEF SessionInv, SessionTypes
<1> HIDE DEF event
<1>4. CASE event.kind \in {"started", "ready", "error"}
  <2>1. PICK what \in Statuses, told \in SUBSET Items, selected \in SUBSET Items :
          Show(event.manager, what, told, selected)
    BY <1>2, <1>4 DEF Apply, Statuses, event
  <2>2. dialog' = dialog
    BY DEF Apply
  <2>3. status' \in [Managers -> Statuses]
    BY <1>3, <2>1 DEF Show
  <2>4. rows' \in [Managers -> SUBSET Items] /\ chosen' \in [Managers -> SUBSET Items]
    BY <1>3, <2>1 DEF Show
  <2>5. finished' = finished /\ failure' = failure
    BY <2>1 DEF Show
  <2> QED
    BY <1>3, <2>2, <2>3, <2>4, <2>5
<1>5. CASE event.kind = "planning failed"
  BY <1>3, <1>5 DEF Apply, ShowFailure, Statuses, event
<1>6. CASE event.kind = "finished"
  BY <1>3, <1>6 DEF Apply, event
<1> QED
  BY <1>2, <1>4, <1>5, <1>6 DEF EventKinds

\* Draining an event shows what was on its way.
LEMMA DrainOneTruth ==
  ASSUME SessionInv, DrainOne PROVE Truth'
<1>1. /\ events # <<>> /\ Apply(Head(events)) /\ events' = Tail(events)
      /\ UNCHANGED plannerVars /\ UNCHANGED <<channel, held, pc, value, outcome, returned>>
  BY Idle DEF DrainOne
<1>2. /\ Len(events') \in Nat /\ Len(events) = Len(events') + 1
      /\ Head(events) = events[1]
      /\ \A i \in 1..Len(events') : events'[i] = events[i + 1]
  BY <1>1, Receiving DEF SessionInv, SessionTypes
<1>3. plans' = plans /\ \A m, word : Answered(m, word)' = Answered(m, word)
  BY <1>1, LoopFrame
<1>4. ASSUME NEW m \in Managers, NothingPending(m) PROVE NothingPending(m)' /\ Head(events).manager # m
  BY <1>2, <1>4 DEF NothingPending
<1>5. ASSUME NEW m \in Managers, LastWord(1, m) PROVE NothingPending(m)'
  BY <1>2, <1>5 DEF NothingPending, LastWord
<1>6. ASSUME NEW m \in Managers, NEW i \in 1..Len(events), i # 1, LastWord(i, m)
      PROVE  i - 1 \in 1..Len(events') /\ events'[i - 1] = events[i] /\ LastWord(i - 1, m)'
  <2>1. i - 1 \in 1..Len(events') /\ (i - 1) + 1 = i
    BY <1>2, <1>6
  <2>2. events'[i - 1] = events[i]
    BY <1>2, <2>1
  <2>3. \A j \in 1..Len(events') : i - 1 < j => j + 1 \in 1..Len(events) /\ i < j + 1
    BY <1>2, <2>1
  <2> QED
    BY <1>2, <1>6, <2>1, <2>2, <2>3 DEF LastWord
<1>7. ASSUME NEW m \in Managers, PlanArrives(m) PROVE PlanArrives(m)'
  <2>1. CASE NothingPending(m) /\ Shown(m)
    <3>1. Shown(m)'
      BY <1>1, <1>3, <1>4, <2>1, ApplyShows DEF Shown
    <3> QED
      BY <1>4, <2>1, <3>1 DEF PlanArrives
  <2>2. CASE \E i \in 1..Len(events) : PlanIsTold(i, m)
    <3>1. PICK i \in 1..Len(events) : PlanIsTold(i, m)
      BY <2>2
    <3>2. CASE i = 1
      <4>1. Shown(m)'
        BY <1>1, <1>2, <1>3, <3>1, <3>2, ApplyShows DEF Shown, PlanIsTold, LastWord
      <4> QED
        BY <1>5, <3>1, <3>2, <4>1 DEF PlanArrives, PlanIsTold
    <3>3. CASE i # 1
      <4>1. i - 1 \in 1..Len(events') /\ PlanIsTold(i - 1, m)'
        BY <1>3, <1>6, <3>1, <3>3 DEF PlanIsTold
      <4> QED
        BY <4>1 DEF PlanArrives
    <3> QED
      BY <3>2, <3>3
  <2> QED
    BY <1>7, <2>1, <2>2 DEF PlanArrives
<1>8. ASSUME NEW m \in Managers, ErrorArrives(m) PROVE ErrorArrives(m)'
  <2>1. CASE NothingPending(m) /\ status[m] = "error"
    BY <1>1, <1>4, <2>1, ApplyShows DEF ErrorArrives
  <2>2. CASE \E i \in 1..Len(events) : ErrorIsTold(i, m)
    <3>1. PICK i \in 1..Len(events) : ErrorIsTold(i, m)
      BY <2>2
    <3>2. CASE i = 1
      <4>1. status'[m] = "error"
        BY <1>1, <1>2, <3>1, <3>2, ApplyShows DEF ErrorIsTold, LastWord
      <4> QED
        BY <1>5, <3>1, <3>2, <4>1 DEF ErrorArrives, ErrorIsTold
    <3>3. CASE i # 1
      <4>1. i - 1 \in 1..Len(events') /\ ErrorIsTold(i - 1, m)'
        BY <1>6, <3>1, <3>3 DEF ErrorIsTold
      <4> QED
        BY <4>1 DEF ErrorArrives
    <3> QED
      BY <3>2, <3>3
  <2> QED
    BY <1>8, <2>1, <2>2 DEF ErrorArrives
<1> QED
  BY <1>3, <1>7, <1>8 DEF SessionInv, Truth

\* The screen takes the oldest event.
LEMMA DrainOneKeeps == ASSUME SessionInv, DrainOne, exit = "none" PROVE SessionInv'
<1>1. /\ events # <<>> /\ Apply(Head(events)) /\ events' = Tail(events)
      /\ UNCHANGED <<tui, exit>>
      /\ UNCHANGED plannerVars /\ UNCHANGED <<channel, held, pc, value, outcome, returned>>
  BY Idle DEF DrainOne
<1>2. /\ events' \in Seq(EventRecords)
      /\ Len(events') \in Nat /\ Len(events) = Len(events') + 1
      /\ Head(events) = events[1]
      /\ \A i \in 1..Len(events') : events'[i] = events[i + 1]
  BY <1>1, Receiving DEF SessionInv, SessionTypes
<1>3. UNCHANGED <<said, planner, plans, prepared>> /\ Course' /\ WellDone' = WellDone
  BY <1>1, LoopFrame
<1>4. SessionTypes'
  BY <1>1, <1>2, <1>3, ApplyTypes DEF SessionInv, SessionTypes
<1>5. Speaking'
  <2>1. \A i \in 1..Len(events') : i + 1 \in 1..Len(events)
    BY <1>2
  <2> QED
    BY <1>1, <1>2, <1>3, <2>1 DEF SessionInv, Speaking
<1>6. EndIsLast'
  <2>1. finished' /\ ~failure' => Len(events') = 0 /\ WellDone
    <3>1. 1 \in 1..Len(events)
      BY <1>2
    <3>2. ~(finished /\ ~failure)
      BY <1>1 DEF SessionInv, EndIsLast
    <3>3. finished' /\ ~failure' => events[1].kind = "finished"
      BY <1>1, <1>2, <3>2, ApplyTypes
    <3>4. finished' /\ ~failure' => 1 = Len(events) /\ WellDone
      BY <3>1, <3>3 DEF SessionInv, EndIsLast
    <3> QED
      BY <1>2, <3>4
  <2>2. Len(events') = 0 => events' = <<>>
    <3> HIDE DEF EventRecords
    <3> QED
      BY <1>2
  <2>3. \A i \in 1..Len(events') : events'[i].kind = "finished" => i = Len(events') /\ WellDone
    <3> SUFFICES ASSUME NEW i \in 1..Len(events'), events'[i].kind = "finished"
                 PROVE  i = Len(events') /\ WellDone
      OBVIOUS
    <3>1. i + 1 \in 1..Len(events) /\ events[i + 1].kind = "finished"
      BY <1>2
    <3>2. i + 1 = Len(events) /\ WellDone
      BY <3>1 DEF SessionInv, EndIsLast
    <3> QED
      BY <1>2, <3>2
  <2> QED
    BY <1>3, <2>1, <2>2, <2>3 DEF EndIsLast
<1>7. Reviewing'
  <2>1. ~(dialog \/ tui = "confirmed")
    BY <1>1 DEF SessionInv, Reviewing, EndIsLast, AnyError
  <2>2. dialog' = dialog
    BY <1>1, ApplyTypes
  <2> QED
    BY <1>1, <2>1, <2>2 DEF Reviewing
<1> QED
  BY <1>1, <1>3, <1>4, <1>5, <1>6, <1>7, DrainOneTruth DEF SessionInv, ConfirmationIsKept

\* Finding nothing more ends the drain, and with the planning thread gone it is
\* the end of planning, one way or the other.
LEMMA ShownFailureKeeps ==
  ASSUME SessionInv, ~finished, ShowFailure, UNCHANGED <<events, dialog, plannerVars, exit>>,
         UNCHANGED <<channel, held, pc, value, outcome, returned>>, exit = "none",
         tui' \in {"poll", "keys"}
  PROVE  SessionInv'
<1>1. UNCHANGED <<said, planner, plans, prepared>> /\ Course' /\ WellDone' = WellDone
  BY LoopFrame
<1>2. \A m, word : Answered(m, word)' = Answered(m, word)
  BY LoopFrame
<1>3. /\ status' \in [Managers -> Statuses] /\ UNCHANGED <<rows, chosen>>
      /\ finished' = TRUE /\ failure' = TRUE
      /\ \A m \in Managers : status[m] \notin {"waiting", "planning"} => status'[m] = status[m]
  BY DEF ShowFailure, SessionInv, SessionTypes, Statuses
<1>4. SessionTypes' /\ Speaking'
  BY <1>1, <1>3 DEF SessionInv, SessionTypes, Speaking
<1>5. Truth'
  <2>1. \A m \in Managers : NothingPending(m)' = NothingPending(m)
    BY DEF NothingPending
  <2>2. \A m \in Managers : \A i \in 1..Len(events) : LastWord(i, m)' = LastWord(i, m)
    BY DEF LastWord
  <2>3. \A m \in Managers : (Shown(m) => Shown(m)') /\ (status[m] = "error" => status'[m] = "error")
    BY <1>1, <1>3 DEF Shown
  <2>4. \A m \in Managers : /\ PlanArrives(m) => PlanArrives(m)'
                            /\ ErrorArrives(m) => ErrorArrives(m)'
    BY <1>1, <2>1, <2>2, <2>3 DEF PlanArrives, ErrorArrives, PlanIsTold, ErrorIsTold
  <2> QED
    BY <1>2, <2>4 DEF SessionInv, Truth
<1>6. EndIsLast'
  BY <1>1, <1>3 DEF SessionInv, EndIsLast
<1>7. Reviewing' /\ ConfirmationIsKept'
  BY DEF SessionInv, Reviewing, ConfirmationIsKept
<1> QED
  BY <1>1, <1>4, <1>5, <1>6, <1>7 DEF SessionInv

\* The steps of the loop that change neither the events nor the planning, but
\* perhaps the choices, the dialog or the place in the loop.
LEMMA PlaceKeeps ==
  ASSUME SessionInv, UNCHANGED <<events, plannerVars, status, rows, finished, failure>>,
         UNCHANGED <<channel, held, pc, value, outcome, returned>>,
         chosen' \in [Managers -> SUBSET Items],
         \A m \in Managers : chosen'[m] \subseteq chosen[m] \cup rows[m],
         tui' \in {"drain", "poll", "drain again", "keys", "confirmed", "failed", "cancelled",
                  "interrupted"},
         dialog' \in BOOLEAN,
         exit' \in {"none", "confirmed", "error", "cancelled", "interrupted"},
         dialog' \/ tui' = "confirmed" => finished /\ ~AnyError,
         tui' = "confirmed" => exit' \in {"none", "confirmed"}
  PROVE  SessionInv'
<1>1. UNCHANGED <<said, planner, plans, prepared>> /\ Course' /\ WellDone' = WellDone
  BY LoopFrame
<1>2. \A m, word : Answered(m, word)' = Answered(m, word)
  BY LoopFrame
<1>3. SessionTypes' /\ Speaking'
  BY <1>1 DEF SessionInv, SessionTypes, Speaking
<1>4. Truth'
  <2>1. \A m \in Managers : NothingPending(m)' = NothingPending(m)
    BY DEF NothingPending
  <2>2. \A m \in Managers : \A i \in 1..Len(events) : LastWord(i, m)' = LastWord(i, m)
    BY DEF LastWord
  <2>3. \A m \in Managers : Shown(m) => Shown(m)'
    BY <1>1 DEF Shown
  <2>4. \A m \in Managers : /\ PlanArrives(m) => PlanArrives(m)'
                            /\ ErrorArrives(m) => ErrorArrives(m)'
    BY <1>1, <2>1, <2>2, <2>3 DEF PlanArrives, ErrorArrives, PlanIsTold, ErrorIsTold
  <2> QED
    BY <1>2, <2>4 DEF SessionInv, Truth
<1>5. EndIsLast'
  BY <1>1 DEF SessionInv, EndIsLast
<1>6. Reviewing' /\ ConfirmationIsKept'
  BY DEF Reviewing, ConfirmationIsKept, AnyError
<1> QED
  BY <1>1, <1>3, <1>4, <1>5, <1>6 DEF SessionInv

\* A drain ends, with or without the senders.
LEMMA DrainsKeep ==
  ASSUME SessionInv, exit = "none",
         DrainEmpty \/ DrainDisconnected \/ PollTimesOut \/ KeysHandled \/ KeyPressed
  PROVE  SessionInv'
<1>1. /\ UNCHANGED plannerVars /\ UNCHANGED exit
      /\ UNCHANGED <<channel, held, pc, value, outcome, returned>> /\ UNCHANGED events
      /\ tui # "confirmed" /\ tui' \in {"drain", "poll", "drain again", "keys"}
  BY Idle DEF DrainEmpty, DrainDisconnected, PollTimesOut, KeysHandled, KeyPressed, AfterDrain, Draining
<1>2. CASE UNCHANGED screenVars
  BY <1>1, <1>2, PlaceKeeps DEF screenVars, SessionInv, SessionTypes, Reviewing
<1>3. CASE DrainDisconnected /\ ~finished
  <2>1. ShowFailure /\ UNCHANGED dialog /\ tui' \in {"poll", "keys"}
    BY <1>3 DEF DrainDisconnected, AfterDrain
  <2> QED
    BY <1>1, <1>3, <2>1, ShownFailureKeeps
<1> QED
  BY <1>2, <1>3 DEF DrainEmpty, DrainDisconnected, PollTimesOut, KeysHandled, KeyPressed

\* What the user does on the screen.
LEMMA KeysKeep ==
  ASSUME SessionInv, exit = "none",
         \/ \E m \in Managers, item \in Items : ChangeChoice(m, item)
         \/ AskToConfirm \/ CloseDialog \/ Confirm \/ TerminalFails
  PROVE  SessionInv'
<1>1. /\ chosen \in [Managers -> SUBSET Items] /\ dialog \in BOOLEAN
      /\ dialog => finished /\ ~AnyError
  BY DEF SessionInv, SessionTypes, Reviewing
<1>2. CASE \E m \in Managers, item \in Items : ChangeChoice(m, item)
  <2>1. PICK m \in Managers, item \in Items : ChangeChoice(m, item)
    BY <1>2
  <2>2. /\ UNCHANGED plannerVars /\ UNCHANGED exit
        /\ UNCHANGED <<channel, held, pc, value, outcome, returned>>
        /\ UNCHANGED <<tui, events, status, rows, finished, failure, dialog>>
        /\ tui = "keys" /\ item \in rows[m]
    BY <2>1, Idle DEF ChangeChoice
  <2>3. chosen' = [chosen EXCEPT ![m] = IF item \in @ THEN @ \ {item} ELSE @ \cup {item}]
    BY <2>1 DEF ChangeChoice
  <2>4. /\ chosen' \in [Managers -> SUBSET Items]
        /\ \A n \in Managers : chosen'[n] \subseteq chosen[n] \cup rows[n]
    <3> DEFINE others == chosen[m] \ {item}
               more == chosen[m] \cup {item}
    <3>1. /\ others \in SUBSET Items /\ others \subseteq chosen[m] \cup rows[m]
          /\ more \in SUBSET Items /\ more \subseteq chosen[m] \cup rows[m]
      BY <1>1, <2>2
    <3>2. chosen' = [chosen EXCEPT ![m] = IF item \in chosen[m] THEN others ELSE more]
      BY <2>3
    <3> HIDE DEF others, more
    <3> QED
      BY <1>1, <3>1, <3>2
  <2> QED
    BY <1>1, <2>2, <2>4, PlaceKeeps
<1>3. CASE AskToConfirm
  <2>1. /\ UNCHANGED plannerVars /\ UNCHANGED exit
        /\ UNCHANGED <<channel, held, pc, value, outcome, returned>>
        /\ UNCHANGED <<events, status, rows, chosen, finished, failure>>
        /\ tui = "keys" /\ finished
    BY <1>3, Idle DEF AskToConfirm, MayConfirm, Leave, screenVars
  <2>2. \/ tui' = "failed" /\ dialog' = dialog
        \/ tui' = tui /\ dialog' = TRUE /\ ~AnyError
    BY <1>3 DEF AskToConfirm, Leave, screenVars
  <2>3. /\ dialog' \in BOOLEAN /\ tui' \in {"keys", "failed"}
        /\ dialog' => finished /\ ~AnyError
    <3>1. CASE tui' = "failed" /\ dialog' = dialog
      BY <1>1, <3>1
    <3>2. CASE tui' = tui /\ dialog' = TRUE /\ ~AnyError
      <4>1. tui' \in {"keys", "failed"} /\ dialog' \in BOOLEAN
        BY <2>1, <3>2
      <4> QED
        BY <2>1, <3>2, <4>1
    <3> QED
      BY <2>2, <3>1, <3>2
  <2> QED
    BY <1>1, <2>1, <2>3, PlaceKeeps
<1>4. CASE CloseDialog \/ Confirm \/ TerminalFails
  <2>1. /\ UNCHANGED plannerVars /\ UNCHANGED exit
        /\ UNCHANGED <<channel, held, pc, value, outcome, returned>>
        /\ UNCHANGED <<events, status, rows, chosen, finished, failure>>
    BY <1>4, Idle DEF CloseDialog, Confirm, TerminalFails, Leave, screenVars
  <2>2. \/ tui' = "keys" /\ dialog' = FALSE
        \/ tui' = "confirmed" /\ dialog /\ dialog' = dialog
        \/ tui' = "failed" /\ dialog' = dialog
    BY <1>4 DEF CloseDialog, Confirm, TerminalFails, Leave, screenVars
  <2>3. /\ dialog' \in BOOLEAN /\ tui' \in {"keys", "failed", "confirmed"}
        /\ dialog' \/ tui' = "confirmed" => finished /\ ~AnyError
    <3>1. CASE tui' = "keys" /\ dialog' = FALSE
      BY <3>1
    <3>2. CASE tui' = "confirmed" /\ dialog /\ dialog' = dialog
      BY <1>1, <3>2
    <3>3. CASE tui' = "failed" /\ dialog' = dialog
      BY <1>1, <3>3
    <3> QED
      BY <2>2, <3>1, <3>2, <3>3
  <2> QED
    BY <1>1, <2>1, <2>3, PlaceKeeps
<1> QED
  BY <1>2, <1>3, <1>4

\* When all is planned and drained without an error, the screen shows the plans,
\* and their managers answered that they are ready.
LEMMA AllIsShown ==
  ASSUME SessionInv, PoolInv, finished, ~AnyError
  PROVE  /\ WellDone
         /\ \A m \in Managers : Shown(m) /\ returned[m] = "ready"
<1>1. WellDone /\ events = <<>>
  BY DEF SessionInv, EndIsLast, AnyError
<1>2. ASSUME NEW m \in Managers PROVE Shown(m) /\ Answered(m, "ready")
  <2>1. ~\E i \in 1..Len(events) : TRUE
    BY <1>1
  <2>2. ~ErrorArrives(m)
    BY <2>1 DEF ErrorArrives, AnyError
  <2>3. Answered(m, "ready")
    BY <1>1, <2>2 DEF SessionInv, Truth, WellDone
  <2> QED
    BY <2>1, <2>3 DEF SessionInv, Truth, PlanArrives
<1> QED
  BY <1>1, <1>2, AnswerIsReturned DEF WellDone

\* Leaving, and what comes after the loop.
LEMMA LeavingKeeps ==
  ASSUME SessionInv, PoolInv, exit = "none",
         CancelSession \/ StopAfterError \/ JoinAfterError \/ ReceivePrepared
  PROVE  SessionInv'
<1>1. /\ UNCHANGED <<events, plannerVars, screenVars>>
      /\ UNCHANGED <<channel, held, pc, value, outcome, returned>>
  BY DEF CancelSession, StopAfterError, JoinAfterError, ReceivePrepared, Leave, RaiseStop, ExitWith,
         poolVars, vars
<1>2. UNCHANGED <<status, rows, chosen, finished, failure, dialog>>
  BY <1>1 DEF screenVars
<1>3. \/ tui' \in {"cancelled", "interrupted"} /\ exit' = tui'
      \/ tui' = "failed" /\ exit' \in {"none", "error"} /\ tui = "failed"
      \/ tui' = "confirmed" /\ exit' = "confirmed" /\ tui = "confirmed"
  <2>1. CASE CancelSession \/ StopAfterError \/ JoinAfterError
    BY <2>1 DEF CancelSession, StopAfterError, JoinAfterError, Leave, ExitWith
  <2>2. CASE ReceivePrepared
    <3>1. finished /\ ~AnyError /\ tui = "confirmed" /\ tui' = tui
      BY <2>2 DEF ReceivePrepared, ExitWith, SessionInv, Reviewing
    <3>2. WellDone /\ \A m \in Managers : Shown(m) /\ returned[m] = "ready"
      BY <3>1, AllIsShown
    <3>3. DraftsFit
      BY <3>2 DEF DraftsFit, Shown
    <3>4. prepared = "ok"
      BY <2>2, <3>2 DEF ReceivePrepared, PlannerGone, WellDone, SessionInv, SessionTypes, Course
    <3> QED
      BY <2>2, <3>1, <3>3, <3>4 DEF ReceivePrepared, ExitWith
  <2> QED
    BY <2>1, <2>2
<1> QED
  BY <1>1, <1>2, <1>3, PlaceKeeps DEF SessionInv, SessionTypes, Reviewing

-----------------------------------------------------------------------------
(* The theorems *)

\* Nothing has been told at the start.
LEMMA SessionStarts == SessionInit => PoolInv /\ SessionInv
<1> SUFFICES ASSUME SessionInit PROVE PoolInv /\ SessionInv
  OBVIOUS
<1>1. PoolInv
  BY InitInv, InitReturn DEF SessionInit, PoolInv
<1>2. SessionTypes
  <2>1. <<>> \in Seq(EventRecords)
    OBVIOUS
  <2> QED
    BY <2>1 DEF SessionInit, SessionTypes, Statuses
<1>3. Speaking /\ Course /\ EndIsLast /\ Reviewing /\ ConfirmationIsKept
  BY DEF SessionInit, Init, Speaking, Course, EndIsLast, Reviewing, ConfirmationIsKept
<1>4. \A m \in Managers, word \in {"ready", "failed"} : ~Answered(m, word)
  BY DEF SessionInit, Init, Answered
<1> QED
  BY <1>1, <1>2, <1>3, <1>4 DEF SessionInv, Truth

\* Every step of the session keeps the invariant.
LEMMA SessionKeeps ==
  ASSUME PoolInv, SessionInv, [SessionNext]_sessionVars PROVE PoolInv' /\ SessionInv'
<1>1. PoolInv'
  BY PoolKeeps
<1>2. ASSUME UNCHANGED sessionVars PROVE SessionInv'
  <2>1. /\ UNCHANGED <<events, plannerVars, status, rows, chosen, finished, failure, dialog, tui, exit>>
        /\ UNCHANGED <<channel, held, pc, value, outcome, returned>>
    BY <1>2 DEF sessionVars, poolVars, vars, screenVars
  <2> QED
    BY <2>1, PlaceKeeps DEF SessionInv, SessionTypes, Reviewing, ConfirmationIsKept
<1>3. ASSUME SessionRunning PROVE SessionInv'
  <2>1. exit = "none"
    BY <1>3 DEF SessionRunning
  <2>2. ASSUME \E w \in Workers : WorkerTells(w) PROVE SessionInv'
    BY <2>2, TellStartedKeeps, TellReadyKeeps, TellErrorKeeps, JobEndsKeeps DEF WorkerTells
  <2> QED
    BY <1>3, <2>1, <2>2, PoolStepKeeps, PlannerKeeps, DrainOneKeeps, DrainsKeep, KeysKeep, LeavingKeeps
       DEF SessionRunning
<1> QED
  BY <1>1, <1>2, <1>3 DEF SessionNext, Exited

\* The inductive invariant holds along every behaviour.
THEOREM SessionInductive == SessionSpec => [](PoolInv /\ SessionInv)
<1>1. (PoolInv /\ SessionInv) /\ [SessionNext]_sessionVars => (PoolInv /\ SessionInv)'
  BY SessionKeeps
<1> QED
  BY <1>1, SessionStarts, PTL DEF SessionSpec

\* What the user confirms is what was planned, for any number of managers and
\* planning threads.
THEOREM PlannedIsConfirmed == SessionSpec => []ConfirmedIsPlanned
<1>1. PoolInv /\ SessionInv => ConfirmedIsPlanned
  BY AllIsShown DEF SessionInv, Reviewing, ConfirmedIsPlanned, Shown
<1> QED
  BY <1>1, SessionInductive, PTL

\* Nothing is refused after the confirmation.
THEOREM NothingRefusedLate == SessionSpec => []ConfirmationIsKept
<1>1. SessionInv => ConfirmationIsKept
  BY DEF SessionInv
<1> QED
  BY <1>1, SessionInductive, PTL
=============================================================================
