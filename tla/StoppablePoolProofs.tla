-------------------------- MODULE StoppablePoolProofs --------------------------
(***************************************************************************)
(* Proofs about StoppablePool for any number of jobs and threads: no job   *)
(* is lost or run twice, the completed jobs are a prefix of the input, and *)
(* a raised flag lets each worker start at most one more job; the sort     *)
(* puts every result in the place of its job.                              *)
(***************************************************************************)
EXTENDS StoppablePool, FiniteSetTheorems, TLAPS

\* The types of what the invariants speak about.
Types ==
  /\ next \in 1..(JobCount + 1)
  /\ stop \in BOOLEAN
  /\ cancelled \in BOOLEAN
  /\ pc \in [Workers -> Labels]
  /\ held \in [Workers -> 0..JobCount]
  /\ value \in [Workers -> Results \cup {"none"}]
  /\ channel \in Seq([index : Jobs, result : Results])
  /\ late \in [Workers -> Nat]

\* A worker has a job from its pop to its send, and the result of it from the
\* end of the job.
HeldOK ==
  \A w \in Workers :
    /\ held[w] # 0 <=> pc[w] \in {"run", "stop", "send", "panicked"}
    /\ pc[w] = "stop" => value[w] \in StopResults
    /\ pc[w] \in {"stop", "send"} => value[w] \in Results
    /\ pc[w] = "send" /\ value[w] \in StopResults => stop

\* The flag only stops pops that have not been decided on.
LateOK ==
  /\ ~stop => \A w \in Workers : late[w] = 0
  /\ \A w \in Workers : late[w] <= 1 /\ (pc[w] \in {"check", "pop"} /\ late[w] = 1 => pc[w] = "check")

\* A worker ends only when the flag is up or the queue is empty, and the flag
\* goes up only for a reason.
StopOK ==
  /\ \A w \in Workers : pc[w] = "done" => stop \/ next = JobCount + 1
  /\ stop => \/ cancelled
             \/ \E k \in 1..Len(channel) : channel[k].result \in StopResults
             \/ \E w \in Workers : pc[w] = "send" /\ value[w] \in StopResults
  /\ outcome = "ok" => Ended /\ Panicked = {}

IndInv == Types /\ HeldOK /\ EachJobOnce /\ LateOK /\ StopOK

\* When the pool returns "ok", the jobs of the results in the channel are the
\* first next - 1 ones, all of them unless the flag went up, and the result that
\* raised it is in the channel.
CompletePrefix ==
  outcome = "ok" =>
    /\ \A j \in Jobs : j < next <=> Sent(j)
    /\ next <= JobCount => stop
    /\ stop => cancelled \/ \E k \in 1..Len(channel) : channel[k].result \in StopResults

-----------------------------------------------------------------------------

\* There is a worker, and the workers are numbered.
LEMMA WorkersExist == 1 \in Workers /\ Workers \subseteq Nat
  BY ConstantsAssumption DEF Workers, WorkerCount, AtLeastOne

\* The initial state satisfies the invariant.
LEMMA InitInv == Init => IndInv
<1> SUFFICES ASSUME Init PROVE IndInv
  OBVIOUS
<1> USE ConstantsAssumption DEF Init
<1>1. Types
  <2>1. 1 \in 1..(JobCount + 1) /\ 0 \in 0..JobCount
    OBVIOUS
  <2>2. <<>> \in Seq([index : Jobs, result : Results])
    OBVIOUS
  <2> QED
    BY <2>1, <2>2 DEF Types, Labels
<1>2. HeldOK /\ LateOK /\ StopOK
  BY DEF HeldOK, LateOK, StopOK
<1>3. EachJobOnce
  BY DEF EachJobOnce, Jobs, Sent, Holds
<1> QED
  BY <1>1, <1>2, <1>3 DEF IndInv

\* Popping gives the worker the job that was at the front.
LEMMA PopInv ==
  ASSUME IndInv, NEW w \in Workers, Pop(w) PROVE IndInv'
<1> USE ConstantsAssumption DEF IndInv, Pop, TakeFront, GoTo, QueueNotEmpty
<1>1. /\ held' = [held EXCEPT ![w] = next]
      /\ next' = next + 1 /\ next \in Jobs
      /\ held[w] = 0
      /\ UNCHANGED <<channel, value, stop, cancelled, outcome>>
  <2>1. next \in Jobs
    BY DEF Types, Jobs
  <2>2. held[w] = 0
    BY DEF Types, HeldOK
  <2> QED
    BY <2>1, <2>2
<1>2. Types'
  BY <1>1 DEF Types, Labels, Jobs
<1>3. HeldOK'
  BY <1>1 DEF Types, HeldOK, Jobs, Labels
<1>4. EachJobOnce'
  <2>1. \A j \in Jobs : Sent(j)' = Sent(j)
    BY <1>1 DEF Sent
  <2>2. ~Sent(next) /\ \A v \in Workers : held[v] # next
    BY <1>1 DEF EachJobOnce, Types, Jobs, Holds
  <2>3. \A v \in Workers : held'[v] = (IF v = w THEN next ELSE held[v])
    BY <1>1 DEF Types
  <2>4. \A j \in Jobs : j < next' <=> Sent(j)' \/ \E v \in Workers : Holds(v, j)'
    <3> SUFFICES ASSUME NEW j \in Jobs
                 PROVE  j < next' <=> Sent(j)' \/ \E v \in Workers : Holds(v, j)'
      OBVIOUS
    <3>1. CASE j = next
      BY <1>1, <2>3, <3>1 DEF Holds, Jobs
    <3>2. CASE j # next
      <4>1. (\E v \in Workers : Holds(v, j)') <=> \E v \in Workers : Holds(v, j)
        BY <1>1, <2>3, <3>2 DEF Holds, Jobs
      <4>2. j < next' <=> j < next
        BY <1>1, <3>2 DEF Jobs, Types
      <4> QED
        BY <2>1, <4>1, <4>2 DEF EachJobOnce
    <3> QED
      BY <3>1, <3>2
  <2> QED
    BY <1>1, <2>1, <2>2, <2>3, <2>4 DEF EachJobOnce, Sent, Types
<1>5. LateOK'
  BY DEF Types, LateOK, Labels
<1>6. StopOK'
  <2>1. outcome # "ok"
    BY DEF StopOK, Ended
  <2>2. \A v \in Workers : pc'[v] # "done" \/ v # w
    BY DEF Types
  <2> QED
    BY <1>1, <2>1, <2>2 DEF Types, StopOK, Jobs
<1> QED
  BY <1>2, <1>3, <1>4, <1>5, <1>6

\* An entry of the channel names a job.
LEMMA ChannelElements ==
  ASSUME Types PROVE \A k \in 1..Len(channel) : channel[k].index \in Jobs
<1> SUFFICES ASSUME NEW k \in 1..Len(channel) PROVE channel[k].index \in Jobs
  OBVIOUS
<1> DEFINE Entry == [index : Jobs, result : Results]
<1>1. channel \in Seq(Entry)
  BY DEF Types
<1> HIDE DEF Entry
<1>2. channel[k] \in Entry
  BY <1>1
<1> QED
  BY <1>2 DEF Entry

\* Sending moves the job from the worker to the channel.
LEMMA SendInv ==
  ASSUME IndInv, NEW w \in Workers, Send(w) PROVE IndInv'
<1> USE ConstantsAssumption DEF IndInv, Send, GoTo
<1> DEFINE entry == [index |-> held[w], result |-> value[w]]
<1>1. /\ held[w] \in Jobs /\ value[w] \in Results
      /\ entry \in [index : Jobs, result : Results]
      /\ channel' = Append(channel, entry)
      /\ pc[w] = "send"
      /\ UNCHANGED <<next, stop, outcome, late, cancelled>>
  <2>1. held[w] \in Jobs
    BY DEF Types, HeldOK, Jobs
  <2>2. value[w] \in Results
    BY DEF HeldOK
  <2> QED
    BY <2>1, <2>2
<1>2. /\ channel' \in Seq([index : Jobs, result : Results])
      /\ Len(channel') = Len(channel) + 1
      /\ Len(channel) \in Nat
      /\ channel'[Len(channel) + 1] = entry
      /\ \A k \in 1..Len(channel) : channel'[k] = channel[k]
  BY <1>1 DEF Types
<1> HIDE DEF entry
<1>3. Types'
  BY <1>1, <1>2 DEF Types, Labels
<1>4. HeldOK'
  BY <1>1 DEF Types, HeldOK
<1>5. \A v \in Workers : held'[v] = (IF v = w THEN 0 ELSE held[v])
  BY DEF Types
<1>6. EachJobOnce'
  <2>1. \A j : Sent(j)' <=> Sent(j) \/ j = held[w]
    BY <1>1, <1>2 DEF Sent, entry
  <2>2. ASSUME NEW j \in Jobs
        PROVE  j < next <=> Sent(j)' \/ \E v \in Workers : Holds(v, j)'
    <3>1. (\E v \in Workers : Holds(v, j)) <=> j = held[w] \/ \E v \in Workers : Holds(v, j)'
      BY <1>1, <1>5 DEF Holds, Jobs
    <3> QED
      BY <1>1, <2>1, <3>1 DEF EachJobOnce
  <2>3. \A v, x \in Workers : v # x /\ held'[v] # 0 => held'[v] # held'[x]
    BY <1>5 DEF EachJobOnce, Types
  <2>4. \A v \in Workers : ~Sent(held[v])'
    <3>1. \A v \in Workers \ {w} : held[v] # held[w] /\ ~Sent(held[v])
      BY <1>1 DEF EachJobOnce, Jobs
    <3>2. ~Sent(0)'
      <4>1. \A k \in 1..Len(channel) : channel[k].index \in Jobs
        BY ChannelElements
      <4>2. entry.index \in Jobs
        BY <1>1
      <4>3. \A k \in 1..Len(channel') : channel'[k].index # 0
        BY <1>2, <4>1, <4>2 DEF Jobs
      <4> QED
        BY <4>3 DEF Sent
    <3>4. \A v \in Workers : \A h : h = held'[v] => ~Sent(h)'
      BY <1>5, <2>1, <3>1, <3>2
    <3> QED
      BY <3>4 DEF Sent
  <2>5. \A k, l \in 1..Len(channel') : k # l => channel'[k].index # channel'[l].index
    <3>1. ~Sent(held[w])
      BY DEF EachJobOnce
    <3>2. \A k \in 1..Len(channel) : channel[k].index # held[w]
      BY <3>1 DEF Sent
    <3>3. entry.index = held[w]
      BY DEF entry
    <3> QED
      BY <1>2, <3>2, <3>3 DEF EachJobOnce
  <2> QED
    BY <2>2, <2>3, <2>4, <2>5 DEF EachJobOnce
<1>7. LateOK'
  BY <1>1 DEF Types, LateOK, HeldOK
<1>8. StopOK'
  <2>1. outcome # "ok"
    BY <1>1 DEF StopOK, Ended
  <2>2. \A v \in Workers : pc'[v] = "done" => stop' \/ next' = JobCount + 1
    BY <1>1 DEF StopOK, Types
  <2>3. ASSUME stop, ~cancelled,
               ~\E k \in 1..Len(channel') : channel'[k].result \in StopResults
        PROVE  \E v \in Workers : pc'[v] = "send" /\ value'[v] \in StopResults
    <3>1. \A k \in 1..Len(channel) : channel[k].result \notin StopResults
      BY <1>2, <2>3
    <3>2. value[w] \notin StopResults
      BY <1>2, <2>3 DEF entry
    <3>3. PICK v \in Workers : pc[v] = "send" /\ value[v] \in StopResults
      BY <2>3, <3>1 DEF StopOK
    <3> QED
      BY <3>2, <3>3 DEF Types
  <2> QED
    BY <1>1, <2>1, <2>2, <2>3 DEF StopOK
<1> QED
  BY <1>3, <1>4, <1>6, <1>7, <1>8

\* The other steps of a worker leave the queue, the jobs held and the channel
\* as they are.
LEMMA EachJobOnceFrame ==
  ASSUME EachJobOnce, UNCHANGED <<next, held, channel>> PROVE EachJobOnce'
  BY DEF EachJobOnce, Sent, Holds

\* Every other step of a worker preserves the invariant.
LEMMA WorkerInv ==
  ASSUME IndInv, NEW w \in Workers, WorkerStep(w) PROVE IndInv'
<1> USE ConstantsAssumption DEF IndInv
<1>0. outcome # "ok" /\ pc[w] # "done"
  BY DEF WorkerStep, CheckFlag, Pop, PopNothing, JobReturns, JobPanics, RaiseFlag, Send,
         StopOK, Ended
<1>1. CASE CheckFlag(w)
  <2>1. /\ pc' = [pc EXCEPT ![w] = IF stop THEN "done" ELSE "pop"] /\ pc[w] = "check"
        /\ UNCHANGED <<next, stop, held, value, channel, outcome, late, cancelled>>
    BY <1>1 DEF CheckFlag, AfterCheck, GoTo
  <2>2. Types'
    BY <2>1 DEF Types, Labels
  <2>3. HeldOK'
    BY <2>1 DEF Types, HeldOK
  <2>4. LateOK'
    BY <2>1 DEF Types, LateOK
  <2>5. StopOK'
    BY <1>0, <2>1 DEF Types, StopOK
  <2> QED
    BY <2>1, <2>2, <2>3, <2>4, <2>5, EachJobOnceFrame
<1>2. CASE PopNothing(w)
  BY <1>0, <1>2, EachJobOnceFrame
     DEF PopNothing, QueueNotEmpty, GoTo, Types, HeldOK, LateOK, StopOK, Labels
<1>3. CASE JobReturns(w)
  BY <1>0, <1>3, EachJobOnceFrame
     DEF JobReturns, AfterRun, GoTo, Types, HeldOK, LateOK, StopOK, Labels
<1>4. CASE JobPanics(w)
  BY <1>0, <1>4, EachJobOnceFrame
     DEF JobPanics, GoTo, Types, HeldOK, LateOK, StopOK, Labels
<1>5. CASE RaiseFlag(w)
  BY <1>0, <1>5, EachJobOnceFrame
     DEF RaiseFlag, GoTo, Types, HeldOK, LateOK, StopOK, Labels
<1> QED
  BY <1>1, <1>2, <1>3, <1>4, <1>5, PopInv, SendInv DEF WorkerStep

\* The caller's two steps preserve it as well.
LEMMA CallerInv ==
  ASSUME IndInv, Cancel \/ Return PROVE IndInv'
<1> USE DEF IndInv
<1>1. CASE Cancel
  BY <1>1, EachJobOnceFrame DEF Cancel, Types, HeldOK, LateOK, StopOK
<1>2. CASE Return
  BY <1>2, EachJobOnceFrame DEF Return, Types, HeldOK, LateOK, StopOK, Ended, Panicked
<1> QED
  BY <1>1, <1>2

\* So does every step of the pool, and waiting.
LEMMA StepInv ==
  ASSUME IndInv, [Next]_vars PROVE IndInv'
<1>1. CASE UNCHANGED vars
  BY <1>1 DEF vars, IndInv, Types, HeldOK, EachJobOnce, LateOK, StopOK, Sent, Holds, Ended,
              Panicked
<1> QED
  BY <1>1, WorkerInv, CallerInv DEF Next, Running, Returned

\* The inductive invariant holds along every behaviour.
THEOREM Inductive == Spec => []IndInv
<1>1. IndInv /\ [Next]_vars => IndInv'
  BY StepInv
<1> QED
  BY <1>1, InitInv, PTL DEF Spec

\* No job is lost or run twice.
THEOREM NothingLost == Spec => []EachJobOnce
  BY Inductive, PTL DEF IndInv

\* After the flag goes up a worker starts at most one more job.
THEOREM StopIsPrompt == Spec => []OneLateJobEach
<1>1. IndInv => OneLateJobEach
  BY DEF IndInv, LateOK, OneLateJobEach
<1> QED
  BY <1>1, Inductive, PTL

\* The inductive invariant says why some jobs were not started.
LEMMA CompleteByInv == IndInv => CompletePrefix
<1> SUFFICES ASSUME IndInv, outcome = "ok"
             PROVE  /\ \A j \in Jobs : j < next <=> Sent(j)
                    /\ next <= JobCount => stop
                    /\ stop => \/ cancelled
                               \/ \E k \in 1..Len(channel) : channel[k].result \in StopResults
  BY DEF CompletePrefix
<1>1. \A w \in Workers : pc[w] = "done" /\ held[w] = 0
  BY DEF IndInv, Types, HeldOK, StopOK, Ended, Panicked
<1>2. \A j \in Jobs : j < next <=> Sent(j)
  BY <1>1 DEF IndInv, EachJobOnce, Holds, Jobs
<1>3. next <= JobCount => stop
  BY <1>1, WorkersExist, ConstantsAssumption DEF IndInv, StopOK, Types
<1> QED
  BY <1>1, <1>2, <1>3 DEF IndInv, StopOK

\* What the caller gets is complete up to the first job that was not started,
\* and says why the others were not.
THEOREM CompleteUpToStop == Spec => []CompletePrefix
  BY CompleteByInv, Inductive, PTL

-----------------------------------------------------------------------------
(* The results handed to the caller.                                         *)

\* The call returns only when its workers have ended, and what it returns was
\* sorted out of the channel.
ReturnOK ==
  /\ outcome \in {"running", "ok", "error", "panic"}
  /\ outcome # "running" => Ended
  /\ outcome = "ok" => Panicked = {} /\ returned = Collect
  /\ outcome # "ok" => returned = <<>>

AllSent == Ended /\ Panicked = {}

\* When nobody works any more, the channel holds one result of each job popped.
LEMMA JobsInChannel ==
  ASSUME IndInv, AllSent
  PROVE  /\ Len(channel) \in Nat
         /\ \A k \in 1..Len(channel) : channel[k].index \in 1..(next - 1)
         /\ \A j \in 1..(next - 1) : \E k \in 1..Len(channel) : channel[k].index = j
         /\ \A k, l \in 1..Len(channel) : k # l => channel[k].index # channel[l].index
<1>1. \A w \in Workers : held[w] = 0
  BY DEF IndInv, Types, HeldOK, AllSent, Ended, Panicked
<1>2. \A j \in Jobs : j < next <=> Sent(j)
  BY <1>1 DEF IndInv, EachJobOnce, Holds, Jobs
<1>3. next \in Nat /\ 1..(next - 1) \subseteq Jobs /\ Len(channel) \in Nat
  BY ConstantsAssumption DEF IndInv, Types, Jobs
<1>4. \A k \in 1..Len(channel) : channel[k].index \in Jobs
  BY ChannelElements DEF IndInv
<1>5. \A k \in 1..Len(channel) : channel[k].index \in 1..(next - 1)
  BY <1>2, <1>3, <1>4 DEF Sent, Jobs
<1> QED
  BY <1>2, <1>3, <1>5 DEF IndInv, EachJobOnce, Sent, Jobs

\* So there are as many results as jobs popped, and a result's place in the
\* order is the index of its job.
LEMMA PlaceIsIndex ==
  ASSUME IndInv, AllSent
  PROVE  /\ Len(channel) = next - 1
         /\ \A k \in 1..Len(channel) : Place(channel, k) = channel[k].index
<1> DEFINE N == next - 1
           D == 1..Len(channel)
           job == [k \in D |-> channel[k].index]
<1>1. Len(channel) \in Nat /\ N \in Int /\ IsFiniteSet(D) /\ N \in Nat
  BY JobsInChannel, FS_Interval DEF IndInv, Types
<1>2. job \in [D -> 1..N] /\ \A k, l \in D : k # l => job[k] # job[l]
  BY JobsInChannel
<1>3. \A j \in 1..N : \E k \in D : job[k] = j
  BY JobsInChannel
<1> HIDE DEF job, D, N
<1>4. job \in Bijection(D, 1..N)
  BY <1>2, <1>3 DEF Bijection, Injection, Surjection, IsInjective
<1>5. Cardinality(1..N) = Cardinality(D)
  BY <1>1, <1>4, FS_Bijection DEF ExistsBijection
<1>6. Len(channel) = N
  <2>1. Cardinality(1..N) = N
    BY <1>1, FS_Interval
  <2>2. Cardinality(D) = Len(channel)
    BY <1>1, FS_Interval DEF D
  <2> QED
    BY <1>5, <2>1, <2>2
<1>7. ASSUME NEW k \in D PROVE Place(channel, k) = channel[k].index
  <2> DEFINE L == {l \in D : job[l] <= job[k]}
             upTo == [l \in L |-> job[l]]
  <2>1. job[k] \in 1..N /\ job[k] = channel[k].index
    BY <1>2, <1>7 DEF job
  <2>2. L = {l \in 1..Len(channel) :
               \/ channel[l].index < channel[k].index
               \/ channel[l].index = channel[k].index /\ l <= k}
    <3>1. \A l \in D : job[l] = channel[l].index /\ job[l] \in Int /\ (job[l] = job[k] => l = k)
      BY <1>2, <1>7 DEF job
    <3>2. \A l \in D : job[l] <= job[k] <=>
            (channel[l].index < channel[k].index \/ (channel[l].index = channel[k].index /\ l <= k))
      <4> SUFFICES ASSUME NEW l \in D
                   PROVE job[l] <= job[k] <=>
            (channel[l].index < channel[k].index \/ (channel[l].index = channel[k].index /\ l <= k))
        OBVIOUS
      <4>1. l \in Int /\ k \in Int
        BY <1>7 DEF D
      <4>2. job[l] \in Int /\ job[k] \in Int
        BY <2>1, <3>1
      <4> QED
        BY <2>1, <3>1, <4>1, <4>2
    <3> QED
      BY <3>2 DEF D
  <2>3. Place(channel, k) = Cardinality(L)
    BY <2>2 DEF Place
  <2>4. IsFiniteSet(L)
    BY <1>1, FS_Subset
  <2>5. upTo \in Bijection(L, 1..job[k])
    <3>1. upTo \in [L -> 1..job[k]] /\ \A x, y \in L : x # y => upTo[x] # upTo[y]
      BY <1>2, <2>1
    <3>2. \A j \in 1..job[k] : \E l \in L : upTo[l] = j
      <4> SUFFICES ASSUME NEW j \in 1..job[k] PROVE \E l \in L : upTo[l] = j
        OBVIOUS
      <4>1. j \in 1..N
        BY <1>1, <2>1
      <4>2. PICK l \in D : job[l] = j
        BY <1>3, <4>1
      <4>3. l \in L
        BY <2>1, <4>2
      <4> QED
        BY <4>2, <4>3
    <3> HIDE DEF upTo, L
    <3> QED
      BY <3>1, <3>2 DEF Bijection, Injection, Surjection, IsInjective
  <2>6. Cardinality(1..job[k]) = Cardinality(L)
    <3> HIDE DEF upTo, L
    <3> QED
      BY <2>4, <2>5, FS_Bijection DEF ExistsBijection
  <2>7. Cardinality(1..job[k]) = job[k]
    BY <2>1, FS_Interval
  <2> HIDE DEF L, upTo
  <2> QED
    BY <2>1, <2>3, <2>6, <2>7
<1> QED
  BY <1>6, <1>7 DEF D, N

\* The sort puts the result of job j in place j.
LEMMA SortedByJob ==
  ASSUME IndInv, AllSent
  PROVE  /\ Len(Collect) = next - 1
         /\ Collect \in Seq(Results)
         /\ \A k \in 1..Len(channel) : Collect[channel[k].index] = channel[k].result
<1> DEFINE n == Len(channel)
           at(p) == CHOOSE k \in 1..n : Place(channel, k) = p
<1>1. /\ n \in Nat /\ n = next - 1
      /\ \A k \in 1..n : channel[k].index \in 1..n
      /\ \A j \in 1..n : \E k \in 1..n : channel[k].index = j
      /\ \A k, l \in 1..n : k # l => channel[k].index # channel[l].index
      /\ \A k \in 1..n : Place(channel, k) = channel[k].index
  BY JobsInChannel, PlaceIsIndex
<1>2. channel \in Seq([index : Jobs, result : Results])
  BY DEF IndInv, Types
<1> HIDE DEF n
<1>3. ASSUME NEW p \in 1..n PROVE at(p) \in 1..n /\ channel[at(p)].index = p
  <2>1. \E k \in 1..n : Place(channel, k) = p
    BY <1>1
  <2>2. at(p) \in 1..n /\ Place(channel, at(p)) = p
    BY <2>1
  <2> QED
    BY <1>1, <2>2
<1>4. InInputOrder(channel) = [p \in 1..n |-> channel[at(p)]]
  BY DEF InInputOrder, n
<1> HIDE DEF at
<1> DEFINE sorted == InInputOrder(channel)
<1>5. Len(sorted) = n
  BY <1>1, <1>4
<1>6. Collect = [p \in 1..n |-> channel[at(p)].result]
  <2>1. Collect = [k \in 1..Len(sorted) |-> sorted[k].result]
    BY DEF Collect
  <2> QED
    BY <1>4, <1>5, <2>1
<1>7. \A k \in 1..n : channel[k].result \in Results
  <2> DEFINE Entry == [index : Jobs, result : Results]
  <2>1. \A k \in 1..n : channel[k] \in Entry
    <3> HIDE DEF Entry
    <3>1. channel \in Seq(Entry)
      BY <1>2 DEF Entry
    <3> QED
      BY <3>1 DEF n
  <2> QED
    BY <2>1
<1>8. \A p \in 1..n : channel[at(p)].result \in Results
  BY <1>3, <1>7
<1>9. Len(Collect) = next - 1 /\ Collect \in Seq(Results)
  <2>1. Collect \in [1..n -> Results] /\ DOMAIN Collect = 1..n
    BY <1>6, <1>8
  <2> HIDE DEF Collect
  <2>2. Collect \in Seq(Results)
    BY <1>1, <2>1
  <2>3. Len(Collect) = n
    BY <1>1, <2>1, <2>2
  <2> QED
    BY <1>1, <2>2, <2>3
<1>10. \A k \in 1..n : Collect[channel[k].index] = channel[k].result
  <2> SUFFICES ASSUME NEW k \in 1..n PROVE Collect[channel[k].index] = channel[k].result
    OBVIOUS
  <2>1. channel[k].index \in 1..n
    BY <1>1
  <2>2. at(channel[k].index) = k
    BY <1>1, <1>3, <2>1
  <2> QED
    BY <1>6, <2>1, <2>2
<1> QED
  BY <1>9, <1>10 DEF n

\* Once everybody has ended nothing moves, and only then does the call return.
LEMMA ReturnInv ==
  ASSUME IndInv, ReturnOK, [Next]_vars PROVE ReturnOK'
<1>1. CASE \E w \in Workers : WorkerStep(w)
  <2>1. PICK w \in Workers : WorkerStep(w)
    BY <1>1
  <2>2. pc[w] \notin {"done", "panicked"}
    BY <2>1 DEF WorkerStep, CheckFlag, Pop, PopNothing, JobReturns, JobPanics, RaiseFlag, Send
  <2>3. outcome = "running"
    BY <2>2 DEF ReturnOK, Ended
  <2>4. UNCHANGED <<outcome, returned>>
    BY <2>1 DEF WorkerStep, CheckFlag, Pop, PopNothing, JobReturns, JobPanics, RaiseFlag, Send
  <2> QED
    BY <2>3, <2>4 DEF ReturnOK
<1>2. CASE Cancel
  BY <1>2 DEF Cancel, ReturnOK
<1>3. CASE Return
  <2>1. Collect' = Collect
    BY <1>3 DEF Return, Collect
  <2> QED
    BY <1>3, <2>1 DEF Return, ReturnOK, Ended, Panicked
<1>4. CASE UNCHANGED vars
  BY <1>4 DEF vars, ReturnOK, Ended, Panicked, Collect
<1> QED
  BY <1>1, <1>2, <1>3, <1>4 DEF Next, Running, Returned

\* The call has returned nothing at the start.
LEMMA InitReturn == Init => ReturnOK
BY WorkersExist DEF Init, ReturnOK, Ended

\* What the call has returned is always a sorted channel.
THEOREM ReturnsSorted == Spec => []ReturnOK
  BY InitReturn, ReturnInv, Inductive, PTL DEF Spec

\* Every variable stays in its range.
THEOREM TypeCorrect == Spec => []TypeOK
<1>1. IndInv /\ ReturnOK => TypeOK
  <2> SUFFICES ASSUME IndInv, ReturnOK PROVE TypeOK
    OBVIOUS
  <2>1. returned \in Seq(Results)
    <3>1. CASE outcome = "ok"
      BY <3>1, SortedByJob DEF ReturnOK, AllSent
    <3>2. CASE outcome # "ok"
      BY <3>2 DEF ReturnOK
    <3> QED
      BY <3>1, <3>2
  <2> QED
    BY <2>1 DEF IndInv, Types, ReturnOK, TypeOK
<1> QED
  BY <1>1, Inductive, ReturnsSorted, PTL

\* The sorted channel is the first jobs' results, in input order.
LEMMA PrefixByInv == IndInv /\ ReturnOK => PrefixReturned
<1> SUFFICES ASSUME IndInv, ReturnOK, outcome = "ok"
             PROVE  /\ Len(returned) = next - 1
                    /\ \A k \in 1..Len(channel) : returned[channel[k].index] = channel[k].result
                    /\ next <= JobCount => stop
                    /\ stop => \/ cancelled
                               \/ \E j \in 1..Len(returned) : returned[j] \in StopResults
  BY DEF PrefixReturned
<1>1. AllSent /\ returned = Collect /\ CompletePrefix
  BY CompleteByInv DEF ReturnOK, AllSent
<1>2. /\ Len(returned) = next - 1
      /\ \A k \in 1..Len(channel) : returned[channel[k].index] = channel[k].result
  BY <1>1, SortedByJob
<1>3. ASSUME stop, ~cancelled PROVE \E j \in 1..Len(returned) : returned[j] \in StopResults
  <2>1. PICK k \in 1..Len(channel) : channel[k].result \in StopResults
    BY <1>1, <1>3 DEF CompletePrefix
  <2>2. channel[k].index \in 1..Len(returned)
    BY <1>1, <1>2, JobsInChannel
  <2> QED
    BY <1>2, <2>1, <2>2
<1> QED
  BY <1>1, <1>2, <1>3 DEF CompletePrefix

\* What the caller gets are the results of the first jobs in input order.
THEOREM PrefixIsReturned == Spec => []PrefixReturned
  BY PrefixByInv, Inductive, ReturnsSorted, PTL
=============================================================================
