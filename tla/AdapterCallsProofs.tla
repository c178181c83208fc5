-------------------------- MODULE AdapterCallsProofs --------------------------
(***************************************************************************)
(* What the calls of an adapter promise, for every set of tools, versions  *)
(* and managers, every size of the pipes and whatever commands and         *)
(* requests come back with.  Each call has its invariant; the variables of *)
(* the other three calls rest.                                             *)
(***************************************************************************)
EXTENDS AdapterCalls, FiniteSetTheorems, SequenceTheorems, WellFoundedInduction, TLAPS

-----------------------------------------------------------------------------
(* run: the command and the readers of its output *)

Bytes == [Runner!Streams -> Nat]

\* What the readers count, and where each of them can be.
RunTypes ==
  /\ wrote \in Bytes /\ pipe \in Bytes /\ got \in Bytes
  /\ reader \in [Runner!Streams -> {"none", "reads", "ended", "failed"}]

\* No byte is made up or lost between the writers and the readers.
NoByteLost == \A s \in Runner!Streams : wrote[s] = got[s] + pipe[s]

\* A reader ends when nobody can write any more and nothing is left to read.
EndedIsEmpty == \A s \in Runner!Streams : reader[s] = "ended" => pipe[s] = 0 /\ ~Runner!Open

\* There is no child before it is spawned, and what it leaves behind comes after it.
ChildFirst ==
  /\ pc \in {"start", "spawn"} => child = "none"
  /\ pc \in {"wait", "join stdout", "join stderr"} => child # "none"
  /\ child = "none" => helper = "none" /\ \A s \in Runner!Streams : reader[s] = "none"
  /\ helper = "runs" => child = "exited"

\* The caller goes past a reader only when that one has ended.
JoinedInOrder ==
  /\ pc = "join stderr" => reader["stdout"] = "ended"
  /\ pc = "check" /\ child # "none" => \A s \in Runner!Streams : reader[s] = "ended"
  /\ outcome # "none" => pc = "done"
  /\ outcome \in {"output", "refused"} /\ child # "none" =>
       \A s \in Runner!Streams : reader[s] = "ended"

RunInv == RunTypes /\ NoByteLost /\ EndedIsEmpty /\ ChildFirst /\ JoinedInOrder

\* Nothing has been spawned at the start.
LEMMA RunStarts == Runner!Init => RunInv
<1> SUFFICES ASSUME Runner!Init PROVE RunInv
  OBVIOUS
<1>1. RunTypes /\ NoByteLost
  BY DEF Runner!Init, RunTypes, NoByteLost, Bytes, Runner!Zero
<1>2. EndedIsEmpty /\ ChildFirst /\ JoinedInOrder
  BY DEF Runner!Init, EndedIsEmpty, ChildFirst, JoinedInOrder
<1> QED
  BY <1>1, <1>2 DEF RunInv

\* Every step of the caller, the readers and the processes keeps it.
LEMMA RunKeeps ==
  ASSUME RunInv, Runner!Next PROVE RunInv'
<1> USE DEF RunInv
<1>0. "stdout" \in Runner!Streams /\ "stderr" \in Runner!Streams
      /\ \A s \in Runner!Streams : s = "stdout" \/ s = "stderr"
  BY DEF Runner!Streams
<1>1. CASE Runner!Start
  BY <1>1 DEF Runner!Start, Runner!processes, RunTypes, NoByteLost, EndedIsEmpty, ChildFirst,
              JoinedInOrder, Runner!Open
<1>2. CASE Runner!SpawnFails
  BY <1>2 DEF Runner!SpawnFails, Runner!processes, RunTypes, NoByteLost, EndedIsEmpty, ChildFirst,
              JoinedInOrder, Runner!Open
<1>3. CASE Runner!Spawn
  BY <1>3 DEF Runner!Spawn, RunTypes, NoByteLost, EndedIsEmpty, ChildFirst, JoinedInOrder
<1>4. CASE Runner!Wait
  BY <1>4 DEF Runner!Wait, Runner!processes, RunTypes, NoByteLost, EndedIsEmpty, ChildFirst,
              JoinedInOrder, Runner!Open
<1>5. CASE Runner!Join("stdout", "join stderr")
  BY <1>5 DEF Runner!Join, Runner!Joining, Runner!processes, RunTypes, NoByteLost, EndedIsEmpty,
              ChildFirst, JoinedInOrder, Runner!Open
<1>6. CASE Runner!Join("stderr", "check")
  BY <1>0, <1>6 DEF Runner!Join, Runner!Joining, Runner!processes, RunTypes, NoByteLost, EndedIsEmpty,
                    ChildFirst, JoinedInOrder, Runner!Open
<1>7. CASE Runner!Check
  BY <1>7 DEF Runner!Check, Runner!processes, RunTypes, NoByteLost, EndedIsEmpty, ChildFirst,
              JoinedInOrder, Runner!Open
<1>8. ASSUME NEW s \in Runner!Streams, Runner!ReadByte(s)
      PROVE  RunInv'
  <2>1. /\ reader[s] = "reads" /\ pipe[s] > 0
        /\ pipe' = [pipe EXCEPT ![s] = pipe[s] - 1] /\ got' = [got EXCEPT ![s] = got[s] + 1]
        /\ UNCHANGED <<pc, child, helper, wrote, reader, outcome>>
    BY <1>8 DEF Runner!ReadByte, Runner!processes
  <2>2. RunTypes' /\ NoByteLost'
    BY <2>1 DEF RunTypes, NoByteLost, Bytes
  <2>3. EndedIsEmpty' /\ ChildFirst' /\ JoinedInOrder'
    BY <2>1 DEF RunTypes, EndedIsEmpty, ChildFirst, JoinedInOrder, Runner!Open, Bytes
  <2> QED
    BY <2>2, <2>3
<1>9. ASSUME NEW s \in Runner!Streams, Runner!ReadEnds(s)
      PROVE  RunInv'
  <2>1. /\ reader[s] = "reads" /\ pipe[s] = 0 /\ ~Runner!Open
        /\ reader' = [reader EXCEPT ![s] = "ended"]
        /\ UNCHANGED <<pc, child, helper, wrote, pipe, got, outcome>>
    BY <1>9 DEF Runner!ReadEnds, Runner!processes
  <2>2. RunTypes' /\ NoByteLost' /\ EndedIsEmpty'
    BY <2>1 DEF RunTypes, NoByteLost, EndedIsEmpty, Runner!Open
  <2>3. child # "none"
    BY <2>1 DEF ChildFirst
  <2>4. \A r \in Runner!Streams : reader[r] = "ended" => reader'[r] = "ended"
    BY <2>1 DEF RunTypes
  <2>5. ChildFirst'
    BY <2>1, <2>3 DEF ChildFirst
  <2>6. JoinedInOrder'
    BY <1>0, <2>1, <2>4 DEF JoinedInOrder
  <2> QED
    BY <2>2, <2>5, <2>6
<1>10. ASSUME NEW s \in Runner!Streams, Runner!ReadFails(s)
       PROVE  RunInv'
  <2>1. /\ reader[s] = "reads" /\ reader' = [reader EXCEPT ![s] = "failed"]
        /\ UNCHANGED <<pc, child, helper, wrote, pipe, got, outcome>>
    BY <1>10 DEF Runner!ReadFails, Runner!processes
  <2>2. RunTypes' /\ NoByteLost' /\ EndedIsEmpty'
    BY <2>1 DEF RunTypes, NoByteLost, EndedIsEmpty, Runner!Open
  <2>3. child # "none"
    BY <2>1 DEF ChildFirst
  <2>4. \A r \in Runner!Streams : reader[r] = "ended" => reader'[r] = "ended"
    BY <2>1 DEF RunTypes
  <2>5. ChildFirst'
    BY <2>1, <2>3 DEF ChildFirst
  <2>6. JoinedInOrder'
    BY <1>0, <2>1, <2>4 DEF JoinedInOrder
  <2> QED
    BY <2>2, <2>5, <2>6
<1>11. CASE Runner!WriteByte
  <2>1. Runner!Open /\ UNCHANGED <<pc, child, helper, got, reader, outcome>>
    BY <1>11 DEF Runner!WriteByte
  <2>2. \A s \in Runner!Streams : reader[s] # "ended"
    BY <2>1 DEF EndedIsEmpty
  <2>3. EndedIsEmpty' /\ ChildFirst' /\ JoinedInOrder'
    BY <2>1, <2>2 DEF EndedIsEmpty, ChildFirst, JoinedInOrder
  <2>4. RunTypes' /\ NoByteLost'
    <3>1. CASE UNCHANGED <<pipe, wrote>>
      BY <2>1, <3>1 DEF RunTypes, NoByteLost
    <3>2. ASSUME NEW s, pipe' = [pipe EXCEPT ![s] = pipe[s] + 1],
                 wrote' = [wrote EXCEPT ![s] = wrote[s] + 1]
          PROVE  RunTypes' /\ NoByteLost'
      <4>1. \A r \in Runner!Streams :
              /\ pipe'[r] = IF r = s THEN pipe[r] + 1 ELSE pipe[r]
              /\ wrote'[r] = IF r = s THEN wrote[r] + 1 ELSE wrote[r]
              /\ pipe[r] \in Nat /\ wrote[r] \in Nat
        BY <3>2 DEF RunTypes, Bytes
      <4>2. pipe' \in Bytes /\ wrote' \in Bytes
        <5>1. /\ pipe' = [r \in Runner!Streams |-> pipe'[r]]
              /\ wrote' = [r \in Runner!Streams |-> wrote'[r]]
          BY <3>2 DEF RunTypes, Bytes
        <5>2. \A r \in Runner!Streams : pipe'[r] \in Nat /\ wrote'[r] \in Nat
          BY <4>1
        <5> QED
          BY <5>1, <5>2 DEF Bytes
      <4>3. NoByteLost'
        BY <2>1, <4>1 DEF RunTypes, NoByteLost, Bytes
      <4> QED
        BY <2>1, <4>2, <4>3 DEF RunTypes
    <3>3. UNCHANGED <<pipe, wrote>> \/ \E s : /\ pipe' = [pipe EXCEPT ![s] = pipe[s] + 1]
                                            /\ wrote' = [wrote EXCEPT ![s] = wrote[s] + 1]
      BY <1>11, Zenon DEF Runner!WriteByte
    <3> QED
      BY <3>1, <3>2, <3>3
  <2> QED
    BY <2>3, <2>4
<1>12. CASE Runner!Exit
  <2>1. /\ child = "runs" /\ child' = "exited" /\ helper' \in {"runs", helper}
        /\ UNCHANGED <<pc, wrote, pipe, got, reader, outcome>>
    BY <1>12 DEF Runner!Exit
  <2>2. \A s \in Runner!Streams : reader[s] # "ended"
    BY <2>1 DEF EndedIsEmpty, Runner!Open
  <2>3. RunTypes' /\ NoByteLost' /\ EndedIsEmpty'
    BY <2>1, <2>2 DEF RunTypes, NoByteLost, EndedIsEmpty
  <2>4. ChildFirst' /\ JoinedInOrder'
    BY <2>1 DEF ChildFirst, JoinedInOrder
  <2> QED
    BY <2>3, <2>4
<1>13. CASE Runner!HelperEnds
  BY <1>13 DEF Runner!HelperEnds, RunTypes, NoByteLost, EndedIsEmpty, ChildFirst, JoinedInOrder, Runner!Open
<1>14. CASE Runner!Killed
  BY <1>14 DEF Runner!Killed, RunTypes, NoByteLost, EndedIsEmpty, ChildFirst, JoinedInOrder, Runner!Open
<1>15. CASE Runner!UpgateKilled
  BY <1>15 DEF Runner!UpgateKilled, Runner!processes, RunTypes, NoByteLost, EndedIsEmpty, ChildFirst,
               JoinedInOrder, Runner!Open
<1>16. CASE Runner!Finished
  BY <1>16 DEF Runner!Finished, Runner!vars, Runner!processes, RunTypes, NoByteLost, EndedIsEmpty,
               ChildFirst, JoinedInOrder, Runner!Open
<1> QED
  BY <1>1, <1>2, <1>3, <1>4, <1>5, <1>6, <1>7, <1>8, <1>9, <1>10, <1>11, <1>12, <1>13, <1>14, <1>15, <1>16
     DEF Runner!Next, Runner!Caller, Runner!Reader, Runner!External

\* When the caller is given an outcome of a child, the readers have ended: nobody
\* writes any more and every byte has been read.
LEMMA RunSafe == RunInv => Runner!AllOutputRead
<1> SUFFICES ASSUME RunInv, outcome \in {"output", "refused"}, child # "none"
             PROVE  ~Runner!Open /\ \A s \in Runner!Streams : got[s] = wrote[s]
  BY DEF Runner!AllOutputRead
<1>1. \A s \in Runner!Streams : pipe[s] = 0 /\ ~Runner!Open
  BY DEF RunInv, EndedIsEmpty, JoinedInOrder
<1>2. \A s \in Runner!Streams : wrote[s] = got[s] + pipe[s] /\ got[s] \in Nat
  BY DEF RunInv, RunTypes, NoByteLost, Bytes
<1>3. "stdout" \in Runner!Streams
  BY DEF Runner!Streams
<1> QED
  BY <1>1, <1>2, <1>3

\* The invariant of a call of run, and of the other calls, in which no command has run.
RunHolds == IF call = "run" THEN RunInv ELSE outcome = "none"

\* What the caller of run is given of a command that ran is all that this command, and
\* whatever it left behind, has written, whoever ended first.
THEOREM OutputIsComplete == Spec => []AllOutputRead
<1>1. Init => RunHolds
  BY RunStarts DEF Init, RunHolds, RunnerRests
<1>2. RunHolds /\ [Next]_vars => RunHolds'
  <2> SUFFICES ASSUME RunHolds, [Next]_vars PROVE RunHolds'
    OBVIOUS
  <2>1. CASE Discover \/ LookUp \/ Apply
    BY <2>1 DEF Discover, LookUp, Apply, runnerVars, RunHolds
  <2>2. CASE InRun(Runner!Next)
    BY <2>2, RunKeeps DEF InRun, RunHolds
  <2>3. CASE UNCHANGED vars
    <3>1. UNCHANGED <<call, outcome, pc, child, helper, wrote, pipe, got, reader>>
      BY <2>3 DEF vars, runnerVars
    <3> QED
      BY <3>1 DEF RunHolds, RunInv, RunTypes, NoByteLost, EndedIsEmpty, ChildFirst, JoinedInOrder, Runner!Open
  <2> QED
    BY <2>1, <2>2, <2>3 DEF Next
<1>3. RunHolds => AllOutputRead
  BY RunSafe DEF RunHolds, AllOutputRead, Runner!AllOutputRead
<1> QED
  BY <1>1, <1>2, <1>3, PTL DEF Spec

-----------------------------------------------------------------------------
(* A discovery: what its phases are and what they come after *)

Early == {"validate", "refresh", "tool_dir", "list", "receipts", "outdated", "bin_dir", "binaries",
          "flag", "preview", "complete"}
Anywhere == {"ruby", "advice", "taps"}
Final == {"jobs", "blind_jobs", "fallback"}

PhaseNames == Early \cup Anywhere \cup Final \cup {"choose", "info"}

\* Which adapter has which phase.
Fits(m, phase) ==
  /\ phase = "list" => m # "go"
  /\ phase = "outdated" => m \in {"npm", "pnpm", "gem", "brew"}
  /\ phase \in {"bin_dir", "binaries"} => m = "go"
  /\ phase = "receipts" => m = "uv"
  /\ phase = "info" => m = "brew"
  /\ phase \in {"flag", "preview", "complete", "fallback"} => m = "mise"

\* Which phase may come somewhere before which.
MayPrecede(a, b) ==
  /\ a \notin Final
  /\ b \in Early => a \in Early
  /\ b = "bin_dir" => a = "validate"
  /\ b = "choose" => a \in Early \cup Anywhere

Has(s, phase) == \E i \in 1..Len(s) : s[i] = phase

\* Everything is read before the tools are sorted, and these are looked up at the end.
Ordered(m, s) ==
  /\ s \in Seq(PhaseNames) /\ s # <<>>
  /\ \A i \in 1..Len(s) : Fits(m, s[i])
  /\ \A i, j \in 1..Len(s) : i < j => MayPrecede(s[i], s[j])
  /\ s[Len(s)] \in Final
  /\ \A i \in 1..Len(s) : s[i] \in Early => Has(s, "choose")
  /\ Has(s, "bin_dir") => Has(s, "binaries")

\* The adapter is one of the eleven, and only go has a lookup by discovery.
AdapterKnown ==
  /\ manager \in Discovery!Adapters
  /\ op \in {"update", "verbose", "lookup"} /\ (op = "lookup" => manager = "go")

\* What is left of a discovery is in order,
LEMMA RestOrdered ==
  ASSUME NEW m, NEW s, Ordered(m, s), Head(s) \notin Final
  PROVE  /\ Ordered(m, Tail(s))
         /\ \A p : p # Head(s) => (Has(Tail(s), p) <=> Has(s, p))
         /\ \A p : Has(Tail(s), p) => MayPrecede(Head(s), p)
<1>0. /\ s \in Seq(PhaseNames) /\ s # <<>> /\ Len(s) \in Nat /\ Len(s) > 0 /\ Head(s) = s[1]
  BY DEF Ordered
<1>1. Len(s) > 1
  BY <1>0 DEF Ordered
<1>2. /\ Tail(s) \in Seq(PhaseNames) /\ Len(Tail(s)) = Len(s) - 1
      /\ \A i \in 1..(Len(s) - 1) : Tail(s)[i] = s[i + 1]
  BY <1>0, <1>1
<1> DEFINE r == Tail(s)
<1>3. /\ r \in Seq(PhaseNames) /\ Len(r) = Len(s) - 1 /\ \A i \in 1..Len(r) : r[i] = s[i + 1]
  BY <1>2
<1> HIDE DEF r
<1>4. \A p : p # s[1] => (Has(r, p) <=> Has(s, p))
  <2>1. ASSUME NEW p, p # s[1], Has(s, p) PROVE Has(r, p)
    <3>1. PICK i \in 1..Len(s) : s[i] = p
      BY <2>1 DEF Has
    <3>2. i - 1 \in 1..Len(r) /\ r[i - 1] = s[i]
      BY <1>0, <1>3, <2>1, <3>1
    <3> QED
      BY <3>1, <3>2 DEF Has
  <2>2. ASSUME NEW p, Has(r, p) PROVE Has(s, p)
    <3>1. PICK i \in 1..Len(r) : r[i] = p
      BY <2>2 DEF Has
    <3>2. i + 1 \in 1..Len(s) /\ s[i + 1] = p
      BY <1>0, <1>3, <3>1
    <3> QED
      BY <3>2 DEF Has
  <2> QED
    BY <2>1, <2>2
<1>5. \A p : Has(r, p) => MayPrecede(s[1], p)
  <2> SUFFICES ASSUME NEW p, Has(r, p) PROVE MayPrecede(s[1], p)
    OBVIOUS
  <2>1. PICK i \in 1..Len(r) : r[i] = p
    BY DEF Has
  <2>2. 1 \in 1..Len(s) /\ i + 1 \in 1..Len(s) /\ 1 < i + 1 /\ s[i + 1] = p
    BY <1>0, <1>3, <2>1
  <2> QED
    BY <2>2 DEF Ordered
<1>6. /\ r # <<>>
      /\ \A i \in 1..Len(r) : Fits(m, r[i])
      /\ \A i, j \in 1..Len(r) : i < j => MayPrecede(r[i], r[j])
      /\ r[Len(r)] \in Final
  <2>1. \A i \in 1..Len(r) : i + 1 \in 1..Len(s) /\ r[i] = s[i + 1]
    BY <1>0, <1>3
  <2>2. \A i \in 1..Len(r) : Fits(m, r[i])
    BY <2>1 DEF Ordered
  <2>3. \A i, j \in 1..Len(r) : i < j => i + 1 < j + 1
    BY <1>3
  <2>4. \A i, j \in 1..Len(r) : i < j => MayPrecede(r[i], r[j])
    BY <2>1, <2>3 DEF Ordered
  <2>5. r # <<>> /\ r[Len(r)] = s[Len(s)]
    BY <1>0, <1>1, <1>3
  <2> QED
    BY <2>2, <2>4, <2>5 DEF Ordered
<1>7. ASSUME NEW i \in 1..Len(r), r[i] \in Early PROVE Has(r, "choose")
  <2>1. Has(r, r[i]) /\ i + 1 \in 1..Len(s) /\ s[i + 1] = r[i]
    BY <1>0, <1>3 DEF Has
  <2>2. s[1] # "choose"
    BY <1>5, <1>7, <2>1 DEF MayPrecede, Early
  <2>3. Has(s, "choose")
    BY <1>7, <2>1 DEF Ordered
  <2> QED
    BY <1>4, <2>2, <2>3
<1>8. ASSUME Has(r, "bin_dir") PROVE Has(r, "binaries")
  <2>1. s[1] = "validate"
    BY <1>5, <1>8 DEF MayPrecede
  <2> QED
    BY <1>4, <1>8, <2>1 DEF Ordered
<1>9. Ordered(m, r)
  BY <1>3, <1>6, <1>7, <1>8 DEF Ordered
<1> QED
  BY <1>0, <1>4, <1>5, <1>9 DEF r

\* and so it is with one phase more that nothing of it has to come before.
LEMMA OneMoreOrdered ==
  ASSUME NEW m, NEW s, NEW x \in Early \ {"bin_dir"}, Ordered(m, s), Fits(m, x),
         Has(s, "choose"), Has(s, "bin_dir") => x = "validate"
  PROVE  /\ Ordered(m, <<x>> \o s)
         /\ Head(<<x>> \o s) = x /\ Tail(<<x>> \o s) = s
         /\ \A p : Has(<<x>> \o s, p) <=> p = x \/ Has(s, p)
<1>0. s \in Seq(PhaseNames) /\ Len(s) \in Nat /\ x \in PhaseNames
  BY DEF Ordered, PhaseNames
<1> DEFINE r == <<x>> \o s
<1>1. /\ r \in Seq(PhaseNames) /\ Len(r) = Len(s) + 1 /\ r[1] = x
      /\ \A i \in 1..Len(s) : r[i + 1] = s[i]
  BY <1>0
<1>2. Head(r) = x /\ Tail(r) = s
  BY <1>0
<1> HIDE DEF r
<1>3. \A i \in 1..Len(r) : i = 1 \/ (i - 1 \in 1..Len(s) /\ r[i] = s[i - 1])
  BY <1>0, <1>1
<1>4. \A p : Has(r, p) <=> p = x \/ Has(s, p)
  <2>1. ASSUME NEW p, Has(s, p) PROVE Has(r, p)
    <3>1. PICK i \in 1..Len(s) : s[i] = p
      BY <2>1 DEF Has
    <3>2. i + 1 \in 1..Len(r) /\ r[i + 1] = p
      BY <1>0, <1>1, <3>1
    <3> QED
      BY <3>2 DEF Has
  <2>2. Has(r, x)
    BY <1>0, <1>1 DEF Has
  <2>3. ASSUME NEW p, Has(r, p), p # x PROVE Has(s, p)
    <3>1. PICK i \in 1..Len(r) : r[i] = p
      BY <2>3 DEF Has
    <3>2. i - 1 \in 1..Len(s) /\ s[i - 1] = p
      BY <1>1, <1>3, <2>3, <3>1
    <3> QED
      BY <3>2 DEF Has
  <2> QED
    BY <2>1, <2>2, <2>3
<1>5. \A i \in 1..Len(s) : MayPrecede(x, s[i])
  <2> SUFFICES ASSUME NEW i \in 1..Len(s) PROVE MayPrecede(x, s[i])
    OBVIOUS
  <2>1. s[i] = "bin_dir" => x = "validate"
    BY DEF Has
  <2> QED
    BY <2>1 DEF MayPrecede, Early, Final
<1>6. /\ r # <<>>
      /\ \A i \in 1..Len(r) : Fits(m, r[i])
      /\ \A i, j \in 1..Len(r) : i < j => MayPrecede(r[i], r[j])
      /\ r[Len(r)] \in Final
  <2>1. \A i \in 1..Len(r) : Fits(m, r[i])
    BY <1>1, <1>3 DEF Ordered
  <2>2. ASSUME NEW i \in 1..Len(r), NEW j \in 1..Len(r), i < j PROVE MayPrecede(r[i], r[j])
    <3>1. j - 1 \in 1..Len(s) /\ r[j] = s[j - 1]
      BY <1>0, <1>1, <1>3, <2>2
    <3>2. CASE i = 1
      BY <1>1, <1>5, <3>1, <3>2
    <3>3. CASE i # 1
      <4>1. i - 1 \in 1..Len(s) /\ r[i] = s[i - 1] /\ i - 1 < j - 1
        BY <1>3, <2>2, <3>3
      <4> QED
        BY <3>1, <4>1 DEF Ordered
    <3> QED
      BY <3>2, <3>3
  <2>3. r # <<>> /\ Len(s) \in 1..Len(s) /\ r[Len(r)] = s[Len(s)]
    BY <1>0, <1>1 DEF Ordered
  <2> QED
    BY <2>1, <2>2, <2>3 DEF Ordered
<1>7. Ordered(m, r)
  <2>1. Has(r, "choose") /\ (Has(r, "bin_dir") => Has(r, "binaries"))
    BY <1>4 DEF Ordered
  <2> QED
    BY <1>1, <1>6, <2>1 DEF Ordered
<1> QED
  BY <1>2, <1>4, <1>7 DEF r

\* The last phase alone is in order.
LEMMA LastOrdered ==
  ASSUME NEW m, NEW x \in Final, Fits(m, x)
  PROVE  Ordered(m, <<x>>) /\ Head(<<x>>) = x /\ \A p : Has(<<x>>, p) <=> p = x
BY DEF Ordered, Has, PhaseNames, Final, Early, Fits

\* Each adapter begins in order, with everything to be read.
LEMMA PhasesOrdered ==
  ASSUME AdapterKnown
  PROVE  /\ Ordered(manager, Discovery!Phases) /\ Has(Discovery!Phases, "choose")
         /\ IF manager = "go" THEN Has(Discovery!Phases, "bin_dir") ELSE Has(Discovery!Phases, "list")
<1> DEFINE Good(m, s) == /\ Ordered(m, s) /\ Has(s, "choose")
                         /\ IF m = "go" THEN Has(s, "bin_dir") ELSE Has(s, "list")
<1>1. \A m : m # "go" => Good(m, <<"list", "choose", "jobs">>)
  BY DEF Ordered, Has, Fits, MayPrecede, PhaseNames, Early, Anywhere, Final
<1>2. \A m : m \in {"npm", "pnpm"} => Good(m, <<"list", "outdated", "choose", "jobs">>)
  BY DEF Ordered, Has, Fits, MayPrecede, PhaseNames, Early, Anywhere, Final
<1>3. \A m : m = "gem" => Good(m, <<"list", "outdated", "choose", "ruby", "jobs">>)
  BY DEF Ordered, Has, Fits, MayPrecede, PhaseNames, Early, Anywhere, Final
<1>4. \A m : m = "go" => Good(m, <<"bin_dir", "binaries", "choose", "jobs">>)
  BY DEF Ordered, Has, Fits, MayPrecede, PhaseNames, Early, Anywhere, Final
<1>5. \A m : m = "uv" => Good(m, <<"tool_dir", "list", "advice", "choose", "jobs">>)
  BY DEF Ordered, Has, Fits, MayPrecede, PhaseNames, Early, Anywhere, Final
<1>6. \A m : m = "brew" => Good(m, <<"refresh", "outdated", "list", "choose", "info", "taps", "jobs">>)
  BY DEF Ordered, Has, Fits, MayPrecede, PhaseNames, Early, Anywhere, Final
<1>7. \A m : m = "mise" => Good(m, <<"flag", "preview", "list", "choose", "advice", "jobs">>)
  BY DEF Ordered, Has, Fits, MayPrecede, PhaseNames, Early, Anywhere, Final
<1>8. \A m : m = "uv" => Good(m, <<"tool_dir", "list", "choose", "jobs">>)
  BY DEF Ordered, Has, Fits, MayPrecede, PhaseNames, Early, Anywhere, Final
<1>9. \A m : m = "gem" => Good(m, <<"list", "ruby", "choose", "jobs">>)
  BY DEF Ordered, Has, Fits, MayPrecede, PhaseNames, Early, Anywhere, Final
<1>10. \A m : m = "brew" => Good(m, <<"list", "taps", "choose", "jobs">>)
  BY DEF Ordered, Has, Fits, MayPrecede, PhaseNames, Early, Anywhere, Final
<1> HIDE DEF Good
<1>11. CASE op = "verbose"
  <2>1. Good(manager, Discovery!Phases)
    BY <1>1, <1>4, <1>8, <1>9, <1>10, <1>11
       DEF AdapterKnown, Discovery!Adapters, Discovery!Phases, Discovery!UvScan, Discovery!BunScan,
           Discovery!GemScan, Discovery!GoScan, Discovery!BrewScan, Discovery!MiseScan, Discovery!DefaultScan
  <2> QED
    BY <2>1 DEF Good
<1>12. CASE op # "verbose"
  <2>1. Good(manager, Discovery!Phases)
    BY <1>1, <1>2, <1>3, <1>4, <1>5, <1>6, <1>7, <1>12
       DEF AdapterKnown, Discovery!Adapters, Discovery!Phases, Discovery!NpmUpdate, Discovery!PnpmUpdate,
           Discovery!BunUpdate, Discovery!CargoUpdate, Discovery!GemUpdate, Discovery!GoUpdate,
           Discovery!UvUpdate, Discovery!PipxUpdate, Discovery!DotnetUpdate, Discovery!BrewUpdate,
           Discovery!MiseUpdate
  <2> QED
    BY <2>1 DEF Good
<1> QED
  BY <1>11, <1>12

-----------------------------------------------------------------------------
(* Failures and interruptions of a discovery *)

\* Commands whose death does not matter.
Harmless == {"refresh", "taps", "bin_dir", "binaries", "lookup"}

\* A job is interrupted only when it is looked up, and it alone may have died so far.
Interruptions ==
  /\ stopped \in BOOLEAN
  /\ stopped <=> "jobs" \in killed
  /\ result = "running" => killed \subseteq Harmless \cup {"jobs"}
  /\ stopped /\ result = "running" => Head(todo) \in {"jobs", "blind_jobs"}

\* How a step that is not a job goes on: it ends, passes to the next phase or puts another first.
Onwards ==
  \/ todo' = todo
  \/ /\ result' = "running"
     /\ \/ Head(todo) \notin Final /\ todo' = Tail(todo)
        \/ Head(todo) = "list" /\ manager = "uv" /\ todo' = <<"receipts">> \o Tail(todo)
        \/ Head(todo) = "preview" /\ todo' = <<"complete">> \o Tail(todo)
        \/ Head(todo) \in {"flag", "preview", "complete"} /\ todo' = <<"fallback">>
        \/ Head(todo) = "info" /\ todo' = <<"blind_jobs">>

\* and what it makes of a command that died: the end, unless it does not matter.
Heard ==
  \/ killed' = killed
  \/ /\ killed' = killed \cup {Head(todo)}
     /\ Head(todo) \in Harmless \/ result' \in {"failed", "interrupted"}

Ordinary ==
  /\ result = "running" /\ Head(todo) \notin {"jobs", "blind_jobs"}
  /\ UNCHANGED <<manager, op, policy, trait, stopped>>
  /\ Onwards /\ Heard

\* No listing takes a command that died for an answer: it shows what is installed, all of
\* it that can be shown when what the command wrote is good.
LEMMA ListingReads ==
  ASSUME NEW r \in Discovery!Replies, AdapterKnown, manager # "go"
  PROVE  /\ Discovery!Listing(r).shown \subseteq Discovery!Installed
         /\ Discovery!Listing(r).end = "ok" /\ r.body = "good" =>
              Discovery!Visible \subseteq Discovery!Listing(r).shown
         /\ r.exit = "signal" => Discovery!Listing(r).end # "ok"
<1> USE DEF Discovery!After, Discovery!Success, Discovery!Read, Discovery!Refused,
            Discovery!Interrupted, Discovery!Json, Discovery!Lines, Discovery!Replies
<1>0. Discovery!Visible \subseteq Discovery!Installed
  BY DEF Discovery!Visible
<1>1. CASE manager = "npm"
  BY <1>0, <1>1 DEF Discovery!Listing, Discovery!NpmList, Discovery!NpmInstalled
<1>2. CASE manager = "pnpm"
  BY <1>0, <1>2 DEF Discovery!Listing, Discovery!PnpmList, Discovery!PnpmInstalled
<1>3. CASE manager = "bun"
  BY <1>0, <1>3 DEF Discovery!Listing, Discovery!BunList, Discovery!BunInstalled, Discovery!EmptyBun
<1>4. CASE manager = "cargo"
  BY <1>0, <1>4 DEF Discovery!Listing, Discovery!CargoList, Discovery!CargoInstalled
<1>5. CASE manager = "gem"
  BY <1>0, <1>5 DEF Discovery!Listing, Discovery!GemList, Discovery!GemInstalled
<1>6. CASE manager = "uv"
  BY <1>0, <1>6 DEF Discovery!Listing, Discovery!UvList, Discovery!UvInstalled
<1>7. CASE manager = "pipx"
  BY <1>0, <1>7 DEF Discovery!Listing, Discovery!PipxList, Discovery!PipxInstalled
<1>8. CASE manager = "dotnet"
  BY <1>0, <1>8 DEF Discovery!Listing, Discovery!DotnetList, Discovery!DotnetInstalled, Discovery!NoSdk, Discovery!IgnoreStatus
<1>9. CASE manager = "brew"
  BY <1>0, <1>9 DEF Discovery!Listing, Discovery!BrewList, Discovery!BrewInstalled
<1>10. CASE manager = "mise"
  BY <1>0, <1>10 DEF Discovery!Listing, Discovery!MiseList, Discovery!MiseInstalled
<1> QED
  BY <1>1, <1>2, <1>3, <1>4, <1>5, <1>6, <1>7, <1>8, <1>9, <1>10 DEF AdapterKnown, Discovery!Adapters

\* Nor does what is said to be outdated.
LEMMA OutdatedReads ==
  ASSUME NEW r \in Discovery!Replies, manager \in {"npm", "pnpm", "gem", "brew"}
  PROVE  /\ Discovery!OutdatedReading(r).shown \subseteq Discovery!Installed
         /\ r.exit = "signal" => Discovery!OutdatedReading(r).end # "ok"
<1> USE DEF Discovery!After, Discovery!Success, Discovery!Allow1, Discovery!Read, Discovery!Refused,
            Discovery!Interrupted, Discovery!Json, Discovery!Lines, Discovery!OrBlank, Discovery!Replies
<1>0. Discovery!Old(Discovery!Visible) \subseteq Discovery!Installed
      /\ Discovery!Old(Discovery!Installed) \subseteq Discovery!Installed
  BY DEF Discovery!Visible, Discovery!Old
<1>1. CASE manager = "npm"
  BY <1>0, <1>1 DEF Discovery!OutdatedReading, Discovery!NpmOutdated, Discovery!NpmMap
<1>2. CASE manager = "pnpm"
  BY <1>0, <1>2 DEF Discovery!OutdatedReading, Discovery!PnpmOutdated, Discovery!PnpmMap, Discovery!NoManifest
<1>3. CASE manager = "gem"
  BY <1>0, <1>3 DEF Discovery!OutdatedReading, Discovery!GemOutdated, Discovery!GemLines
<1>4. CASE manager = "brew"
  BY <1>0, <1>4 DEF Discovery!OutdatedReading, Discovery!BrewOutdated, Discovery!BrewOld
<1> QED
  BY <1>1, <1>2, <1>3, <1>4

\* Every step but a job, the end of the jobs and a change by the user is an ordinary one.
OrdinaryNext ==
  \/ Discovery!Validate \/ Discovery!Refresh \/ Discovery!ToolDir \/ Discovery!List
  \/ Discovery!Receipts \/ Discovery!Outdated
  \/ Discovery!BinDir \/ Discovery!Binary \/ Discovery!BinariesRead
  \/ Discovery!Flag \/ Discovery!Preview \/ Discovery!Complete \/ Discovery!Fallback
  \/ Discovery!Choose \/ Discovery!Ruby \/ Discovery!Advice \/ Discovery!Info \/ Discovery!Taps

LEMMA OrdinarySteps ==
  ASSUME AdapterKnown, Ordered(manager, todo), OrdinaryNext
  PROVE  Ordinary
<1> USE DEF Ordinary, Onwards, Heard, Harmless, Final, Discovery!At, Discovery!End, Discovery!Pass,
            Discovery!Ended, Discovery!Died, Discovery!inputs
<1>0. Fits(manager, Head(todo))
  BY DEF Ordered
<1>1. CASE Discovery!Validate
  BY <1>1 DEF Discovery!Validate
<1>2. CASE Discovery!Refresh
  BY <1>2 DEF Discovery!Refresh
<1>3. CASE Discovery!ToolDir
  BY <1>3 DEF Discovery!ToolDir, Discovery!After, Discovery!Success, Discovery!Read,
              Discovery!Refused, Discovery!Interrupted
<1>4. CASE Discovery!List
  BY <1>0, <1>4, ListingReads DEF Discovery!List, Fits
<1>5. CASE Discovery!Receipts
  BY <1>5 DEF Discovery!Receipts, Discovery!After, Discovery!Success, Discovery!Read,
              Discovery!Refused, Discovery!Interrupted
<1>6. CASE Discovery!Outdated
  BY <1>0, <1>6, OutdatedReads DEF Discovery!Outdated, Fits
<1>7. CASE Discovery!BinDir
  BY <1>7 DEF Discovery!BinDir
<1>8. CASE Discovery!Binary
  BY <1>8 DEF Discovery!Binary
<1>9. CASE Discovery!BinariesRead
  BY <1>9 DEF Discovery!BinariesRead
<1>10. CASE Discovery!Flag
  BY <1>10 DEF Discovery!Flag, Discovery!FallBack, Discovery!After, Discovery!Success,
               Discovery!Read, Discovery!Refused, Discovery!Interrupted
<1>11. CASE Discovery!Preview
  BY <1>11 DEF Discovery!Preview, Discovery!FallBack, Discovery!After, Discovery!Success,
               Discovery!Read, Discovery!Refused, Discovery!Interrupted, Discovery!Lines
<1>12. CASE Discovery!Complete
  BY <1>12 DEF Discovery!Complete, Discovery!FallBack, Discovery!After, Discovery!Success,
               Discovery!Read, Discovery!Refused, Discovery!Interrupted, Discovery!MiseList,
               Discovery!MiseInstalled, Discovery!Json
<1>13. CASE Discovery!Fallback
  BY <1>13 DEF Discovery!Fallback, Discovery!After, Discovery!Success, Discovery!Read,
               Discovery!Refused, Discovery!Interrupted, Discovery!MiseList,
               Discovery!MiseInstalled, Discovery!Json
<1>14. CASE Discovery!Choose
  BY <1>14 DEF Discovery!Choose
<1>15. CASE Discovery!Ruby
  BY <1>15 DEF Discovery!Ruby, Discovery!After, Discovery!Success, Discovery!Read,
               Discovery!Refused, Discovery!Interrupted, Discovery!Json
<1>16. CASE Discovery!Advice
  BY <1>16 DEF Discovery!Advice, Discovery!After, Discovery!Success, Discovery!Read,
               Discovery!Refused, Discovery!Interrupted, Discovery!UvLatest,
               Discovery!MiseLatest, Discovery!Lines, Discovery!Json
<1>17. CASE Discovery!Info
  BY <1>17 DEF Discovery!Info, Discovery!After, Discovery!Success, Discovery!Read,
               Discovery!Refused, Discovery!Interrupted, Discovery!Json
<1>18. CASE Discovery!Taps
  BY <1>18 DEF Discovery!Taps
<1> QED
  BY <1>1, <1>2, <1>3, <1>4, <1>5, <1>6, <1>7, <1>8, <1>9, <1>10, <1>11, <1>12, <1>13, <1>14, <1>15, <1>16, <1>17, <1>18 DEF OrdinaryNext

\* The steps keep what is known of interruptions, and what is promised of them.
LEMMA OrdinaryKeepsInterruptions ==
  ASSUME Ordinary, Interruptions, Discovery!FailureStaysLocal, Discovery!InterruptionEndsIt
  PROVE  Interruptions' /\ Discovery!FailureStaysLocal' /\ Discovery!InterruptionEndsIt'
<1>1. /\ result = "running" /\ ~stopped /\ ~stopped' /\ "jobs" \notin killed /\ killed \subseteq Harmless
  BY DEF Ordinary, Interruptions
<1>2. /\ "jobs" \notin killed'
      /\ result' \notin {"failed", "interrupted"} => killed' \subseteq Harmless
  BY <1>1 DEF Ordinary, Heard
<1>3. stopped' \in BOOLEAN /\ (stopped' <=> "jobs" \in killed')
  BY <1>1, <1>2 DEF Ordinary, Interruptions
<1>4. Interruptions'
  BY <1>1, <1>2, <1>3 DEF Interruptions
<1>5. Discovery!InterruptionEndsIt'
  BY <1>2 DEF Discovery!InterruptionEndsIt, Discovery!Unwatched, Harmless
<1>6. Discovery!FailureStaysLocal'
  BY DEF Ordinary, Onwards, Discovery!FailureStaysLocal
<1> QED
  BY <1>4, <1>5, <1>6

LEMMA InterruptionsKept ==
  ASSUME AdapterKnown, Ordered(manager, todo), Discovery!Next,
         Interruptions, Discovery!FailureStaysLocal, Discovery!InterruptionEndsIt
  PROVE  Interruptions' /\ Discovery!FailureStaysLocal' /\ Discovery!InterruptionEndsIt'
<1> USE DEF Interruptions, Discovery!FailureStaysLocal, Discovery!InterruptionEndsIt, Discovery!Unwatched, Harmless,
            Discovery!At, Discovery!InJobs, Discovery!End, Discovery!inputs
<1>1. CASE OrdinaryNext
  BY <1>1, OrdinarySteps, OrdinaryKeepsInterruptions
<1>2. ASSUME NEW p \in jobs, Discovery!Job(p)
      PROVE  Interruptions' /\ Discovery!FailureStaysLocal' /\ Discovery!InterruptionEndsIt'
  <2>1. /\ result = "running" /\ result' = result /\ todo' = todo /\ Head(todo) \in {"jobs", "blind_jobs"}
        /\ \/ stopped' = TRUE /\ killed' = killed \cup {"jobs"}
           \/ stopped' = stopped /\ killed' \in {killed, killed \cup {"lookup"}}
    BY <1>2 DEF Discovery!Job
  <2>2. CASE stopped' = TRUE /\ killed' = killed \cup {"jobs"}
    <3>1. stopped' \in BOOLEAN /\ stopped' /\ "jobs" \in killed' /\ killed' \subseteq Harmless \cup {"jobs"}
      BY <2>1, <2>2
    <3> QED
      BY <2>1, <3>1
  <2>3. CASE stopped' = stopped /\ killed' \in {killed, killed \cup {"lookup"}}
    <3>1. /\ "jobs" \in killed' <=> "jobs" \in killed
          /\ killed' \subseteq Harmless \cup {"jobs"}
      BY <2>1, <2>3
    <3> QED
      BY <2>1, <2>3, <3>1
  <2> QED
    BY <2>1, <2>2, <2>3
<1>3. CASE Discovery!Collect
  <2>1. /\ result = "running" /\ todo' = todo /\ UNCHANGED <<stopped, killed>>
        /\ result' = IF stopped THEN "interrupted" ELSE "rows"
    BY <1>3 DEF Discovery!Collect
  <2> QED
    BY <2>1
<1>4. CASE Discovery!UserChanges
  BY <1>4 DEF Discovery!UserChanges
<1> QED
  BY <1>1, <1>2, <1>3, <1>4 DEF Discovery!Next, OrdinaryNext

\* What is left of the discovery stays in order.
LEMMA OrderKept ==
  ASSUME AdapterKnown, Ordered(manager, todo), Discovery!Next
  PROVE  AdapterKnown' /\ Ordered(manager, todo)'
<1>1. CASE OrdinaryNext
  <2>1. Ordinary
    BY <1>1, OrdinarySteps
  <2>2. AdapterKnown' /\ manager' = manager
    BY <2>1 DEF Ordinary, AdapterKnown
  <2>3. Fits(manager, Head(todo)) /\ Has(todo, Head(todo)) /\ todo # <<>>
    BY DEF Ordered, Has
  <2>4. CASE todo' = todo
    BY <2>2, <2>4
  <2>5. CASE Head(todo) \notin Final /\ todo' = Tail(todo)
    BY <2>2, <2>5, RestOrdered
  <2>6. ASSUME Head(todo) \in {"list", "preview"}, NEW x \in {"receipts", "complete"},
               Fits(manager, x), todo' = <<x>> \o Tail(todo)
        PROVE  Ordered(manager, todo')
    <3>1. /\ Ordered(manager, Tail(todo)) /\ ~Has(Tail(todo), "bin_dir")
          /\ Has(Tail(todo), "choose") <=> Has(todo, "choose")
      <4>1. Head(todo) \notin Final /\ Head(todo) # "validate" /\ Head(todo) # "choose"
        BY <2>6 DEF Final
      <4> QED
        BY <4>1, RestOrdered DEF MayPrecede
    <3>2. Has(todo, "choose")
      BY <2>6 DEF Ordered, Early
    <3>3. x \in Early \ {"bin_dir"}
      BY <2>6 DEF Early
    <3> QED
      BY <2>6, <3>1, <3>2, <3>3, OneMoreOrdered
  <2>7. ASSUME NEW x \in {"fallback", "blind_jobs"}, Fits(manager, x), todo' = <<x>>
        PROVE  Ordered(manager, todo')
    BY <2>7, LastOrdered DEF Final
  <2> QED
    BY <2>1, <2>2, <2>3, <2>4, <2>5, <2>6, <2>7 DEF Ordinary, Onwards, Fits
<1>2. CASE (\E p \in jobs : Discovery!Job(p)) \/ Discovery!Collect \/ Discovery!UserChanges
  <2>1. UNCHANGED <<manager, op, todo>>
    BY <1>2 DEF Discovery!Job, Discovery!Collect, Discovery!UserChanges, Discovery!inputs, Discovery!End
  <2> QED
    BY <2>1 DEF AdapterKnown
<1> QED
  BY <1>1, <1>2 DEF Discovery!Next, OrdinaryNext

-----------------------------------------------------------------------------
(* The rows of a discovery *)

PairOf(r) == <<r.tool, r.version>>
PairsOf(S) == {PairOf(r) : r \in S}
Alike(m, p, q) == IF m = "mise" THEN p = q ELSE p[1] = q[1]
UniqueIn(m, S) == \A p, q \in S : Alike(m, p, q) => p = q
Apart(m, S, T) == \A p \in S, q \in T : ~Alike(m, p, q)
Covers(m, S, T) == \A p \in T : \E q \in S : Alike(m, p, q)

\* What was installed all the time and may be shown.
KeptPairs == {p \in Discovery!Pairs : p[2] \in kept[p[1]] /\ trait[p[1]] # "hidden"}

Kinds == {"seed", "unknown", "current", "skipped", "resolver_error", "installed"}
RowTypes ==
  /\ machine \in [Tools -> SUBSET Versions] /\ kept \in [Tools -> SUBSET Versions]
  /\ listed \subseteq Discovery!Pairs
  /\ outdated \subseteq Tools \X (Versions \cup {0})
  /\ jobs \subseteq Tools \X (Versions \cup {0})
  /\ rows \subseteq [tool : Tools, version : Versions \cup {0}, kind : Kinds]

\* What is installed: one version of a tool, except with mise; some of it was all the time.
Machine ==
  /\ manager # "mise" => \A t \in Tools : \A v, w \in machine[t] : v = w
  /\ \A t \in Tools : kept[t] \subseteq machine[t]

\* A tool is once in each list, and no two rows are alike.
OnceInEach ==
  /\ UniqueIn(manager, listed) /\ UniqueIn(manager, outdated) /\ UniqueIn(manager, jobs)
  /\ \A r, s \in rows : Alike(manager, PairOf(r), PairOf(s)) => r = s

\* Until the tools are sorted only go has rows, of other tools than those it goes on with.
BeforeChoice ==
  result = "running" /\ Has(todo, "choose") =>
    /\ manager # "go" => rows = {}
    /\ manager = "go" =>
         /\ outdated = {} /\ Apart(manager, PairsOf(rows), listed)
         /\ Apart(manager, PairsOf(rows), jobs) /\ Apart(manager, listed, jobs)
    /\ Has(todo, "bin_dir") => rows = {} /\ listed = {}
    /\ manager = "go" /\ ~Has(todo, "bin_dir") /\ ~Has(todo, "binaries") => jobs = {}

\* Then a tool has its row or is still to be looked up.
AfterChoice ==
  result = "running" /\ ~Has(todo, "choose") /\ ~Has(todo, "fallback") =>
    Apart(manager, PairsOf(rows), jobs)

\* No tool has been lost on the way to the rows.
NothingForgotten ==
  honest /\ op # "lookup" =>
    /\ result = "rows" => Covers(manager, PairsOf(rows), KeptPairs)
    /\ result = "running" /\ Has(todo, "choose") /\ manager # "go"
         /\ ~Has(todo, "list") /\ ~Has(todo, "receipts") => Covers(manager, listed, KeptPairs)
    /\ result = "running" /\ Has(todo, "choose") /\ manager = "go"
         /\ ~Has(todo, "bin_dir") => Covers(manager, listed \cup PairsOf(rows) \cup jobs, KeptPairs)
    /\ result = "running" /\ ~Has(todo, "choose") /\ ~Has(todo, "fallback") /\ ~stopped =>
         Covers(manager, PairsOf(rows) \cup jobs, KeptPairs)

RowsInv == RowTypes /\ Machine /\ OnceInEach /\ BeforeChoice /\ AfterChoice /\ NothingForgotten

\* SeveralAsked items of a preview of mise are of a tool of which several versions are asked for.
SeveralAsked ==
  /\ manager = "mise" => Discovery!OneItem(outdated)
  /\ \A t \in twice : trait[t] = "several"

\* Alike is what IdOf tells apart, and like what EachToolOnce calls missing.
LEMMA IdsAndLikes ==
  /\ \A p, q : Discovery!IdOf(p) = Discovery!IdOf(q) <=> Alike(manager, p, q)
  /\ \A p : Alike(manager, p, p)
BY DEF Discovery!IdOf, Alike

LEMMA RowsSafe == RowsInv /\ SeveralAsked => Discovery!EachToolOnce
<1> SUFFICES ASSUME RowsInv, SeveralAsked PROVE Discovery!EachToolOnce
  OBVIOUS
<1>1. \A r, s \in rows :
        Discovery!IdOf(<<r.tool, r.version>>) = Discovery!IdOf(<<s.tool, s.version>>) => r = s
  BY IdsAndLikes DEF RowsInv, OnceInEach, PairOf
<1>2. ASSUME result = "rows", op # "lookup", honest, NEW t \in Tools, trait[t] # "hidden",
             NEW v \in kept[t]
      PROVE  ~Discovery!Missing(t, v)
  <2>1. v \in Versions /\ <<t, v>> \in KeptPairs
    BY <1>2 DEF RowsInv, RowTypes, KeptPairs, Discovery!Pairs
  <2>2. PICK q \in PairsOf(rows) : Alike(manager, <<t, v>>, q)
    BY <1>2, <2>1 DEF RowsInv, NothingForgotten, Covers
  <2>3. PICK r \in rows : q = <<r.tool, r.version>>
    BY DEF PairsOf, PairOf
  <2>4. r.tool = t /\ (manager = "mise" => r.version = v)
    BY <2>2, <2>3 DEF Alike
  <2> QED
    BY <2>4 DEF Discovery!Missing
<1>3. \A r \in rows : r.tool \in twice => trait[r.tool] = "several"
  BY DEF SeveralAsked
<1> QED
  BY <1>1, <1>2, <1>3 DEF Discovery!EachToolOnce

\* What is installed is there once, and what was all the time can be seen.
LEMMA InstalledOnce ==
  ASSUME RowTypes, Machine
  PROVE  /\ UniqueIn(manager, Discovery!Installed)
         /\ KeptPairs \subseteq Discovery!Visible
         /\ Discovery!Visible \subseteq Discovery!Installed
         /\ Discovery!Installed \subseteq Discovery!Pairs
<1>1. ASSUME manager # "mise", NEW p \in Discovery!Installed, NEW q \in Discovery!Installed, p[1] = q[1]
      PROVE  p = q
  <2>1. p \in Tools \X Versions /\ q \in Tools \X Versions /\ p[2] \in machine[p[1]] /\ q[2] \in machine[q[1]]
    BY DEF Discovery!Installed, Discovery!Pairs
  <2>2. p[2] = q[2] /\ p = <<p[1], p[2]>> /\ q = <<q[1], q[2]>>
    BY <1>1, <2>1 DEF Machine
  <2> QED
    BY <1>1, <2>2
<1>2. UniqueIn(manager, Discovery!Installed)
  BY <1>1 DEF UniqueIn, Alike
<1>3. KeptPairs \subseteq Discovery!Visible
  BY DEF KeptPairs, Discovery!Visible, Discovery!Installed, Discovery!Pairs, Machine
<1> QED
  BY <1>2, <1>3 DEF Discovery!Visible, Discovery!Installed

LEMMA UniqueInPart ==
  ASSUME NEW m, NEW S, UniqueIn(m, S), NEW T \in SUBSET S PROVE UniqueIn(m, T)
BY DEF UniqueIn

LEMMA CoversAll ==
  ASSUME NEW m, NEW S, NEW T, T \subseteq S PROVE Covers(m, S, T)
BY DEF Covers, Alike

\* Where a discovery is after an ordinary step that reads neither listing nor binaries.
LEMMA PlacesKept ==
  ASSUME Ordered(manager, todo), Ordinary,
         Head(todo) \notin {"choose", "list", "receipts", "bin_dir", "binaries"}
  PROVE  \/ \A p \in {"choose", "list", "receipts", "bin_dir", "binaries", "fallback"} :
              Has(todo', p) <=> Has(todo, p)
         \/ \A p : Has(todo', p) <=> p = "fallback"
<1> DEFINE Places == {"choose", "list", "receipts", "bin_dir", "binaries", "fallback"}
<1>0. /\ todo # <<>> /\ Has(todo, Head(todo)) /\ Fits(manager, Head(todo))
      /\ \A p \in Places : p # Head(todo) \/ p \in Final
  BY DEF Ordered, Has, Final
<1>1. CASE todo' = todo
  BY <1>1
<1>2. CASE Head(todo) \notin Final /\ todo' = Tail(todo)
  BY <1>0, <1>2, RestOrdered
<1>3. CASE Head(todo) = "preview" /\ todo' = <<"complete">> \o Tail(todo)
  <2>1. Head(todo) \notin Final /\ Head(todo) \notin Places /\ "complete" \notin Places
    BY <1>3 DEF Final
  <2>2. /\ Ordered(manager, Tail(todo)) /\ \A p \in Places : Has(Tail(todo), p) <=> Has(todo, p)
        /\ Has(todo, "choose") /\ ~Has(Tail(todo), "bin_dir")
    <3>1. Ordered(manager, Tail(todo)) /\ \A p \in Places : Has(Tail(todo), p) <=> Has(todo, p)
      BY <2>1, RestOrdered
    <3>2. Has(todo, "choose")
      BY <1>0, <1>3 DEF Ordered, Early
    <3>3. ~MayPrecede(Head(todo), "bin_dir")
      BY <1>3 DEF MayPrecede
    <3> QED
      BY <2>1, <3>1, <3>2, <3>3, RestOrdered
  <2>3. Fits(manager, "complete") /\ "complete" \in Early \ {"bin_dir"}
    BY <1>0, <1>3 DEF Fits, Early
  <2>4. \A p : Has(<<"complete">> \o Tail(todo), p) <=> p = "complete" \/ Has(Tail(todo), p)
    BY <2>2, <2>3, OneMoreOrdered
  <2> QED
    BY <1>3, <2>1, <2>2, <2>4
<1>4. CASE Head(todo) \in {"flag", "preview", "complete"} /\ todo' = <<"fallback">>
  BY <1>0, <1>4, LastOrdered DEF Final, Fits
<1>5. CASE Head(todo) = "info" /\ todo' = <<"blind_jobs">>
  <2>1. \A p : Has(todo', p) <=> p = "blind_jobs"
    BY <1>0, <1>5, LastOrdered DEF Final, Fits
  <2>2. \A p \in Places : ~Has(todo, p)
    <3>1. Head(todo) \notin Final /\ Head(todo) \notin Places
      BY <1>5 DEF Final
    <3>2. \A p \in Places \ {"fallback"} : ~MayPrecede(Head(todo), p)
      BY <1>5 DEF MayPrecede, Early, Anywhere
    <3>3. \A p \in Places \ {"fallback"} : ~Has(todo, p)
      BY <3>1, <3>2, RestOrdered
    <3>4. ~Has(todo, "fallback")
      BY <1>0, <1>5 DEF Ordered, Has, Fits
    <3> QED
      BY <3>3, <3>4
  <2> QED
    BY <2>1, <2>2
<1> QED
  BY <1>1, <1>2, <1>3, <1>4, <1>5 DEF Ordinary, Onwards

\* A step that changes no row and no job, and reads no listing.
LEMMA SameRows ==
  ASSUME Ordered(manager, todo), Ordinary, RowsInv,
         Head(todo) \notin {"choose", "list", "receipts", "bin_dir", "binaries"},
         UNCHANGED <<machine, kept, listed, jobs, rows, honest>>,
         result' # "rows",
         outdated' \subseteq Tools \X (Versions \cup {0}), UniqueIn(manager, outdated'),
         manager = "go" => outdated' = outdated
  PROVE  RowsInv'
<1>0. /\ UNCHANGED <<manager, op, trait, stopped>> /\ result = "running"
      /\ KeptPairs' = KeptPairs
  BY DEF Ordinary, KeptPairs, Discovery!Pairs
<1>1. RowTypes' /\ Machine' /\ OnceInEach'
  BY <1>0 DEF RowsInv, RowTypes, Machine, OnceInEach, Discovery!Pairs
<1>2. CASE \A p : Has(todo', p) <=> p = "fallback"
  <2>1. BeforeChoice' /\ AfterChoice' /\ NothingForgotten'
    BY <1>2 DEF BeforeChoice, AfterChoice, NothingForgotten
  <2> QED
    BY <1>1, <2>1 DEF RowsInv
<1>3. CASE \A p \in {"choose", "list", "receipts", "bin_dir", "binaries", "fallback"} :
             Has(todo', p) <=> Has(todo, p)
  <2>1. BeforeChoice'
    BY <1>0, <1>3 DEF RowsInv, BeforeChoice
  <2>2. AfterChoice'
    BY <1>0, <1>3 DEF RowsInv, AfterChoice
  <2>3. NothingForgotten'
    BY <1>0, <1>3 DEF RowsInv, NothingForgotten
  <2> QED
    BY <1>1, <2>1, <2>2, <2>3 DEF RowsInv
<1> QED
  BY <1>2, <1>3, PlacesKept

\* A listing tells of nothing that is not installed, and when it is good of all that may be shown.
LEMMA ListKeepsRows ==
  ASSUME AdapterKnown, Ordered(manager, todo), Ordinary, RowsInv,
         Discovery!List \/ Discovery!Receipts
  PROVE  RowsInv'
<1>0. /\ UNCHANGED <<manager, op, trait, stopped>> /\ KeptPairs' = KeptPairs
      /\ UNCHANGED <<machine, kept, outdated, jobs, rows>>
  BY DEF Ordinary, KeptPairs, Discovery!Pairs, Discovery!List, Discovery!Receipts, Discovery!installation
<1>1. /\ Head(todo) \in {"list", "receipts"} /\ manager # "go" /\ Has(todo, "choose")
      /\ result = "running" /\ rows = {} /\ result' # "rows"
  <2>1. Head(todo) \in {"list", "receipts"} /\ result = "running" /\ result' # "rows"
    BY DEF Discovery!List, Discovery!Receipts, Discovery!At, Discovery!Pass, Discovery!Ended, Discovery!End
  <2>2. manager # "go" /\ Has(todo, "choose")
    BY <2>1 DEF Ordered, Fits, Early
  <2> QED
    BY <2>1, <2>2 DEF RowsInv, BeforeChoice
<1>2. /\ Ordered(manager, Tail(todo)) /\ ~Has(Tail(todo), "bin_dir") /\ ~Has(todo, "bin_dir")
      /\ Has(Tail(todo), "choose")
  <2>1. Head(todo) \notin Final /\ Head(todo) # "choose" /\ ~MayPrecede(Head(todo), "bin_dir")
    BY <1>1 DEF Final, MayPrecede
  <2>2. ~Has(todo, "bin_dir")
    BY <1>1 DEF Ordered, Fits, Has
  <2> QED
    BY <1>1, <2>1, <2>2, RestOrdered
<1>3. ASSUME todo' = <<"receipts">> \o Tail(todo), manager = "uv"
      PROVE  \A p : Has(todo', p) <=> p = "receipts" \/ Has(Tail(todo), p)
  <2>1. Fits(manager, "receipts") /\ "receipts" \in Early \ {"bin_dir"}
    BY <1>3 DEF Fits, Early
  <2> QED
    BY <1>2, <1>3, <2>1, OneMoreOrdered
<1>4. Has(todo', "choose") /\ ~Has(todo', "bin_dir")
  <2>1. todo' = todo \/ todo' = Tail(todo) \/ (manager = "uv" /\ todo' = <<"receipts">> \o Tail(todo))
    BY DEF Discovery!List, Discovery!Receipts, Discovery!Pass, Discovery!Ended, Discovery!End
  <2> QED
    BY <1>1, <1>2, <1>3, <2>1
<1>5. /\ listed' \subseteq Discovery!Installed
      /\ result' = "running" /\ honest' /\ ~Has(todo', "list") /\ ~Has(todo', "receipts") =>
           KeptPairs \subseteq listed'
  <2>1. KeptPairs \subseteq Discovery!Visible /\ Discovery!Visible \subseteq Discovery!Installed
    BY InstalledOnce DEF RowsInv
  <2>2. CASE Discovery!List
    <3>1. PICK r \in Discovery!Replies :
            /\ \/ Discovery!Listing(r).end # "ok" /\ Discovery!Ended(Discovery!Listing(r).end)
               \/ Discovery!Listing(r).end = "ok" /\ manager = "uv" /\ todo' = <<"receipts">> \o Tail(todo)
               \/ Discovery!Listing(r).end = "ok" /\ Discovery!Pass
            /\ listed' = Discovery!Listing(r).shown
            /\ honest' = (honest /\ r.body = "good")
      BY <2>2 DEF Discovery!List
    <3>2. CASE Discovery!Listing(r).end # "ok" /\ Discovery!Ended(Discovery!Listing(r).end)
      BY <1>1, <3>1, <3>2, ListingReads DEF Discovery!Ended, Discovery!End
    <3>3. CASE manager = "uv" /\ todo' = <<"receipts">> \o Tail(todo)
      BY <1>1, <1>3, <3>1, <3>3, ListingReads
    <3>4. CASE Discovery!Listing(r).end = "ok"
      <4>1. honest' => Discovery!Visible \subseteq listed'
        <5>1. honest' => r.body = "good"
          BY <3>1
        <5> QED
          BY <1>1, <3>1, <3>4, <5>1, ListingReads
      <4>2. listed' \subseteq Discovery!Installed
        BY <1>1, <3>1, ListingReads
      <4> QED
        BY <2>1, <4>1, <4>2
    <3> QED
      BY <3>1, <3>2, <3>3, <3>4
  <2>3. CASE Discovery!Receipts
    <3>1. /\ listed' \in {{}, Discovery!Installed}
          /\ result' = "running" => listed' = Discovery!Installed
      BY <1>1, <2>3 DEF Discovery!Receipts, Discovery!Replies, Discovery!After, Discovery!Success, Discovery!Refused,
                  Discovery!Interrupted, Discovery!Read, Discovery!Ended, Discovery!End, Discovery!Pass
    <3> QED
      BY <2>1, <3>1
  <2> QED
    BY <2>2, <2>3
<1>6. UniqueIn(manager, listed') /\ listed' \subseteq Discovery!Pairs
  BY <1>5, InstalledOnce, UniqueInPart DEF RowsInv
<1>7. RowTypes' /\ Machine' /\ OnceInEach'
  BY <1>0, <1>6 DEF RowsInv, RowTypes, Machine, OnceInEach, Discovery!Pairs
<1>8. BeforeChoice' /\ AfterChoice'
  BY <1>0, <1>1, <1>4 DEF BeforeChoice, AfterChoice
<1>9. NothingForgotten'
  BY <1>0, <1>1, <1>4, <1>5, CoversAll DEF NothingForgotten
<1> QED
  BY <1>7, <1>8, <1>9 DEF RowsInv

\* The smallest of a set of tools, which is read next.
LEMMA FirstIsOne ==
  ASSUME CallsAssumption, NEW S \in SUBSET (Tools \X (Versions \cup {0})), S # {}
  PROVE  Discovery!FirstOf(S) \in S
<1>1. {p[1] : p \in S} \subseteq Nat /\ {p[1] : p \in S} # {}
  BY DEF CallsAssumption, Discovery!DiscoveryAssumption
<1>2. PICK n \in {p[1] : p \in S} : \A k \in {p[1] : p \in S} : ~(<<k, n>> \in OpToRel(<, Nat))
  BY <1>1, NatLessThanWellFounded, WFMin
<1>3. PICK p \in S : n = p[1]
  OBVIOUS
<1>4. \A q \in S : p[1] <= q[1]
  <2> SUFFICES ASSUME NEW q \in S, q[1] < p[1] PROVE FALSE
    BY <1>1
  <2> QED
    BY <1>1, <1>2, <1>3 DEF OpToRel
<1> QED
  BY <1>4 DEF Discovery!FirstOf

\* go reads a binary and then has its row, or the tool in it among those listed.
LEMMA BinariesKeepRows ==
  ASSUME CallsAssumption, AdapterKnown, Ordered(manager, todo), Ordinary, RowsInv,
         Discovery!BinDir \/ Discovery!Binary \/ Discovery!BinariesRead
  PROVE  RowsInv'
<1>0. /\ UNCHANGED <<manager, op, trait, stopped>> /\ KeptPairs' = KeptPairs
      /\ UNCHANGED <<machine, kept, outdated, honest>>
      /\ result = "running" /\ result' # "rows"
  BY DEF Ordinary, KeptPairs, Discovery!Pairs, Discovery!BinDir, Discovery!Binary, Discovery!BinariesRead,
         Discovery!installation, Discovery!Pass, Discovery!End
<1>1. /\ Head(todo) \in {"bin_dir", "binaries"} /\ manager = "go" /\ Has(todo, "choose")
      /\ Has(todo, Head(todo)) /\ (Head(todo) = "binaries" => ~Has(todo, "bin_dir"))
  <2>1. Head(todo) \in {"bin_dir", "binaries"}
    BY DEF Discovery!BinDir, Discovery!Binary, Discovery!BinariesRead, Discovery!At
  <2>2. manager = "go" /\ Has(todo, "choose") /\ Has(todo, Head(todo))
    BY <2>1 DEF Ordered, Fits, Early, Has
  <2>3. Head(todo) = "binaries" => ~Has(todo, "bin_dir")
    <3>1. Head(todo) = "binaries" => ~MayPrecede(Head(todo), "bin_dir") /\ Head(todo) \notin Final
      BY DEF MayPrecede, Final
    <3>2. Head(todo) = "binaries" => "bin_dir" # Head(todo)
      OBVIOUS
    <3> QED
      BY <3>1, <3>2, RestOrdered
  <2> QED
    BY <2>1, <2>2, <2>3
<1>2. todo' = Tail(todo) => /\ Has(todo', "choose") /\ ~Has(todo', "bin_dir")
                            /\ Head(todo) = "bin_dir" => Has(todo', "binaries")
  <2>1. Head(todo) \notin Final /\ Head(todo) # "choose" /\ ~MayPrecede(Head(todo), "bin_dir")
    BY <1>1 DEF Final, MayPrecede
  <2>2. Head(todo) = "bin_dir" => Has(todo, "binaries")
    BY <1>1 DEF Ordered
  <2> QED
    BY <1>1, <2>1, <2>2, RestOrdered
<1>3. /\ outdated = {} /\ Apart(manager, PairsOf(rows), listed)
      /\ Apart(manager, PairsOf(rows), jobs) /\ Apart(manager, listed, jobs)
      /\ Has(todo, "bin_dir") => rows = {} /\ listed = {}
  BY <1>0, <1>1 DEF RowsInv, BeforeChoice
<1>4. /\ UniqueIn(manager, Discovery!Installed) /\ KeptPairs \subseteq Discovery!Installed
      /\ Discovery!Installed \subseteq Discovery!Pairs
  BY InstalledOnce DEF RowsInv
<1>5. CASE Discovery!BinDir
  <2>1. /\ jobs' = Discovery!Installed /\ UNCHANGED <<listed, rows>> /\ Head(todo) = "bin_dir"
        /\ result' = "running" => todo' = Tail(todo)
    BY <1>5 DEF Discovery!BinDir, Discovery!At, Discovery!Pass, Discovery!End
  <2>2. rows = {} /\ listed = {}
    BY <1>1, <1>3, <2>1
  <2>3. RowTypes'
    BY <1>0, <1>4, <2>1 DEF RowsInv, RowTypes, Discovery!Pairs
  <2>4. Machine' /\ OnceInEach'
    BY <1>0, <1>4, <2>1, <2>2 DEF RowsInv, Machine, OnceInEach
  <2>5. Apart(manager, PairsOf({}), jobs') /\ Apart(manager, {}, jobs') /\ Apart(manager, PairsOf({}), {})
    BY DEF Apart, PairsOf
  <2>6. BeforeChoice' /\ AfterChoice'
    BY <1>0, <1>1, <1>2, <1>3, <2>1, <2>2, <2>5 DEF BeforeChoice, AfterChoice
  <2>7. NothingForgotten'
    BY <1>0, <1>1, <1>2, <1>4, <2>1, CoversAll DEF NothingForgotten
  <2> QED
    BY <2>3, <2>4, <2>6, <2>7 DEF RowsInv
<1>6. CASE Discovery!BinariesRead
  <2>1. jobs = {} /\ todo' = Tail(todo) /\ UNCHANGED <<listed, rows, jobs>>
    BY <1>6 DEF Discovery!BinariesRead, Discovery!Pass
  <2>2. RowTypes' /\ Machine' /\ OnceInEach'
    BY <1>0, <2>1 DEF RowsInv, RowTypes, Machine, OnceInEach, Discovery!Pairs
  <2>3. BeforeChoice' /\ AfterChoice'
    BY <1>0, <1>1, <1>2, <1>3, <2>1 DEF BeforeChoice, AfterChoice
  <2>4. Head(todo) = "binaries"
    BY <1>6 DEF Discovery!BinariesRead, Discovery!At
  <2>5. NothingForgotten'
    BY <1>0, <1>1, <1>2, <2>1, <2>4 DEF RowsInv, NothingForgotten
  <2> QED
    BY <2>2, <2>3, <2>5 DEF RowsInv
<1>7. CASE Discovery!Binary
  <2> DEFINE p == Discovery!FirstOf(jobs)
  <2>1. /\ jobs # {} /\ Head(todo) = "binaries" /\ todo' = todo
        /\ \/ result' = "failed" /\ UNCHANGED <<listed, jobs, rows>>
           \/ /\ jobs' = jobs \ {p} /\ rows' = rows /\ listed' = listed \cup Discovery!Now(p)
              /\ Discovery!Now(p) # {}
           \/ /\ jobs' = jobs \ {p} /\ listed' = listed
              /\ rows' = rows \cup {Discovery!Row(<<p[1], 0>>, "skipped")}
    BY <1>7 DEF Discovery!Binary, Discovery!At, Discovery!End
  <2>2. p \in jobs
    BY <2>1, FirstIsOne DEF RowsInv, RowTypes
  <2> HIDE DEF p
  <2>3. ~Has(todo, "bin_dir") /\ Has(todo, "binaries")
    BY <1>1, <2>1
  <2>4. CASE result' = "failed" /\ UNCHANGED <<listed, jobs, rows>>
    <3>1. RowTypes' /\ Machine' /\ OnceInEach'
      BY <1>0, <2>4 DEF RowsInv, RowTypes, Machine, OnceInEach, Discovery!Pairs
    <3>2. BeforeChoice' /\ AfterChoice' /\ NothingForgotten'
      BY <1>0, <2>4 DEF BeforeChoice, AfterChoice, NothingForgotten
    <3> QED
      BY <3>1, <3>2 DEF RowsInv
  <2>5. /\ \A q \in PairsOf(rows) : q[1] # p[1]
        /\ \A q \in listed : q[1] # p[1]
        /\ \A q \in jobs : q[1] = p[1] => q = p
        /\ p \in Tools \X (Versions \cup {0}) /\ p[1] \in Tools
    BY <1>1, <1>3, <2>2 DEF Apart, Alike, UniqueIn, RowsInv, RowTypes, OnceInEach
  <2>6. CASE /\ jobs' = jobs \ {p} /\ rows' = rows /\ listed' = listed \cup Discovery!Now(p)
             /\ Discovery!Now(p) # {}
    <3>1. /\ Discovery!Now(p) \subseteq Discovery!Installed /\ \A q \in Discovery!Now(p) : q[1] = p[1]
      BY DEF Discovery!Now
    <3>2. UniqueIn(manager, listed') /\ UniqueIn(manager, jobs')
      BY <1>1, <1>4, <2>5, <2>6, <3>1 DEF UniqueIn, Alike, RowsInv, OnceInEach
    <3>3. /\ Apart(manager, PairsOf(rows'), listed') /\ Apart(manager, PairsOf(rows'), jobs')
          /\ Apart(manager, listed', jobs')
      BY <1>1, <1>3, <2>5, <2>6, <3>1 DEF Apart, Alike
    <3>4. ASSUME Covers(manager, listed \cup PairsOf(rows) \cup jobs, KeptPairs)
          PROVE  Covers(manager, listed' \cup PairsOf(rows') \cup jobs', KeptPairs)
      <4>1. PICK w \in Discovery!Now(p) : w[1] = p[1]
        BY <2>6, <3>1
      <4>2. ASSUME NEW k \in KeptPairs
            PROVE  \E q \in listed' \cup PairsOf(rows') \cup jobs' : Alike(manager, k, q)
        <5>1. PICK q \in listed \cup PairsOf(rows) \cup jobs : Alike(manager, k, q)
          BY <3>4 DEF Covers
        <5>2. CASE q = p
          BY <1>1, <2>6, <4>1, <5>1, <5>2 DEF Alike
        <5>3. CASE q # p
          BY <2>6, <5>1, <5>3
        <5> QED
          BY <5>2, <5>3
      <4> QED
        BY <4>2 DEF Covers
    <3>5. RowTypes'
      BY <1>0, <1>4, <2>6, <3>1 DEF RowsInv, RowTypes, Discovery!Pairs
    <3>6. Machine' /\ OnceInEach'
      BY <1>0, <2>6, <3>2 DEF RowsInv, Machine, OnceInEach
    <3>7. BeforeChoice' /\ AfterChoice'
      BY <1>0, <1>1, <1>3, <2>1, <2>3, <3>3 DEF BeforeChoice, AfterChoice
    <3>8. NothingForgotten'
      BY <1>0, <1>1, <2>1, <2>3, <3>4 DEF RowsInv, NothingForgotten
    <3> QED
      BY <3>5, <3>6, <3>7, <3>8 DEF RowsInv
  <2>7. CASE /\ jobs' = jobs \ {p} /\ listed' = listed
             /\ rows' = rows \cup {Discovery!Row(<<p[1], 0>>, "skipped")}
    <3> DEFINE new == Discovery!Row(<<p[1], 0>>, "skipped")
    <3>1. /\ PairOf(new) = <<p[1], 0>> /\ PairsOf(rows') = PairsOf(rows) \cup {<<p[1], 0>>}
          /\ new \in [tool : Tools, version : Versions \cup {0}, kind : Kinds]
      <4>1. new = [tool |-> p[1], version |-> 0, kind |-> "skipped"]
        BY DEF Discovery!Row
      <4>2. rows' = rows \cup {new}
        BY <2>7
      <4>3. new \in [tool : Tools, version : Versions \cup {0}, kind : Kinds]
        BY <2>5, <4>1 DEF Kinds
      <4>4. PairOf(new) = <<p[1], 0>>
        BY <4>1 DEF PairOf
      <4> HIDE DEF new
      <4>5. PairsOf(rows') = PairsOf(rows) \cup {<<p[1], 0>>}
        BY <4>2, <4>4 DEF PairsOf
      <4> QED
        BY <4>3, <4>4, <4>5
    <3> HIDE DEF new
    <3>2. UniqueIn(manager, jobs')
      BY <2>7 DEF UniqueIn, RowsInv, OnceInEach
    <3>3. \A r, s \in rows' : Alike(manager, PairOf(r), PairOf(s)) => r = s
      <4>1. \A r \in rows : PairOf(r)[1] # p[1]
        BY <2>5 DEF PairsOf
      <4>2. \A r \in rows' : r \in rows \/ r = new
        BY <2>7 DEF new
      <4> QED
        BY <1>1, <3>1, <4>1, <4>2 DEF Alike, RowsInv, OnceInEach
    <3>4. /\ Apart(manager, PairsOf(rows'), listed') /\ Apart(manager, PairsOf(rows'), jobs')
          /\ Apart(manager, listed', jobs')
      BY <1>1, <1>3, <2>5, <2>7, <3>1 DEF Apart, Alike
    <3>5. ASSUME Covers(manager, listed \cup PairsOf(rows) \cup jobs, KeptPairs)
          PROVE  Covers(manager, listed' \cup PairsOf(rows') \cup jobs', KeptPairs)
      <4>1. ASSUME NEW k \in KeptPairs
            PROVE  \E q \in listed' \cup PairsOf(rows') \cup jobs' : Alike(manager, k, q)
        <5>1. PICK q \in listed \cup PairsOf(rows) \cup jobs : Alike(manager, k, q)
          BY <3>5 DEF Covers
        <5>2. CASE q = p
          BY <1>1, <3>1, <5>1, <5>2 DEF Alike
        <5>3. CASE q # p
          BY <2>7, <3>1, <5>1, <5>3
        <5> QED
          BY <5>2, <5>3
      <4> QED
        BY <4>1 DEF Covers
    <3>6. RowTypes'
      BY <1>0, <2>7, <3>1 DEF RowsInv, RowTypes, Discovery!Pairs, new
    <3>7. Machine' /\ OnceInEach'
      BY <1>0, <2>7, <3>2, <3>3 DEF RowsInv, Machine, OnceInEach
    <3>8. BeforeChoice' /\ AfterChoice'
      BY <1>0, <1>1, <1>3, <2>1, <2>3, <3>4 DEF BeforeChoice, AfterChoice
    <3>9. NothingForgotten'
      BY <1>0, <1>1, <2>1, <2>3, <3>5 DEF RowsInv, NothingForgotten
    <3> QED
      BY <3>6, <3>7, <3>8, <3>9 DEF RowsInv
  <2> QED
    BY <2>1, <2>4, <2>6, <2>7
<1> QED
  BY <1>5, <1>6, <1>7

\* What is looked up and what is current: every tool listed, and none twice.
LEMMA SortedApart ==
  ASSUME RowTypes, OnceInEach,
         manager = "go" => outdated = {}
  PROVE  /\ Discovery!Chosen \subseteq Tools \X (Versions \cup {0})
         /\ Discovery!Current \subseteq listed
         /\ UniqueIn(manager, Discovery!Chosen)
         /\ Apart(manager, Discovery!Current, Discovery!Chosen)
         /\ manager = "go" => Discovery!Chosen \subseteq listed
         /\ \A p \in listed : trait[p[1]] # "hidden" =>
              \E q \in Discovery!Current \cup Discovery!Chosen : Alike(manager, p, q)
<1>1. Discovery!Chosen \subseteq listed \/ (Discovery!Chosen \subseteq outdated /\ manager # "go")
  BY DEF Discovery!Chosen
<1>2. Discovery!Current \subseteq listed
  BY DEF Discovery!Current
<1>3. UniqueIn(manager, Discovery!Chosen)
  BY <1>1, UniqueInPart DEF OnceInEach
<1>4. Discovery!Chosen \subseteq Tools \X (Versions \cup {0})
  BY <1>1 DEF RowTypes, Discovery!Pairs
<1>5. Apart(manager, Discovery!Current, Discovery!Chosen)
  BY IdsAndLikes DEF Apart, Discovery!Current
<1>6. ASSUME NEW p \in listed, trait[p[1]] # "hidden"
      PROVE  \E q \in Discovery!Current \cup Discovery!Chosen : Alike(manager, p, q)
  <2>1. p \in listed \ Discovery!Defaults(listed)
    BY <1>6 DEF Discovery!Defaults
  <2>2. CASE p \in Discovery!Current
    BY <2>2, IdsAndLikes
  <2>3. CASE p \notin Discovery!Current
    <3>1. PICK q \in Discovery!Chosen : Discovery!IdOf(p) = Discovery!IdOf(q)
      BY <2>1, <2>3 DEF Discovery!Current
    <3> QED
      BY <3>1, IdsAndLikes
  <2> QED
    BY <2>2, <2>3
<1> QED
  BY <1>1, <1>2, <1>3, <1>4, <1>5, <1>6

\* Rows made of pairs of one list are those pairs.
LEMMA RowsOfPairs ==
  ASSUME NEW S \in SUBSET (Tools \X (Versions \cup {0})), NEW kind \in Kinds
  PROVE  /\ PairsOf({Discovery!Row(p, kind) : p \in S}) = S
         /\ {Discovery!Row(p, kind) : p \in S} \subseteq
              [tool : Tools, version : Versions \cup {0}, kind : Kinds]
         /\ \A p, q \in S : PairOf(Discovery!Row(p, kind)) = p
<1>1. \A p \in S : /\ p = <<p[1], p[2]>> /\ p[1] \in Tools /\ p[2] \in Versions \cup {0}
                   /\ Discovery!Row(p, kind) = [tool |-> p[1], version |-> p[2], kind |-> kind]
  BY DEF Discovery!Row
<1>2. \A p \in S : PairOf(Discovery!Row(p, kind)) = p
  BY <1>1 DEF PairOf
<1>3. \A p \in S : Discovery!Row(p, kind) \in [tool : Tools, version : Versions \cup {0}, kind : Kinds]
  BY <1>1
<1>4. PairsOf({Discovery!Row(p, kind) : p \in S}) = S
  BY <1>2 DEF PairsOf
<1> QED
  BY <1>2, <1>3, <1>4

LEMMA PairsOfBoth ==
  ASSUME NEW S, NEW T PROVE PairsOf(S \cup T) = PairsOf(S) \cup PairsOf(T)
BY DEF PairsOf

LEMMA ChooseKeepsRows ==
  ASSUME AdapterKnown, Ordered(manager, todo), Ordinary, RowsInv, Discovery!Choose
  PROVE  RowsInv'
<1> DEFINE C == Discovery!Current
           new == {Discovery!Row(p, "current") : p \in C}
<1>0. /\ UNCHANGED <<manager, op, trait, stopped>> /\ KeptPairs' = KeptPairs
      /\ UNCHANGED <<machine, kept, listed, outdated, honest>>
      /\ result = "running" /\ Head(todo) = "choose"
      /\ jobs' = Discovery!Chosen /\ rows' = rows \cup new
      /\ \/ Discovery!Chosen = {} /\ result' = "rows"
         \/ result' = "running" /\ todo' = Tail(todo)
  BY DEF Ordinary, KeptPairs, Discovery!Pairs, Discovery!Choose, Discovery!installation, Discovery!At,
         Discovery!Pass, Discovery!End
<1>1. /\ Has(todo, "choose") /\ ~Has(Tail(todo), "choose")
      /\ \A p \in {"list", "receipts", "bin_dir", "binaries"} : ~Has(todo, p)
  <2>1. Has(todo, "choose")
    BY <1>0 DEF Ordered, Has
  <2>2. Head(todo) \notin Final /\ \A p \in {"choose"} \cup Early : ~MayPrecede(Head(todo), p)
    BY <1>0 DEF Final, MayPrecede, Early, Anywhere
  <2>3. \A p \in {"choose"} \cup Early : ~Has(Tail(todo), p)
    BY <2>2, RestOrdered
  <2>4. \A p \in {"list", "receipts", "bin_dir", "binaries"} : p # Head(todo) /\ p \in Early
    BY <1>0 DEF Early
  <2> QED
    BY <2>1, <2>2, <2>3, <2>4, RestOrdered
<1>2. /\ manager # "go" => rows = {}
      /\ manager = "go" => outdated = {} /\ jobs = {} /\ Apart(manager, PairsOf(rows), listed)
  BY <1>0, <1>1 DEF RowsInv, BeforeChoice
<1>3. /\ Discovery!Chosen \subseteq Tools \X (Versions \cup {0})
      /\ C \subseteq listed
      /\ UniqueIn(manager, Discovery!Chosen)
      /\ Apart(manager, C, Discovery!Chosen)
      /\ manager = "go" => Discovery!Chosen \subseteq listed
      /\ \A p \in listed : trait[p[1]] # "hidden" =>
           \E q \in C \cup Discovery!Chosen : Alike(manager, p, q)
  BY <1>2, SortedApart DEF RowsInv
<1>4. /\ PairsOf(new) = C
      /\ new \subseteq [tool : Tools, version : Versions \cup {0}, kind : Kinds]
      /\ \A p \in C : PairOf(Discovery!Row(p, "current")) = p
  <2>1. C \in SUBSET (Tools \X (Versions \cup {0})) /\ "current" \in Kinds
    BY <1>3 DEF RowsInv, RowTypes, Discovery!Pairs, Kinds
  <2> QED
    BY <2>1, RowsOfPairs
<1>5. \A r, s \in new : Alike(manager, PairOf(r), PairOf(s)) => r = s
  <2> SUFFICES ASSUME NEW r \in new, NEW s \in new, Alike(manager, PairOf(r), PairOf(s)) PROVE r = s
    OBVIOUS
  <2>1. PICK p \in C : r = Discovery!Row(p, "current")
    OBVIOUS
  <2>2. PICK q \in C : s = Discovery!Row(q, "current")
    OBVIOUS
  <2>3. p = q
    BY <1>3, <1>4, <2>1, <2>2 DEF UniqueIn, RowsInv, OnceInEach
  <2> QED
    BY <2>1, <2>2, <2>3
<1> HIDE DEF new, C
<1>6. PairsOf(rows') = PairsOf(rows) \cup C
  BY <1>0, <1>4, PairsOfBoth
<1>7. /\ \A r \in rows : PairOf(r) \in PairsOf(rows)
      /\ \A r \in new : PairOf(r) \in C
  BY <1>4 DEF PairsOf
<1>8. Apart(manager, PairsOf(rows), C)
  BY <1>2, <1>3 DEF Apart, PairsOf
<1>9. \A r, s \in rows' : Alike(manager, PairOf(r), PairOf(s)) => r = s
  <2>1. \A r \in rows, s \in new : ~Alike(manager, PairOf(r), PairOf(s)) /\ ~Alike(manager, PairOf(s), PairOf(r))
    BY <1>7, <1>8 DEF Apart, Alike
  <2> QED
    BY <1>0, <1>5, <2>1 DEF RowsInv, OnceInEach
<1>10. Apart(manager, PairsOf(rows'), jobs')
  <2>1. Apart(manager, PairsOf(rows), Discovery!Chosen)
    BY <1>2, <1>3 DEF Apart, PairsOf
  <2> QED
    BY <1>0, <1>3, <1>6, <2>1 DEF Apart
<1>11. ASSUME honest, op # "lookup"
       PROVE  Covers(manager, PairsOf(rows') \cup jobs', KeptPairs)
  <2>1. Covers(manager, listed \cup PairsOf(rows), KeptPairs)
    <3>1. CASE manager # "go"
      <4>1. Covers(manager, listed, KeptPairs)
        BY <1>0, <1>1, <1>11, <3>1 DEF RowsInv, NothingForgotten
      <4> QED
        BY <4>1 DEF Covers
    <3>2. CASE manager = "go"
      <4>1. Covers(manager, listed \cup PairsOf(rows) \cup jobs, KeptPairs)
        BY <1>0, <1>1, <1>11, <3>2 DEF RowsInv, NothingForgotten
      <4> QED
        BY <1>2, <3>2, <4>1
    <3> QED
      BY <3>1, <3>2
  <2>2. ASSUME NEW k \in KeptPairs
        PROVE  \E q \in PairsOf(rows') \cup jobs' : Alike(manager, k, q)
    <3>1. PICK p \in listed \cup PairsOf(rows) : Alike(manager, k, p)
      BY <2>1 DEF Covers
    <3>2. CASE p \in PairsOf(rows)
      BY <1>6, <3>1, <3>2
    <3>3. CASE p \in listed
      <4>1. trait[p[1]] # "hidden"
        BY <3>1 DEF KeptPairs, Alike
      <4>2. PICK q \in C \cup Discovery!Chosen : Alike(manager, p, q)
        BY <1>3, <3>3, <4>1
      <4>3. Alike(manager, k, q)
        BY <3>1, <4>2 DEF Alike
      <4> QED
        BY <1>0, <1>6, <4>2, <4>3
    <3> QED
      BY <3>1, <3>2, <3>3
  <2> QED
    BY <2>2 DEF Covers
<1>12. RowTypes'
  BY <1>0, <1>3, <1>4 DEF RowsInv, RowTypes, Discovery!Pairs
<1>13. Machine' /\ OnceInEach'
  BY <1>0, <1>3, <1>9 DEF RowsInv, Machine, OnceInEach
<1>14. BeforeChoice' /\ AfterChoice'
  BY <1>0, <1>1, <1>10 DEF BeforeChoice, AfterChoice
<1>15. NothingForgotten'
  <2>1. CASE Discovery!Chosen = {} /\ result' = "rows"
    <3>1. jobs' = {}
      BY <1>0, <2>1
    <3>2. honest' /\ op' # "lookup" => Covers(manager, PairsOf(rows'), KeptPairs)
      BY <1>0, <1>11, <3>1
    <3> QED
      BY <1>0, <2>1, <3>2 DEF NothingForgotten
  <2>2. CASE result' = "running" /\ todo' = Tail(todo)
    BY <1>0, <1>1, <1>11, <2>2 DEF NothingForgotten
  <2> QED
    BY <1>0, <2>1, <2>2
<1> QED
  BY <1>12, <1>13, <1>14, <1>15 DEF RowsInv

\* The rows without a preview are what the listing shows.
LEMMA FallbackKeepsRows ==
  ASSUME AdapterKnown, Ordered(manager, todo), Ordinary, RowsInv, Discovery!Fallback
  PROVE  RowsInv'
<1>0. /\ UNCHANGED <<manager, op, trait, stopped>> /\ KeptPairs' = KeptPairs
      /\ UNCHANGED <<machine, kept, listed, outdated, jobs, honest>>
  BY DEF Ordinary, KeptPairs, Discovery!Pairs, Discovery!Fallback, Discovery!installation
<1>1. manager = "mise" /\ result' # "running"
  <2>1. Head(todo) = "fallback"
    BY DEF Discovery!Fallback, Discovery!At
  <2>2. manager = "mise"
    BY <2>1 DEF Ordered, Fits
  <2> QED
    BY <2>2 DEF Discovery!Fallback, Discovery!End, Discovery!Ended
<1>2. PICK r \in Discovery!Replies :
        /\ rows' = {Discovery!Row(p, "resolver_error") : p \in Discovery!MiseList(r).shown}
        /\ result' = "rows" => Discovery!MiseList(r).end = "ok"
  BY DEF Discovery!Fallback, Discovery!End, Discovery!Ended
<1> DEFINE S == Discovery!MiseList(r).shown
<1>3. S \in {{}, Discovery!Visible} /\ (result' = "rows" => S = Discovery!Visible)
  BY <1>2 DEF Discovery!MiseList, Discovery!MiseInstalled, Discovery!Json, Discovery!After, Discovery!Success,
              Discovery!Read, Discovery!Refused, Discovery!Interrupted
<1> HIDE DEF S
<1>4. KeptPairs \subseteq Discovery!Visible /\ S \in SUBSET (Tools \X (Versions \cup {0}))
  BY <1>3, InstalledOnce DEF RowsInv, Discovery!Pairs
<1>5. /\ PairsOf(rows') = S
      /\ rows' \subseteq [tool : Tools, version : Versions \cup {0}, kind : Kinds]
      /\ \A p \in S : PairOf(Discovery!Row(p, "resolver_error")) = p
  <2>1. "resolver_error" \in Kinds /\ rows' = {Discovery!Row(p, "resolver_error") : p \in S}
    BY <1>2 DEF Kinds, S
  <2> QED
    BY <1>4, <2>1, RowsOfPairs
<1>6. \A a, b \in rows' : Alike(manager, PairOf(a), PairOf(b)) => a = b
  <2> SUFFICES ASSUME NEW a \in rows', NEW b \in rows', PairOf(a) = PairOf(b) PROVE a = b
    BY <1>1 DEF Alike
  <2>1. PICK p \in S : a = Discovery!Row(p, "resolver_error")
    BY <1>2 DEF S
  <2>2. PICK q \in S : b = Discovery!Row(q, "resolver_error")
    BY <1>2 DEF S
  <2> QED
    BY <1>5, <2>1, <2>2
<1>7. RowTypes'
  BY <1>0, <1>5 DEF RowsInv, RowTypes, Discovery!Pairs
<1>8. Machine' /\ OnceInEach'
  BY <1>0, <1>6 DEF RowsInv, Machine, OnceInEach
<1>9. BeforeChoice' /\ AfterChoice'
  BY <1>1 DEF BeforeChoice, AfterChoice
<1>10. NothingForgotten'
  BY <1>0, <1>1, <1>3, <1>4, <1>5, CoversAll DEF NothingForgotten
<1> QED
  BY <1>7, <1>8, <1>9, <1>10 DEF RowsInv

\* The last phase is the only one left.
LEMMA AtTheEnd ==
  ASSUME NEW m, NEW s, Ordered(m, s), Head(s) \in Final
  PROVE  \A p : Has(s, p) <=> p = Head(s)
<1>1. s \in Seq(PhaseNames) /\ s # <<>> /\ Head(s) = s[1] /\ Len(s) \in Nat /\ Len(s) > 0
  BY DEF Ordered
<1>2. ~(Len(s) > 1)
  <2> SUFFICES ASSUME Len(s) > 1 PROVE FALSE
    OBVIOUS
  <2>1. 1 \in 1..Len(s) /\ 2 \in 1..Len(s) /\ 1 < 2
    BY <1>1
  <2>2. MayPrecede(s[1], s[2])
    BY <2>1 DEF Ordered
  <2> QED
    BY <1>1, <2>2 DEF MayPrecede
<1> QED
  BY <1>1, <1>2 DEF Has

\* A job that is answered becomes the row of its tool.
LEMMA JobKeepsRows ==
  ASSUME AdapterKnown, Ordered(manager, todo), RowsInv, NEW p \in jobs, Discovery!Job(p)
  PROVE  RowsInv'
<1>0. /\ UNCHANGED <<manager, op, trait, todo, result>> /\ KeptPairs' = KeptPairs
      /\ UNCHANGED <<machine, kept, listed, outdated, honest>>
      /\ result = "running" /\ Head(todo) \in {"jobs", "blind_jobs"}
  BY DEF KeptPairs, Discovery!Pairs, Discovery!Job, Discovery!installation, Discovery!inputs, Discovery!InJobs,
         Discovery!At
<1>1. ~Has(todo, "choose") /\ ~Has(todo, "fallback")
  BY <1>0, AtTheEnd DEF Final
<1>2. Apart(manager, PairsOf(rows), jobs)
  BY <1>0, <1>1 DEF RowsInv, AfterChoice
<1>3. p \in Tools \X (Versions \cup {0})
  BY DEF RowsInv, RowTypes
<1>4. CASE stopped' = TRUE /\ jobs' \subseteq jobs /\ rows' = rows
  <2>1. RowTypes'
    BY <1>0, <1>4 DEF RowsInv, RowTypes, Discovery!Pairs
  <2>2. Machine' /\ OnceInEach'
    BY <1>0, <1>4, UniqueInPart DEF RowsInv, Machine, OnceInEach
  <2>3. BeforeChoice' /\ AfterChoice'
    BY <1>0, <1>1, <1>2, <1>4 DEF BeforeChoice, AfterChoice, Apart
  <2>4. NothingForgotten'
    BY <1>0, <1>1, <1>4 DEF NothingForgotten
  <2> QED
    BY <2>1, <2>2, <2>3, <2>4 DEF RowsInv
<1>5. ASSUME NEW kind \in Kinds, stopped' = stopped, jobs' = jobs \ {p},
             rows' = rows \cup {Discovery!Row(p, kind)}
      PROVE  RowsInv'
  <2> DEFINE new == {Discovery!Row(q, kind) : q \in {p}}
  <2>1. /\ PairsOf(new) = {p} /\ PairOf(Discovery!Row(p, kind)) = p
        /\ new \subseteq [tool : Tools, version : Versions \cup {0}, kind : Kinds]
    BY <1>3, RowsOfPairs
  <2>2. rows' = rows \cup new /\ new = {Discovery!Row(p, kind)}
    BY <1>5
  <2> HIDE DEF new
  <2>3. PairsOf(rows') = PairsOf(rows) \cup {p}
    BY <2>1, <2>2, PairsOfBoth
  <2>4. \A r \in rows : PairOf(r) \in PairsOf(rows)
    BY DEF PairsOf
  <2>5. \A r, s \in rows' : Alike(manager, PairOf(r), PairOf(s)) => r = s
    <3>1. \A r \in rows : ~Alike(manager, PairOf(r), p) /\ ~Alike(manager, p, PairOf(r))
      BY <1>2, <2>4 DEF Apart, Alike
    <3> QED
      BY <2>1, <2>2, <3>1 DEF RowsInv, OnceInEach
  <2>6. Apart(manager, PairsOf(rows'), jobs')
    <3>1. \A q \in jobs' : ~Alike(manager, p, q)
      BY <1>5 DEF RowsInv, OnceInEach, UniqueIn
    <3> QED
      BY <1>2, <1>5, <2>3, <3>1 DEF Apart
  <2>7. PairsOf(rows') \cup jobs' = PairsOf(rows) \cup jobs
    BY <1>5, <2>3
  <2>8. RowTypes'
    BY <1>0, <1>5, <2>1, <2>2 DEF RowsInv, RowTypes, Discovery!Pairs
  <2>9. Machine' /\ OnceInEach'
    BY <1>0, <1>5, <2>5, UniqueInPart DEF RowsInv, Machine, OnceInEach
  <2>10. BeforeChoice' /\ AfterChoice'
    BY <1>0, <1>1, <2>6 DEF BeforeChoice, AfterChoice
  <2>11. NothingForgotten'
    BY <1>0, <1>1, <1>5, <2>7 DEF RowsInv, NothingForgotten
  <2> QED
    BY <2>8, <2>9, <2>10, <2>11 DEF RowsInv
<1>6. PICK reply : IF reply = "signal" /\ ~Discovery!Barred(p)
                    THEN stopped' = TRUE /\ jobs' \subseteq jobs /\ rows' = rows
                    ELSE /\ stopped' = stopped /\ jobs' = jobs \ {p}
                         /\ rows' = rows \cup {Discovery!Row(p, Discovery!KindOf(p, reply))}
  BY DEF Discovery!Job
<1>7. Discovery!KindOf(p, reply) \in Kinds
  BY DEF Discovery!KindOf, Kinds
<1> QED
  BY <1>4, <1>5, <1>6, <1>7

\* Without a job left, the rows are all there is.
LEMMA CollectKeepsRows ==
  ASSUME AdapterKnown, Ordered(manager, todo), RowsInv, stopped \in BOOLEAN, Discovery!Collect
  PROVE  RowsInv'
<1>0. /\ UNCHANGED <<manager, op, trait, todo, stopped>> /\ KeptPairs' = KeptPairs
      /\ UNCHANGED <<machine, kept, listed, outdated, jobs, rows, honest>>
      /\ result = "running" /\ Head(todo) \in {"jobs", "blind_jobs"} /\ jobs = {}
      /\ result' = IF stopped THEN "interrupted" ELSE "rows"
  BY DEF KeptPairs, Discovery!Pairs, Discovery!Collect, Discovery!installation, Discovery!inputs, Discovery!InJobs,
         Discovery!At, Discovery!End
<1>1. ~Has(todo, "choose") /\ ~Has(todo, "fallback")
  BY <1>0, AtTheEnd DEF Final
<1>2. RowTypes' /\ Machine' /\ OnceInEach'
  BY <1>0 DEF RowsInv, RowTypes, Machine, OnceInEach, Discovery!Pairs
<1>3. BeforeChoice' /\ AfterChoice'
  BY <1>0 DEF BeforeChoice, AfterChoice
<1>4. honest /\ op # "lookup" /\ ~stopped => Covers(manager, PairsOf(rows), KeptPairs)
  BY <1>0, <1>1 DEF RowsInv, NothingForgotten
<1>5. NothingForgotten'
  BY <1>0, <1>4 DEF NothingForgotten
<1> QED
  BY <1>2, <1>3, <1>5 DEF RowsInv

\* What the user takes away was not there all the time.
LEMMA UserKeepsRows ==
  ASSUME RowsInv, Discovery!UserChanges
  PROVE  RowsInv'
<1>0. /\ UNCHANGED <<manager, op, trait, todo, stopped, result>>
      /\ UNCHANGED <<listed, outdated, jobs, rows, honest>>
  BY DEF Discovery!UserChanges, Discovery!inputs
<1>1. PICK t \in Tools, m \in Discovery!Machines(manager) :
        /\ \A u \in Tools \ {t} : m[u] = machine[u]
        /\ machine' = m /\ kept' = [kept EXCEPT ![t] = kept[t] \cap m[t]]
  BY DEF Discovery!UserChanges
<1>2. /\ machine' \in [Tools -> SUBSET Versions]
      /\ manager # "mise" => \A u \in Tools : \A v, w \in machine'[u] : v = w
  BY <1>1 DEF Discovery!Machines
<1>3. /\ kept' \in [Tools -> SUBSET Versions]
      /\ \A u \in Tools : kept'[u] = IF u = t THEN kept[u] \cap m[u] ELSE kept[u]
  BY <1>1 DEF RowsInv, RowTypes
<1>4. \A u \in Tools : kept'[u] \subseteq machine'[u] /\ kept'[u] \subseteq kept[u]
  BY <1>1, <1>3 DEF RowsInv, Machine
<1>5. KeptPairs' \subseteq KeptPairs
  BY <1>0, <1>4 DEF KeptPairs, Discovery!Pairs
<1>6. \A S : Covers(manager, S, KeptPairs) => Covers(manager, S, KeptPairs')
  BY <1>5 DEF Covers
<1>7. RowTypes' /\ Machine' /\ OnceInEach'
  BY <1>0, <1>2, <1>3, <1>4 DEF RowsInv, RowTypes, Machine, OnceInEach, Discovery!Pairs
<1>8. BeforeChoice' /\ AfterChoice'
  BY <1>0 DEF RowsInv, BeforeChoice, AfterChoice
<1>9. NothingForgotten'
  BY <1>0, <1>6 DEF RowsInv, NothingForgotten
<1> QED
  BY <1>7, <1>8, <1>9 DEF RowsInv

LEMMA RowsKept ==
  ASSUME CallsAssumption, AdapterKnown, Ordered(manager, todo), stopped \in BOOLEAN, RowsInv, Discovery!Next
  PROVE  RowsInv'
<1> DEFINE Quiet == /\ UNCHANGED <<machine, kept, listed, jobs, rows, honest>> /\ result' # "rows"
                    /\ Head(todo) \notin {"choose", "list", "receipts", "bin_dir", "binaries"}
<1>0. UniqueIn(manager, outdated) /\ outdated \subseteq Tools \X (Versions \cup {0})
  BY DEF RowsInv, RowTypes, OnceInEach
<1>1. ASSUME OrdinaryNext PROVE Ordinary
  BY <1>1, OrdinarySteps
<1>2. CASE \/ Discovery!Validate \/ Discovery!Refresh \/ Discovery!ToolDir \/ Discovery!Flag
           \/ Discovery!Ruby \/ Discovery!Advice \/ Discovery!Info \/ Discovery!Taps
  <2>1. Ordinary
    BY <1>1, <1>2 DEF OrdinaryNext
  <2>2. Quiet /\ UNCHANGED outdated
    BY <1>2 DEF Discovery!Validate, Discovery!Refresh, Discovery!ToolDir, Discovery!Flag, Discovery!Ruby,
                Discovery!Advice, Discovery!Info, Discovery!Taps, Discovery!At, Discovery!Pass, Discovery!End,
                Discovery!Ended, Discovery!FallBack, Discovery!installation
  <2> QED
    BY <1>0, <2>1, <2>2, SameRows
<1>3. CASE Discovery!Outdated
  <2>1. Ordinary /\ Quiet
    BY <1>1, <1>3 DEF OrdinaryNext, Discovery!Outdated, Discovery!At, Discovery!Pass, Discovery!End,
                      Discovery!Ended, Discovery!installation
  <2>2. manager \in {"npm", "pnpm", "gem", "brew"}
    BY <1>3 DEF Ordered, Fits, Discovery!Outdated, Discovery!At
  <2>3. outdated' \subseteq Discovery!Installed
    BY <1>3, <2>2, OutdatedReads DEF Discovery!Outdated
  <2>4. outdated' \subseteq Tools \X (Versions \cup {0}) /\ UniqueIn(manager, outdated')
    BY <2>3, InstalledOnce, UniqueInPart DEF RowsInv, Discovery!Pairs
  <2> QED
    BY <2>1, <2>2, <2>4, SameRows
<1>4. CASE Discovery!Preview \/ Discovery!Complete
  <2>1. Ordinary /\ Quiet
    BY <1>1, <1>4 DEF OrdinaryNext, Discovery!Preview, Discovery!Complete, Discovery!At, Discovery!Pass,
                      Discovery!End, Discovery!FallBack, Discovery!installation
  <2>2. manager = "mise"
    BY <1>4 DEF Ordered, Fits, Discovery!Preview, Discovery!Complete, Discovery!At
  <2>3. UniqueIn(manager, outdated')
    BY <2>2 DEF UniqueIn, Alike
  <2>4. Discovery!Installed \subseteq Tools \X (Versions \cup {0})
    BY DEF Discovery!Installed, Discovery!Pairs
  <2>5. outdated' \subseteq Tools \X (Versions \cup {0})
    <3>1. CASE Discovery!Preview
      <4>1. PICK r \in Discovery!Replies, items \in Discovery!Previews :
              outdated' = Discovery!After(Discovery!Success, r,
                            IF r.body = "garbage" THEN Discovery!Refused
                            ELSE Discovery!Lines(r, items)).shown
        BY <3>1 DEF Discovery!Preview
      <4>2. outdated' \subseteq items
        BY <4>1 DEF Discovery!After, Discovery!Refused, Discovery!Interrupted, Discovery!Lines, Discovery!Read
      <4>3. items \subseteq Tools \X (Versions \cup {0})
        BY <2>4 DEF Discovery!Previews, Discovery!Old
      <4> QED
        BY <4>2, <4>3
    <3>2. CASE Discovery!Complete
      <4>1. PICK r \in Discovery!Replies, active \in SUBSET Discovery!Installed : \E complete :
              outdated' = {p \in outdated : p[2] # 0}
                            \cup UNION {Discovery!Sources(t, Discovery!MiseList(r).shown, active) : t \in complete}
        BY <3>2 DEF Discovery!Complete
      <4>2. Discovery!MiseList(r).shown \subseteq Discovery!Installed
        BY DEF Discovery!MiseList, Discovery!MiseInstalled, Discovery!Json, Discovery!After, Discovery!Read,
               Discovery!Refused, Discovery!Interrupted, Discovery!Visible
      <4>3. \A t : Discovery!Sources(t, Discovery!MiseList(r).shown, active) \subseteq Discovery!Installed
        BY <4>2 DEF Discovery!Sources
      <4> QED
        BY <1>0, <2>4, <4>1, <4>3
    <3> QED
      BY <1>4, <3>1, <3>2
  <2> QED
    BY <2>1, <2>2, <2>3, <2>5, SameRows
<1>5. CASE Discovery!List \/ Discovery!Receipts
  BY <1>1, <1>5, ListKeepsRows DEF OrdinaryNext
<1>6. CASE Discovery!BinDir \/ Discovery!Binary \/ Discovery!BinariesRead
  BY <1>1, <1>6, BinariesKeepRows DEF OrdinaryNext
<1>7. CASE Discovery!Choose
  BY <1>1, <1>7, ChooseKeepsRows DEF OrdinaryNext
<1>8. CASE Discovery!Fallback
  BY <1>1, <1>8, FallbackKeepsRows DEF OrdinaryNext
<1>9. CASE \E p \in jobs : Discovery!Job(p)
  BY <1>9, JobKeepsRows
<1>10. CASE Discovery!Collect
  BY <1>10, CollectKeepsRows
<1>11. CASE Discovery!UserChanges
  BY <1>11, UserKeepsRows
<1> QED
  BY <1>2, <1>3, <1>4, <1>5, <1>6, <1>7, <1>8, <1>9, <1>10, <1>11 DEF Discovery!Next

\* What the listing completes is one version of a tool, and when an item has it already the
\* tool has several.
LEMMA SeveralKept ==
  ASSUME CallsAssumption, AdapterKnown, Ordered(manager, todo), RowTypes, SeveralAsked, Discovery!Next
  PROVE  SeveralAsked'
<1>1. CASE Discovery!Preview
  <2>1. PICK r \in Discovery!Replies, items \in Discovery!Previews :
          /\ Discovery!OneItem(items)
          /\ outdated' = Discovery!After(Discovery!Success, r,
                           IF r.body = "garbage" THEN Discovery!Refused ELSE Discovery!Lines(r, items)).shown
          /\ \A t \in twice' : trait[t] = "several"
    BY <1>1 DEF Discovery!Preview
  <2>2. outdated' \subseteq items
    BY <2>1 DEF Discovery!After, Discovery!Refused, Discovery!Interrupted, Discovery!Lines, Discovery!Read
  <2>3. UNCHANGED <<manager, trait>>
    BY <1>1 DEF Discovery!Preview, Discovery!inputs
  <2> QED
    BY <2>1, <2>2, <2>3 DEF SeveralAsked, Discovery!OneItem
<1>2. CASE Discovery!Complete
  <2>1. manager = "mise" /\ UNCHANGED <<manager, trait>>
    BY <1>2 DEF Ordered, Fits, Discovery!Complete, Discovery!At, Discovery!inputs
  <2>2. PICK r \in Discovery!Replies, active \in SUBSET Discovery!Installed :
          LET told == Discovery!MiseList(r).shown
              bare == Discovery!NamesOf({q \in outdated : q[2] = 0})
              paired == {t \in bare : \E p \in told : Discovery!Sources(t, told, active) = {p}}
              completed == UNION {Discovery!Sources(t, told, active) : t \in paired}
          IN  /\ outdated' = {p \in outdated : p[2] # 0} \cup completed
              /\ twice' = twice \cup Discovery!NamesOf(completed \cap outdated)
    BY <1>2 DEF Discovery!Complete
  <2> DEFINE told == Discovery!MiseList(r).shown
             bare == Discovery!NamesOf({q \in outdated : q[2] = 0})
             paired == {t \in bare : \E p \in told : Discovery!Sources(t, told, active) = {p}}
             completed == UNION {Discovery!Sources(t, told, active) : t \in paired}
  <2>3. \A p \in completed : p \in Discovery!Installed /\ p[2] # 0 /\ p[1] \in paired
    <3>1. told \subseteq Discovery!Installed
      BY DEF Discovery!MiseList, Discovery!MiseInstalled, Discovery!Json, Discovery!After, Discovery!Read,
             Discovery!Refused, Discovery!Interrupted, Discovery!Visible
    <3>2. \A p \in Discovery!Installed : p[2] # 0
      BY DEF Discovery!Installed, Discovery!Pairs, CallsAssumption, Discovery!DiscoveryAssumption
    <3>3. \A t : \A p \in Discovery!Sources(t, told, active) : p \in told /\ p[1] = t
      BY DEF Discovery!Sources
    <3> QED
      BY <3>1, <3>2, <3>3
  <2>4. \A p, q \in completed : p[1] = q[1] => p = q
    <3> SUFFICES ASSUME NEW p \in completed, NEW q \in completed, p[1] = q[1] PROVE p = q
      OBVIOUS
    <3>1. PICK t \in paired : p \in Discovery!Sources(t, told, active)
      OBVIOUS
    <3>2. PICK u \in paired : q \in Discovery!Sources(u, told, active)
      OBVIOUS
    <3>3. p[1] = t /\ q[1] = u
      BY <3>1, <3>2 DEF Discovery!Sources
    <3>4. \E x : Discovery!Sources(t, told, active) = {x}
      OBVIOUS
    <3> QED
      BY <3>1, <3>2, <3>3, <3>4
  <2>5. \A p \in completed, q \in outdated : q[2] # 0 /\ p[1] = q[1] => trait[p[1]] = "several"
    <3> SUFFICES ASSUME NEW p \in completed, NEW q \in outdated, q[2] # 0, p[1] = q[1]
                 PROVE  trait[p[1]] = "several"
      OBVIOUS
    <3>1. p[1] \in bare
      BY <2>3
    <3>2. PICK o \in outdated : o[1] = p[1] /\ o[2] = 0
      BY <3>1 DEF Discovery!NamesOf
    <3> QED
      BY <2>1, <3>2 DEF SeveralAsked, Discovery!OneItem
  <2>6. /\ outdated' = {p \in outdated : p[2] # 0} \cup completed
        /\ twice' = twice \cup {p[1] : p \in completed \cap outdated}
    BY <2>2 DEF Discovery!NamesOf
  <2> HIDE DEF completed, paired, bare, told
  <2>7. Discovery!OneItem(outdated)'
    BY <2>1, <2>4, <2>5, <2>6 DEF SeveralAsked, Discovery!OneItem
  <2>8. \A t \in twice' : trait[t] = "several"
    BY <2>3, <2>5, <2>6 DEF SeveralAsked
  <2> QED
    BY <2>1, <2>7, <2>8 DEF SeveralAsked
<1>3. CASE Discovery!Outdated
  <2>1. manager # "mise" /\ UNCHANGED <<manager, trait, twice>>
    BY <1>3 DEF Ordered, Fits, Discovery!Outdated, Discovery!At, Discovery!inputs
  <2> QED
    BY <2>1 DEF SeveralAsked
<1>4. CASE Discovery!Fallback
  <2>1. UNCHANGED <<manager, trait, outdated>> /\ twice' = {}
    BY <1>4 DEF Discovery!Fallback, Discovery!inputs
  <2> QED
    BY <2>1 DEF SeveralAsked, Discovery!OneItem
<1>5. ASSUME ~Discovery!Preview, ~Discovery!Complete, ~Discovery!Outdated, ~Discovery!Fallback
      PROVE  SeveralAsked'
  <2>1. UNCHANGED <<manager, trait, outdated, twice>>
    BY <1>5 DEF Discovery!Next, Discovery!Validate, Discovery!Refresh, Discovery!ToolDir, Discovery!List,
                Discovery!Receipts, Discovery!BinDir, Discovery!Binary, Discovery!BinariesRead, Discovery!Flag,
                Discovery!Choose, Discovery!Ruby, Discovery!Advice, Discovery!Info, Discovery!Taps,
                Discovery!Job, Discovery!Collect, Discovery!UserChanges, Discovery!inputs
  <2> QED
    BY <2>1 DEF SeveralAsked, Discovery!OneItem
<1> QED
  BY <1>1, <1>2, <1>3, <1>4, <1>5

-----------------------------------------------------------------------------
(* A discovery as one of the calls *)

DiscoveryInv ==
  /\ AdapterKnown /\ Ordered(manager, todo)
  /\ Interruptions /\ Discovery!FailureStaysLocal /\ Discovery!InterruptionEndsIt
  /\ RowsInv /\ SeveralAsked

LEMMA DiscoveryStarts ==
  ASSUME CallsAssumption, Discovery!Init PROVE DiscoveryInv
<1>0. /\ result = "running" /\ stopped = FALSE /\ killed = {} /\ kept = machine
      /\ listed = {} /\ outdated = {} /\ twice = {} /\ jobs = {} /\ rows = {}
      /\ todo = <<"validate">> \o Discovery!Phases
      /\ machine \in Discovery!Machines(manager)
  BY DEF Discovery!Init
<1>1. AdapterKnown
  BY DEF Discovery!Init, AdapterKnown, CallsAssumption, Discovery!DiscoveryAssumption
<1>2. /\ Ordered(manager, todo) /\ Head(todo) = "validate"
      /\ Has(todo, "choose") /\ IF manager = "go" THEN Has(todo, "bin_dir") ELSE Has(todo, "list")
  <2>1. Fits(manager, "validate") /\ "validate" \in Early \ {"bin_dir"}
    BY DEF Fits, Early
  <2> QED
    BY <1>0, <1>1, <2>1, PhasesOrdered, OneMoreOrdered
<1>3. Interruptions /\ Discovery!FailureStaysLocal /\ Discovery!InterruptionEndsIt
  BY <1>0 DEF Interruptions, Discovery!FailureStaysLocal, Discovery!InterruptionEndsIt
<1>4. RowTypes /\ Machine
  BY <1>0 DEF RowTypes, Machine, Discovery!Machines
<1>5. OnceInEach /\ BeforeChoice /\ AfterChoice /\ NothingForgotten
  BY <1>0, <1>2 DEF OnceInEach, BeforeChoice, AfterChoice, NothingForgotten, UniqueIn, Apart, PairsOf
<1>6. SeveralAsked
  BY <1>0 DEF SeveralAsked, Discovery!OneItem
<1> QED
  BY <1>1, <1>2, <1>3, <1>4, <1>5, <1>6 DEF DiscoveryInv, RowsInv

LEMMA DiscoveryKept ==
  ASSUME CallsAssumption, DiscoveryInv, Discovery!Next PROVE DiscoveryInv'
<1>1. stopped \in BOOLEAN
  BY DEF DiscoveryInv, Interruptions
<1> QED
  BY <1>1, OrderKept, InterruptionsKept, RowsKept, SeveralKept DEF DiscoveryInv, RowsInv

\* Nothing is discovered by the other calls.
DiscoveryHolds ==
  IF call = "discover" THEN DiscoveryInv
  ELSE result = "none" /\ todo = <<"none">> /\ rows = {}

LEMMA DiscoveryInductive == Spec => []DiscoveryHolds
<1>1. Init => DiscoveryHolds
  BY CallsAssumption, DiscoveryStarts DEF Init, DiscoveryHolds, DiscoveryRests
<1>2. DiscoveryHolds /\ [Next]_vars => DiscoveryHolds'
  <2> SUFFICES ASSUME DiscoveryHolds, [Next]_vars PROVE DiscoveryHolds'
    OBVIOUS
  <2>1. CASE Discover
    BY <2>1, CallsAssumption, DiscoveryKept DEF Discover, DiscoveryHolds
  <2>2. CASE LookUp \/ Apply \/ InRun(Runner!Next)
    BY <2>2 DEF LookUp, Apply, InRun, discoveryVars, DiscoveryHolds
  <2>3. CASE UNCHANGED vars
    <3>1. UNCHANGED <<call, manager, discoveryVars>>
      BY <2>3 DEF vars
    <3> QED
      BY <3>1 DEF discoveryVars, DiscoveryHolds, DiscoveryInv, AdapterKnown, Interruptions,
                  Discovery!FailureStaysLocal, Discovery!InterruptionEndsIt, Discovery!Unwatched, RowsInv, RowTypes, Machine,
                  OnceInEach, BeforeChoice, AfterChoice, NothingForgotten, KeptPairs, Discovery!Pairs,
                  SeveralAsked, Discovery!OneItem
  <2> QED
    BY <2>1, <2>2, <2>3 DEF Next
<1> QED
  BY <1>1, <1>2, PTL DEF Spec

\* A discovery has no two rows for one tool, unless mise's preview replaces one version of a
\* tool more than once, which it does only where several versions are asked for; and when it
\* succeeds it has a row for every tool that was installed all the time, whatever the user
\* does and the commands say meanwhile.
THEOREM OneRowForEachTool == Spec => []EachToolOnce
<1>1. DiscoveryHolds => EachToolOnce
  <2>1. CASE call = "discover"
    BY <2>1, RowsSafe DEF DiscoveryHolds, DiscoveryInv, EachToolOnce
  <2>2. CASE call # "discover"
    BY <2>2 DEF DiscoveryHolds, EachToolOnce, Discovery!EachToolOnce
  <2> QED
    BY <2>1, <2>2
<1> QED
  BY <1>1, DiscoveryInductive, PTL

\* Once the tools are looked up, a discovery fails only because one of them was interrupted.
THEOREM LocalFailures == Spec => []FailureStaysLocal
<1>1. DiscoveryHolds => FailureStaysLocal
  BY DEF DiscoveryHolds, DiscoveryInv, FailureStaysLocal, Discovery!FailureStaysLocal
<1> QED
  BY <1>1, DiscoveryInductive, PTL

\* A discovery one of whose commands died of a signal has no rows, except for the commands
\* the code does not watch: see Unwatched.
THEOREM InterruptionIsTheEnd == Spec => []InterruptionEndsIt
<1>1. DiscoveryHolds => InterruptionEndsIt
  BY DEF DiscoveryHolds, DiscoveryInv, InterruptionEndsIt, Discovery!InterruptionEndsIt
<1> QED
  BY <1>1, DiscoveryInductive, PTL

-----------------------------------------------------------------------------
(* A lookup: what it is asked, and what it finds *)

\* What a result may say: versions some source holds, with the day given there.
Offered(res) ==
  \A v \in DOMAIN res.timeline :
    \E doc \in {docs[1], docs[2], host} : v \in Lookup!Held(doc) /\ res.timeline[v] = doc[v].day

\* What it must not lack: see NothingLost.
Finds(res) ==
  \A source \in 1..3 :
    Lookup!HeldAt(source) # {} /\ (\A earlier \in 1..(source - 1) : Lookup!HeldAt(earlier) = {}) =>
      res.kind = "known" /\ Lookup!HeldAt(source) \subseteq DOMAIN res.timeline

\* mise asks npm's registry for a tool of npm.
Style == IF way = "npm" THEN way ELSE manager
Several == manager \in {"dotnet", "brew"} \/ way \in {"backend", "short"}

\* What the registries hold, and how the adapter may look.
World ==
  /\ manager \in Discovery!Adapters /\ way \in Lookup!WaysOf(manager)
  /\ current \in Versions /\ setting \in BOOLEAN
  /\ \A doc \in {docs[1], docs[2], host} :
       /\ DOMAIN doc \subseteq Versions /\ IsFiniteSet(DOMAIN doc)
       /\ \A v \in DOMAIN doc : /\ doc[v].day \in Lookup!MomentsOf(Style)
                                /\ doc[v].mark \in Lookup!MarksOf(Style)
       /\ manager = "brew" => DOMAIN doc \subseteq {current}
  /\ ~Several => DOMAIN docs[2] = {}
  /\ ~(manager = "brew" \/ way \in {"backend", "short"}) => DOMAIN host = {}
  /\ IF manager = "pipx" THEN cutoff \in Days ELSE cutoff = Lookup!BadDate

\* The sources that have been asked, and had nothing, before a step.
Behind(n) ==
  {s \in 1..2 : n >= IF s = 2 THEN 4 ELSE IF manager = "dotnet" \/ way = "backend" THEN 2 ELSE 3}

Steps ==
  /\ step \in 1..4
  /\ manager = "go" /\ step = 2 => way = "timeline"
  /\ answer = Lookup!Unanswered /\ clean /\ Lookup!Sound =>
       \A s \in Behind(step) : Lookup!HeldAt(s) = {}

\* go's versions are read, or still to be.
TimesRead ==
  manager = "go" /\ answer = Lookup!Unanswered =>
    /\ unread \subseteq {v \in DOMAIN docs[1] : docs[1][v].mark # "odd"}
    /\ \A v \in DOMAIN found : v \in Lookup!Held(docs[1]) /\ found[v] = docs[1][v].day
    /\ step = 2 => Lookup!Held(docs[1]) \subseteq unread \cup DOMAIN found

Answered ==
  /\ Offered(answer)
  /\ answer # Lookup!Unanswered /\ clean /\ Lookup!Sound => Finds(answer)

LookupInv == World /\ Steps /\ TimesRead /\ Answered

-----------------------------------------------------------------------------
(* Finite sets of numbers *)

LEMMA LeastNumber ==
  ASSUME NEW S \in SUBSET Nat, S # {} PROVE \E n \in S : \A k \in S : n <= k
<1>1. PICK n \in S : \A k \in S : ~(<<k, n>> \in OpToRel(<, Nat))
  BY NatLessThanWellFounded, WFMin
<1>2. ASSUME NEW k \in S, k < n PROVE FALSE
  BY <1>1, <1>2 DEF OpToRel
<1> QED
  BY <1>2

\* The greatest is the one that the fewest are above.
LEMMA GreatestNumber ==
  ASSUME NEW S \in SUBSET Nat, S # {}, IsFiniteSet(S) PROVE \E n \in S : \A k \in S : k <= n
<1> DEFINE Above(n) == {k \in S : n < k}
           Counts == {Cardinality(Above(n)) : n \in S}
<1>1. ASSUME NEW n \in S PROVE IsFiniteSet(Above(n)) /\ Cardinality(Above(n)) \in Nat
  BY FS_Subset, FS_CardinalityType
<1>2. Counts \in SUBSET Nat /\ Counts # {}
  BY <1>1
<1>3. PICK n \in S : \A k \in S : Cardinality(Above(n)) <= Cardinality(Above(k))
  <2>1. PICK c \in Counts : \A d \in Counts : c <= d
    <3> HIDE DEF Counts
    <3> QED
      BY <1>2, LeastNumber
  <2>2. PICK n \in S : c = Cardinality(Above(n))
    BY <2>1
  <2>3. \A k \in S : Cardinality(Above(n)) <= Cardinality(Above(k))
    <3> SUFFICES ASSUME NEW k \in S PROVE c <= Cardinality(Above(k))
      BY <2>2
    <3> QED
      BY <2>1
  <2> QED
    BY <2>3
<1>4. ASSUME NEW k \in S, n < k PROVE FALSE
  <2>1. Above(k) \in SUBSET Above(n) /\ k \in Above(n) /\ k \notin Above(k)
    <3>1. \A i \in S : i \in Nat
      OBVIOUS
    <3>2. \A i \in S : k < i => n < i
      BY <1>4, <3>1
    <3>3. ~(k < k)
      BY <3>1
    <3> QED
      BY <1>4, <3>2, <3>3
  <2>2. Cardinality(Above(k)) = Cardinality(Above(n))
    <3> HIDE DEF Above
    <3>1. Cardinality(Above(k)) <= Cardinality(Above(n))
      BY <1>1, <2>1, FS_Subset
    <3>2. Cardinality(Above(k)) \in Nat /\ Cardinality(Above(n)) \in Nat
      BY <1>1
    <3> QED
      BY <1>3, <3>1, <3>2
  <2>3. Above(n) = Above(k)
    <3> HIDE DEF Above
    <3> QED
      BY <1>1, <2>1, <2>2, FS_Subset
  <2> QED
    BY <2>1, <2>3
<1> QED
  BY <1>4

-----------------------------------------------------------------------------
(* A lookup at its start *)

LEMMA DocumentsFit ==
  ASSUME NEW m, NEW versions, NEW doc \in Lookup!Documents(m, versions)
  PROVE  /\ DOMAIN doc \subseteq versions /\ IsFiniteSet(DOMAIN doc)
         /\ \A v \in DOMAIN doc : doc[v].day \in Lookup!MomentsOf(m) /\ doc[v].mark \in Lookup!MarksOf(m)
<1>1. PICK entries \in Lookup!Finite(versions) :
        doc \in [entries -> [day : Lookup!MomentsOf(m), mark : Lookup!MarksOf(m)]]
  BY DEF Lookup!Documents
<1>2. DOMAIN doc = entries /\ \A v \in entries : doc[v] \in [day : Lookup!MomentsOf(m), mark : Lookup!MarksOf(m)]
  BY <1>1
<1>3. entries \subseteq versions /\ IsFiniteSet(entries)
  BY <1>1 DEF Lookup!Finite, Lookup!IsFiniteSet, IsFiniteSet
<1> QED
  BY <1>2, <1>3

LEMMA LookupStarts ==
  ASSUME CallsAssumption, Lookup!Init PROVE LookupInv
<1>0. /\ manager \in Managers /\ way \in Lookup!WaysOf(manager) /\ current \in Versions
      /\ step = 1 /\ unread = {} /\ found = Lookup!Nothing /\ clean = TRUE /\ answer = Lookup!Unanswered
  BY DEF Lookup!Init
<1>1. PICK held :
        /\ held = Lookup!Documents(Style, IF manager = "brew" THEN {current} ELSE Versions)
        /\ docs \in {d \in [Lookup!Sources -> held] : Several \/ d[2] = Lookup!Empty}
        /\ host \in IF manager = "brew" \/ way \in {"backend", "short"} THEN held ELSE {Lookup!Empty}
  BY DEF Lookup!Init, Style, Several
<1>2. /\ setting \in BOOLEAN
      /\ IF manager = "pipx" THEN cutoff \in Days ELSE cutoff = Lookup!BadDate
  BY DEF Lookup!Init
<1>3. docs[1] \in held /\ docs[2] \in held /\ (Several \/ docs[2] = Lookup!Empty)
  BY <1>1 DEF Lookup!Sources
<1>4. DOMAIN Lookup!Empty = {}
  BY DEF Lookup!Empty
<1>5. ASSUME NEW doc \in {docs[1], docs[2], host}
      PROVE  /\ DOMAIN doc \subseteq Versions /\ IsFiniteSet(DOMAIN doc)
             /\ \A v \in DOMAIN doc : /\ doc[v].day \in Lookup!MomentsOf(Style)
                                      /\ doc[v].mark \in Lookup!MarksOf(Style)
             /\ manager = "brew" => DOMAIN doc \subseteq {current}
  <2>1. CASE doc \in held
    BY <1>0, <1>1, <2>1, DocumentsFit
  <2>2. CASE doc = Lookup!Empty
    BY <1>4, <2>2, FS_EmptySet
  <2> QED
    BY <1>1, <1>3, <2>1, <2>2
<1>6. World
  BY <1>0, <1>1, <1>2, <1>3, <1>4, <1>5 DEF World, CallsAssumption, Discovery!DiscoveryAssumption
<1>7. Steps /\ TimesRead
  BY <1>0 DEF Steps, TimesRead, Behind, Lookup!Nothing
<1>8. Answered
  BY <1>0 DEF Answered, Offered, Lookup!Unanswered, Lookup!Nothing
<1> QED
  BY <1>6, <1>7, <1>8 DEF LookupInv

-----------------------------------------------------------------------------
(* What an answer must be, and what going on must mean *)

\* An answer that can be given; ok says that no request failed for it.
Right(res, ok) ==
  /\ res.kind # "none" /\ Offered(res)
  /\ clean /\ ok /\ Lookup!Sound => Finds(res)

\* The sources before the next request have nothing.
Exhausted(to, ok) ==
  clean /\ ok /\ Lookup!Sound => \A s \in Behind(to) : Lookup!HeldAt(s) = {}

LEMMA SameWorld ==
  ASSUME UNCHANGED Lookup!world
  PROVE  /\ World => World'
         /\ \A s : Lookup!HeldAt(s)' = Lookup!HeldAt(s)
         /\ \A n : Behind(n)' = Behind(n)
         /\ Lookup!Sound' => Lookup!Sound
         /\ \A doc : Lookup!Held(doc)' = Lookup!Held(doc)
<1>1. UNCHANGED <<manager, way, docs, host, current, setting, cutoff>>
  BY DEF Lookup!world
<1>2. World => World'
  BY <1>1 DEF World, Style, Several
<1>3. \A doc : Lookup!Held(doc)' = Lookup!Held(doc)
  BY <1>1 DEF Lookup!Held, Lookup!Withheld
<1>4. \A s : Lookup!HeldAt(s)' = Lookup!HeldAt(s)
  BY <1>1 DEF Lookup!HeldAt, Lookup!Held, Lookup!Withheld, Lookup!Open, Lookup!Sought
<1>5. \A n : Behind(n)' = Behind(n)
  BY <1>1 DEF Behind
<1>6. Lookup!Sound' => Lookup!Sound
  BY <1>1 DEF Lookup!Sound
<1> QED
  BY <1>2, <1>3, <1>4, <1>5, <1>6

LEMMA AnswerStep ==
  ASSUME LookupInv, NEW res, NEW ok, Right(res, ok), Lookup!Answer(res, ok)
  PROVE  LookupInv'
<1>0. /\ answer' = res /\ clean' = (clean /\ ok) /\ UNCHANGED Lookup!world /\ UNCHANGED step
      /\ res # Lookup!Unanswered
  BY DEF Lookup!Answer, Right, Lookup!Unanswered
<1>1. UNCHANGED <<manager, way, docs, host, current, setting, cutoff>>
  BY <1>0 DEF Lookup!world
<1>2. World'
  BY <1>0, SameWorld DEF LookupInv
<1>3. Steps' /\ TimesRead'
  BY <1>0, <1>1 DEF LookupInv, Steps, TimesRead
<1>4. Offered(answer)'
  BY <1>0, <1>1, SameWorld DEF Right, Offered
<1>5. ASSUME clean', Lookup!Sound' PROVE Finds(answer)'
  <2>1. Finds(res)
    BY <1>0, <1>5, SameWorld DEF Right
  <2>2. \A s : Lookup!HeldAt(s)' = Lookup!HeldAt(s)
    BY <1>0, SameWorld
  <2> QED
    BY <1>0, <2>1, <2>2 DEF Finds
<1> QED
  BY <1>2, <1>3, <1>4, <1>5 DEF LookupInv, Answered

LEMMA ContinueStep ==
  ASSUME LookupInv, answer = Lookup!Unanswered, manager # "go",
         NEW to \in 1..4, NEW ok, Exhausted(to, ok), Lookup!Continue(to, ok)
  PROVE  LookupInv'
<1>0. step' = to /\ clean' = (clean /\ ok) /\ UNCHANGED Lookup!world /\ UNCHANGED answer
  BY DEF Lookup!Continue
<1>1. UNCHANGED <<manager, way, docs, host, current, setting, cutoff>>
  BY <1>0 DEF Lookup!world
<1>2. World'
  BY <1>0, SameWorld DEF LookupInv
<1>3. ASSUME clean', Lookup!Sound', NEW s \in Behind(to) PROVE Lookup!HeldAt(s)' = {}
  BY <1>0, <1>3, SameWorld DEF Exhausted
<1>4. Steps'
  BY <1>0, <1>1, <1>3, SameWorld DEF Steps
<1>5. TimesRead' /\ Offered(answer)'
  BY <1>0, <1>1, SameWorld DEF TimesRead, LookupInv, Answered, Offered
<1>6. Answered'
  BY <1>0, <1>5 DEF Answered
<1> QED
  BY <1>2, <1>4, <1>5, <1>6 DEF LookupInv

\* What the three sources hold of the versions sought.
LEMMA EachSource ==
  /\ Lookup!HeldAt(1) = IF Lookup!Open(1) THEN Lookup!Held(docs[1]) \cap Lookup!Sought ELSE {}
  /\ Lookup!HeldAt(2) = IF Lookup!Open(2) THEN Lookup!Held(docs[2]) \cap Lookup!Sought ELSE {}
  /\ Lookup!HeldAt(3) = IF Lookup!Open(3) THEN Lookup!Held(host) \cap Lookup!Sought ELSE {}
  /\ \A s \in 1..3 : s = 1 \/ s = 2 \/ s = 3
BY DEF Lookup!HeldAt

\* An answer is right that has everything of the first source holding a wanted version.
LEMMA FoundAt ==
  ASSUME NEW res, NEW s \in 1..3, res.kind = "known", Lookup!HeldAt(s) \subseteq DOMAIN res.timeline,
         \A r \in 1..3 : Lookup!HeldAt(r) # {} => r = s \/ (s < r /\ Lookup!HeldAt(s) # {})
  PROVE  Finds(res)
<1> SUFFICES ASSUME NEW r \in 1..3, Lookup!HeldAt(r) # {},
                    \A e \in 1..(r - 1) : Lookup!HeldAt(e) = {}
             PROVE  Lookup!HeldAt(r) \subseteq DOMAIN res.timeline
  BY DEF Finds
<1>1. CASE r = s
  BY <1>1
<1>2. CASE s < r /\ Lookup!HeldAt(s) # {}
  <2>1. s \in 1..(r - 1)
    BY <1>2
  <2> QED
    BY <1>2, <2>1
<1> QED
  BY <1>1, <1>2


\* Nothing is missed when nothing is held, nor by an answer that has the one version sought.
LEMMA NothingHeld ==
  ASSUME NEW res, \A s \in 1..3 : Lookup!HeldAt(s) = {} PROVE Finds(res)
BY DEF Finds

LEMMA WantedFound ==
  ASSUME NEW res, res.kind = "known", Lookup!Sought = {current}, current \in DOMAIN res.timeline
  PROVE  Finds(res)
<1>1. \A s \in 1..3 : Lookup!HeldAt(s) \subseteq {current}
  BY EachSource
<1> QED
  BY <1>1 DEF Finds

\* Without a timeline nothing is offered; a request that failed, or a source that
\* could not be read, leaves nothing to be found.
LEMMA BlankIsRight ==
  ASSUME NEW res \in {Lookup!Missing, Lookup!Failed, Lookup!Interrupted}, NEW ok,
         clean /\ ok /\ Lookup!Sound => \A s \in 1..3 : Lookup!HeldAt(s) = {}
  PROVE  Right(res, ok)
<1>1. res.kind # "none" /\ DOMAIN res.timeline = {}
  BY DEF Lookup!Missing, Lookup!Failed, Lookup!Interrupted, Lookup!Nothing
<1> QED
  BY <1>1, NothingHeld DEF Right, Offered

LEMMA RepliesAreRight ==
  ASSUME NEW reply, NEW parsed, Right(parsed, TRUE)
  PROVE  /\ Right(Lookup!ViewAnswer(reply, parsed), reply = "good")
         /\ Right(Lookup!GetAnswer(reply, parsed), reply = "good")
<1>1. CASE reply = "good"
  BY <1>1 DEF Lookup!ViewAnswer, Lookup!GetAnswer, Right
<1>2. CASE reply # "good"
  <2>1. /\ Lookup!ViewAnswer(reply, parsed) \in {Lookup!Failed, Lookup!Interrupted}
        /\ Lookup!GetAnswer(reply, parsed) = Lookup!Failed
    BY <1>2 DEF Lookup!ViewAnswer, Lookup!GetAnswer
  <2>2. ~(reply = "good")
    BY <1>2
  <2> QED
    BY <2>1, <2>2, BlankIsRight
<1> QED
  BY <1>1, <1>2

\* What a parser makes of the entries it considers.
LEMMA DatedReads ==
  ASSUME NEW doc, NEW used
  PROVE  \/ used = {} /\ Lookup!Dated(doc, used) = Lookup!Missing
         \/ (\E v \in used : doc[v].day = Lookup!BadDate) /\ Lookup!Dated(doc, used) = Lookup!Failed
         \/ /\ used # {} /\ \A v \in used : doc[v].day # Lookup!BadDate
            /\ Lookup!Dated(doc, used).kind = "known" /\ DOMAIN Lookup!Dated(doc, used).timeline = used
            /\ \A v \in used : Lookup!Dated(doc, used).timeline[v] = doc[v].day
<1>1. CASE used = {}
  BY <1>1 DEF Lookup!Dated
<1>2. CASE used # {} /\ \E v \in used : doc[v].day = Lookup!BadDate
  BY <1>2 DEF Lookup!Dated
<1>3. CASE used # {} /\ \A v \in used : doc[v].day # Lookup!BadDate
  BY <1>3 DEF Lookup!Dated, Lookup!Known, Lookup!Timeline
<1> QED
  BY <1>1, <1>2, <1>3

\* An adapter with one source.
LEMMA OneSource ==
  ASSUME World, ~Several
  PROVE  /\ Lookup!HeldAt(2) = {} /\ Lookup!HeldAt(3) = {}
         /\ \A s \in 1..3 : Lookup!HeldAt(s) # {} => s = 1
         /\ Lookup!Sound => \A v \in DOMAIN docs[1] : docs[1][v].day # Lookup!BadDate
<1>1. DOMAIN docs[2] = {} /\ DOMAIN host = {}
  BY DEF World, Several
<1>2. Lookup!Held(docs[2]) = {} /\ Lookup!Held(host) = {}
  BY <1>1 DEF Lookup!Held
<1>3. Lookup!HeldAt(2) = {} /\ Lookup!HeldAt(3) = {}
  BY <1>2, EachSource
<1>4. Lookup!Sound => \A v \in DOMAIN docs[1] : docs[1][v].day # Lookup!BadDate
  BY DEF Several, Lookup!Sound, Lookup!Sources
<1> QED
  BY <1>3, <1>4, EachSource

\* A parser is right that keeps only what is held, unless its time is bad, and all of
\* what is sought and held.
LEMMA ParserIsRight ==
  ASSUME World, ~Several, NEW used \in SUBSET DOMAIN docs[1],
         \A v \in used : docs[1][v].day # Lookup!BadDate => v \in Lookup!Held(docs[1]),
         Lookup!HeldAt(1) \subseteq used
  PROVE  Right(Lookup!Dated(docs[1], used), TRUE)
<1> DEFINE res == Lookup!Dated(docs[1], used)
<1>1. CASE used = {} /\ res = Lookup!Missing
  <2>1. \A s \in 1..3 : Lookup!HeldAt(s) = {}
    BY <1>1, OneSource
  <2> QED
    BY <1>1, <2>1, BlankIsRight
<1>2. CASE (\E v \in used : docs[1][v].day = Lookup!BadDate) /\ res = Lookup!Failed
  <2>1. ~Lookup!Sound
    BY <1>2, OneSource
  <2> QED
    BY <1>2, <2>1, BlankIsRight
<1>3. CASE /\ \A v \in used : docs[1][v].day # Lookup!BadDate
           /\ res.kind = "known" /\ DOMAIN res.timeline = used
           /\ \A v \in used : res.timeline[v] = docs[1][v].day
  <2>1. Offered(res)
    BY <1>3 DEF Offered
  <2>2. Finds(res)
    <3> HIDE DEF res
    <3> QED
      BY <1>3, OneSource, FoundAt
  <2> QED
    BY <1>3, <2>1, <2>2 DEF Right
<1> QED
  BY <1>1, <1>2, <1>3, DatedReads


-----------------------------------------------------------------------------
(* The adapters with one source *)

LEMMA WaysAre ==
  ASSUME World
  PROVE  /\ manager = "mise" => way \in {"npm", "backend", "short"}
         /\ manager = "go" => way \in {"timeline", "installed"}
         /\ manager = "brew" => way \in {"github", "elsewhere", "nowhere", "untapped"}
         /\ manager \notin {"mise", "go", "brew"} => way = "timeline"
BY DEF World, Lookup!WaysOf

LEMMA DaysAre ==
  ASSUME CallsAssumption
  PROVE  /\ \A d \in Days : d \in Nat /\ d # Lookup!Undated /\ d # Lookup!BadDate /\ d <= Lookup!BadDate
         /\ Versions \subseteq Nat /\ Days # {}
BY DEF CallsAssumption, Lookup!LookupAssumption, Lookup!Undated, Lookup!BadDate

\* A day in a document is a day, a bad one, or none where the manager knows of none.
LEMMA Moment ==
  ASSUME CallsAssumption, World, NEW doc \in {docs[1], docs[2], host}, NEW v \in DOMAIN doc
  PROVE  /\ doc[v].day \in Days \cup {Lookup!Undated, Lookup!BadDate}
         /\ Style \in {"npm", "pnpm", "bun", "cargo", "gem", "brew"} => doc[v].day # Lookup!Undated
<1>1. doc[v].day \in Lookup!MomentsOf(Style)
  BY DEF World
<1>2. CASE Style \in {"npm", "pnpm", "bun", "cargo", "gem", "brew"}
  <2>1. Lookup!MomentsOf(Style) = Lookup!Moments \ {Lookup!Undated}
    BY <1>2 DEF Lookup!MomentsOf, Lookup!Npmlike
  <2> QED
    BY <1>1, <2>1 DEF Lookup!Moments
<1>3. CASE Style = "mise"
  <2>1. Lookup!MomentsOf(Style) \subseteq Days \cup {Lookup!Undated, Lookup!BadDate}
    BY <1>3, DaysAre DEF Lookup!MomentsOf, Lookup!Npmlike
  <2> QED
    BY <1>1, <1>3, <2>1
<1>4. CASE Style \notin {"npm", "pnpm", "bun", "cargo", "gem", "brew", "mise"}
  <2>1. Lookup!MomentsOf(Style) = Lookup!Moments
    BY <1>4 DEF Lookup!MomentsOf, Lookup!Npmlike
  <2> QED
    BY <1>1, <1>4, <2>1 DEF Lookup!Moments
<1> QED
  BY <1>2, <1>3, <1>4

LEMMA MarkIs ==
  ASSUME World, NEW doc \in {docs[1], docs[2], host}, NEW v \in DOMAIN doc
  PROVE  /\ Style \in {"go", "uv", "pipx"} => doc[v].mark \in {"plain", "odd"}
         /\ Style = "dotnet" => doc[v].mark \in {"plain", "unfit"}
         /\ Style \in {"mise", "brew"} => doc[v].mark = "plain"
<1>1. doc[v].mark \in Lookup!MarksOf(Style)
  BY DEF World
<1>2. /\ Style \in {"go", "uv", "pipx"} => Lookup!MarksOf(Style) = {"plain", "odd"}
      /\ Style = "dotnet" => Lookup!MarksOf(Style) = {"plain", "unfit"}
      /\ Style \in {"mise", "brew"} => Lookup!MarksOf(Style) = {"plain"}
  BY DEF Lookup!MarksOf, Lookup!Npmlike
<1> QED
  BY <1>1, <1>2

\* What the manager is offered of a document, but for pipx with its cutoff.
LEMMA HeldIs ==
  ASSUME CallsAssumption, World, manager # "pipx", NEW doc
  PROVE  Lookup!Held(doc) = {v \in DOMAIN doc : doc[v].day \in Days /\ ~Lookup!Withheld(doc, v)}
<1>1. cutoff = Lookup!BadDate
  BY DEF World
<1> QED
  BY <1>1, DaysAre DEF Lookup!Held

LEMMA TimeMapIsRight ==
  ASSUME CallsAssumption, World, manager \in {"npm", "pnpm", "cargo"} \/ way = "npm"
  PROVE  Right(Lookup!Dated(docs[1], {v \in DOMAIN docs[1] : docs[1][v].mark # "unfit"}), TRUE)
<1> DEFINE used == {v \in DOMAIN docs[1] : docs[1][v].mark # "unfit"}
<1>1. /\ manager \in {"npm", "pnpm", "cargo", "mise"} /\ ~Several
      /\ Style \in {"npm", "pnpm", "cargo"}
  BY WaysAre DEF Several, Style
<1>2. Lookup!HeldAt(1) \subseteq used
  BY <1>1, EachSource, HeldIs DEF Lookup!Withheld
<1>3. \A v \in used : docs[1][v].day # Lookup!BadDate => v \in Lookup!Held(docs[1])
  BY <1>1, HeldIs, Moment DEF Lookup!Withheld
<1> QED
  BY <1>1, <1>2, <1>3, ParserIsRight

LEMMA TimeMapKeeps ==
  ASSUME CallsAssumption, LookupInv,
         Lookup!AskNpm \/ Lookup!AskPnpm \/ Lookup!AskCratesIo \/ Lookup!AskNpmForMise
  PROVE  LookupInv'
<1> DEFINE parsed == Lookup!Dated(docs[1], {v \in DOMAIN docs[1] : docs[1][v].mark # "unfit"})
<1>1. /\ Lookup!NpmTimeMap(docs[1]) = parsed /\ Lookup!PnpmTimeMap(docs[1]) = parsed
      /\ Lookup!CratesIo(docs[1]) = parsed
  BY DEF Lookup!NpmTimeMap, Lookup!PnpmTimeMap, Lookup!CratesIo, Lookup!Listed
<1>2. manager \in {"npm", "pnpm", "cargo"} \/ way = "npm"
  BY DEF Lookup!AskNpm, Lookup!AskPnpm, Lookup!AskCratesIo, Lookup!AskNpmForMise, Lookup!Asking
<1>3. Right(parsed, TRUE)
  BY <1>2, TimeMapIsRight DEF LookupInv
<1> HIDE DEF parsed
<1>4. CASE Lookup!AskNpm
  <2>1. PICK reply : Lookup!Answer(Lookup!ViewAnswer(reply, parsed), reply = "good")
    BY <1>1, <1>4 DEF Lookup!AskNpm
  <2> QED
    BY <1>3, <2>1, RepliesAreRight, AnswerStep
<1>5. CASE Lookup!AskPnpm
  <2>1. PICK reply : Lookup!Answer(Lookup!ViewAnswer(reply, parsed), reply = "good")
    BY <1>1, <1>5 DEF Lookup!AskPnpm
  <2> QED
    BY <1>3, <2>1, RepliesAreRight, AnswerStep
<1>6. CASE Lookup!AskCratesIo
  <2>1. PICK reply : Lookup!Answer(Lookup!GetAnswer(reply, parsed), reply = "good")
    BY <1>1, <1>6 DEF Lookup!AskCratesIo
  <2> QED
    BY <1>3, <2>1, RepliesAreRight, AnswerStep
<1>7. CASE Lookup!AskNpmForMise
  <2>1. PICK reply : Lookup!Answer(Lookup!GetAnswer(reply, parsed), reply = "good")
    BY <1>1, <1>7 DEF Lookup!AskNpmForMise, Lookup!GetAnswer
  <2> QED
    BY <1>3, <2>1, RepliesAreRight, AnswerStep
<1> QED
  BY <1>4, <1>5, <1>6, <1>7


\* bun is asked in its global directory, or not at all.
LEMMA BunKeeps ==
  ASSUME CallsAssumption, LookupInv, Lookup!AskBun PROVE LookupInv'
<1> USE DEF LookupInv
<1>1. manager = "bun" /\ Style = "bun" /\ ~Several
  BY WaysAre DEF Lookup!AskBun, Lookup!Asking, Style, Several
<1>2. CASE ~setting
  <2>1. Lookup!Answer(Lookup!Missing, TRUE)
    BY <1>2 DEF Lookup!AskBun
  <2>2. \A s \in 1..3 : Lookup!HeldAt(s) = {}
    BY <1>1, <1>2, OneSource, EachSource DEF Lookup!Open
  <2> QED
    BY <2>1, <2>2, BlankIsRight, AnswerStep
<1>3. CASE setting
  <2> DEFINE parsed == Lookup!Dated(docs[1], DOMAIN docs[1])
  <2>1. \A v \in DOMAIN docs[1] : docs[1][v].day # Lookup!BadDate => v \in Lookup!Held(docs[1])
    BY <1>1, HeldIs, Moment DEF Lookup!Withheld
  <2>2. Lookup!HeldAt(1) \subseteq DOMAIN docs[1]
    BY EachSource DEF Lookup!Held
  <2>3. Right(parsed, TRUE)
    BY <1>1, <2>1, <2>2, ParserIsRight
  <2>4. Lookup!BunTimeMap(docs[1]) = parsed
    BY DEF Lookup!BunTimeMap
  <2> HIDE DEF parsed
  <2>5. PICK read : Lookup!Answer(Lookup!ViewAnswer(read, parsed), read = "good")
    BY <1>3, <2>4 DEF Lookup!AskBun
  <2> QED
    BY <2>3, <2>5, RepliesAreRight, AnswerStep
<1> QED
  BY <1>2, <1>3

\* A bad time is missing metadata to gem.
LEMMA GemKeeps ==
  ASSUME CallsAssumption, LookupInv, Lookup!AskRubyGems PROVE LookupInv'
<1> USE DEF LookupInv
<1> DEFINE usable == {v \in DOMAIN docs[1] : (setting => docs[1][v].mark # "unfit") /\ docs[1][v].mark # "odd"}
           read == Lookup!Dated(docs[1], usable)
           parsed == IF read = Lookup!Failed THEN Lookup!Missing ELSE read
<1>1. manager = "gem" /\ Style = "gem" /\ ~Several
  BY WaysAre DEF Lookup!AskRubyGems, Lookup!Asking, Style, Several
<1>2. \A v \in usable : docs[1][v].day # Lookup!BadDate => v \in Lookup!Held(docs[1])
  BY <1>1, HeldIs, Moment DEF Lookup!Withheld
<1>3. Lookup!HeldAt(1) \subseteq usable
  BY <1>1, EachSource, HeldIs DEF Lookup!Withheld
<1>4. Right(read, TRUE)
  BY <1>1, <1>2, <1>3, ParserIsRight
<1>5. Right(parsed, TRUE)
  <2>1. CASE read = Lookup!Failed
    <3>1. \E v \in usable : docs[1][v].day = Lookup!BadDate
      <4>1. Lookup!Failed # Lookup!Missing /\ Lookup!Failed.kind # "known"
        BY DEF Lookup!Failed, Lookup!Missing
      <4> HIDE DEF usable
      <4> QED
        BY <2>1, <4>1, DatedReads
    <3>2. ~Lookup!Sound
      BY <1>1, <3>1, OneSource
    <3>3. parsed = Lookup!Missing
      BY <2>1
    <3> QED
      BY <3>2, <3>3, BlankIsRight
  <2>2. CASE read # Lookup!Failed
    BY <1>4, <2>2
  <2> QED
    BY <2>1, <2>2
<1>6. Lookup!RubyGems(docs[1], setting) = parsed
  BY DEF Lookup!RubyGems, Lookup!RubyAllows
<1> HIDE DEF parsed
<1>7. PICK reply : Lookup!Answer(Lookup!GetAnswer(reply, parsed), reply = "good")
  BY <1>6 DEF Lookup!AskRubyGems
<1> QED
  BY <1>5, <1>7, RepliesAreRight, AnswerStep

LEMMA UvKeeps ==
  ASSUME CallsAssumption, LookupInv, Lookup!AskUvPypi PROVE LookupInv'
<1> USE DEF LookupInv
<1> DEFINE uploaded == {v \in DOMAIN docs[1] : docs[1][v].mark # "odd" /\ docs[1][v].day # Lookup!Undated}
           parsed == Lookup!Dated(docs[1], uploaded)
<1>1. manager = "uv" /\ Style = "uv" /\ ~Several
  BY WaysAre DEF Lookup!AskUvPypi, Lookup!Asking, Style, Several
<1>2. \A v \in uploaded : docs[1][v].day # Lookup!BadDate => v \in Lookup!Held(docs[1])
  BY <1>1, HeldIs, Moment, MarkIs DEF Lookup!Withheld
<1>3. Lookup!HeldAt(1) \subseteq uploaded
  BY <1>1, EachSource, HeldIs, DaysAre DEF Lookup!Withheld
<1>4. Right(parsed, TRUE)
  BY <1>1, <1>2, <1>3, ParserIsRight
<1>5. Lookup!UvPypi(docs[1]) = parsed
  BY DEF Lookup!UvPypi, Lookup!Uploaded
<1> HIDE DEF parsed
<1>6. PICK reply : Lookup!Answer(Lookup!GetAnswer(reply, parsed), reply = "good")
  BY <1>5 DEF Lookup!AskUvPypi
<1> QED
  BY <1>4, <1>6, RepliesAreRight, AnswerStep

\* The cutoff of pipx takes away what is younger, and nothing else.
LEMMA PipxKeeps ==
  ASSUME CallsAssumption, LookupInv, Lookup!AskPipxPypi PROVE LookupInv'
<1> USE DEF LookupInv
<1> DEFINE uploaded == {v \in DOMAIN docs[1] : docs[1][v].mark # "odd" /\ docs[1][v].day # Lookup!Undated}
           read == Lookup!Dated(docs[1], uploaded)
<1>1. /\ manager = "pipx" /\ Style = "pipx" /\ ~Several /\ cutoff \in Days
      /\ Lookup!Open(1) /\ Lookup!Sought = Versions /\ DOMAIN docs[1] \subseteq Versions
  BY WaysAre DEF Lookup!AskPipxPypi, Lookup!Asking, Style, Several, World, Lookup!Open, Lookup!Sought
<1>2. /\ Lookup!HeldAt(1) = Lookup!Held(docs[1])
      /\ Lookup!Held(docs[1]) = {v \in uploaded : docs[1][v].day \in Days /\ docs[1][v].day <= cutoff}
  <2>1. \A v \in DOMAIN docs[1] : docs[1][v].mark \in {"plain", "odd"}
    BY <1>1, MarkIs
  <2> QED
    BY <1>1, <2>1, EachSource, DaysAre DEF Lookup!Held, Lookup!Withheld
<1>3. Right(Lookup!ApplyUploadCutoff(read), TRUE)
  <2>1. CASE uploaded = {} /\ read = Lookup!Missing
    <3>1. \A s \in 1..3 : Lookup!HeldAt(s) = {}
      BY <1>1, <1>2, <2>1, OneSource
    <3>2. Lookup!ApplyUploadCutoff(read) = Lookup!Missing
      BY <2>1 DEF Lookup!ApplyUploadCutoff, Lookup!Missing
    <3> QED
      BY <3>1, <3>2, BlankIsRight
  <2>2. CASE (\E v \in uploaded : docs[1][v].day = Lookup!BadDate) /\ read = Lookup!Failed
    <3>1. ~Lookup!Sound
      BY <1>1, <2>2, OneSource
    <3>2. Lookup!ApplyUploadCutoff(read) = Lookup!Failed
      BY <2>2 DEF Lookup!ApplyUploadCutoff, Lookup!Failed
    <3> QED
      BY <3>1, <3>2, BlankIsRight
  <2>3. CASE /\ \A v \in uploaded : docs[1][v].day # Lookup!BadDate
             /\ read.kind = "known" /\ DOMAIN read.timeline = uploaded
             /\ \A v \in uploaded : read.timeline[v] = docs[1][v].day
    <3> DEFINE res == Lookup!ApplyUploadCutoff(read)
    <3>1. \A v \in uploaded : docs[1][v].day \in Days
      BY <1>1, <2>3, Moment
    <3>2. /\ res.kind = "known" /\ DOMAIN res.timeline = {v \in uploaded : docs[1][v].day <= cutoff}
          /\ \A v \in DOMAIN res.timeline : res.timeline[v] = docs[1][v].day
      <4> HIDE DEF read, uploaded
      <4> QED
        BY <2>3 DEF Lookup!ApplyUploadCutoff, Lookup!Known
    <3>3. DOMAIN res.timeline = Lookup!Held(docs[1])
      BY <1>2, <3>1, <3>2
    <3> HIDE DEF res
    <3>4. Offered(res)
      BY <3>2, <3>3 DEF Offered
    <3>5. Finds(res)
      BY <1>1, <1>2, <3>2, <3>3, OneSource, FoundAt
    <3> QED
      BY <3>2, <3>4, <3>5 DEF Right, res
  <2>4. \/ uploaded = {} /\ read = Lookup!Missing
        \/ (\E v \in uploaded : docs[1][v].day = Lookup!BadDate) /\ read = Lookup!Failed
        \/ /\ \A v \in uploaded : docs[1][v].day # Lookup!BadDate
           /\ read.kind = "known" /\ DOMAIN read.timeline = uploaded
           /\ \A v \in uploaded : read.timeline[v] = docs[1][v].day
    <3> HIDE DEF uploaded
    <3> QED
      BY DatedReads
  <2> HIDE DEF read, uploaded
  <2> QED
    BY <2>1, <2>2, <2>3, <2>4
<1>4. PICK reply : Lookup!Answer(Lookup!ApplyUploadCutoff(Lookup!GetAnswer(reply, read)), reply = "good")
  BY DEF Lookup!AskPipxPypi, Lookup!PipxPypi, Lookup!Uploaded
<1>5. CASE reply = "good"
  <2>1. Lookup!GetAnswer(reply, read) = read
    BY <1>5 DEF Lookup!GetAnswer
  <2>2. Lookup!Answer(Lookup!ApplyUploadCutoff(read), TRUE)
    BY <1>4, <1>5, <2>1 DEF Lookup!Answer
  <2> QED
    BY <1>3, <2>2, AnswerStep
<1>6. CASE reply # "good"
  <2>1. Lookup!ApplyUploadCutoff(Lookup!GetAnswer(reply, read)) = Lookup!Failed
    BY <1>6 DEF Lookup!GetAnswer, Lookup!ApplyUploadCutoff, Lookup!Failed
  <2>2. Lookup!Answer(Lookup!Failed, FALSE)
    BY <1>4, <1>6, <2>1 DEF Lookup!Answer
  <2> QED
    BY <2>2, BlankIsRight, AnswerStep
<1> QED
  BY <1>5, <1>6


-----------------------------------------------------------------------------
(* go: a list of versions, and a time for each of them *)

LEMMA GoIs ==
  ASSUME CallsAssumption, World, manager = "go"
  PROVE  /\ Style = "go" /\ ~Several /\ Lookup!Open(1) /\ docs[1] \in {docs[1], docs[2], host}
         /\ \A v \in DOMAIN docs[1] : docs[1][v].mark # "odd" \/ way # "timeline" =>
              (v \in Lookup!Held(docs[1]) <=> docs[1][v].day \in Days)
         /\ way = "timeline" => \A v \in Lookup!Held(docs[1]) : docs[1][v].mark # "odd"
         /\ way = "timeline" => Lookup!Sought = Versions
         /\ way # "timeline" => Lookup!Sought = {current}
<1>1. Style = "go" /\ ~Several /\ way \in {"timeline", "installed"}
  BY WaysAre DEF Style, Several
<1>2. \A v \in DOMAIN docs[1] : docs[1][v].mark \in {"plain", "odd"}
  BY <1>1, MarkIs
<1>3. \A v : v \in Lookup!Held(docs[1]) <=>
             v \in DOMAIN docs[1] /\ docs[1][v].day \in Days /\ ~Lookup!Withheld(docs[1], v)
  BY HeldIs
<1>4. Lookup!Open(1)
  BY DEF Lookup!Open
<1>5. /\ way = "timeline" => Lookup!Sought = Versions
      /\ way # "timeline" => Lookup!Sought = {current}
  BY <1>1 DEF Lookup!Sought
<1> QED
  BY <1>1, <1>2, <1>3, <1>4, <1>5 DEF Lookup!Withheld

LEMMA ModuleVersionsKeep ==
  ASSUME CallsAssumption, LookupInv, Lookup!ModuleVersions PROVE LookupInv'
<1> USE DEF LookupInv
<1>1. manager = "go" /\ way = "timeline" /\ answer = Lookup!Unanswered
  BY DEF Lookup!ModuleVersions, Lookup!Asking
<1>2. PICK reply :
        IF reply = "good"
        THEN /\ unread' = {v \in DOMAIN docs[1] : Lookup!IsGoSemver(docs[1], v)}
             /\ step' = 2 /\ UNCHANGED <<Lookup!world, found, clean, answer>>
        ELSE Lookup!Answer(Lookup!ViewAnswer(reply, Lookup!Missing), FALSE)
  BY DEF Lookup!ModuleVersions
<1>3. CASE reply # "good"
  <2>1. Lookup!ViewAnswer(reply, Lookup!Missing) \in {Lookup!Failed, Lookup!Interrupted}
    BY <1>3 DEF Lookup!ViewAnswer
  <2>2. Right(Lookup!ViewAnswer(reply, Lookup!Missing), FALSE)
    BY <2>1, BlankIsRight
  <2> QED
    BY <1>2, <1>3, <2>2, AnswerStep
<1>4. CASE reply = "good"
  <2>0. /\ unread' = {v \in DOMAIN docs[1] : docs[1][v].mark # "odd"} /\ step' = 2
        /\ UNCHANGED Lookup!world /\ UNCHANGED <<found, clean, answer>>
    BY <1>2, <1>4 DEF Lookup!IsGoSemver
  <2>1. UNCHANGED <<manager, way, docs, host, current, setting, cutoff>>
    BY <2>0 DEF Lookup!world
  <2>2. World'
    BY <2>0, SameWorld
  <2>3. Behind(2) = {}
    BY <1>1 DEF Behind
  <2>4. Steps'
    BY <1>1, <2>0, <2>1, <2>3, SameWorld DEF Steps
  <2>5. TimesRead'
    <3>1. Lookup!Held(docs[1]) \subseteq unread'
      BY <1>1, <2>0, GoIs DEF Lookup!Held
    <3> QED
      BY <1>1, <2>0, <2>1, <3>1, SameWorld DEF TimesRead
  <2>6. Answered'
    BY <1>1, <2>0, <2>1, SameWorld DEF Answered, Offered
  <2> QED
    BY <2>2, <2>4, <2>5, <2>6
<1> QED
  BY <1>3, <1>4

LEMMA ModuleTimeKeeps ==
  ASSUME CallsAssumption, LookupInv, Lookup!ModuleVersionTime PROVE LookupInv'
<1> USE DEF LookupInv
<1>1. manager = "go" /\ way = "timeline" /\ step = 2 /\ answer = Lookup!Unanswered /\ unread # {}
  BY DEF Lookup!ModuleVersionTime, Lookup!Asking, Steps
<1> DEFINE v == CHOOSE u \in unread : \A w \in unread : u <= w
           day == docs[1][v].day
<1>2. v \in unread /\ v \in DOMAIN docs[1] /\ docs[1][v].mark # "odd"
  <2>1. unread \in SUBSET Nat
    BY <1>1, DaysAre DEF TimesRead, World
  <2>2. \E u \in unread : \A w \in unread : u <= w
    BY <1>1, <2>1, LeastNumber
  <2>3. v \in unread
    BY <2>2
  <2> HIDE DEF v
  <2> QED
    BY <1>1, <2>3 DEF TimesRead
<1>3. PICK reply :
        IF reply = "good" /\ day # Lookup!BadDate
        THEN /\ unread' = unread \ {v}
             /\ found' = IF day = Lookup!Undated THEN found
                         ELSE [w \in DOMAIN found \cup {v} |-> IF w = v THEN day ELSE found[w]]
             /\ UNCHANGED <<Lookup!world, step, clean, answer>>
        ELSE Lookup!Answer(IF reply = "signal" THEN Lookup!Interrupted ELSE Lookup!Failed, reply = "good")
  BY DEF Lookup!ModuleVersionTime
<1> HIDE DEF v
<1>4. /\ Lookup!Sound => day # Lookup!BadDate
      /\ v \in Lookup!Held(docs[1]) <=> day \in Days
      /\ day \in Days \cup {Lookup!Undated, Lookup!BadDate}
  BY <1>1, <1>2, GoIs, OneSource, Moment
<1>5. CASE reply = "good" /\ day # Lookup!BadDate
  <2>0. /\ unread' = unread \ {v}
        /\ found' = IF day = Lookup!Undated THEN found
                    ELSE [w \in DOMAIN found \cup {v} |-> IF w = v THEN day ELSE found[w]]
        /\ UNCHANGED Lookup!world /\ UNCHANGED <<step, clean, answer>>
    BY <1>3, <1>5
  <2>1. UNCHANGED <<manager, way, docs, host, current, setting, cutoff>>
    BY <2>0 DEF Lookup!world
  <2>2. World' /\ Steps'
    BY <2>0, <2>1, SameWorld DEF Steps
  <2>3. \A w \in DOMAIN found' : w \in Lookup!Held(docs[1]) /\ found'[w] = docs[1][w].day
    <3>1. CASE day = Lookup!Undated
      BY <1>1, <2>0, <3>1 DEF TimesRead
    <3>2. CASE day # Lookup!Undated
      <4>1. v \in Lookup!Held(docs[1])
        BY <1>4, <1>5, <3>2
      <4>2. /\ DOMAIN found' = DOMAIN found \cup {v}
            /\ \A w \in DOMAIN found' : found'[w] = IF w = v THEN day ELSE found[w]
        BY <2>0, <3>2
      <4> QED
        BY <1>1, <4>1, <4>2 DEF TimesRead
    <3> QED
      BY <3>1, <3>2
  <2>4. Lookup!Held(docs[1]) \subseteq unread' \cup DOMAIN found'
    <3>1. CASE day = Lookup!Undated
      <4>1. v \notin Lookup!Held(docs[1])
        BY <1>4, <3>1, DaysAre
      <4> QED
        BY <1>1, <2>0, <3>1, <4>1 DEF TimesRead
    <3>2. CASE day # Lookup!Undated
      BY <1>1, <2>0, <3>2 DEF TimesRead
    <3> QED
      BY <3>1, <3>2
  <2>5. TimesRead'
    BY <1>1, <2>0, <2>1, <2>3, <2>4, SameWorld DEF TimesRead
  <2>6. Answered'
    BY <1>1, <2>0, <2>1, SameWorld DEF Answered, Offered
  <2> QED
    BY <2>2, <2>5, <2>6
<1>6. CASE ~(reply = "good" /\ day # Lookup!BadDate)
  <2>1. ~(reply = "good" /\ Lookup!Sound)
    BY <1>4, <1>6
  <2>2. Right(IF reply = "signal" THEN Lookup!Interrupted ELSE Lookup!Failed, reply = "good")
    BY <2>1, BlankIsRight
  <2> QED
    BY <1>3, <1>6, <2>2, AnswerStep
<1> QED
  BY <1>5, <1>6

LEMMA ModuleReadKeeps ==
  ASSUME CallsAssumption, LookupInv, Lookup!ModuleTimesRead PROVE LookupInv'
<1> USE DEF LookupInv
<1> DEFINE res == IF DOMAIN found = {} THEN Lookup!Missing ELSE Lookup!Known(found)
<1>1. /\ manager = "go" /\ way = "timeline" /\ step = 2 /\ answer = Lookup!Unanswered /\ unread = {}
      /\ Lookup!Answer(res, TRUE)
  BY DEF Lookup!ModuleTimesRead, Lookup!Asking, Steps
<1>2. /\ Lookup!HeldAt(1) \subseteq DOMAIN found
      /\ \A v \in DOMAIN found : v \in Lookup!Held(docs[1]) /\ found[v] = docs[1][v].day
  BY <1>1, EachSource DEF TimesRead
<1>3. CASE DOMAIN found = {}
  <2>1. \A s \in 1..3 : Lookup!HeldAt(s) = {}
    BY <1>1, <1>2, <1>3, GoIs, OneSource
  <2>2. res = Lookup!Missing
    BY <1>3
  <2> QED
    BY <1>1, <2>1, <2>2, BlankIsRight, AnswerStep
<1>4. CASE DOMAIN found # {}
  <2>1. res.kind = "known" /\ res.timeline = found
    BY <1>4 DEF Lookup!Known
  <2> HIDE DEF res
  <2>2. Offered(res)
    BY <1>2, <2>1 DEF Offered
  <2>3. Finds(res)
    BY <1>1, <1>2, <2>1, GoIs, OneSource, FoundAt
  <2>4. Right(res, TRUE)
    BY <2>1, <2>2, <2>3 DEF Right
  <2> QED
    BY <1>1, <2>4, AnswerStep
<1> QED
  BY <1>3, <1>4

LEMMA InstalledTimeKeeps ==
  ASSUME CallsAssumption, LookupInv, Lookup!InstalledModuleTime PROVE LookupInv'
<1> USE DEF LookupInv
<1> DEFINE named == DOMAIN docs[1] \cap {current}
           timed == {v \in named : docs[1][v].day # Lookup!Undated}
           parsed == IF named = {} THEN Lookup!Failed ELSE Lookup!Dated(docs[1], timed)
<1>1. manager = "go" /\ way = "installed"
  BY DEF Lookup!InstalledModuleTime, Lookup!Asking
<1>2. PICK reply : Lookup!Answer(Lookup!ViewAnswer(reply, parsed), reply = "good")
  BY DEF Lookup!InstalledModuleTime
<1>3. /\ \A v \in timed : docs[1][v].day # Lookup!BadDate => v \in Lookup!Held(docs[1])
      /\ Lookup!HeldAt(1) \subseteq timed
  <2>1. \A v \in DOMAIN docs[1] : v \in Lookup!Held(docs[1]) <=> docs[1][v].day \in Days
    BY <1>1, GoIs
  <2>2. Lookup!HeldAt(1) = Lookup!Held(docs[1]) \cap {current}
    BY <1>1, GoIs, EachSource
  <2>3. Lookup!Held(docs[1]) \subseteq DOMAIN docs[1]
    BY DEF Lookup!Held
  <2>4. \A v \in DOMAIN docs[1] : docs[1][v].day \in Days \cup {Lookup!Undated, Lookup!BadDate}
    BY Moment
  <2> QED
    BY <2>1, <2>2, <2>3, <2>4, DaysAre
<1>4. Right(parsed, TRUE)
  <2>1. CASE named = {}
    <3>1. \A s \in 1..3 : Lookup!HeldAt(s) = {}
      BY <1>1, <1>3, <2>1, GoIs, OneSource
    <3>2. parsed = Lookup!Failed
      BY <2>1
    <3> QED
      BY <3>1, <3>2, BlankIsRight
  <2>2. CASE named # {}
    <3>1. timed \in SUBSET DOMAIN docs[1] /\ parsed = Lookup!Dated(docs[1], timed)
      BY <2>2
    <3> HIDE DEF timed, parsed
    <3> QED
      BY <1>1, <1>3, <3>1, GoIs, ParserIsRight
  <2> QED
    BY <2>1, <2>2
<1> HIDE DEF parsed
<1> QED
  BY <1>2, <1>4, RepliesAreRight, AnswerStep


-----------------------------------------------------------------------------
(* dotnet, mise and Homebrew: one source after the other *)

LEMMA NuGetKeeps ==
  ASSUME CallsAssumption, LookupInv, NEW i \in Lookup!Sources, Lookup!AskNuGetIndex(i)
  PROVE  LookupInv'
<1> USE DEF LookupInv
<1> DEFINE used == {v \in DOMAIN docs[i] : docs[i][v].mark # "unfit" /\ docs[i][v].day # Lookup!Undated}
           page == Lookup!Dated(docs[i], used)
<1>1. /\ manager = "dotnet" /\ step = i /\ answer = Lookup!Unanswered /\ i \in {1, 2}
      /\ way = "timeline" /\ Style = "dotnet" /\ docs[i] \in {docs[1], docs[2], host}
  BY WaysAre DEF Lookup!AskNuGetIndex, Lookup!Asking, Lookup!Sources, Style
<1>2. /\ Lookup!Open(1) /\ Lookup!Open(2) /\ Lookup!Sought = Versions /\ DOMAIN docs[i] \subseteq Versions
      /\ Lookup!HeldAt(3) = {}
      /\ Lookup!Sound => \A v \in DOMAIN docs[i] : docs[i][v].day # Lookup!BadDate
  <2>1. DOMAIN host = {}
    BY <1>1 DEF World
  <2>2. Lookup!Held(host) = {}
    BY <2>1 DEF Lookup!Held
  <2> QED
    BY <1>1, <2>2, EachSource DEF Lookup!Open, Lookup!Sought, World, Lookup!Sound
<1>3. /\ Lookup!HeldAt(i) = Lookup!Held(docs[i])
      /\ Lookup!Held(docs[i]) = {v \in used : docs[i][v].day \in Days}
  <2>1. Lookup!Held(docs[i]) \subseteq Versions
    BY <1>2 DEF Lookup!Held
  <2>2. Lookup!HeldAt(i) = Lookup!Held(docs[i])
    BY <1>1, <1>2, <2>1, EachSource
  <2>3. Lookup!Held(docs[i]) = {v \in DOMAIN docs[i] : docs[i][v].day \in Days /\ ~Lookup!Withheld(docs[i], v)}
    BY <1>1, HeldIs
  <2>4. \A v \in DOMAIN docs[i] : docs[i][v].mark \in {"plain", "unfit"}
    BY <1>1, MarkIs
  <2> QED
    BY <1>1, <2>2, <2>3, <2>4, DaysAre DEF Lookup!Withheld
<1>4. i = 2 /\ clean /\ Lookup!Sound => Lookup!HeldAt(1) = {}
  BY <1>1 DEF Steps, Behind
<1>5. PICK reply :
        IF reply = "good" /\ page = Lookup!Missing /\ i = 1 THEN Lookup!Continue(2, TRUE)
        ELSE Lookup!Answer(Lookup!GetAnswer(reply, page), reply = "good")
  BY DEF Lookup!AskNuGetIndex, Lookup!NuGetPage
<1>6. page = Lookup!Missing /\ Lookup!Sound => Lookup!HeldAt(i) = {}
  <2>1. Lookup!Missing.kind # "known" /\ Lookup!Missing # Lookup!Failed
    BY DEF Lookup!Missing, Lookup!Failed
  <2>2. page = Lookup!Missing => used = {}
    <3> HIDE DEF used
    <3> QED
      BY <2>1, DatedReads
  <2> QED
    BY <1>3, <2>2
<1>7. CASE reply = "good" /\ page = Lookup!Missing /\ i = 1
  <2>1. Behind(2) = {1}
    BY <1>1 DEF Behind
  <2>2. Exhausted(2, TRUE)
    BY <1>6, <1>7, <2>1 DEF Exhausted
  <2>3. Lookup!Continue(2, TRUE)
    <3> HIDE DEF page
    <3> QED
      BY <1>5, <1>7
  <2>4. manager # "go" /\ 2 \in 1..4
    BY <1>1
  <2> HIDE DEF LookupInv
  <2> QED
    BY <1>1, <2>2, <2>3, <2>4, ContinueStep
<1>8. ASSUME ~(page = Lookup!Missing /\ i = 1) PROVE Right(page, TRUE)
  <2>1. CASE used = {} /\ page = Lookup!Missing
    <3>1. i = 2
      BY <1>1, <1>8, <2>1
    <3>2. clean /\ Lookup!Sound => \A s \in 1..3 : Lookup!HeldAt(s) = {}
      BY <1>2, <1>4, <1>6, <2>1, <3>1
    <3> QED
      BY <2>1, <3>2, BlankIsRight
  <2>2. CASE (\E v \in used : docs[i][v].day = Lookup!BadDate) /\ page = Lookup!Failed
    <3>1. ~Lookup!Sound
      BY <1>2, <2>2
    <3> QED
      BY <2>2, <3>1, BlankIsRight
  <2>3. CASE /\ used # {} /\ \A v \in used : docs[i][v].day # Lookup!BadDate
             /\ page.kind = "known" /\ DOMAIN page.timeline = used
             /\ \A v \in used : page.timeline[v] = docs[i][v].day
    <3>1. \A v \in used : docs[i][v].day \in Days
      BY <1>1, <2>3, Moment
    <3>2. Lookup!HeldAt(i) = used /\ Lookup!Held(docs[i]) = used
      BY <1>3, <3>1
    <3> HIDE DEF page, used
    <3>3. Offered(page)
      BY <1>1, <2>3, <3>2 DEF Offered
    <3>4. clean /\ Lookup!Sound => Finds(page)
      <4> SUFFICES ASSUME clean, Lookup!Sound PROVE Finds(page)
        OBVIOUS
      <4>1. \A r \in 1..3 : Lookup!HeldAt(r) # {} => r = i \/ (i < r /\ Lookup!HeldAt(i) # {})
        BY <1>1, <1>2, <1>4, <2>3, <3>2
      <4> QED
        BY <1>1, <2>3, <3>2, <4>1, FoundAt
    <3> QED
      BY <2>3, <3>3, <3>4 DEF Right
  <2> QED
    BY <2>1, <2>2, <2>3, DatedReads
<1>9. CASE ~(reply = "good" /\ page = Lookup!Missing /\ i = 1)
  <2>1. Lookup!Answer(Lookup!GetAnswer(reply, page), reply = "good")
    BY <1>5, <1>9
  <2> HIDE DEF page
  <2>2. CASE reply = "good"
    <3>1. Right(page, TRUE)
      BY <1>8, <1>9, <2>2
    <3> QED
      BY <2>1, <3>1, RepliesAreRight, AnswerStep
  <2>3. CASE reply # "good"
    <3>1. Lookup!GetAnswer(reply, page) = Lookup!Failed /\ ~(reply = "good")
      BY <2>3 DEF Lookup!GetAnswer
    <3> QED
      BY <2>1, <3>1, BlankIsRight, AnswerStep
  <2> QED
    BY <2>2, <2>3
<1> QED
  BY <1>7, <1>9


\* mise's backends, and the versions host, of which only one version is sought.
LEMMA MiseIs ==
  ASSUME CallsAssumption, World, manager = "mise", way \in {"backend", "short"},
         NEW doc \in {docs[1], docs[2], host}
  PROVE  /\ Style = "mise" /\ Lookup!Sought = {current} /\ \A s \in 1..3 : Lookup!Open(s)
         /\ Lookup!Held(doc) = {v \in DOMAIN doc : doc[v].day \in Days}
         /\ Lookup!LsRemote(doc) = Lookup!VersionsHostToml(doc)
         /\ DOMAIN Lookup!LsRemote(doc) = Lookup!Held(doc)
         /\ \A v \in Lookup!Held(doc) : Lookup!LsRemote(doc)[v] = doc[v].day
<1>1. Style = "mise" /\ Lookup!Sought = {current} /\ \A s \in 1..3 : Lookup!Open(s)
  BY DEF Style, Lookup!Sought, Lookup!Open
<1>2. \A v \in DOMAIN doc : doc[v].mark = "plain"
  BY <1>1, MarkIs
<1>3. Lookup!Held(doc) = {v \in DOMAIN doc : doc[v].day \in Days}
  BY <1>2, HeldIs DEF Lookup!Withheld
<1>4. Lookup!LsRemote(doc) = [v \in Lookup!Held(doc) |-> doc[v].day]
  BY <1>3 DEF Lookup!LsRemote, Lookup!Timeline
<1> QED
  BY <1>1, <1>3, <1>4 DEF Lookup!LsRemote, Lookup!VersionsHostToml

\* A timeline of a source that has the version sought can be given.
LEMMA WantedIsRight ==
  ASSUME CallsAssumption, World, manager = "mise", way \in {"backend", "short"},
         NEW doc \in {docs[1], docs[2], host}, NEW ok, Lookup!HasWanted(Lookup!LsRemote(doc))
  PROVE  Right(Lookup!Known(Lookup!LsRemote(doc)), ok)
<1> DEFINE res == Lookup!Known(Lookup!LsRemote(doc))
<1>1. res.kind = "known" /\ res.timeline = Lookup!LsRemote(doc)
  BY DEF Lookup!Known
<1> HIDE DEF res
<1>2. Offered(res)
  BY <1>1, MiseIs DEF Offered
<1>3. Finds(res)
  BY <1>1, MiseIs, WantedFound DEF Lookup!HasWanted
<1> QED
  BY <1>1, <1>2, <1>3 DEF Right, res

LEMMA RegistryKeeps ==
  ASSUME CallsAssumption, LookupInv, Lookup!RegistryBackends \/ Lookup!RegistryShorts
  PROVE  LookupInv'
<1>1. CASE Lookup!RegistryBackends
  <2>1. manager = "mise" /\ way = "short" /\ answer = Lookup!Unanswered
    BY <1>1 DEF Lookup!RegistryBackends, Lookup!Asking
  <2>2. \/ Lookup!Continue(2, TRUE) \/ Lookup!Answer(Lookup!Missing, FALSE)
        \/ Lookup!Answer(Lookup!Failed, FALSE)
    BY <1>1 DEF Lookup!RegistryBackends
  <2>3. Exhausted(2, TRUE) /\ manager # "go" /\ 2 \in 1..4
    BY <2>1 DEF Exhausted, Behind
  <2> QED
    BY <2>1, <2>2, <2>3, ContinueStep, BlankIsRight, AnswerStep
<1>2. CASE Lookup!RegistryShorts
  <2>1. manager = "mise" /\ way = "backend" /\ answer = Lookup!Unanswered /\ step = 2
    BY <1>2 DEF Lookup!RegistryShorts, Lookup!Asking
  <2>2. \/ Lookup!Continue(3, TRUE) \/ Lookup!Answer(Lookup!Missing, FALSE)
        \/ Lookup!Answer(Lookup!Failed, FALSE)
    BY <1>2 DEF Lookup!RegistryShorts
  <2>3. Behind(3) = Behind(2)
    BY <2>1 DEF Behind
  <2>4. Exhausted(3, TRUE) /\ manager # "go" /\ 3 \in 1..4
    BY <2>1, <2>3 DEF Exhausted, LookupInv, Steps
  <2> QED
    BY <2>1, <2>2, <2>4, ContinueStep, BlankIsRight, AnswerStep
<1> QED
  BY <1>1, <1>2

LEMMA BackendKeeps ==
  ASSUME CallsAssumption, LookupInv, NEW i \in Lookup!Sources, Lookup!AskBackend(i)
  PROVE  LookupInv'
<1>1. /\ manager = "mise" /\ way \in {"backend", "short"} /\ answer = Lookup!Unanswered /\ i \in {1, 2}
      /\ step = (IF way = "backend" THEN i ELSE i + 1) /\ (i = 2 => way = "short")
      /\ docs[i] \in {docs[1], docs[2], host}
  BY DEF Lookup!AskBackend, Lookup!Asking, Lookup!BackendStep, Lookup!Sources
<1>2. \/ Lookup!Answer(Lookup!Failed, FALSE)
      \/ /\ Lookup!HasWanted(Lookup!LsRemote(docs[i]))
         /\ Lookup!Answer(Lookup!Known(Lookup!LsRemote(docs[i])), TRUE)
      \/ ~Lookup!HasWanted(Lookup!LsRemote(docs[i])) /\ Lookup!Continue(step + 1, TRUE)
  BY DEF Lookup!AskBackend
<1>3. World
  BY DEF LookupInv
<1>4. CASE Lookup!Answer(Lookup!Failed, FALSE)
  BY <1>4, BlankIsRight, AnswerStep
<1>5. CASE /\ Lookup!HasWanted(Lookup!LsRemote(docs[i]))
           /\ Lookup!Answer(Lookup!Known(Lookup!LsRemote(docs[i])), TRUE)
  BY <1>1, <1>3, <1>5, WantedIsRight, AnswerStep
<1>6. CASE ~Lookup!HasWanted(Lookup!LsRemote(docs[i])) /\ Lookup!Continue(step + 1, TRUE)
  <2>1. Lookup!HeldAt(i) = {}
    <3>1. current \notin Lookup!Held(docs[i]) /\ Lookup!Sought = {current}
      BY <1>1, <1>3, <1>6, MiseIs DEF Lookup!HasWanted
    <3> QED
      BY <1>1, <3>1, EachSource
  <2>2. step + 1 \in 1..4 /\ Behind(step + 1) \subseteq Behind(step) \cup {i}
    BY <1>1 DEF Behind
  <2>3. Exhausted(step + 1, TRUE)
    BY <1>1, <2>1, <2>2 DEF Exhausted, LookupInv, Steps
  <2> DEFINE to == step + 1
  <2>4. to \in 1..4 /\ Exhausted(to, TRUE) /\ Lookup!Continue(to, TRUE) /\ manager # "go"
    BY <1>1, <1>6, <2>2, <2>3
  <2> HIDE DEF to
  <2> QED
    BY <1>1, <2>4, ContinueStep
<1> QED
  BY <1>2, <1>4, <1>5, <1>6

\* What the versions host says.
LEMMA HostReads ==
  ASSUME CallsAssumption, World, manager = "mise", way \in {"backend", "short"},
         NEW doc \in {docs[1], docs[2], host}, NEW reply
  PROVE  \/ reply # "good" /\ Lookup!HostTimeline(reply, doc) \in {Lookup!Missing, Lookup!Failed}
         \/ /\ reply = "good" /\ Lookup!Held(doc) = {}
            /\ Lookup!HostTimeline(reply, doc) = Lookup!Missing
         \/ /\ reply = "good" /\ Lookup!Held(doc) # {}
            /\ Lookup!HostTimeline(reply, doc) = Lookup!Known(Lookup!LsRemote(doc))
<1>1. /\ DOMAIN Lookup!VersionsHostToml(doc) = Lookup!Held(doc)
      /\ Lookup!VersionsHostToml(doc) = Lookup!LsRemote(doc)
  BY MiseIs
<1> QED
  BY <1>1 DEF Lookup!HostTimeline

LEMMA HostForBackendKeeps ==
  ASSUME CallsAssumption, LookupInv, NEW i \in Lookup!Sources, Lookup!AskHostForBackend(i)
  PROVE  LookupInv'
<1> DEFINE doc == IF i = 1 THEN docs[2] ELSE host
<1>1. /\ manager = "mise" /\ way = "backend" /\ answer = Lookup!Unanswered /\ i \in {1, 2}
      /\ step = 2 + i /\ doc \in {docs[1], docs[2], host}
  BY DEF Lookup!AskHostForBackend, Lookup!Asking, Lookup!Sources
<1>2. PICK reply : LET read == Lookup!HostTimeline(reply, doc) IN
        \/ Lookup!Answer(Lookup!Failed, FALSE)
        \/ read.kind = "known" /\ Lookup!HasWanted(read.timeline) /\ Lookup!Answer(read, TRUE)
        \/ /\ ~(read.kind = "known" /\ Lookup!HasWanted(read.timeline))
           /\ IF i = 1 THEN Lookup!Continue(4, reply = "good")
              ELSE Lookup!Answer(Lookup!Missing, reply = "good")
  BY DEF Lookup!AskHostForBackend
<1> DEFINE read == Lookup!HostTimeline(reply, doc)
<1>3. World
  BY DEF LookupInv
<1>4. \/ reply # "good" /\ read \in {Lookup!Missing, Lookup!Failed}
      \/ reply = "good" /\ Lookup!Held(doc) = {} /\ read = Lookup!Missing
      \/ reply = "good" /\ Lookup!Held(doc) # {} /\ read = Lookup!Known(Lookup!LsRemote(doc))
  BY <1>1, <1>3, HostReads
<1>5. read.kind = "known" => read = Lookup!Known(Lookup!LsRemote(doc)) /\ read.timeline = Lookup!LsRemote(doc)
  BY <1>4 DEF Lookup!Missing, Lookup!Failed, Lookup!Known
<1>6. CASE Lookup!Answer(Lookup!Failed, FALSE)
  BY <1>6, BlankIsRight, AnswerStep
<1>7. CASE read.kind = "known" /\ Lookup!HasWanted(read.timeline) /\ Lookup!Answer(read, TRUE)
  <2> HIDE DEF read, doc
  <2>1. Right(read, TRUE)
    BY <1>1, <1>3, <1>5, <1>7, WantedIsRight
  <2> QED
    BY <1>7, <2>1, AnswerStep
<1>8. CASE /\ ~(read.kind = "known" /\ Lookup!HasWanted(read.timeline))
           /\ IF i = 1 THEN Lookup!Continue(4, reply = "good")
              ELSE Lookup!Answer(Lookup!Missing, reply = "good")
  <2>1. reply = "good" => Lookup!HeldAt(i + 1) = {}
    <3> SUFFICES ASSUME reply = "good" PROVE Lookup!HeldAt(i + 1) = {}
      OBVIOUS
    <3>1. current \notin Lookup!Held(doc)
      <4>1. CASE Lookup!Held(doc) = {}
        BY <4>1
      <4>2. CASE read = Lookup!Known(Lookup!LsRemote(doc))
        <5>1. read.kind = "known" /\ read.timeline = Lookup!LsRemote(doc)
          BY <4>2 DEF Lookup!Known
        <5>2. ~Lookup!HasWanted(Lookup!LsRemote(doc))
          BY <1>8, <5>1
        <5> HIDE DEF doc
        <5> QED
          BY <1>1, <1>3, <5>2, MiseIs DEF Lookup!HasWanted
      <4> QED
        BY <1>4, <4>1, <4>2
    <3>2. Lookup!Sought = {current}
      BY <1>1, <1>3, MiseIs
    <3>3. CASE i = 1
      BY <3>1, <3>2, <3>3, EachSource
    <3>4. CASE i = 2
      BY <3>1, <3>2, <3>4, EachSource
    <3> QED
      BY <1>1, <3>3, <3>4
  <2>2. clean /\ Lookup!Sound => \A s \in Behind(step) : Lookup!HeldAt(s) = {}
    BY <1>1 DEF LookupInv, Steps
  <2>3. CASE i = 1
    <3>1. Behind(4) = {1, 2} /\ Behind(step) = {1}
      BY <1>1, <2>3 DEF Behind
    <3>2. Exhausted(4, reply = "good")
      BY <2>1, <2>2, <2>3, <3>1 DEF Exhausted
    <3>3. Lookup!Continue(4, reply = "good") /\ manager # "go" /\ 4 \in 1..4
      BY <1>1, <1>8, <2>3
    <3> QED
      BY <1>1, <3>2, <3>3, ContinueStep
  <2>4. CASE i = 2
    <3>1. Behind(step) = {1, 2}
      BY <1>1, <2>4 DEF Behind
    <3>2. clean /\ reply = "good" /\ Lookup!Sound => \A s \in 1..3 : Lookup!HeldAt(s) = {}
      BY <2>1, <2>2, <2>4, <3>1, EachSource
    <3>3. Lookup!Answer(Lookup!Missing, reply = "good")
      BY <1>8, <2>4
    <3> QED
      BY <3>2, <3>3, BlankIsRight, AnswerStep
  <2> QED
    BY <1>1, <2>3, <2>4
<1> QED
  BY <1>2, <1>6, <1>7, <1>8


\* Homebrew: one commit of the one version, in a git ref or on GitHub.
LEMMA CommitIs ==
  ASSUME CallsAssumption, World, manager = "brew", NEW doc \in {docs[1], docs[2], host}
  PROVE  /\ Lookup!Sought = {current}
         /\ Lookup!CommitOf(doc) <=> current \in Lookup!Held(doc)
         /\ \A ok : Lookup!CommitOf(doc) => Right(Lookup!CommitTime(doc), ok)
<1>1. Style = "brew" /\ Lookup!Sought = {current} /\ DOMAIN doc \subseteq {current}
  BY WaysAre DEF Style, Lookup!Sought, World
<1>2. \A v \in DOMAIN doc : /\ doc[v].mark = "plain" /\ doc[v].day \in Days \cup {Lookup!BadDate}
  BY <1>1, MarkIs, Moment
<1>3. Lookup!Held(doc) = {v \in DOMAIN doc : doc[v].day \in Days}
  BY <1>2, HeldIs DEF Lookup!Withheld
<1>4. Lookup!CommitOf(doc) <=> current \in Lookup!Held(doc)
  BY <1>1, <1>2, <1>3, DaysAre DEF Lookup!CommitOf
<1>5. ASSUME Lookup!CommitOf(doc), NEW ok PROVE Right(Lookup!CommitTime(doc), ok)
  <2> DEFINE res == Lookup!CommitTime(doc)
  <2>1. /\ res.kind = "known" /\ DOMAIN res.timeline = {current}
        /\ res.timeline[current] = doc[current].day
    BY DEF Lookup!CommitTime, Lookup!Known
  <2> HIDE DEF res
  <2>2. Offered(res)
    BY <1>4, <1>5, <2>1 DEF Offered
  <2>3. Finds(res)
    BY <1>1, <2>1, WantedFound
  <2> QED
    BY <2>1, <2>2, <2>3 DEF Right, res
<1> QED
  BY <1>1, <1>4, <1>5

LEMMA TapKeeps ==
  ASSUME CallsAssumption, LookupInv, Lookup!StartWithTap PROVE LookupInv'
<1>1. manager = "brew" /\ answer = Lookup!Unanswered
  BY DEF Lookup!StartWithTap, Lookup!Asking
<1>2. World
  BY DEF LookupInv
<1>3. /\ Lookup!Open(1) <=> setting /\ way # "untapped"
      /\ Lookup!Open(2) <=> setting /\ way # "untapped"
      /\ Lookup!Open(3) <=> way = "github"
  BY <1>1 DEF Lookup!Open
<1>4. \/ way = "untapped" /\ Lookup!Answer(Lookup!Missing, TRUE)
      \/ way # "untapped" /\ setting /\ Lookup!Continue(2, TRUE)
      \/ ~setting /\ Lookup!FallbackRemote /\ Lookup!Continue(4, TRUE)
      \/ ~setting /\ ~Lookup!FallbackRemote /\ Lookup!Answer(Lookup!Missing, TRUE)
  BY <1>2 DEF Lookup!StartWithTap, World
<1>5. CASE /\ way = "untapped" \/ (~setting /\ ~Lookup!FallbackRemote)
           /\ Lookup!Answer(Lookup!Missing, TRUE)
  <2>1. \A s \in 1..3 : Lookup!HeldAt(s) = {}
    BY <1>3, <1>5, EachSource DEF Lookup!FallbackRemote
  <2> QED
    BY <1>5, <2>1, BlankIsRight, AnswerStep
<1>6. CASE Lookup!Continue(2, TRUE)
  <2>1. Exhausted(2, TRUE) /\ manager # "go" /\ 2 \in 1..4
    BY <1>1, <1>2, WaysAre DEF Exhausted, Behind
  <2> QED
    BY <1>1, <1>6, <2>1, ContinueStep
<1>7. CASE ~setting /\ Lookup!Continue(4, TRUE)
  <2>1. Lookup!HeldAt(1) = {} /\ Lookup!HeldAt(2) = {}
    BY <1>3, <1>7, EachSource
  <2>2. Exhausted(4, TRUE) /\ manager # "go" /\ 4 \in 1..4
    BY <1>1, <2>1 DEF Exhausted, Behind
  <2> QED
    BY <1>1, <1>7, <2>2, ContinueStep
<1> QED
  BY <1>4, <1>5, <1>6, <1>7

LEMMA GitRefKeeps ==
  ASSUME CallsAssumption, LookupInv, NEW i \in Lookup!Sources, Lookup!AskGitRef(i)
  PROVE  LookupInv'
<1>1. /\ manager = "brew" /\ answer = Lookup!Unanswered /\ i \in {1, 2} /\ step = i + 1
      /\ docs[i] \in {docs[1], docs[2], host}
  BY DEF Lookup!AskGitRef, Lookup!Asking, Lookup!Sources
<1>2. World /\ way # "backend"
  BY <1>1, WaysAre DEF LookupInv
<1>3. PICK reply :
        \/ Lookup!CommitOf(docs[i]) /\ Lookup!Answer(Lookup!CommitTime(docs[i]), TRUE)
        \/ /\ ~(reply = "good" /\ Lookup!CommitOf(docs[i]))
           /\ IF i = 1 \/ Lookup!FallbackRemote THEN Lookup!Continue(i + 2, reply = "good")
              ELSE Lookup!Answer(Lookup!Failed, reply = "good")
  BY DEF Lookup!AskGitRef
<1>4. CASE Lookup!CommitOf(docs[i]) /\ Lookup!Answer(Lookup!CommitTime(docs[i]), TRUE)
  <2>1. Right(Lookup!CommitTime(docs[i]), TRUE)
    BY <1>1, <1>2, <1>4, CommitIs
  <2> QED
    BY <1>4, <2>1, AnswerStep
<1>5. CASE /\ ~(reply = "good" /\ Lookup!CommitOf(docs[i]))
           /\ IF i = 1 \/ Lookup!FallbackRemote THEN Lookup!Continue(i + 2, reply = "good")
              ELSE Lookup!Answer(Lookup!Failed, reply = "good")
  <2>1. reply = "good" => Lookup!HeldAt(i) = {}
    <3>1. reply = "good" => current \notin Lookup!Held(docs[i])
      BY <1>1, <1>2, <1>5, CommitIs
    <3>2. Lookup!Sought = {current}
      BY <1>1, <1>2, CommitIs
    <3> QED
      BY <1>1, <3>1, <3>2, EachSource
  <2>2. i = 2 /\ clean /\ Lookup!Sound => Lookup!HeldAt(1) = {}
    BY <1>1, <1>2 DEF LookupInv, Steps, Behind
  <2>3. CASE i = 1 \/ Lookup!FallbackRemote
    <3> DEFINE to == i + 2
    <3>1. Behind(to) \subseteq {1, i} /\ to \in 1..4 /\ manager # "go"
      BY <1>1, <1>2 DEF Behind
    <3>2. Exhausted(to, reply = "good")
      BY <1>1, <2>1, <2>2, <3>1 DEF Exhausted
    <3>3. Lookup!Continue(to, reply = "good")
      BY <1>5, <2>3
    <3> HIDE DEF to
    <3> QED
      BY <1>1, <3>1, <3>2, <3>3, ContinueStep
  <2>4. CASE ~(i = 1 \/ Lookup!FallbackRemote)
    <3>1. Lookup!HeldAt(3) = {}
      BY <1>1, <2>4, EachSource DEF Lookup!Open, Lookup!FallbackRemote
    <3>2. clean /\ reply = "good" /\ Lookup!Sound => \A s \in 1..3 : Lookup!HeldAt(s) = {}
      BY <1>1, <2>1, <2>2, <2>4, <3>1, EachSource
    <3>3. Lookup!Answer(Lookup!Failed, reply = "good")
      BY <1>5, <2>4
    <3> QED
      BY <3>2, <3>3, BlankIsRight, AnswerStep
  <2> QED
    BY <2>3, <2>4
<1> QED
  BY <1>3, <1>4, <1>5

LEMMA GitHubKeeps ==
  ASSUME CallsAssumption, LookupInv, Lookup!AskGitHub PROVE LookupInv'
<1>1. manager = "brew" /\ answer = Lookup!Unanswered /\ step = 4
  BY DEF Lookup!AskGitHub, Lookup!Asking
<1>2. World
  BY DEF LookupInv
<1>3. PICK reply :
        \/ Lookup!CommitOf(host) /\ Lookup!Answer(Lookup!CommitTime(host), TRUE)
        \/ /\ ~(way = "github" /\ reply = "good" /\ Lookup!CommitOf(host))
           /\ Lookup!Answer(Lookup!Failed, reply = "good")
  BY DEF Lookup!AskGitHub
<1>4. CASE Lookup!CommitOf(host) /\ Lookup!Answer(Lookup!CommitTime(host), TRUE)
  <2>1. Right(Lookup!CommitTime(host), TRUE)
    BY <1>1, <1>2, <1>4, CommitIs
  <2> QED
    BY <1>4, <2>1, AnswerStep
<1>5. CASE /\ ~(way = "github" /\ reply = "good" /\ Lookup!CommitOf(host))
           /\ Lookup!Answer(Lookup!Failed, reply = "good")
  <2>1. clean /\ Lookup!Sound => Lookup!HeldAt(1) = {} /\ Lookup!HeldAt(2) = {}
    <3>1. Behind(step) = {1, 2}
      BY <1>1 DEF Behind
    <3> QED
      BY <1>1, <3>1 DEF LookupInv, Steps
  <2>2. reply = "good" => Lookup!HeldAt(3) = {}
    <3>1. /\ Lookup!Sought = {current}
          /\ reply = "good" => ~Lookup!Open(3) \/ current \notin Lookup!Held(host)
      BY <1>1, <1>2, <1>5, CommitIs DEF Lookup!Open
    <3> QED
      BY <3>1, EachSource
  <2>3. clean /\ reply = "good" /\ Lookup!Sound => \A s \in 1..3 : Lookup!HeldAt(s) = {}
    BY <2>1, <2>2, EachSource
  <2> QED
    BY <1>5, <2>3, BlankIsRight, AnswerStep
<1> QED
  BY <1>3, <1>4, <1>5

LEMMA HostForShortKeeps ==
  ASSUME CallsAssumption, LookupInv, Lookup!AskHostForShort PROVE LookupInv'
<1>1. /\ manager = "mise" /\ way = "short" /\ step = 4 /\ answer = Lookup!Unanswered
  BY DEF Lookup!AskHostForShort, Lookup!Asking
<1>2. World
  BY DEF LookupInv
<1>3. PICK reply : Lookup!Answer(Lookup!HostTimeline(reply, host), reply = "good")
  BY DEF Lookup!AskHostForShort
<1> DEFINE read == Lookup!HostTimeline(reply, host)
<1>4. \/ reply # "good" /\ read \in {Lookup!Missing, Lookup!Failed}
      \/ reply = "good" /\ Lookup!Held(host) = {} /\ read = Lookup!Missing
      \/ reply = "good" /\ Lookup!Held(host) # {} /\ read = Lookup!Known(Lookup!LsRemote(host))
  BY <1>1, <1>2, HostReads
<1>5. clean /\ Lookup!Sound => Lookup!HeldAt(1) = {} /\ Lookup!HeldAt(2) = {}
  <2>1. Behind(step) = {1, 2}
    BY <1>1 DEF Behind
  <2> QED
    BY <1>1, <2>1 DEF LookupInv, Steps
<1> HIDE DEF read
<1>6. CASE reply # "good" /\ read \in {Lookup!Missing, Lookup!Failed}
  <2>1. Right(read, reply = "good")
    BY <1>6, BlankIsRight
  <2> QED
    BY <1>3, <2>1, AnswerStep DEF read
<1>7. CASE reply = "good" /\ Lookup!Held(host) = {} /\ read = Lookup!Missing
  <2>1. clean /\ Lookup!Sound => \A s \in 1..3 : Lookup!HeldAt(s) = {}
    BY <1>5, <1>7, EachSource
  <2>2. Right(read, reply = "good")
    BY <1>7, <2>1, BlankIsRight
  <2> QED
    BY <1>3, <2>2, AnswerStep DEF read
<1>8. CASE reply = "good" /\ Lookup!Held(host) # {} /\ read = Lookup!Known(Lookup!LsRemote(host))
  <2>1. read.kind = "known" /\ read.timeline = Lookup!LsRemote(host)
    BY <1>8 DEF Lookup!Known
  <2>2. Offered(read)
    BY <1>1, <1>2, <2>1, MiseIs DEF Offered
  <2>3. Lookup!HeldAt(3) \subseteq DOMAIN read.timeline
    BY <1>1, <1>2, <2>1, MiseIs, EachSource
  <2>4. ASSUME clean, Lookup!Sound PROVE Finds(read)
    <3>1. \A r \in 1..3 : Lookup!HeldAt(r) # {} => r = 3
      BY <1>5, <2>4, EachSource
    <3> QED
      BY <2>1, <2>3, <3>1, FoundAt
  <2>5. Right(read, reply = "good")
    BY <2>1, <2>2, <2>4 DEF Right
  <2> QED
    BY <1>3, <2>5, AnswerStep DEF read
<1> QED
  BY <1>4, <1>6, <1>7, <1>8


-----------------------------------------------------------------------------
(* The target found in a timeline *)

\* Of the dated versions of a finite timeline there is a newest one.
LEMMA NewestIsOne ==
  ASSUME NEW timeline, NEW among \in SUBSET Nat, among # {}, IsFiniteSet(among),
         \A v \in among : timeline[v] \in 0..999
  PROVE  Lookup!NewestByDay(timeline, among) \in among
<1> DEFINE moments == {timeline[v] : v \in among}
<1>1. moments \in SUBSET Nat /\ moments # {} /\ IsFiniteSet(moments)
  <2>1. ASSUME NEW d \in moments PROVE d \in Nat /\ d <= 999
    <3>1. PICK v \in among : d = timeline[v]
      OBVIOUS
    <3>2. d \in 0..999
      BY <3>1, Zenon
    <3> HIDE DEF moments
    <3> QED
      BY <3>2
  <2>2. moments # {}
    <3>1. PICK v \in among : TRUE
      OBVIOUS
    <3>2. timeline[v] \in moments
      OBVIOUS
    <3> HIDE DEF moments
    <3> QED
      BY <3>2
  <2>3. 999 \in Nat
    OBVIOUS
  <2> HIDE DEF moments
  <2>4. moments \in SUBSET Nat
    BY <2>1
  <2> QED
    BY <2>1, <2>2, <2>3, <2>4, FS_BoundedSetOfNaturals
<1>2. PICK last \in moments : \A d \in moments : d <= last
  <2> HIDE DEF moments
  <2> QED
    BY <1>1, GreatestNumber
<1> DEFINE latest_ones == {v \in among : timeline[v] = last}
<1>3. latest_ones \in SUBSET Nat /\ latest_ones # {} /\ IsFiniteSet(latest_ones)
  <2>1. latest_ones \in SUBSET among /\ latest_ones # {}
    BY <1>2
  <2> HIDE DEF latest_ones
  <2> QED
    BY <2>1, FS_Subset
<1>4. PICK v \in latest_ones : \A w \in latest_ones : w <= v
  <2> HIDE DEF latest_ones
  <2> QED
    BY <1>3, GreatestNumber
<1>5. v \in among /\ timeline[v] = last
  BY <1>4
<1>6. ASSUME NEW w \in among
      PROVE  timeline[w] < timeline[v] \/ (timeline[w] = timeline[v] /\ w <= v)
  <2>1. timeline[w] \in moments
    OBVIOUS
  <2>2. timeline[w] <= last /\ timeline[w] \in Nat /\ last \in Nat
    <3> HIDE DEF moments
    <3> QED
      BY <1>1, <1>2, <2>1
  <2>3. timeline[w] = last => w <= v
    BY <1>4
  <2> HIDE DEF latest_ones
  <2>4. timeline[w] # last => timeline[w] < last
    <3> DEFINE day == timeline[w]
    <3>1. day \in Nat /\ last \in Nat /\ day <= last
      BY <2>2
    <3> HIDE DEF day
    <3>2. day # last => day < last
      BY <3>1
    <3> QED
      BY <3>2 DEF day
  <2> QED
    BY <1>5, <2>3, <2>4
<1> QED
  BY <1>5, <1>6 DEF Lookup!NewestByDay

\* What is offered is dated, and there is only so much of it.
LEMMA OfferedIsFinite ==
  ASSUME CallsAssumption, World, NEW res, Offered(res)
  PROVE  /\ DOMAIN res.timeline \in SUBSET Nat /\ IsFiniteSet(DOMAIN res.timeline)
         /\ \A v \in DOMAIN res.timeline : res.timeline[v] \in 0..999
<1> DEFINE all == (DOMAIN docs[1] \cup DOMAIN docs[2]) \cup DOMAIN host
<1>1. ASSUME NEW v \in DOMAIN res.timeline
      PROVE  v \in all /\ v \in Nat /\ res.timeline[v] \in 0..999
  <2>1. PICK doc \in {docs[1], docs[2], host} : v \in Lookup!Held(doc) /\ res.timeline[v] = doc[v].day
    BY DEF Offered
  <2>2. v \in DOMAIN doc /\ doc[v].day \in Days
    BY <2>1 DEF Lookup!Held
  <2>3. \A d \in Days : d \in 0..999
    BY DEF CallsAssumption, Lookup!LookupAssumption
  <2>4. DOMAIN doc \subseteq Nat
    BY DaysAre DEF World
  <2> QED
    <3>1. v \in all /\ v \in Nat
      BY <2>2, <2>4
    <3>2. res.timeline[v] \in 0..999
      BY <2>1, <2>2, <2>3
    <3> QED
      BY <3>1, <3>2
<1>2. IsFiniteSet(all)
  <2>1. IsFiniteSet(DOMAIN docs[1]) /\ IsFiniteSet(DOMAIN docs[2]) /\ IsFiniteSet(DOMAIN host)
    BY DEF World
  <2>2. IsFiniteSet(DOMAIN docs[1] \cup DOMAIN docs[2])
    BY <2>1, FS_Union
  <2> QED
    BY <2>1, <2>2, FS_Union
<1>3. DOMAIN res.timeline \in SUBSET all
  BY <1>1
<1>4. IsFiniteSet(DOMAIN res.timeline)
  <2> HIDE DEF all
  <2> QED
    BY <1>2, <1>3, FS_Subset
<1> QED
  BY <1>1, <1>4

LEMMA TargetIsFit ==
  ASSUME CallsAssumption, World, Offered(answer)
  PROVE  \/ Lookup!DiscoveredTarget = current
         \/ /\ Lookup!DiscoveredTarget \in DOMAIN answer.timeline
            /\ Lookup!MarkOf(Lookup!DiscoveredTarget) \notin
                 {"odd"} \cup (IF manager = "gem" THEN {"pre"} ELSE {})
<1> DEFINE versions == {v \in DOMAIN answer.timeline : Lookup!IsVersion(v)}
           final == {v \in DOMAIN answer.timeline : Lookup!IsVersion(v) /\ Lookup!MarkOf(v) # "pre"}
<1>1. ASSUME NEW among \in SUBSET DOMAIN answer.timeline
      PROVE  /\ among = {} => \A newest : Lookup!OrCurrent(among, newest) = current
             /\ among # {} => Lookup!OrCurrent(among, Lookup!NewestByDay(answer.timeline, among)) \in among
             /\ among # {} => Lookup!OrCurrent(among, Lookup!NewestGoVersion(among)) \in among
  <2>1. among \in SUBSET Nat /\ IsFiniteSet(among) /\ \A v \in among : answer.timeline[v] \in 0..999
    BY OfferedIsFinite, FS_Subset
  <2>2. among # {} => Lookup!NewestByDay(answer.timeline, among) \in among
    BY <2>1, NewestIsOne
  <2>3. among # {} => Lookup!NewestGoVersion(among) \in among
    <3>1. among # {} => \E v \in among : \A w \in among : w <= v
      BY <2>1, GreatestNumber
    <3> QED
      BY <3>1 DEF Lookup!NewestGoVersion
  <2> QED
    BY <2>2, <2>3 DEF Lookup!OrCurrent
<1>2. /\ versions \in SUBSET DOMAIN answer.timeline /\ final \in SUBSET DOMAIN answer.timeline
      /\ \A v \in versions : Lookup!MarkOf(v) # "odd"
      /\ \A v \in final : Lookup!MarkOf(v) # "odd" /\ Lookup!MarkOf(v) # "pre"
  BY DEF Lookup!IsVersion
<1>3. CASE manager = "gem"
  <2>1. Lookup!DiscoveredTarget = Lookup!OrCurrent(final, Lookup!NewestByDay(answer.timeline, final))
    BY <1>3 DEF Lookup!DiscoveredTarget, Lookup!GemTarget
  <2> HIDE DEF final
  <2> QED
    BY <1>1, <1>2, <1>3, <2>1
<1>4. CASE manager = "go"
  <2>1. Lookup!DiscoveredTarget = Lookup!OrCurrent(versions, Lookup!NewestGoVersion(versions))
    BY <1>4 DEF Lookup!DiscoveredTarget, Lookup!GoTarget
  <2> HIDE DEF versions
  <2> QED
    BY <1>1, <1>2, <1>4, <2>1
<1>5. CASE manager \notin {"gem", "go"}
  <2>1. Lookup!DiscoveredTarget = Lookup!OrCurrent(versions, Lookup!NewestByDay(answer.timeline, versions))
    BY <1>5 DEF Lookup!DiscoveredTarget, Lookup!RegistryTarget
  <2> HIDE DEF versions
  <2> QED
    BY <1>1, <1>2, <1>5, <2>1
<1> QED
  BY <1>3, <1>4, <1>5

-----------------------------------------------------------------------------
(* Every lookup *)

LEMMA LookupKept ==
  ASSUME CallsAssumption, LookupInv, Lookup!Next PROVE LookupInv'
<1>1. CASE Lookup!AskNpm \/ Lookup!AskPnpm \/ Lookup!AskCratesIo \/ Lookup!AskNpmForMise
  BY <1>1, TimeMapKeeps
<1>2. CASE Lookup!AskBun \/ Lookup!AskRubyGems \/ Lookup!AskUvPypi \/ Lookup!AskPipxPypi
  BY <1>2, BunKeeps, GemKeeps, UvKeeps, PipxKeeps
<1>3. CASE \/ Lookup!ModuleVersions \/ Lookup!ModuleVersionTime \/ Lookup!ModuleTimesRead
           \/ Lookup!InstalledModuleTime
  BY <1>3, ModuleVersionsKeep, ModuleTimeKeeps, ModuleReadKeeps, InstalledTimeKeeps
<1>4. CASE \E i \in Lookup!Sources :
             \/ Lookup!AskNuGetIndex(i) \/ Lookup!AskBackend(i) \/ Lookup!AskHostForBackend(i)
             \/ Lookup!AskGitRef(i)
  BY <1>4, NuGetKeeps, BackendKeeps, HostForBackendKeeps, GitRefKeeps
<1>5. CASE \/ Lookup!RegistryBackends \/ Lookup!RegistryShorts \/ Lookup!AskHostForShort
           \/ Lookup!StartWithTap \/ Lookup!AskGitHub
  BY <1>5, RegistryKeeps, HostForShortKeeps, TapKeeps, GitHubKeeps
<1> QED
  BY <1>1, <1>2, <1>3, <1>4, <1>5 DEF Lookup!Next

\* Nothing is looked up by the other calls.
LookupHolds ==
  IF call = "look up" THEN LookupInv ELSE answer = Lookup!Unanswered

LEMMA LookupInductive == Spec => []LookupHolds
<1>1. Init => LookupHolds
  BY CallsAssumption, LookupStarts DEF Init, LookupHolds, LookupRests
<1>2. LookupHolds /\ [Next]_vars => LookupHolds'
  <2> SUFFICES ASSUME LookupHolds, [Next]_vars PROVE LookupHolds'
    OBVIOUS
  <2>1. CASE LookUp
    BY <2>1, CallsAssumption, LookupKept DEF LookUp, LookupHolds
  <2>2. CASE Discover \/ Apply \/ InRun(Runner!Next)
    BY <2>2 DEF Discover, Apply, InRun, lookupVars, LookupHolds
  <2>3. CASE UNCHANGED vars
    <3>1. UNCHANGED <<call, manager, lookupVars>>
      BY <2>3 DEF vars
    <3>2. UNCHANGED Lookup!world /\ UNCHANGED <<manager, way, docs, host, current, setting, cutoff>>
      BY <3>1 DEF lookupVars, Lookup!world
    <3>3. UNCHANGED <<call, step, unread, found, clean, answer>>
      BY <3>1 DEF lookupVars
    <3>4. LookupInv => LookupInv'
      <4> SUFFICES ASSUME LookupInv PROVE LookupInv'
        OBVIOUS
      <4>1. World' /\ Steps' /\ TimesRead' /\ Offered(answer)'
        BY <3>2, <3>3, SameWorld DEF LookupInv, Steps, TimesRead, Answered, Offered
      <4>2. Finds(answer) => Finds(answer)'
        BY <3>2, <3>3, SameWorld DEF Finds
      <4> QED
        BY <3>2, <3>3, <4>1, <4>2, SameWorld DEF LookupInv, Answered
    <3> QED
      BY <3>3, <3>4 DEF LookupHolds
  <2> QED
    BY <2>1, <2>2, <2>3 DEF Next
<1> QED
  BY <1>1, <1>2, PTL DEF Spec

\* Whichever of its sources were asked or failed, a lookup offers only versions that one
\* of them has for this manager, dated as that source dates them, and the target that is
\* found among them is a version, and no prerelease for gem, or the one installed.
THEOREM OnlyFitTargets == Spec => []OnlyFitIsOffered
<1>1. LookupHolds => OnlyFitIsOffered
  <2> SUFFICES ASSUME LookupHolds PROVE OnlyFitIsOffered
    OBVIOUS
  <2>1. CASE call = "look up"
    <3>1. LookupInv /\ World /\ Offered(answer)
      BY <2>1 DEF LookupHolds, LookupInv, Answered
    <3>2. \/ Lookup!DiscoveredTarget = current
          \/ /\ Lookup!DiscoveredTarget \in DOMAIN answer.timeline
             /\ Lookup!MarkOf(Lookup!DiscoveredTarget) \notin
                  {"odd"} \cup (IF manager = "gem" THEN {"pre"} ELSE {})
      BY <3>1, CallsAssumption, TargetIsFit
    <3>3. \A v \in DOMAIN answer.timeline :
            \E doc \in {docs[1], docs[2], host} : v \in Lookup!Held(doc) /\ answer.timeline[v] = doc[v].day
      BY <3>1 DEF Offered
    <3> QED
      BY <3>2, <3>3, Zenon DEF OnlyFitIsOffered, Lookup!OnlyFitIsOffered
  <2>2. CASE call # "look up"
    <3>1. answer.kind # "known" /\ DOMAIN answer.timeline = {}
      <4>1. answer = Lookup!Unanswered
        BY <2>2 DEF LookupHolds
      <4>2. Lookup!Unanswered.kind = "none" /\ Lookup!Unanswered.timeline = Lookup!Nothing
        BY DEF Lookup!Unanswered
      <4>3. DOMAIN Lookup!Nothing = {}
        BY DEF Lookup!Nothing
      <4> QED
        BY <4>1, <4>2, <4>3
    <3> QED
      BY <3>1 DEF OnlyFitIsOffered, Lookup!OnlyFitIsOffered
  <2> QED
    BY <2>1, <2>2
<1> QED
  BY <1>1, LookupInductive, PTL

\* When every request was answered, a lookup has all that the first source holding a
\* wanted version has of it, however many sources before it had nothing.
THEOREM NoSourceForgotten == Spec => []NothingLost
<1>1. LookupHolds => NothingLost
  BY DEF LookupHolds, LookupInv, Answered, Finds, NothingLost, Lookup!NothingLost
<1> QED
  BY <1>1, LookupInductive, PTL

-----------------------------------------------------------------------------
(* The commands of an update: lists *)

\* The instance counts as its user does.
LEMMA SameCount == \A S : /\ Commands!Cardinality(S) = Cardinality(S)
                          /\ Commands!IsFiniteSet(S) = IsFiniteSet(S)
BY DEF Commands!Cardinality, Cardinality, Commands!IsFiniteSet, IsFiniteSet

\* How many elements of a finite set of numbers there are up to one of them: at least one,
\* and for each element a different number.
LEMMA RanksDiffer ==
  ASSUME NEW S \in SUBSET Nat, IsFiniteSet(S)
  PROVE  /\ \A i \in S : /\ IsFiniteSet({j \in S : j <= i})
                         /\ Cardinality({j \in S : j <= i}) \in 1..Cardinality(S)
         /\ \A i, j \in S : Cardinality({k \in S : k <= i}) = Cardinality({k \in S : k <= j}) => i = j
<1> DEFINE N == Cardinality(S)
           UpTo(i) == {j \in S : j <= i}
<1>1. N \in Nat
  BY FS_CardinalityType
<1>2. ASSUME NEW i \in S
      PROVE  IsFiniteSet(UpTo(i)) /\ Cardinality(UpTo(i)) \in 1..N
  <2>1. IsFiniteSet(UpTo(i)) /\ Cardinality(UpTo(i)) <= N
    BY FS_Subset
  <2>2. Cardinality(UpTo(i)) \in Nat
    BY <2>1, FS_CardinalityType
  <2>3. i \in UpTo(i)
    OBVIOUS
  <2>4. Cardinality(UpTo(i)) # 0
    BY <2>1, <2>3, FS_EmptySet
  <2> QED
    BY <1>1, <2>1, <2>2, <2>4
<1>3. ASSUME NEW i \in S, NEW j \in S, i < j PROVE Cardinality(UpTo(i)) # Cardinality(UpTo(j))
  <2>1. i \in Nat /\ j \in Nat /\ i < j /\ \A k \in S : k \in Nat
    BY <1>3
  <2>2. UpTo(i) \in SUBSET UpTo(j)
    <3>1. \A k \in S : k <= i => k <= j
      BY <2>1
    <3> QED
      BY <3>1
  <2>3. j \in UpTo(j) /\ j \notin UpTo(i)
    BY <2>1
  <2>4. Cardinality(UpTo(j)) # Cardinality(UpTo(i))
    <3> HIDE DEF UpTo
    <3> QED
      BY <1>2, <2>2, <2>3, FS_Subset
  <2> QED
    BY <2>4
<1>4. ASSUME NEW i \in S, NEW j \in S, i # j PROVE Cardinality(UpTo(i)) # Cardinality(UpTo(j))
  <2>1. i < j \/ j < i
    BY <1>4
  <2> HIDE DEF UpTo
  <2> QED
    BY <1>3, <2>1
<1>5. \A i \in S : IsFiniteSet(UpTo(i)) /\ Cardinality(UpTo(i)) \in 1..Cardinality(S)
  BY <1>2
<1>6. \A i, j \in S : Cardinality(UpTo(i)) = Cardinality(UpTo(j)) => i = j
  BY <1>4, Zenon
<1> QED
  BY <1>5, <1>6, Zenon

\* A finite set of numbers in order: each of its elements has a place, and no two
\* places have the same.
LEMMA InOrderLists ==
  ASSUME NEW S \in SUBSET Nat, IsFiniteSet(S)
  PROVE  /\ Cardinality(S) \in Nat
         /\ DOMAIN Commands!InOrder(S) = 1..Cardinality(S)
         /\ \A k \in 1..Cardinality(S) : Commands!InOrder(S)[k] \in S
         /\ \A i \in S : \E k \in 1..Cardinality(S) : Commands!InOrder(S)[k] = i
         /\ \A k, l \in 1..Cardinality(S) :
              k # l => Commands!InOrder(S)[k] # Commands!InOrder(S)[l]
<1> DEFINE N == Cardinality(S)
           UpTo(i) == {j \in S : j <= i}
           rank == [i \in S |-> Cardinality(UpTo(i))]
           list == Commands!InOrder(S)
<1>1. N \in Nat
  BY FS_CardinalityType
<1>2. rank \in [S -> 1..N] /\ \A i, j \in S : rank[i] = rank[j] => i = j
  BY RanksDiffer
<1>3. rank \in Injection(S, 1..N)
  <2> HIDE DEF rank
  <2> QED
    BY <1>2 DEF Injection, IsInjective
<1>4. IsFiniteSet(1..N) /\ Cardinality(1..N) = N
  BY <1>1, FS_Interval
<1>5. rank \in Surjection(S, 1..N)
  <2> HIDE DEF rank, N
  <2> QED
    BY <1>3, <1>4, FS_Injection DEF N
<1>6. ASSUME NEW k \in 1..N PROVE list[k] \in S /\ rank[list[k]] = k
  <2>1. \E i \in S : rank[i] = k
    <3> HIDE DEF rank
    <3> QED
      BY <1>5 DEF Surjection
  <2>2. \E i \in S : Cardinality(UpTo(i)) = k
    BY <2>1
  <2>3. list[k] = CHOOSE i \in S : Cardinality(UpTo(i)) = k
    BY SameCount DEF Commands!InOrder
  <2> HIDE DEF list, UpTo
  <2>4. list[k] \in S /\ Cardinality(UpTo(list[k])) = k
    BY <2>2, <2>3
  <2> QED
    BY <2>4
<1>7. DOMAIN list = 1..N
  BY SameCount DEF Commands!InOrder
<1>8. ASSUME NEW i \in S PROVE \E k \in 1..N : list[k] = i
  <2>1. rank[i] \in 1..N
    BY <1>2
  <2>2. list[rank[i]] \in S /\ rank[list[rank[i]]] = rank[i]
    BY <1>6, <2>1
  <2> HIDE DEF rank, list
  <2> QED
    BY <1>2, <2>1, <2>2
<1>9. \A k, l \in 1..N : k # l => list[k] # list[l]
  <2> HIDE DEF rank, list, N
  <2> QED
    BY <1>6
<1> HIDE DEF rank, list
<1> QED
  BY <1>1, <1>6, <1>7, <1>8, <1>9 DEF list

\* An element put into a list moves what comes after it.
LEMMA InsertMoves ==
  ASSUME NEW X, NEW list \in Seq(X), NEW e \in X, NEW p \in 1..(Len(list) + 1)
  PROVE  /\ Commands!InsertAt(list, p, e) \in Seq(X)
         /\ Len(Commands!InsertAt(list, p, e)) = Len(list) + 1
         /\ \A k \in 1..(Len(list) + 1) :
              Commands!InsertAt(list, p, e)[k] =
                IF k < p THEN list[k] ELSE IF k = p THEN e ELSE list[k - 1]
<1> DEFINE before == SubSeq(list, 1, p - 1)
           after == SubSeq(list, p, Len(list))
           middle == before \o <<e>>
<1>0. Len(list) \in Nat /\ p \in Nat /\ p >= 1 /\ p <= Len(list) + 1 /\ \A i \in 1..Len(list) : list[i] \in X
  BY LenProperties, ElementOfSeq
<1>1. /\ before \in Seq(X) /\ Len(before) = p - 1
      /\ \A k \in 1..(p - 1) : before[k] = list[k]
  <2>1. \A i \in 1..(p - 1) : list[i] \in X
    BY <1>0
  <2>2. /\ before \in Seq(X) /\ Len(before) = IF 1 <= p - 1 THEN (p - 1) - 1 + 1 ELSE 0
        /\ \A k \in 1..((p - 1) - 1 + 1) : before[k] = list[1 + k - 1]
    BY <1>0, <2>1, SubSeqProperties
  <2> HIDE DEF before
  <2>3. Len(before) = p - 1
    BY <1>0, <2>2
  <2>4. ASSUME NEW k \in 1..(p - 1) PROVE before[k] = list[k]
    <3>1. k \in 1..((p - 1) - 1 + 1) /\ 1 + k - 1 = k
      BY <1>0
    <3> QED
      BY <2>2, <3>1
  <2> QED
    BY <2>2, <2>3, <2>4
<1>2. /\ after \in Seq(X) /\ Len(after) = Len(list) - p + 1
      /\ \A k \in 1..(Len(list) - p + 1) : after[k] = list[p + k - 1]
  <2>1. \A i \in p..Len(list) : list[i] \in X
    BY <1>0
  <2>2. /\ after \in Seq(X) /\ Len(after) = IF p <= Len(list) THEN Len(list) - p + 1 ELSE 0
        /\ \A k \in 1..(Len(list) - p + 1) : after[k] = list[p + k - 1]
    BY <1>0, <2>1, SubSeqProperties
  <2>3. p > Len(list) => Len(list) - p + 1 = 0
    BY <1>0
  <2> HIDE DEF after
  <2> QED
    BY <1>0, <2>2, <2>3
<1>3. <<e>> \in Seq(X) /\ Len(<<e>>) = 1 /\ <<e>>[1] = e
  OBVIOUS
<1> HIDE DEF before, after
<1>4. /\ middle \in Seq(X) /\ Len(middle) = p
      /\ \A k \in 1..p : middle[k] = IF k < p THEN list[k] ELSE e
  <2>1. /\ middle \in Seq(X) /\ Len(middle) = (p - 1) + 1
        /\ \A k \in 1..((p - 1) + 1) : middle[k] = IF k <= p - 1 THEN before[k] ELSE <<e>>[k - (p - 1)]
    BY <1>1, <1>3, ConcatProperties
  <2>2. (p - 1) + 1 = p /\ p - (p - 1) = 1 /\ \A k \in 1..p : (k <= p - 1 <=> k < p) /\ (k >= p => k = p)
    BY <1>0
  <2> HIDE DEF middle
  <2>3. ASSUME NEW k \in 1..p, k < p PROVE middle[k] = list[k]
    <3>1. k \in 1..(p - 1)
      BY <1>0, <2>3
    <3> QED
      BY <1>1, <2>1, <2>2, <2>3, <3>1
  <2>4. middle[p] = e
    <3>1. p \in 1..p /\ ~(p <= p - 1)
      BY <1>0
    <3> QED
      BY <1>3, <2>1, <2>2, <3>1
  <2> QED
    BY <2>1, <2>2, <2>3, <2>4
<1> HIDE DEF middle
<1>5. /\ middle \o after \in Seq(X) /\ Len(middle \o after) = p + (Len(list) - p + 1)
      /\ \A k \in 1..(p + (Len(list) - p + 1)) :
           (middle \o after)[k] = IF k <= p THEN middle[k] ELSE after[k - p]
  BY <1>2, <1>4, ConcatProperties
<1>6. Commands!InsertAt(list, p, e) = middle \o after
  BY DEF Commands!InsertAt, middle, before, after
<1>7. p + (Len(list) - p + 1) = Len(list) + 1
  BY <1>0
<1> DEFINE longer == middle \o after
<1> HIDE DEF longer
<1>8. ASSUME NEW k \in 1..(Len(list) + 1)
      PROVE  longer[k] = IF k < p THEN list[k] ELSE IF k = p THEN e ELSE list[k - 1]
  <2>1. CASE k <= p
    <3>1. k \in 1..p
      BY <1>0, <2>1
    <3>2. longer[k] = middle[k]
      BY <1>5, <1>7, <2>1 DEF longer
    <3> QED
      BY <1>0, <1>4, <2>1, <3>1, <3>2
  <2>2. CASE k > p
    <3>1. k - p \in 1..(Len(list) - p + 1) /\ p + (k - p) - 1 = k - 1
      BY <1>0, <2>2
    <3>2. k \in 1..(p + (Len(list) - p + 1)) /\ ~(k <= p)
      BY <1>0, <2>2
    <3>3. longer[k] = after[k - p]
      BY <1>5, <3>2 DEF longer
    <3> QED
      BY <1>0, <1>2, <2>2, <3>1, <3>3
  <2> QED
    BY <1>0, <2>1, <2>2
<1> QED
  BY <1>5, <1>6, <1>7, <1>8 DEF longer

-----------------------------------------------------------------------------
(* The commands of an update: the plan *)

\* The versions that the plan and the machine have for the items and their packages.
PlanTypes ==
  /\ manager \in Managers
  /\ \A i \in Items : choice[i] \in Commands!ChoicesOf(manager)
  /\ shown \in [Items -> Nat] /\ target \in [Items -> Nat] /\ aged \in [Packages -> Nat]
  /\ DOMAIN installed = Packages
  /\ cask \in SUBSET Commands!Here

\* What was chosen can be done: what a plan of versions old enough recommends stays so.
PlanIsRight ==
  /\ \A i \in Commands!Chosen({"update"}) : i \in Commands!Recommended
  /\ \A i \in Commands!Chosen({"forced"}) : Commands!Upgradable(i)
  /\ \A i, j \in Commands!Updates : PackageOf[i] = PackageOf[j] => i = j
  /\ \A i, j \in Commands!Here : PackageOf[i] = PackageOf[j] /\ shown[i] = shown[j] => i = j
  /\ \A i \in Commands!Here : shown[i] # Commands!Unknown

Planned == PlanTypes /\ PlanIsRight

\* The items that an adapter has are among all, and there are finitely many.
LEMMA ItemsAreFew ==
  /\ Commands!Here \in SUBSET Items /\ Items \in SUBSET Nat /\ IsFiniteSet(Items)
  /\ PackageOf \in [Items -> Packages]
  /\ \A kinds : Commands!Chosen(kinds) \in SUBSET Commands!Here
  /\ Commands!Updates \in SUBSET Commands!Here /\ Commands!Removals \in SUBSET Commands!Here
  /\ IsFiniteSet(Commands!Updates) /\ IsFiniteSet(Commands!Removals)
<1>1. /\ Items \in SUBSET Nat /\ IsFiniteSet(Items) /\ PackageOf \in [Items -> Packages]
  BY CallsAssumption, SameCount DEF Commands!CommandsAssumption
<1>2. Commands!Here \in SUBSET Items
  BY DEF Commands!Here, Commands!ItemsOf
<1>3. \A kinds : Commands!Chosen(kinds) \in SUBSET Commands!Here
  BY DEF Commands!Chosen
<1>4. Commands!Updates \in SUBSET Commands!Here /\ Commands!Removals \in SUBSET Commands!Here
  BY <1>3 DEF Commands!Updates, Commands!Removals
<1>5. IsFiniteSet(Commands!Updates) /\ IsFiniteSet(Commands!Removals)
  <2>1. Commands!Updates \in SUBSET Items /\ Commands!Removals \in SUBSET Items
    BY <1>2, <1>4
  <2> QED
    BY <1>1, <2>1, FS_Subset
<1> QED
  BY <1>1, <1>2, <1>3, <1>4, <1>5

\* A plan is made of what is installed and published, and of what the selection offers.
LEMMA PlanStarts == Commands!Init => Planned
<1> SUFFICES ASSUME Commands!Init PROVE Planned
  OBVIOUS
<1> DEFINE Same(i) == {j \in Commands!Here : PackageOf[j] = PackageOf[i]}
           UpTo(i) == {j \in Same(i) : j <= i}
<1>1. shown = [i \in Items |-> Cardinality({j \in Commands!Here : PackageOf[j] = PackageOf[i] /\ j <= i})]
  BY SameCount DEF Commands!Init
<1>2. ASSUME NEW i \in Items
      PROVE  /\ Same(i) \in SUBSET Nat /\ IsFiniteSet(Same(i))
             /\ IsFiniteSet(UpTo(i)) /\ Cardinality(UpTo(i)) \in Nat
             /\ shown[i] = Cardinality(UpTo(i))
  <2>1. Same(i) \in SUBSET Items /\ UpTo(i) \in SUBSET Items
    BY ItemsAreFew
  <2>2. IsFiniteSet(Same(i)) /\ IsFiniteSet(UpTo(i))
    BY <2>1, ItemsAreFew, FS_Subset
  <2>3. UpTo(i) = {j \in Commands!Here : PackageOf[j] = PackageOf[i] /\ j <= i}
    OBVIOUS
  <2>4. Cardinality(UpTo(i)) \in Nat
    BY <2>2, FS_CardinalityType
  <2>5. shown[i] = Cardinality(UpTo(i))
    BY <1>1, <2>3
  <2>6. Same(i) \in SUBSET Nat
    BY <2>1, ItemsAreFew
  <2> QED
    BY <2>2, <2>4, <2>5, <2>6
<1>3. shown \in [Items -> Nat]
  <2>1. \A i \in Items : shown[i] \in Nat
    BY <1>2
  <2> QED
    BY <1>1, <2>1
<1>4. ASSUME NEW i \in Commands!Here PROVE shown[i] # 0
  <2>1. i \in Items /\ i \in Same(i)
    BY ItemsAreFew
  <2>2. Cardinality(UpTo(i)) \in 1..Cardinality(Same(i)) /\ Cardinality(Same(i)) \in Nat
    <3> HIDE DEF Same
    <3> QED
      BY <1>2, <2>1, RanksDiffer, FS_CardinalityType
  <2>3. shown[i] = Cardinality(UpTo(i))
    BY <1>2, <2>1
  <2> HIDE DEF Same, UpTo
  <2> QED
    BY <2>2, <2>3
<1>5. ASSUME NEW i \in Commands!Here, NEW j \in Commands!Here,
             PackageOf[i] = PackageOf[j], shown[i] = shown[j]
      PROVE  i = j
  <2>1. i \in Items /\ j \in Items /\ i \in Same(i) /\ j \in Same(i) /\ Same(i) = Same(j)
    BY <1>5, ItemsAreFew
  <2>2. /\ Cardinality({k \in Same(i) : k <= i}) = shown[i]
        /\ Cardinality({k \in Same(i) : k <= j}) = shown[j]
    BY <1>2, <2>1
  <2> HIDE DEF Same
  <2> QED
    BY <1>2, <1>5, <2>1, <2>2, RanksDiffer
<1>6. aged \in [Packages -> Nat] /\ latest \in [Packages -> Nat]
  <2>1. Commands!VersionNumbers \subseteq Nat
    BY CallsAssumption DEF Commands!CommandsAssumption, Commands!VersionNumbers
  <2> QED
    BY <2>1 DEF Commands!Init
<1>7. target \in [Items -> Nat]
  <2>1. ASSUME NEW i \in Items PROVE Commands!PlannedTarget(i) \in Nat
    BY <1>6, ItemsAreFew DEF Commands!PlannedTarget, Commands!Unknown
  <2> QED
    BY <2>1 DEF Commands!Init
<1>8. /\ manager \in Managers /\ DOMAIN installed = Packages /\ cask \in SUBSET Commands!Here
      /\ choice \in [Items -> Commands!ChoicesOf(manager)]
  BY DEF Commands!Init
<1>9. PlanTypes
  BY <1>3, <1>6, <1>7, <1>8 DEF PlanTypes
<1>10. PlanIsRight
  BY <1>4, <1>5 DEF Commands!Init, PlanIsRight, Commands!Unknown
<1> QED
  BY <1>9, <1>10 DEF Planned

\* Versions are published and grow older, and the machine changes; the plan does not.
LEMMA PlanKeeps ==
  ASSUME Planned, Commands!Next PROVE Planned'
<1>1. UNCHANGED <<manager, choice, shown, cask, target>>
  BY DEF Commands!Next, Commands!Build, Commands!Run, Commands!News, Commands!UserUninstalls, Commands!planVars
<1>2. aged' \in [Packages -> Nat] /\ \A p \in Packages : aged[p] <= aged'[p]
  <2>1. CASE UNCHANGED aged
    BY <2>1 DEF Planned, PlanTypes
  <2>2. CASE Commands!News
    BY <2>2 DEF Commands!News, Planned, PlanTypes
  <2> QED
    BY <2>1, <2>2 DEF Commands!Next, Commands!Build, Commands!Run, Commands!UserUninstalls, Commands!world
<1>3. DOMAIN installed' = Packages
  <2>1. CASE UNCHANGED installed
    BY <2>1 DEF Planned, PlanTypes
  <2>2. CASE Commands!Run
    BY <2>2 DEF Commands!Run, Commands!Effects, Planned, PlanTypes
  <2>3. CASE Commands!UserUninstalls
    BY <2>3 DEF Commands!UserUninstalls, Planned, PlanTypes
  <2> QED
    BY <2>1, <2>2, <2>3 DEF Commands!Next, Commands!Build, Commands!News
<1>4. PlanTypes'
  BY <1>1, <1>2, <1>3 DEF Planned, PlanTypes, Commands!Here
<1>5. ASSUME NEW i \in Commands!Recommended PROVE i \in Commands!Recommended'
  <2>1. /\ i \in Commands!Here /\ i \in Items /\ Commands!Upgradable(i) /\ target[i] <= aged[PackageOf[i]]
        /\ PackageOf[i] \in Packages
    BY ItemsAreFew DEF Commands!Recommended
  <2>2. target[i] <= aged'[PackageOf[i]]
    BY <1>2, <2>1 DEF Planned, PlanTypes
  <2> QED
    BY <1>1, <2>1, <2>2 DEF Commands!Recommended, Commands!Here, Commands!Upgradable
<1>6. PlanIsRight'
  BY <1>1, <1>5 DEF Planned, PlanIsRight, Commands!Here, Commands!Upgradable, Commands!Chosen, Commands!Updates
<1> QED
  BY <1>4, <1>6 DEF Planned

-----------------------------------------------------------------------------
(* The commands of an update: each choice has its intent *)

\* What is to be carried out, and the intent that an item has.
Choices == Commands!Updates \cup Commands!Removals
IntentOf(i) == IF i \in Commands!Updates THEN Commands!UpdateIntent(i) ELSE Commands!RemovalIntent(i)

\* A list with a place for each element of a set.
Lists(at, S, n) ==
  /\ \A k \in 1..n : at[k] \in S
  /\ \A i \in S : \E k \in 1..n : at[k] = i
  /\ \A k, l \in 1..n : k # l => at[k] # at[l]

\* Nobody updates what is removed.
LEMMA ChoicesAreDisjoint == Commands!Updates \cap Commands!Removals = {}
BY DEF Commands!Updates, Commands!Removals, Commands!Chosen

\* Unless one command is for all of them, the intents list the choices.
LEMMA IntentsAreListed ==
  ~Commands!Global =>
    \E n \in Nat : \E at : /\ Lists(at, Choices, n)
                           /\ DOMAIN Commands!Intents = 1..n
                           /\ \A k \in 1..n : Commands!Intents[k] = IntentOf(at[k])
<1> SUFFICES ASSUME ~Commands!Global
             PROVE  \E n \in Nat : \E at : /\ Lists(at, Choices, n)
                                           /\ DOMAIN Commands!Intents = 1..n
                                           /\ \A k \in 1..n : Commands!Intents[k] = IntentOf(at[k])
  OBVIOUS
<1> DEFINE U == Commands!Updates
           R == Commands!Removals
           u == Cardinality(U)
           r == Cardinality(R)
           ofUpdates == [k \in DOMAIN Commands!InOrder(U) |-> Commands!UpdateIntent(Commands!InOrder(U)[k])]
           ofRemovals == [k \in DOMAIN Commands!InOrder(R) |-> Commands!RemovalIntent(Commands!InOrder(R)[k])]
           at == [k \in 1..(u + r) |-> IF k <= u THEN Commands!InOrder(U)[k] ELSE Commands!InOrder(R)[k - u]]
           S == {IntentOf(i) : i \in Choices}
<1>1. U \in SUBSET Nat /\ IsFiniteSet(U) /\ R \in SUBSET Nat /\ IsFiniteSet(R)
  BY ItemsAreFew
<1>2. /\ u \in Nat /\ DOMAIN Commands!InOrder(U) = 1..u
      /\ \A k \in 1..u : Commands!InOrder(U)[k] \in U
      /\ \A i \in U : \E k \in 1..u : Commands!InOrder(U)[k] = i
      /\ \A k, l \in 1..u : k # l => Commands!InOrder(U)[k] # Commands!InOrder(U)[l]
  <2> HIDE DEF U
  <2> QED
    BY <1>1, InOrderLists
<1>3. /\ r \in Nat /\ DOMAIN Commands!InOrder(R) = 1..r
      /\ \A k \in 1..r : Commands!InOrder(R)[k] \in R
      /\ \A i \in R : \E k \in 1..r : Commands!InOrder(R)[k] = i
      /\ \A k, l \in 1..r : k # l => Commands!InOrder(R)[k] # Commands!InOrder(R)[l]
  <2> HIDE DEF R
  <2> QED
    BY <1>1, InOrderLists
<1>4. U \cap R = {} /\ Choices = U \cup R
  BY ChoicesAreDisjoint DEF Choices
<1> HIDE DEF u, r
<1>5. /\ ofUpdates \in Seq(S) /\ Len(ofUpdates) = u
      /\ \A k \in 1..u : ofUpdates[k] = IntentOf(Commands!InOrder(U)[k])
  <2>1. \A k \in 1..u : ofUpdates[k] = IntentOf(Commands!InOrder(U)[k]) /\ ofUpdates[k] \in S
    BY <1>2, <1>4 DEF IntentOf
  <2>2. DOMAIN ofUpdates = 1..u
    BY <1>2
  <2>3. ofUpdates \in [1..u -> S]
    BY <2>1, <2>2
  <2> HIDE DEF ofUpdates, S
  <2> QED
    BY <1>2, <2>1, <2>3
<1>6. /\ ofRemovals \in Seq(S) /\ Len(ofRemovals) = r
      /\ \A k \in 1..r : ofRemovals[k] = IntentOf(Commands!InOrder(R)[k])
  <2>1. \A k \in 1..r : ofRemovals[k] = IntentOf(Commands!InOrder(R)[k]) /\ ofRemovals[k] \in S
    BY <1>3, <1>4 DEF IntentOf
  <2>2. DOMAIN ofRemovals = 1..r
    BY <1>3
  <2>3. ofRemovals \in [1..r -> S]
    BY <2>1, <2>2
  <2> HIDE DEF ofRemovals, S
  <2> QED
    BY <1>3, <2>1, <2>3
<1>7. Commands!Intents = ofUpdates \o ofRemovals
  BY DEF Commands!Intents
<1> HIDE DEF ofUpdates, ofRemovals, S
<1>8. /\ ofUpdates \o ofRemovals \in Seq(S) /\ Len(ofUpdates \o ofRemovals) = u + r
      /\ \A k \in 1..(u + r) :
           (ofUpdates \o ofRemovals)[k] = IF k <= u THEN ofUpdates[k] ELSE ofRemovals[k - u]
  BY <1>5, <1>6, ConcatProperties
<1>9. \A k \in 1..(u + r) : (k <= u => k \in 1..u) /\ (~(k <= u) => k - u \in 1..r)
  BY <1>2, <1>3
<1>10. \A k \in 1..u : k \in 1..(u + r) /\ k <= u
  BY <1>2, <1>3
<1>11. \A k \in 1..r : k + u \in 1..(u + r) /\ ~(k + u <= u) /\ (k + u) - u = k
  BY <1>2, <1>3
<1> HIDE DEF U, R
<1>12. \A k \in 1..(u + r) : (ofUpdates \o ofRemovals)[k] = IntentOf(at[k])
  <2> SUFFICES ASSUME NEW k \in 1..(u + r) PROVE (ofUpdates \o ofRemovals)[k] = IntentOf(at[k])
    OBVIOUS
  <2>1. CASE k <= u
    BY <1>5, <1>8, <1>9, <2>1
  <2>2. CASE ~(k <= u)
    BY <1>6, <1>8, <1>9, <2>2
  <2> QED
    BY <2>1, <2>2
<1>13. Lists(at, Choices, u + r)
  <2>1. \A k \in 1..(u + r) : at[k] \in Choices
    BY <1>2, <1>3, <1>4, <1>9
  <2>2. ASSUME NEW i \in Choices PROVE \E k \in 1..(u + r) : at[k] = i
    <3>1. CASE i \in U
      <4>1. PICK k \in 1..u : Commands!InOrder(U)[k] = i
        BY <1>2, <3>1
      <4> QED
        BY <1>10, <4>1
    <3>2. CASE i \in R
      <4>1. PICK k \in 1..r : Commands!InOrder(R)[k] = i
        BY <1>3, <3>2
      <4>2. at[k + u] = i
        BY <1>11, <4>1
      <4> QED
        BY <1>11, <4>2
    <3> QED
      BY <1>4, <3>1, <3>2
  <2>3. ASSUME NEW k \in 1..(u + r), NEW l \in 1..(u + r), k # l PROVE at[k] # at[l]
    <3>1. CASE k <= u /\ l <= u
      BY <1>2, <1>9, <2>3, <3>1
    <3>2. CASE ~(k <= u) /\ ~(l <= u)
      <4>1. k - u # l - u
        BY <1>2, <2>3
      <4> QED
        BY <1>3, <1>9, <3>2, <4>1
    <3>3. CASE k <= u /\ ~(l <= u)
      BY <1>2, <1>3, <1>4, <1>9, <3>3
    <3>4. CASE ~(k <= u) /\ l <= u
      BY <1>2, <1>3, <1>4, <1>9, <3>4
    <3> QED
      BY <3>1, <3>2, <3>3, <3>4
  <2> QED
    BY <2>1, <2>2, <2>3 DEF Lists
<1>14. DOMAIN Commands!Intents = 1..(u + r) /\ u + r \in Nat
  BY <1>2, <1>3, <1>7, <1>8, LenProperties
<1> HIDE DEF at
<1> QED
  BY <1>7, <1>12, <1>13, <1>14

-----------------------------------------------------------------------------
(* The commands of an update: what each does *)

CommandLines ==
  [ok : {TRUE}, verb : {"install", "uninstall", "upgrade", "upgrade all"}, items : SUBSET Items,
   version : Nat, young : BOOLEAN]

\* A removal takes the version away that was shown, where there can be several.
Removes(c, i) ==
  /\ i \in Commands!Removals /\ c.verb = "uninstall"
  /\ c.version = IF manager \in {"gem", "mise"} THEN shown[i] ELSE Commands!Unknown

\* A version that is named is the planned one; one that is found may be too young by
\* choice only, but for brew.
Renews(c, i) ==
  /\ i \in Commands!Updates
  /\ \/ c.verb = "install" /\ c.version = target[i] /\ manager # "mise"
     \/ /\ c.verb = "upgrade"
        /\ c.young /\ manager # "brew" => choice[i] \in {"forced", "resolved"}

CarriesOut(c, i) == c \in CommandLines /\ c.items = {i} /\ (Removes(c, i) \/ Renews(c, i))

\* The commands of several items: brew's casks, and everything that is recommended.
ForCasks(c) ==
  /\ manager = "brew" /\ c \in CommandLines /\ c.verb = "upgrade"
  /\ c.items \in SUBSET (cask \cap Commands!Updates)
ForAll(c) ==
  /\ c \in CommandLines /\ c.verb = "upgrade all" /\ c.items = Commands!Updates
  /\ Commands!Removals = {} /\ c.young = FALSE

RightLine(c) == (\E i \in Choices : CarriesOut(c, i)) \/ ForCasks(c) \/ ForAll(c)

\* What a choice says of its item.
LEMMA ChoicesAreRight ==
  ASSUME Planned, NEW i \in Choices
  PROVE  /\ i \in Items /\ shown[i] \in Nat /\ target[i] \in Nat
         /\ i \in Commands!Removals <=> ~(i \in Commands!Updates)
         /\ i \in Commands!Removals <=> choice[i] = "remove"
         /\ i \in Commands!Updates => choice[i] \in {"update", "forced", "resolved"}
         /\ i \in Commands!Updates /\ choice[i] # "resolved" => target[i] # Commands!Unknown
         /\ choice[i] = "resolved" => manager \in {"uv", "mise", "brew"}
<1>1. i \in Commands!Here /\ i \in Items
  BY ItemsAreFew DEF Choices
<1>2. /\ i \in Commands!Updates <=> choice[i] \in {"update", "forced", "resolved"}
      /\ i \in Commands!Removals <=> choice[i] = "remove"
  BY <1>1 DEF Commands!Updates, Commands!Removals, Commands!Chosen
<1>3. choice[i] = "update" \/ choice[i] = "forced" => Commands!Upgradable(i)
  BY <1>1 DEF Planned, PlanIsRight, Commands!Chosen, Commands!Recommended
<1>4. choice[i] = "resolved" => manager \in {"uv", "mise", "brew"}
  BY <1>1 DEF Planned, PlanTypes, Commands!ChoicesOf, Commands!Resolver, Commands!Native
<1>5. shown[i] \in Nat /\ target[i] \in Nat
  BY <1>1 DEF Planned, PlanTypes
<1>6. i \in Commands!Removals \/ i \in Commands!Updates
  BY DEF Choices
<1>7. i \in Commands!Updates /\ choice[i] # "resolved" => target[i] # Commands!Unknown
  BY <1>2, <1>3 DEF Commands!Upgradable
<1> QED
  BY <1>1, <1>2, <1>4, <1>5, <1>6, <1>7

\* What an intent says.
LEMMA IntentsAreRight ==
  ASSUME Planned, NEW i \in Choices
  PROVE  /\ IntentOf(i).items = {i}
         /\ i \in Commands!Removals =>
              /\ IntentOf(i).form = "remove" /\ IntentOf(i).version = shown[i]
              /\ IntentOf(i).scope = Commands!ScopeOf(i)
         /\ i \in Commands!Updates =>
              /\ IntentOf(i).form = Commands!UpdateForm /\ IntentOf(i).version = target[i]
              /\ IntentOf(i).bypass = (choice[i] # "update")
BY ChoicesAreRight DEF IntentOf, Commands!UpdateIntent, Commands!RemovalIntent, Commands!Intent

\* The form of an update is that of its adapter.
LEMMA FormsAreTheirs ==
  /\ manager \in {"uv", "mise"} => Commands!UpdateForm = "resolver native"
  /\ manager = "brew" => Commands!UpdateForm = "native selected"
  /\ manager \notin {"uv", "mise", "brew"} => Commands!UpdateForm = "exact"
BY DEF Commands!UpdateForm, Commands!Resolver, Commands!Native

\* A removal of a package, or of one of its versions.
LEMMA PackagesAreRemoved ==
  ASSUME Planned, NEW i \in Commands!Removals, NEW scope,
         Commands!ScopeOf(i) = scope, manager \notin {"gem", "mise"}
  PROVE  CarriesOut(Commands!UninstallPackage(IntentOf(i), scope), i)
<1>1. i \in Choices /\ i \in Items
  BY ItemsAreFew DEF Choices
<1>2. Commands!UninstallPackage(IntentOf(i), scope) =
        Commands!Command("uninstall", {i}, Commands!Unknown, FALSE)
  BY <1>1, IntentsAreRight DEF Commands!UninstallPackage
<1> QED
  BY <1>1, <1>2 DEF Commands!Command, CarriesOut, Removes, CommandLines, Commands!Unknown

LEMMA VersionsAreRemoved ==
  ASSUME Planned, NEW i \in Commands!Removals, manager \in {"gem", "mise"}
  PROVE  CarriesOut(Commands!UninstallVersion(IntentOf(i)), i)
<1>1. i \in Choices /\ i \in Items
  BY ItemsAreFew DEF Choices
<1>2. Commands!ScopeOf(i) = "version"
  BY DEF Commands!ScopeOf
<1>3. Commands!UninstallVersion(IntentOf(i)) = Commands!Command("uninstall", {i}, shown[i], FALSE)
  BY <1>1, <1>2, IntentsAreRight DEF Commands!UninstallVersion
<1> QED
  BY <1>1, <1>3, ChoicesAreRight DEF Commands!Command, CarriesOut, Removes, CommandLines

\* An installation of the planned version, where the selection always knows one.
LEMMA TargetsAreInstalled ==
  ASSUME Planned, NEW i \in Commands!Updates, manager \notin {"uv", "mise", "brew"},
         NEW young \in BOOLEAN
  PROVE  CarriesOut(Commands!Install(IntentOf(i), young), i)
<1>1. i \in Choices /\ i \in Items /\ target[i] \in Nat /\ target[i] # Commands!Unknown
  BY ChoicesAreRight DEF Choices
<1>2. Commands!Install(IntentOf(i), young) = Commands!Command("install", {i}, target[i], young)
  BY <1>1, IntentsAreRight DEF Commands!Install
<1> QED
  BY <1>1, <1>2 DEF Commands!Command, CarriesOut, Renews, CommandLines

\* An upgrade to a version that is found, and may be too young by choice only.
LEMMA SelectedAreUpgraded ==
  ASSUME Planned, NEW i \in Commands!Updates, NEW young \in BOOLEAN,
         young /\ manager # "brew" => choice[i] \in {"forced", "resolved"}
  PROVE  CarriesOut(Commands!Upgrade(IntentOf(i), young), i)
<1>1. i \in Choices /\ i \in Items
  BY ItemsAreFew DEF Choices
<1>2. Commands!Upgrade(IntentOf(i), young) = Commands!Command("upgrade", {i}, Commands!Unknown, young)
  BY <1>1, IntentsAreRight DEF Commands!Upgrade
<1> QED
  BY <1>1, <1>2 DEF Commands!Command, CarriesOut, Renews, CommandLines, Commands!Unknown

\* Each adapter can do what was chosen, and its command does that.
LEMMA AdaptersCarryOut ==
  ASSUME Planned, NEW i \in Choices
  PROVE  /\ manager = "npm" => CarriesOut(Commands!NpmCommand(IntentOf(i)), i)
         /\ manager = "pnpm" => CarriesOut(Commands!PnpmCommand(IntentOf(i)), i)
         /\ manager = "bun" => CarriesOut(Commands!BunCommand(IntentOf(i)), i)
         /\ manager = "cargo" => CarriesOut(Commands!CargoCommand(IntentOf(i)), i)
         /\ manager = "gem" => CarriesOut(Commands!GemCommand(IntentOf(i)), i)
         /\ manager = "go" => CarriesOut(Commands!GoCommand(IntentOf(i)), i)
         /\ manager = "uv" => CarriesOut(Commands!UvCommand(IntentOf(i)), i)
         /\ manager = "pipx" => CarriesOut(Commands!PipxCommand(IntentOf(i)), i)
         /\ manager = "dotnet" => CarriesOut(Commands!DotnetCommand(IntentOf(i)), i)
         /\ manager = "brew" => CarriesOut(Commands!BrewCommand(IntentOf(i)), i)
         /\ manager = "mise" => CarriesOut(Commands!MiseCommand(IntentOf(i)), i)
<1> DEFINE in == IntentOf(i)
<1>1. CASE i \in Commands!Removals
  <2>1. in.form = "remove"
    BY <1>1, IntentsAreRight
  <2>2. /\ manager \in {"npm", "pnpm", "bun", "cargo", "uv", "pipx", "dotnet"} =>
             Commands!ScopeOf(i) = "package"
        /\ manager = "go" => Commands!ScopeOf(i) = "binary"
        /\ manager = "brew" => Commands!ScopeOf(i) = IF in.items \subseteq cask THEN "cask" ELSE "formula"
    BY IntentsAreRight DEF Commands!ScopeOf
  <2>3. /\ manager \in {"npm", "pnpm", "bun", "cargo", "uv", "pipx", "dotnet"} =>
             CarriesOut(Commands!UninstallPackage(in, "package"), i)
        /\ manager = "go" => CarriesOut(Commands!UninstallPackage(in, "binary"), i)
        /\ manager = "brew" =>
             CarriesOut(Commands!UninstallPackage(in, IF in.items \subseteq cask THEN "cask" ELSE "formula"), i)
        /\ manager \in {"gem", "mise"} => CarriesOut(Commands!UninstallVersion(in), i)
    BY <1>1, <2>2, PackagesAreRemoved, VersionsAreRemoved
  <2> HIDE DEF in
  <2> QED
    BY <2>1, <2>3 DEF in, Commands!NpmCommand, Commands!PnpmCommand, Commands!BunCommand, Commands!CargoCommand,
       Commands!GemCommand, Commands!GoCommand, Commands!UvCommand, Commands!PipxCommand,
       Commands!DotnetCommand, Commands!BrewCommand, Commands!MiseCommand
<1>2. CASE i \in Commands!Updates
  <2>1. /\ in.form = Commands!UpdateForm /\ in.version = target[i]
        /\ in.bypass = (choice[i] # "update") /\ in.bypass \in BOOLEAN
    BY <1>2, IntentsAreRight
  <2>2. in.bypass => choice[i] \in {"forced", "resolved"}
    BY <1>2, <2>1, ChoicesAreRight
  <2>3. (in.version = Commands!Unknown \/ in.bypass) => choice[i] \in {"forced", "resolved"}
    BY <1>2, <2>1, <2>2, ChoicesAreRight
  <2>4. manager \notin {"uv", "mise", "brew"} =>
          CarriesOut(Commands!Install(in, in.bypass), i) /\ CarriesOut(Commands!Install(in, TRUE), i)
    BY <1>2, <2>1, TargetsAreInstalled
  <2>5. CarriesOut(Commands!Upgrade(in, in.bypass), i)
    BY <1>2, <2>1, <2>2, SelectedAreUpgraded
  <2>6. CarriesOut(Commands!Upgrade(in, in.version = Commands!Unknown \/ in.bypass), i)
    <3>1. (in.version = Commands!Unknown \/ in.bypass) \in BOOLEAN
      OBVIOUS
    <3> QED
      BY <1>2, <2>3, <3>1, SelectedAreUpgraded
  <2>7. manager = "brew" => CarriesOut(Commands!Upgrade(in, TRUE), i)
    BY <1>2, SelectedAreUpgraded
  <2> HIDE DEF in
  <2> QED
    BY <2>1, <2>4, <2>5, <2>6, <2>7, FormsAreTheirs
    DEF in, Commands!NpmCommand, Commands!PnpmCommand, Commands!BunCommand, Commands!CargoCommand,
       Commands!GemCommand, Commands!GoCommand, Commands!UvCommand, Commands!PipxCommand,
       Commands!DotnetCommand, Commands!BrewCommand, Commands!MiseCommand,
       Commands!NpmExact, Commands!PnpmExact, Commands!CargoExact, Commands!GemExact, Commands!PipxExact,
       Commands!DotnetExact, Commands!GoExact, Commands!BunExact, Commands!UvUpgrade, Commands!MiseSelected
<1> QED
  BY <1>1, <1>2 DEF Choices

-----------------------------------------------------------------------------
(* The commands of an update: all of them together *)

\* Commands that carry out the choices of a set, each of them once.
Carries(lines, S) ==
  /\ lines \in Seq(CommandLines)
  /\ \A k \in 1..Len(lines) : RightLine(lines[k]) /\ lines[k].items \subseteq S
  /\ \A i \in S : \E k \in 1..Len(lines) : i \in lines[k].items
  /\ \A k, l \in 1..Len(lines) : k # l => lines[k].items \cap lines[l].items = {}

\* A list of commands for one choice each.
LEMMA ListsCarry ==
  ASSUME NEW n \in Nat, NEW at, NEW S \in SUBSET Choices, Lists(at, S, n),
         NEW lines, lines = [k \in 1..n |-> lines[k]],
         \A k \in 1..n : CarriesOut(lines[k], at[k])
  PROVE  Carries(lines, S) /\ Len(lines) = n
<1>1. \A k \in 1..n : lines[k] \in CommandLines /\ lines[k].items = {at[k]}
  BY DEF CarriesOut
<1>2. lines \in [1..n -> CommandLines]
  BY <1>1
<1>3. lines \in Seq(CommandLines) /\ Len(lines) = n
  BY <1>2
<1>4. \A k \in 1..n : RightLine(lines[k]) /\ lines[k].items \subseteq S
  BY <1>1 DEF RightLine, Lists
<1>5. \A i \in S : \E k \in 1..n : i \in lines[k].items
  BY <1>1 DEF Lists
<1>6. \A k, l \in 1..n : k # l => lines[k].items \cap lines[l].items = {}
  BY <1>1 DEF Lists
<1> QED
  BY <1>3, <1>4, <1>5, <1>6 DEF Carries

\* One command more, for what the others leave.
LEMMA OneMoreCarries ==
  ASSUME NEW lines, NEW S, Carries(lines, S), NEW c \in CommandLines, RightLine(c),
         c.items \cap S = {}, NEW p \in 1..(Len(lines) + 1)
  PROVE  Carries(Commands!InsertAt(lines, p, c), S \cup c.items)
<1> DEFINE longer == Commands!InsertAt(lines, p, c)
           N == Len(lines)
<1>1. lines \in Seq(CommandLines) /\ N \in Nat
  BY LenProperties DEF Carries
<1>2. /\ longer \in Seq(CommandLines) /\ Len(longer) = N + 1
      /\ \A k \in 1..(N + 1) : longer[k] = IF k < p THEN lines[k] ELSE IF k = p THEN c ELSE lines[k - 1]
  <2>1. lines \in Seq(CommandLines) /\ p \in 1..(Len(lines) + 1) /\ c \in CommandLines
    BY <1>1
  <2>2. \A X : lines \in Seq(X) /\ c \in X =>
          /\ Commands!InsertAt(lines, p, c) \in Seq(X)
          /\ Len(Commands!InsertAt(lines, p, c)) = Len(lines) + 1
    <3> HIDE DEF longer, N
    <3> QED
      BY InsertMoves
  <2>3. /\ longer \in Seq(CommandLines)
        /\ Len(longer) = N + 1
    BY <2>1, <2>2
  <2>4. \A k \in 1..(N + 1) : longer[k] = IF k < p THEN lines[k] ELSE IF k = p THEN c ELSE lines[k - 1]
    BY <2>1, InsertMoves
  <2> QED
    BY <2>3, <2>4
<1> HIDE DEF longer
<1>3. /\ p \in 1..(N + 1) /\ longer[p] = c
      /\ \A k \in 1..(N + 1) : k = p \/ \E j \in 1..N : longer[k] = lines[j] /\ j = IF k < p THEN k ELSE k - 1
      /\ \A j \in 1..N : \E k \in 1..(N + 1) : k # p /\ longer[k] = lines[j]
  <2>1. p \in 1..(N + 1) /\ longer[p] = c
    BY <1>1, <1>2
  <2>2. ASSUME NEW k \in 1..(N + 1), k # p
        PROVE  \E j \in 1..N : longer[k] = lines[j] /\ j = IF k < p THEN k ELSE k - 1
    <3>1. CASE k < p
      <4>1. k \in 1..N /\ longer[k] = lines[k]
        BY <1>1, <1>2, <3>1
      <4> QED
        BY <3>1, <4>1
    <3>2. CASE ~(k < p)
      <4>1. k - 1 \in 1..N /\ longer[k] = lines[k - 1]
        BY <1>1, <1>2, <2>2, <3>2
      <4> QED
        BY <3>2, <4>1
    <3> QED
      BY <3>1, <3>2
  <2>3. ASSUME NEW j \in 1..N PROVE \E k \in 1..(N + 1) : k # p /\ longer[k] = lines[j]
    <3>1. CASE j < p
      <4>1. j \in 1..(N + 1) /\ j # p /\ longer[j] = lines[j]
        BY <1>1, <1>2, <3>1
      <4> QED
        BY <4>1
    <3>2. CASE ~(j < p)
      <4>1. /\ j + 1 \in 1..(N + 1) /\ j + 1 # p /\ ~(j + 1 < p) /\ (j + 1) - 1 = j
        BY <1>1, <3>2
      <4>2. longer[j + 1] = lines[j]
        BY <1>2, <4>1
      <4> QED
        BY <4>1, <4>2
    <3> QED
      BY <3>1, <3>2
  <2> QED
    BY <2>1, <2>2, <2>3
<1>4. \A k \in 1..(N + 1) : RightLine(longer[k]) /\ longer[k].items \subseteq S \cup c.items
  BY <1>3, Zenon DEF Carries
<1>5. \A i \in S \cup c.items : \E k \in 1..(N + 1) : i \in longer[k].items
  BY <1>3 DEF Carries
<1>6. ASSUME NEW k \in 1..(N + 1), NEW l \in 1..(N + 1), k # l
      PROVE  longer[k].items \cap longer[l].items = {}
  <2>1. CASE k = p
    <3>1. PICK j \in 1..N : longer[l] = lines[j]
      BY <1>3, <1>6, <2>1
    <3> QED
      BY <1>3, <2>1, <3>1 DEF Carries
  <2>2. CASE l = p
    <3>1. PICK j \in 1..N : longer[k] = lines[j]
      BY <1>3, <1>6, <2>2
    <3> QED
      BY <1>3, <2>2, <3>1 DEF Carries
  <2>3. CASE k # p /\ l # p
    <3>1. PICK i \in 1..N : longer[k] = lines[i] /\ i = IF k < p THEN k ELSE k - 1
      BY <1>3, <2>3
    <3>2. PICK j \in 1..N : longer[l] = lines[j] /\ j = IF l < p THEN l ELSE l - 1
      BY <1>3, <2>3
    <3>3. i # j
      BY <1>1, <1>6, <2>3, <3>1, <3>2
    <3> QED
      BY <3>1, <3>2, <3>3 DEF Carries
  <2> QED
    BY <2>1, <2>2, <2>3
<1>7. \A k, l \in 1..(N + 1) : k # l => longer[k].items \cap longer[l].items = {}
  BY <1>6, Zenon
<1> HIDE DEF N
<1> QED
  BY <1>2, <1>4, <1>5, <1>7 DEF Carries, longer

\* A command of brew for each formula and each removal, and one for the casks.
LEMMA BrewCarries ==
  ASSUME Planned, manager = "brew", ~Commands!Global
  PROVE  Carries(Commands!BrewCommands(Commands!Intents), Choices)
<1> DEFINE intents == Commands!Intents
           casks == cask \cap Commands!Updates
           others == Commands!EachOf(Commands!BrewCommand, Commands!NoCasks(intents))
<1>1. PICK n, at : /\ n \in Nat /\ Lists(at, Choices, n) /\ DOMAIN intents = 1..n
                    /\ \A k \in 1..n : intents[k] = IntentOf(at[k])
  BY IntentsAreListed
<1> HIDE DEF intents
<1>2. \A k \in 1..n : at[k] \in Choices
  BY <1>1 DEF Lists
<1>3. ASSUME NEW k \in 1..n
      PROVE  /\ intents[k].items = {at[k]}
             /\ Commands!IsCask(intents[k]) <=> at[k] \in casks
  <2>1. intents[k] = IntentOf(at[k]) /\ at[k] \in Choices /\ intents[k].items = {at[k]}
    BY <1>1, <1>2, IntentsAreRight
  <2>2. at[k] \in Commands!Updates <=> intents[k].form = "native selected"
    BY <2>1, IntentsAreRight, ChoicesAreRight, FormsAreTheirs
  <2> QED
    BY <2>1, <2>2 DEF Commands!IsCask
<1> DEFINE P == {k \in 1..n : ~Commands!IsCask(intents[k])}
           places == Commands!InOrder(P)
           m == Cardinality(P)
           rest == [j \in 1..m |-> at[places[j]]]
<1>4. P \in SUBSET Nat /\ IsFiniteSet(P)
  <2>1. P \in SUBSET (1..n) /\ IsFiniteSet(1..n)
    BY <1>1, FS_Interval
  <2> QED
    BY <1>1, <2>1, FS_Subset
<1>5. /\ m \in Nat /\ DOMAIN places = 1..m
      /\ \A j \in 1..m : places[j] \in P
      /\ \A k \in P : \E j \in 1..m : places[j] = k
      /\ \A j, l \in 1..m : j # l => places[j] # places[l]
  <2> HIDE DEF P
  <2> QED
    BY <1>4, InOrderLists
<1>6. Commands!NoCasks(intents) = [j \in 1..m |-> intents[places[j]]]
  BY <1>1, <1>5 DEF Commands!NoCasks
<1> HIDE DEF places, m
<1>7. \A k \in 1..n : k \in P <=> at[k] \notin casks
  BY <1>3
<1>8. P \in SUBSET (1..n)
  OBVIOUS
<1> HIDE DEF P
<1>9. Lists(rest, Choices \ casks, m)
  <2>1. \A j \in 1..m : rest[j] \in Choices \ casks
    BY <1>2, <1>5, <1>7, <1>8
  <2>2. ASSUME NEW i \in Choices \ casks PROVE \E j \in 1..m : rest[j] = i
    <3>1. PICK k \in 1..n : at[k] = i
      BY <1>1 DEF Lists
    <3>2. PICK j \in 1..m : places[j] = k
      BY <1>5, <1>7, <3>1
    <3> QED
      BY <3>1, <3>2
  <2>3. \A j, l \in 1..m : j # l => rest[j] # rest[l]
    <3>1. \A k, l \in 1..n : k # l => at[k] # at[l]
      BY <1>1 DEF Lists
    <3> QED
      BY <1>5, <1>8, <3>1
  <2> HIDE DEF rest, casks
  <2> QED
    BY <2>1, <2>2, <2>3 DEF Lists
<1>10. /\ others = [j \in 1..m |-> others[j]]
       /\ \A j \in 1..m : others[j] = Commands!BrewCommand(IntentOf(rest[j])) /\ rest[j] \in Choices
  <2>1. others = [j \in 1..m |-> Commands!BrewCommand(intents[places[j]])]
    BY <1>6 DEF Commands!EachOf
  <2>2. \A j \in 1..m : intents[places[j]] = IntentOf(rest[j]) /\ rest[j] \in Choices
    BY <1>1, <1>2, <1>5, <1>8
  <2> HIDE DEF others
  <2> QED
    BY <2>1, <2>2
<1> HIDE DEF others, rest
<1>11. \A j \in 1..m : CarriesOut(others[j], rest[j])
  BY <1>10, AdaptersCarryOut
<1>12. Carries(others, Choices \ casks) /\ Len(others) = m
  BY <1>5, <1>9, <1>10, <1>11, ListsCarry
<1>13. Commands!CasksOf(intents) = casks
  <2>1. Commands!ToSet(intents) = {intents[k] : k \in 1..n}
    BY <1>1 DEF Commands!ToSet
  <2>2. ASSUME NEW i PROVE i \in Commands!CasksOf(intents) <=> i \in casks
    <3>1. i \in Commands!CasksOf(intents) <=>
            \E k \in 1..n : Commands!IsCask(intents[k]) /\ i \in intents[k].items
      BY <2>1 DEF Commands!CasksOf
    <3>2. i \in Commands!CasksOf(intents) <=> \E k \in 1..n : at[k] \in casks /\ i = at[k]
      BY <1>3, <3>1
    <3>3. casks \in SUBSET Choices
      BY DEF Choices
    <3> HIDE DEF casks
    <3> QED
      BY <1>1, <3>2, <3>3 DEF Lists
  <2> QED
    BY <2>2
<1>14. Commands!FirstRemoval(others) \in 0..Len(others)
  <2> DEFINE I == {i \in 1..Len(others) : others[i].ok /\ others[i].verb = "uninstall"}
  <2>1. Commands!FirstRemoval(others) = IF I # {} THEN Commands!Min(I) ELSE 0
    BY DEF Commands!FirstRemoval, Commands!SelectInSeq
  <2>2. I # {} => Commands!Min(I) \in I
    <3>1. I \in SUBSET Nat
      BY <1>5, <1>12
    <3> HIDE DEF I
    <3> QED
      BY <3>1, LeastNumber DEF Commands!Min
  <2>3. Len(others) \in Nat
    BY <1>5, <1>12
  <2> QED
    BY <2>1, <2>2, <2>3
<1> DEFINE position == IF Commands!FirstRemoval(others) = 0 THEN Len(others) + 1
                       ELSE Commands!FirstRemoval(others)
           c == Commands!Command("upgrade", casks, Commands!Unknown, TRUE)
<1>15. position \in 1..(Len(others) + 1)
  BY <1>5, <1>12, <1>14
<1>16. Commands!BrewCommands(intents) = IF casks = {} THEN others ELSE Commands!InsertAt(others, position, c)
  BY <1>13 DEF Commands!BrewCommands, others
<1>17. c \in CommandLines /\ RightLine(c) /\ c.items = casks
  <2>1. casks \in SUBSET Items
    BY ItemsAreFew
  <2> HIDE DEF casks
  <2>2. /\ c \in CommandLines /\ c.verb = "upgrade" /\ c.items = casks
    BY <2>1 DEF Commands!Command, CommandLines, Commands!Unknown
  <2> HIDE DEF c
  <2> QED
    BY <2>2 DEF RightLine, ForCasks, casks
<1>18. Choices = (Choices \ casks) \cup casks
  BY DEF Choices
<1> HIDE DEF casks, position, c
<1>19. CASE casks = {}
  <2>1. Choices \ casks = Choices
    BY <1>19
  <2> QED
    BY <1>12, <1>16, <1>19, <2>1 DEF intents
<1>20. CASE casks # {}
  <2>1. c.items \cap (Choices \ casks) = {}
    BY <1>17
  <2>2. Carries(Commands!InsertAt(others, position, c), (Choices \ casks) \cup c.items)
    BY <1>12, <1>15, <1>17, <2>1, OneMoreCarries
  <2> QED
    BY <1>16, <1>17, <1>18, <1>20, <2>2 DEF intents
<1> QED
  BY <1>19, <1>20

\* Each adapter makes commands for the choices, and refuses none of the intents.
LEMMA LinesCarry ==
  ASSUME Planned PROVE Carries(Commands!Lines(Commands!Intents), Choices)
<1> DEFINE intents == Commands!Intents
           lines == Commands!Lines(intents)
<1>1. manager \in Discovery!Adapters
  BY CallsAssumption DEF Discovery!DiscoveryAssumption, Planned, PlanTypes
<1>2. CASE Commands!Global
  <2> DEFINE in == Commands!Intent(Commands!GlobalForm, Commands!Updates, Commands!Unknown, FALSE, "none")
             c == Commands!UpgradeAll(in)
  <2>1. intents = <<in>>
    BY <1>2 DEF Commands!Intents
  <2>2. manager \in {"bun", "mise"} /\ Commands!Removals = {} /\ Choices = Commands!Updates
    BY <1>2 DEF Commands!Global, Choices
  <2>3. /\ in.form = (IF manager = "bun" THEN "native global" ELSE "resolver native global")
        /\ in.items = Commands!Updates
    BY DEF Commands!Intent, Commands!GlobalForm
  <2>4. /\ manager = "bun" => Commands!BunCommand(in) = c
        /\ manager = "mise" => Commands!MiseCommand(in) = c
    <3> HIDE DEF in, c
    <3> QED
      BY <2>3 DEF c, Commands!BunCommand, Commands!BunGlobal, Commands!MiseCommand, Commands!MiseGlobal
  <2> HIDE DEF in
  <2>5. /\ DOMAIN intents = {1} /\ intents[1] = in
    BY <2>1
  <2> HIDE DEF intents
  <2>6. lines = [k \in {1} |-> c]
    <3> HIDE DEF c
    <3>1. CASE manager = "bun"
      BY <2>4, <2>5, <3>1 DEF Commands!Lines, Commands!EachOf
    <3>2. CASE manager = "mise"
      BY <2>4, <2>5, <3>2 DEF Commands!Lines, Commands!EachOf
    <3> QED
      BY <2>2, <3>1, <3>2
  <2>7. ForAll(c) /\ c \in CommandLines /\ c.items = Commands!Updates
    <3>1. c = Commands!Command("upgrade all", in.items, Commands!Unknown, FALSE)
      BY DEF Commands!UpgradeAll
    <3>2. Commands!Updates \in SUBSET Items
      BY ItemsAreFew
    <3> HIDE DEF c
    <3> QED
      BY <2>2, <2>3, <3>1, <3>2 DEF Commands!Command, CommandLines, Commands!Unknown, ForAll
  <2> HIDE DEF c, lines
  <2>8. lines = <<c>>
    BY <2>6
  <2>9. lines \in Seq(CommandLines) /\ Len(lines) = 1 /\ lines[1] = c
    BY <2>7, <2>8
  <2> QED
    BY <2>2, <2>7, <2>9 DEF Carries, RightLine, lines, intents
<1>3. CASE ~Commands!Global /\ manager = "brew"
  BY <1>3, BrewCarries DEF Commands!Lines
<1>4. CASE ~Commands!Global /\ manager # "brew"
  <2>1. PICK n, at : /\ n \in Nat /\ Lists(at, Choices, n) /\ DOMAIN intents = 1..n
                      /\ \A k \in 1..n : intents[k] = IntentOf(at[k])
    BY <1>4, IntentsAreListed
  <2>2. \A k \in 1..n : at[k] \in Choices
    BY <2>1 DEF Lists
  <2> HIDE DEF intents
  <2>3. lines = [k \in 1..n |-> lines[k]] /\ \A k \in 1..n : CarriesOut(lines[k], at[k])
    <3>1. CASE manager = "npm"
      BY <2>1, <2>2, <3>1, AdaptersCarryOut DEF Commands!Lines, Commands!EachOf
    <3>2. CASE manager = "pnpm"
      BY <2>1, <2>2, <3>2, AdaptersCarryOut DEF Commands!Lines, Commands!EachOf
    <3>3. CASE manager = "bun"
      BY <2>1, <2>2, <3>3, AdaptersCarryOut DEF Commands!Lines, Commands!EachOf
    <3>4. CASE manager = "cargo"
      BY <2>1, <2>2, <3>4, AdaptersCarryOut DEF Commands!Lines, Commands!EachOf
    <3>5. CASE manager = "gem"
      BY <2>1, <2>2, <3>5, AdaptersCarryOut DEF Commands!Lines, Commands!EachOf
    <3>6. CASE manager = "go"
      BY <2>1, <2>2, <3>6, AdaptersCarryOut DEF Commands!Lines, Commands!EachOf
    <3>7. CASE manager = "uv"
      BY <2>1, <2>2, <3>7, AdaptersCarryOut DEF Commands!Lines, Commands!EachOf
    <3>8. CASE manager = "pipx"
      BY <2>1, <2>2, <3>8, AdaptersCarryOut DEF Commands!Lines, Commands!EachOf
    <3>9. CASE manager = "dotnet"
      BY <2>1, <2>2, <3>9, AdaptersCarryOut DEF Commands!Lines, Commands!EachOf
    <3>10. CASE manager = "mise"
      BY <2>1, <2>2, <3>10, AdaptersCarryOut DEF Commands!Lines, Commands!EachOf
    <3> QED
      BY <1>1, <1>4, <3>1, <3>2, <3>3, <3>4, <3>5, <3>6, <3>7, <3>8, <3>9, <3>10 DEF Discovery!Adapters
  <2> HIDE DEF lines
  <2>4. Carries(lines, Choices)
    BY <2>1, <2>3, ListsCarry
  <2> QED
    BY <2>4 DEF lines, intents
<1> QED
  BY <1>2, <1>3, <1>4

-----------------------------------------------------------------------------
(* The commands of an update: what they do to the tools *)

\* A command changes what it is for.
LEMMA EffectsTouch ==
  ASSUME NEW c, NEW m \in Commands!Effects(c), NEW p \in Packages
  PROVE  /\ c.verb # "upgrade all" /\ (\A i \in c.items : PackageOf[i] # p) => m[p] = installed[p]
         /\ c.verb = "install" => m[p] \subseteq installed[p] \cup {c.version}
         /\ c.verb = "uninstall" => m[p] \subseteq installed[p]
         /\ c.verb = "uninstall" /\ c.version # Commands!Unknown =>
              installed[p] \ {c.version} \subseteq m[p]
         /\ c.verb \in {"upgrade", "upgrade all"} =>
              m[p] \subseteq installed[p] \cup {Commands!Newest(c, p)}
<1> DEFINE touched == IF c.verb = "upgrade all" THEN {q \in Packages : installed[q] # {}}
                      ELSE {PackageOf[i] : i \in c.items}
           new == Commands!Newest(c, p)
           After ==
             CASE c.verb = "install" ->
                    {IF manager = "gem" THEN installed[p] \cup {c.version} ELSE {c.version}}
               [] c.verb = "uninstall" /\ c.version = Commands!Unknown -> {{}}
               [] c.verb = "uninstall" /\ c.version # Commands!Unknown -> {installed[p] \ {c.version}}
               [] manager = "mise" /\ c.verb \in {"upgrade", "upgrade all"} ->
                    {(installed[p] \ {v}) \cup {new} : v \in {w \in installed[p] : w < new}}
                      \cup (IF \A w \in installed[p] : w >= new THEN {installed[p]} ELSE {})
               [] OTHER -> {IF \E w \in installed[p] : w >= new THEN installed[p] ELSE {new}}
<1>1. IF p \in touched THEN m[p] \in After ELSE m[p] = installed[p]
  BY DEF Commands!Effects
<1>2. c.verb # "upgrade all" /\ (\A i \in c.items : PackageOf[i] # p) => p \notin touched
  OBVIOUS
<1> HIDE DEF touched, new
<1>3. c.verb = "install" /\ m[p] \in After => m[p] \subseteq installed[p] \cup {c.version}
  OBVIOUS
<1>4. c.verb = "uninstall" /\ m[p] \in After =>
        /\ m[p] \subseteq installed[p]
        /\ c.version # Commands!Unknown => installed[p] \ {c.version} \subseteq m[p]
  OBVIOUS
<1>5. c.verb \in {"upgrade", "upgrade all"} /\ m[p] \in After => m[p] \subseteq installed[p] \cup {new}
  <2>1. CASE manager = "mise"
    BY <2>1
  <2>2. CASE manager # "mise"
    BY <2>2
  <2> QED
    BY <2>1, <2>2
<1> HIDE DEF After
<1> QED
  BY <1>1, <1>2, <1>3, <1>4, <1>5 DEF new

\* No tool is upgraded one of whose versions is to be removed.
KeptApart == \A u \in Commands!Updates, r \in Commands!Removals : PackageOf[u] # PackageOf[r]

\* Only mise has several versions of a package as items of their own.
LEMMA OneOfEach ==
  ASSUME manager # "mise", NEW i \in Commands!Here, NEW j \in Commands!Here, PackageOf[i] = PackageOf[j]
  PROVE  i = j
<1>1. /\ i \in Items /\ j \in Items /\ Items \subseteq Nat
      /\ \A k \in Items : PackageOf[k] = PackageOf[i] => i <= k /\ j <= k
  BY ItemsAreFew DEF Commands!Here, Commands!ItemsOf, Commands!OneVersionEach
<1>2. i <= j /\ j <= i /\ i \in Nat /\ j \in Nat
  BY <1>1
<1> QED
  BY <1>2

LEMMA NoConflictKeepsApart ==
  ASSUME Planned, ~(manager = "mise" /\ Commands!Conflict(Commands!Intents)) PROVE KeptApart
<1> SUFFICES ASSUME NEW u \in Commands!Updates, NEW r \in Commands!Removals, PackageOf[u] = PackageOf[r]
             PROVE  FALSE
  BY DEF KeptApart
<1>1. u \in Commands!Here /\ r \in Commands!Here /\ u # r /\ u \in Choices /\ r \in Choices
  BY ItemsAreFew, ChoicesAreDisjoint DEF Choices
<1>2. manager = "mise"
  BY <1>1, OneOfEach
<1>3. ~Commands!Global
  BY DEF Commands!Global
<1>4. PICK n, at : /\ n \in Nat /\ Lists(at, Choices, n) /\ DOMAIN Commands!Intents = 1..n
                   /\ \A k \in 1..n : Commands!Intents[k] = IntentOf(at[k])
  BY <1>3, IntentsAreListed
<1>5. \A i \in Choices : IntentOf(i) \in Commands!ToSet(Commands!Intents)
  BY <1>4 DEF Lists, Commands!ToSet
<1>6. /\ IntentOf(r).form = "remove" /\ IntentOf(r).items = {r}
      /\ IntentOf(u).form = "resolver native" /\ IntentOf(u).items = {u}
  BY <1>1, <1>2, IntentsAreRight, FormsAreTheirs
<1>7. PackageOf[u] \in {PackageOf[i] : i \in IntentOf(u).items} \cap {PackageOf[i] : i \in IntentOf(r).items}
  BY <1>6
<1>8. Commands!Conflict(Commands!Intents)
  BY <1>1, <1>5, <1>6, <1>7, Zenon DEF Commands!Conflict
<1> QED
  BY <1>2, <1>8

\* The version of an item is where it was, unless the user removed its package.
Remains(i) == PackageOf[i] \in gone \/ shown[i] \in installed[PackageOf[i]]

\* No command takes away what another is to remove.
LEMMA OthersRemain ==
  ASSUME Planned, KeptApart, NEW c, RightLine(c), NEW r \in Commands!Removals, r \notin c.items,
         NEW m \in Commands!Effects(c), shown[r] \in installed[PackageOf[r]]
  PROVE  shown[r] \in m[PackageOf[r]]
<1> DEFINE p == PackageOf[r]
<1>1. r \in Commands!Here /\ p \in Packages
  BY ItemsAreFew
<1>2. CASE c.verb # "upgrade all" /\ \A i \in c.items : PackageOf[i] # p
  BY <1>1, <1>2, EffectsTouch
<1>3. CASE ForAll(c)
  BY <1>3 DEF ForAll
<1>4. CASE ForCasks(c)
  BY <1>2, <1>4 DEF ForCasks, KeptApart
<1>5. ASSUME NEW i \in Choices, CarriesOut(c, i) PROVE shown[r] \in m[p]
  <2>1. c.items = {i} /\ i # r
    BY <1>5 DEF CarriesOut
  <2>2. CASE Renews(c, i)
    <3>1. c.verb # "upgrade all" /\ PackageOf[i] # p
      BY <2>2 DEF Renews, KeptApart
    <3> QED
      BY <1>2, <2>1, <3>1
  <2>3. CASE Removes(c, i)
    <3>1. c.verb = "uninstall" /\ i \in Commands!Here
      BY <2>3, ItemsAreFew DEF Removes
    <3>2. CASE PackageOf[i] # p
      BY <1>2, <2>1, <3>1, <3>2
    <3>3. CASE PackageOf[i] = p
      <4>1. manager = "mise"
        BY <1>1, <2>1, <3>1, <3>3, OneOfEach
      <4>2. c.version = shown[i] /\ c.version # Commands!Unknown /\ c.version # shown[r]
        BY <1>1, <2>1, <2>3, <3>1, <3>3, <4>1 DEF Removes, Planned, PlanIsRight
      <4> QED
        BY <1>1, <3>1, <4>2, EffectsTouch
    <3> QED
      BY <3>2, <3>3
  <2> QED
    BY <1>5, <2>2, <2>3 DEF CarriesOut
<1> QED
  BY <1>3, <1>4, <1>5 DEF RightLine

\* What a command installs is old enough, or was chosen although it is not.
LEMMA InstalledIsOldEnough ==
  ASSUME Planned, NEW c, RightLine(c), manager # "brew", NEW m \in Commands!Effects(c),
         NEW p \in Packages, NEW v \in m[p] \ installed[p], v > aged[p]
  PROVE  \E i \in Commands!Here : PackageOf[i] = p /\ choice[i] \in {"forced", "resolved"}
<1>1. aged[p] \in Nat /\ ~(aged[p] > aged[p])
  <2>1. \A n \in Nat : ~(n > n)
    OBVIOUS
  <2> QED
    BY <2>1 DEF Planned, PlanTypes
<1>2. c.verb \in {"upgrade", "upgrade all"} => c.young = TRUE
  <2> SUFFICES ASSUME c.verb \in {"upgrade", "upgrade all"} PROVE c.young = TRUE
    OBVIOUS
  <2>1. v = Commands!Newest(c, p)
    BY EffectsTouch
  <2>2. c.young \in BOOLEAN
    BY DEF RightLine, CarriesOut, ForCasks, ForAll, CommandLines
  <2>3. c.young = FALSE => v = aged[p]
    BY <2>1 DEF Commands!Newest
  <2>4. v # aged[p]
    <3> SUFFICES ASSUME v = aged[p] PROVE FALSE
      OBVIOUS
    <3>1. aged[p] > aged[p]
      OBVIOUS
    <3> QED
      BY <1>1, <3>1, Zenon
  <2> QED
    BY <2>2, <2>3, <2>4, Zenon
<1>3. PICK i \in Choices : CarriesOut(c, i)
  BY <1>2 DEF RightLine, ForCasks, ForAll
<1>4. c.verb # "uninstall"
  BY EffectsTouch
<1>5. Renews(c, i) /\ c.items = {i}
  BY <1>3, <1>4 DEF CarriesOut, Removes
<1>6. i \in Commands!Updates /\ i \in Commands!Here /\ i \in Items
  BY <1>5, ItemsAreFew DEF Renews
<1>7. PackageOf[i] = p
  <2>1. c.verb # "upgrade all" /\ m[p] # installed[p]
    BY <1>5 DEF Renews
  <2>2. \E j \in c.items : PackageOf[j] = p
    <3> SUFFICES ASSUME \A j \in c.items : PackageOf[j] # p PROVE FALSE
      OBVIOUS
    <3>1. m[p] = installed[p]
      BY <2>1, EffectsTouch
    <3> QED
      BY <2>1, <3>1
  <2> QED
    BY <1>5, <2>2
<1>8. CASE c.verb = "upgrade"
  BY <1>2, <1>5, <1>6, <1>7, <1>8 DEF Renews
<1>9. CASE c.verb = "install"
  <2>1. v = target[i]
    <3>1. m[p] \subseteq installed[p] \cup {c.version}
      BY <1>9, EffectsTouch
    <3>2. c.version = target[i]
      BY <1>5, <1>9 DEF Renews
    <3> QED
      BY <3>1, <3>2
  <2>2. choice[i] # "update"
    <3> SUFFICES ASSUME choice[i] = "update" PROVE FALSE
      OBVIOUS
    <3>1. i \in Commands!Recommended
      BY <1>6 DEF Planned, PlanIsRight, Commands!Chosen
    <3>2. target[i] <= aged[p] /\ target[i] \in Nat
      BY <1>6, <1>7, <3>1 DEF Commands!Recommended, Planned, PlanTypes
    <3> QED
      BY <1>1, <2>1, <3>2
  <2>3. choice[i] \in {"update", "forced", "resolved"}
    BY <1>3, <1>6, ChoicesAreRight
  <2> QED
    BY <1>6, <1>7, <2>2, <2>3
<1> QED
  BY <1>5, <1>8, <1>9 DEF Renews

-----------------------------------------------------------------------------
(* The commands of an update: the invariant *)

\* What ran and what is left are the commands that were built.
Carrying ==
  /\ stage # "unsupported"
  /\ stage = "plan" => ran = <<>> /\ commands = <<>>
  /\ ran \in Seq(CommandLines) /\ commands \in Seq(CommandLines)
  /\ stage \in {"run", "done"} => Carries(ran \o commands, Choices) /\ KeptApart

\* What is still to be removed is there: all that is installed, before the commands are built.
Remaining ==
  /\ stage = "plan" => \A i \in Commands!Removals : Remains(i)
  /\ stage = "run" =>
       \A k \in 1..Len(commands) :
         commands[k].verb = "uninstall" => \A i \in commands[k].items : Remains(i)

CommandsInv == Planned /\ Carrying /\ Remaining

\* One command is moved from what is left to what ran.
LEMMA RunsInOrder ==
  ASSUME NEW X, NEW done \in Seq(X), NEW todos \in Seq(X), todos # <<>>
  PROVE  /\ Append(done, Head(todos)) \in Seq(X) /\ Tail(todos) \in Seq(X)
         /\ Append(done, Head(todos)) \o Tail(todos) = done \o todos
<1>1. /\ Head(todos) \in X /\ Tail(todos) \in Seq(X) /\ Len(Tail(todos)) = Len(todos) - 1
      /\ \A k \in 1..Len(Tail(todos)) : Tail(todos)[k] = todos[k + 1]
      /\ Head(todos) = todos[1] /\ Len(todos) \in Nat /\ Len(todos) # 0
  BY HeadTailProperties
<1>2. Append(done, Head(todos)) \in Seq(X) /\ Append(done, Head(todos)) = done \o <<Head(todos)>>
  BY <1>1, AppendIsConcat
<1>3. <<Head(todos)>> \in Seq(X) /\ Len(<<Head(todos)>>) = 1 /\ <<Head(todos)>>[1] = Head(todos)
  BY <1>1
<1>4. <<Head(todos)>> \o Tail(todos) = todos
  <2> DEFINE joined == <<Head(todos)>> \o Tail(todos)
  <2>1. /\ joined \in Seq(X) /\ Len(joined) = 1 + Len(Tail(todos))
        /\ \A k \in 1..(1 + Len(Tail(todos))) :
             joined[k] = IF k <= 1 THEN <<Head(todos)>>[k] ELSE Tail(todos)[k - 1]
    BY <1>1, <1>3, ConcatProperties
  <2> HIDE DEF joined
  <2>2. Len(joined) = Len(todos)
    BY <1>1, <2>1
  <2>3. ASSUME NEW k \in 1..Len(joined) PROVE joined[k] = todos[k]
    <3>1. CASE k = 1
      BY <1>1, <1>3, <2>1, <2>2, <3>1
    <3>2. CASE k # 1
      <4>1. k - 1 \in 1..Len(Tail(todos)) /\ (k - 1) + 1 = k /\ ~(k <= 1) /\ k \in 1..(1 + Len(Tail(todos)))
        BY <1>1, <2>2, <3>2
      <4> QED
        BY <1>1, <2>1, <4>1
    <3> QED
      BY <3>1, <3>2
  <2>4. joined = todos
    BY <2>1, <2>2, <2>3, SeqEqual
  <2> QED
    BY <2>4 DEF joined
<1>5. (done \o <<Head(todos)>>) \o Tail(todos) = done \o (<<Head(todos)>> \o Tail(todos))
  BY <1>1, <1>3, ConcatAssociative
<1> QED
  BY <1>1, <1>2, <1>4, <1>5

\* As long as the plan is the same, so is what its commands are to do.
LEMMA SamePlan ==
  ASSUME UNCHANGED <<manager, choice, shown, cask, target>>
  PROVE  /\ Choices' = Choices /\ Commands!Updates' = Commands!Updates
         /\ Commands!Removals' = Commands!Removals /\ KeptApart' = KeptApart
         /\ \A c : RightLine(c)' <=> RightLine(c)
<1>1. Commands!Here' = Commands!Here
  BY DEF Commands!Here
<1>2. /\ Commands!Updates' = Commands!Updates /\ Commands!Removals' = Commands!Removals
      /\ Choices' = Choices
  BY <1>1 DEF Commands!Updates, Commands!Removals, Commands!Chosen, Choices
<1>3. KeptApart' = KeptApart
  BY <1>2 DEF KeptApart
<1>4. ASSUME NEW c PROVE RightLine(c)' <=> RightLine(c)
  BY <1>2 DEF RightLine, CarriesOut, Removes, Renews, ForCasks, ForAll
<1> QED
  BY <1>2, <1>3, <1>4

\* Before anything was built, all is there.
LEMMA CommandsStart == Commands!Init => CommandsInv
<1> SUFFICES ASSUME Commands!Init PROVE CommandsInv
  OBVIOUS
<1>1. Planned
  BY PlanStarts
<1>2. Carrying
  BY DEF Commands!Init, Carrying
<1>3. Remaining
  <2>1. /\ stage = "plan"
        /\ installed = [p \in Packages |-> {shown[i] : i \in {j \in Commands!Here : PackageOf[j] = p}}]
    BY DEF Commands!Init
  <2>2. ASSUME NEW i \in Commands!Removals PROVE Remains(i)
    <3>1. i \in Commands!Here /\ PackageOf[i] \in Packages
      BY ItemsAreFew
    <3> QED
      BY <2>1, <3>1 DEF Remains
  <2> QED
    BY <2>1, <2>2 DEF Remaining
<1> QED
  BY <1>1, <1>2, <1>3 DEF CommandsInv

\* The commands carry out the choices also when they are built and when one of them moves on.
LEMMA CarryingKept ==
  ASSUME CommandsInv, Commands!Next PROVE Carrying'
<1>1. UNCHANGED <<manager, choice, shown, cask, target>>
  BY DEF Commands!Next, Commands!Build, Commands!Run, Commands!News, Commands!UserUninstalls, Commands!planVars
<1>2. CASE UNCHANGED <<stage, ran, commands>>
  BY <1>1, <1>2, SamePlan DEF CommandsInv, Carrying, Carries
<1>3. CASE Commands!Build
  <2> DEFINE lines == Commands!Lines(Commands!Intents)
             conflict == manager = "mise" /\ Commands!Conflict(Commands!Intents)
  <2>1. Carries(lines, Choices)
    BY LinesCarry DEF CommandsInv
  <2>2. \A k \in DOMAIN lines : lines[k].ok
    <3>1. lines \in Seq(CommandLines) /\ DOMAIN lines = 1..Len(lines)
      BY <2>1, LenProperties DEF Carries
    <3>2. \A k \in 1..Len(lines) : lines[k] \in CommandLines
      BY <3>1, ElementOfSeq
    <3> HIDE DEF lines
    <3> QED
      BY <3>1, <3>2 DEF CommandLines
  <2>3. /\ stage = "plan" /\ ran = <<>> /\ commands = <<>> /\ ran' = ran
        /\ \/ stage' \in {"conflict", "failed", "interrupted"} /\ commands' = commands
           \/ ~conflict /\ stage' = "run" /\ commands' = lines
    <3>1. stage = "plan" /\ ran = <<>> /\ commands = <<>> /\ ran' = ran
      BY <1>3 DEF Commands!Build, CommandsInv, Carrying
    <3> DEFINE asks == Commands!Asks(Commands!Intents)
               known == Commands!PathsKnown(Commands!Intents)
    <3>2. PICK reply \in {"answered", "failed", "interrupted"} :
            CASE conflict -> Commands!Ends("conflict")
              [] ~conflict /\ asks /\ reply # "answered" -> Commands!Ends(reply)
              [] manager = "go" /\ reply = "answered" /\ ~known -> Commands!Ends("failed")
              [] OTHER -> IF \E k \in DOMAIN lines : ~lines[k].ok THEN Commands!Ends("unsupported")
                          ELSE stage' = "run" /\ commands' = lines
      BY <1>3 DEF Commands!Build
    <3>3. manager = "go" => ~conflict
      OBVIOUS
    <3> HIDE DEF lines, conflict, asks, known
    <3>4. \/ Commands!Ends("conflict") \/ Commands!Ends("failed")
          \/ (reply # "answered" /\ Commands!Ends(reply))
          \/ ~conflict /\ stage' = "run" /\ commands' = lines
      BY <2>2, <3>2, <3>3
    <3> QED
      BY <3>1, <3>4 DEF Commands!Ends
  <2> HIDE DEF lines
  <2>4. CASE stage' \notin {"run", "unsupported", "plan", "done"} /\ commands' = commands
    BY <2>3, <2>4 DEF CommandsInv, Carrying
  <2>5. CASE ~conflict /\ stage' = "run" /\ commands' = lines
    <3>1. KeptApart
      BY <2>5, NoConflictKeepsApart DEF CommandsInv
    <3>2. lines \in Seq(CommandLines) /\ <<>> \o lines = lines
      BY <2>1, ConcatEmptySeq DEF Carries
    <3>3. ran' \o commands' = lines
      BY <2>3, <2>5, <3>2
    <3> QED
      BY <1>1, <2>1, <2>3, <2>5, <3>1, <3>2, <3>3, SamePlan DEF Carrying, Carries, CommandsInv
  <2> QED
    BY <2>3, <2>4, <2>5
<1>4. CASE Commands!Run
  <2>1. /\ stage = "run" /\ commands # <<>> /\ ran' = Append(ran, Head(commands)) /\ commands' = Tail(commands)
        /\ stage' \in {"interrupted", "done", "run"}
    BY <1>4 DEF Commands!Run
  <2>2. /\ ran' \in Seq(CommandLines) /\ commands' \in Seq(CommandLines)
        /\ ran' \o commands' = ran \o commands
    BY <2>1, RunsInOrder DEF CommandsInv, Carrying
  <2>3. Carries(ran \o commands, Choices) /\ KeptApart
    BY <2>1 DEF CommandsInv, Carrying
  <2> QED
    BY <1>1, <2>1, <2>2, <2>3, SamePlan DEF Carrying, Carries
<1> QED
  BY <1>2, <1>3, <1>4 DEF Commands!Next, Commands!News, Commands!UserUninstalls

\* The next command is one of those that carry out the choices, and none of the others is
\* for the same item.
LEMMA NextIsRight ==
  ASSUME Carrying, stage = "run", commands # <<>>
  PROVE  /\ RightLine(Head(commands)) /\ Head(commands) = commands[1] /\ 1 \in 1..Len(commands)
         /\ \A k \in 1..Len(commands) : RightLine(commands[k])
         /\ \A k \in 1..Len(commands) : k # 1 => commands[k].items \cap Head(commands).items = {}
<1> DEFINE all == ran \o commands
           before == Len(ran)
<1>1. Carries(all, Choices) /\ ran \in Seq(CommandLines) /\ commands \in Seq(CommandLines)
  BY DEF Carrying
<1>2. before \in Nat /\ Len(commands) \in Nat /\ Len(commands) # 0 /\ Head(commands) = commands[1]
  BY <1>1, LenProperties, EmptySeq
<1>3. /\ Len(all) = before + Len(commands)
      /\ \A k \in 1..(before + Len(commands)) : all[k] = IF k <= before THEN ran[k] ELSE commands[k - before]
  BY <1>1, ConcatProperties
<1> HIDE DEF all, before
<1>4. ASSUME NEW k \in 1..Len(commands)
      PROVE  before + k \in 1..Len(all) /\ all[before + k] = commands[k]
  <2>1. before + k \in 1..(before + Len(commands)) /\ ~(before + k <= before) /\ (before + k) - before = k
    BY <1>2
  <2> QED
    BY <1>3, <2>1
<1>5. \A k \in 1..Len(commands) : RightLine(commands[k])
  BY <1>1, <1>4 DEF Carries
<1>6. 1 \in 1..Len(commands)
  BY <1>2
<1>7. ASSUME NEW k \in 1..Len(commands), k # 1 PROVE commands[k].items \cap commands[1].items = {}
  <2>1. before + k # before + 1
    BY <1>2, <1>7
  <2> QED
    BY <1>1, <1>4, <1>6, <2>1 DEF Carries
<1> QED
  BY <1>2, <1>5, <1>6, <1>7

\* What a removal removes was chosen to be.
LEMMA RemovedIsChosen ==
  ASSUME NEW c, RightLine(c), c.verb = "uninstall", NEW i \in c.items PROVE i \in Commands!Removals
<1>1. ~ForCasks(c) /\ ~ForAll(c)
  BY DEF ForCasks, ForAll
<1>2. PICK j \in Choices : CarriesOut(c, j)
  BY <1>1 DEF RightLine
<1>3. c.items = {j} /\ Removes(c, j)
  BY <1>2 DEF CarriesOut, Renews
<1> QED
  BY <1>3 DEF Removes

\* A removal that is left finds its version after every step.
LEMMA RemainingKept ==
  ASSUME CommandsInv, Commands!Next PROVE Remaining'
<1>1. UNCHANGED <<manager, choice, shown, cask, target>>
  BY DEF Commands!Next, Commands!Build, Commands!Run, Commands!News, Commands!UserUninstalls, Commands!planVars
<1>2. CASE Commands!News
  BY <1>1, <1>2, SamePlan DEF Commands!News, CommandsInv, Remaining, Remains
<1>3. CASE Commands!UserUninstalls
  <2>1. PICK p \in Packages : /\ gone = {} /\ gone' = {p} /\ installed' = [installed EXCEPT ![p] = {}]
                              /\ UNCHANGED <<stage, commands>>
    BY <1>3 DEF Commands!UserUninstalls
  <2>2. ASSUME NEW i, Remains(i) PROVE Remains(i)'
    <3>1. CASE PackageOf[i] = p
      BY <2>1, <3>1 DEF Remains
    <3>2. CASE PackageOf[i] # p
      BY <1>1, <2>1, <2>2, <3>2 DEF Remains
    <3> QED
      BY <3>1, <3>2
  <2> QED
    BY <1>1, <2>1, <2>2, SamePlan DEF CommandsInv, Remaining
<1>4. CASE Commands!Build
  <2>1. stage = "plan" /\ UNCHANGED <<gone, installed, ran>> /\ ran = <<>> /\ stage' # "plan" /\ Carrying'
    <3>1. stage = "plan" /\ UNCHANGED <<gone, installed, ran>> /\ ran = <<>> /\ commands = <<>>
      BY <1>4 DEF Commands!Build, Commands!world, CommandsInv, Carrying
    <3>2. stage' # "plan"
      BY <1>4 DEF Commands!Build, Commands!Ends
    <3> QED
      BY <3>1, <3>2, CarryingKept
  <2>2. \A i \in Commands!Removals : Remains(i)
    BY <2>1 DEF CommandsInv, Remaining
  <2>3. ASSUME stage' = "run", NEW k \in 1..Len(commands'), commands'[k].verb = "uninstall",
               NEW i \in commands'[k].items
        PROVE  Remains(i)'
    <3>1. commands' \in Seq(CommandLines) /\ ran' = <<>> /\ ran' \o commands' = commands'
      BY <2>1, ConcatEmptySeq DEF Carrying
    <3>2. RightLine(commands'[k])
      BY <1>1, <2>1, <2>3, <3>1, SamePlan DEF Carrying, Carries
    <3>3. i \in Commands!Removals
      BY <2>3, <3>2, RemovedIsChosen
    <3> QED
      BY <1>1, <2>1, <2>2, <3>3 DEF Remains
  <2> QED
    BY <2>1, <2>3 DEF Remaining
<1>5. CASE Commands!Run
  <2> DEFINE c == Head(commands)
  <2>1. /\ stage = "run" /\ commands # <<>> /\ commands' = Tail(commands) /\ UNCHANGED gone
        /\ stage' \in {"interrupted", "done", "run"}
        /\ installed' \in Commands!Effects(c) \/ UNCHANGED installed
    BY <1>5 DEF Commands!Run, Commands!world
  <2>2. /\ RightLine(c) /\ KeptApart /\ Carrying
        /\ \A k \in 1..Len(commands) : RightLine(commands[k])
        /\ \A k \in 1..Len(commands) : k # 1 => commands[k].items \cap c.items = {}
    BY <2>1, NextIsRight DEF CommandsInv, Carrying
  <2>3. commands \in Seq(CommandLines)
    BY <2>2 DEF Carrying
  <2>4. /\ Len(commands) \in Nat /\ Len(commands') = Len(commands) - 1
        /\ \A k \in 1..Len(commands') : commands'[k] = commands[k + 1]
    BY <2>1, <2>3, HeadTailProperties, LenProperties
  <2> HIDE DEF c
  <2>5. ASSUME NEW k \in 1..Len(commands'), commands'[k].verb = "uninstall", NEW i \in commands'[k].items
        PROVE  Remains(i)'
    <3>1. k + 1 \in 1..Len(commands) /\ k + 1 # 1 /\ commands'[k] = commands[k + 1]
      BY <2>4
    <3>2. Remains(i)
      BY <2>1, <2>5, <3>1 DEF CommandsInv, Remaining
    <3>3. i \in Commands!Removals
      BY <2>2, <2>5, <3>1, RemovedIsChosen
    <3>4. i \notin c.items
      BY <2>2, <2>5, <3>1
    <3>5. CASE PackageOf[i] \in gone \/ UNCHANGED installed
      BY <1>1, <2>1, <3>2, <3>5 DEF Remains
    <3>6. CASE PackageOf[i] \notin gone /\ installed' \in Commands!Effects(c)
      <4>1. shown[i] \in installed[PackageOf[i]]
        BY <3>2, <3>6 DEF Remains
      <4>2. shown[i] \in installed'[PackageOf[i]]
        BY <2>2, <3>3, <3>4, <3>6, <4>1, OthersRemain DEF CommandsInv
      <4> QED
        BY <1>1, <4>2 DEF Remains
    <3> QED
      BY <2>1, <3>5, <3>6
  <2> QED
    BY <2>1, <2>5 DEF Remaining
<1> QED
  BY <1>2, <1>3, <1>4, <1>5 DEF Commands!Next

-----------------------------------------------------------------------------
(* The commands of an update: the theorems *)

CommandsHold == IF call = "apply" THEN CommandsInv ELSE stage = "none"

LEMMA CommandsInductive == Spec => []CommandsHold
<1>1. Init => CommandsHold
  BY CommandsStart DEF Init, CommandsHold, CommandsRest
<1>2. CommandsHold /\ [Next]_vars => CommandsHold'
  <2> SUFFICES ASSUME CommandsHold, [Next]_vars PROVE CommandsHold'
    OBVIOUS
  <2>1. CASE Apply
    <3>1. CommandsInv /\ Commands!Next /\ call = "apply" /\ call' = call
      BY <2>1 DEF Apply, CommandsHold
    <3>2. Planned' /\ Carrying' /\ Remaining'
      BY <3>1, PlanKeeps, CarryingKept, RemainingKept DEF CommandsInv
    <3> QED
      BY <3>1, <3>2 DEF CommandsHold, CommandsInv
  <2>2. CASE Discover \/ LookUp \/ InRun(Runner!Next)
    BY <2>2 DEF Discover, LookUp, InRun, commandVars, CommandsHold
  <2>3. CASE UNCHANGED vars
    <3>1. UNCHANGED <<call, manager, commandVars>>
      BY <2>3 DEF vars
    <3>2. UNCHANGED <<call, manager, choice, shown, cask, target, aged, installed, gone, stage, commands, ran>>
      BY <3>1 DEF commandVars
    <3>3. CommandsInv => CommandsInv'
      <4> SUFFICES ASSUME CommandsInv PROVE CommandsInv'
        OBVIOUS
      <4>1. Planned'
        BY <3>2 DEF CommandsInv, Planned, PlanTypes, PlanIsRight, Commands!Here, Commands!Chosen,
                    Commands!Updates, Commands!Recommended, Commands!Upgradable
      <4>2. Carrying'
        BY <3>2, SamePlan DEF CommandsInv, Carrying, Carries
      <4>3. Remaining'
        BY <3>2, SamePlan DEF CommandsInv, Remaining, Remains
      <4> QED
        BY <4>1, <4>2, <4>3 DEF CommandsInv
    <3> QED
      BY <3>2, <3>3 DEF CommandsHold
  <2> QED
    BY <2>1, <2>2, <2>3 DEF Next
<1> QED
  BY <1>1, <1>2, PTL DEF Spec

\* No adapter refuses an intent that the resolution gives it.  The commands that it built
\* carry out each choice, none of them twice, and none does to an item what was not chosen;
\* brew's casks and a command for all are the only ones of several items.
THEOREM ChoicesAreCarriedOut == Spec => []EveryChoiceIsACommand
<1>1. CommandsHold => EveryChoiceIsACommand
  <2> SUFFICES ASSUME CommandsHold PROVE EveryChoiceIsACommand
    OBVIOUS
  <2>1. CASE call # "apply"
    BY <2>1 DEF CommandsHold, EveryChoiceIsACommand, Commands!EveryChoiceIsACommand
  <2>2. CASE call = "apply"
    <3> DEFINE all == ran \o commands
    <3>1. Carrying
      BY <2>2 DEF CommandsHold, CommandsInv
    <3>2. stage # "unsupported"
      BY <3>1 DEF Carrying
    <3>3. ASSUME stage \in {"run", "done"}
          PROVE  /\ \A i \in Commands!Updates \cup Commands!Removals : \E k \in DOMAIN all : i \in all[k].items
                 /\ \A k \in DOMAIN all :
                      all[k].items \subseteq IF all[k].verb = "uninstall" THEN Commands!Removals
                                             ELSE Commands!Updates
                 /\ \A k, l \in DOMAIN all : k # l => all[k].items \cap all[l].items = {}
                 /\ \A k \in DOMAIN all :
                      Commands!Cardinality(all[k].items) > 1 =>
                        all[k].verb = "upgrade all" \/ (all[k].verb = "upgrade" /\ all[k].items \subseteq cask)
      <4>1. Carries(all, Choices)
        BY <3>1, <3>3 DEF Carrying
      <4>2. DOMAIN all = 1..Len(all)
        BY <4>1, LenProperties DEF Carries
      <4> HIDE DEF all
      <4>3. \A i \in Commands!Updates \cup Commands!Removals : \E k \in DOMAIN all : i \in all[k].items
        BY <4>1, <4>2 DEF Carries, Choices
      <4>4. \A k, l \in DOMAIN all : k # l => all[k].items \cap all[l].items = {}
        BY <4>1, <4>2 DEF Carries
      <4>5. ASSUME NEW k \in DOMAIN all
            PROVE  /\ all[k].items \subseteq IF all[k].verb = "uninstall" THEN Commands!Removals
                                             ELSE Commands!Updates
                   /\ Commands!Cardinality(all[k].items) > 1 =>
                        all[k].verb = "upgrade all" \/ (all[k].verb = "upgrade" /\ all[k].items \subseteq cask)
        <5> DEFINE c == all[k]
        <5>1. RightLine(c)
          BY <4>1, <4>2 DEF Carries
        <5> HIDE DEF c
        <5>2. CASE ForCasks(c)
          BY <5>2 DEF ForCasks, c
        <5>3. CASE ForAll(c)
          BY <5>3 DEF ForAll, c
        <5>4. CASE \E i \in Choices : CarriesOut(c, i)
          <6>1. PICK i \in Choices : CarriesOut(c, i)
            BY <5>4
          <6>2. c.items = {i} /\ (Removes(c, i) \/ Renews(c, i))
            BY <6>1 DEF CarriesOut
          <6>3. Commands!Cardinality(c.items) = 1
            BY <6>2, SameCount, FS_Singleton
          <6>4. c.items \subseteq IF c.verb = "uninstall" THEN Commands!Removals ELSE Commands!Updates
            BY <6>2 DEF Removes, Renews
          <6> QED
            BY <6>3, <6>4 DEF c
        <5> QED
          BY <5>1, <5>2, <5>3, <5>4 DEF RightLine
      <4> QED
        BY <4>3, <4>4, <4>5
    <3> QED
      BY <3>2, <3>3, Zenon DEF EveryChoiceIsACommand, Commands!EveryChoiceIsACommand
  <2> QED
    BY <2>1, <2>2
<1> QED
  BY <1>1, CommandsInductive, PTL

\* When its turn comes, a removal finds the version it was chosen for, unless the user took
\* it away: no command before it has replaced or removed that one.
THEOREM RemovalsFindTheirVersion == Spec => []RemovalFindsItsVersion
<1>1. CommandsHold => RemovalFindsItsVersion
  <2> SUFFICES ASSUME CommandsHold, stage = "run", commands # <<>>, Head(commands).verb = "uninstall"
               PROVE  \A i \in Head(commands).items : Remains(i)
    BY DEF RemovalFindsItsVersion, Commands!RemovalFindsItsVersion, Remains
  <2>1. Carrying /\ Remaining
    BY DEF CommandsHold, CommandsInv
  <2>2. Head(commands) = commands[1] /\ 1 \in 1..Len(commands)
    BY <2>1, NextIsRight
  <2> QED
    BY <2>1, <2>2 DEF Remaining
<1> QED
  BY <1>1, CommandsInductive, PTL

\* But for brew, which has no such setting, a version too young for the minimal age gets
\* installed only where it was forced, or left to the manager, by choice: also when it is
\* published between the plan and the command.
THEOREM CooldownIsKept == Spec => CooldownKept
<1> DEFINE Kept ==
      \A p \in Packages :
        LET added == installed'[p] \ installed[p]
            ofIt == {i \in Commands!Here : PackageOf[i] = p}
        IN  (ran' # ran /\ manager # "brew" /\ \E v \in added : v > aged[p]) =>
              \E i \in ofIt : choice[i] \in {"forced", "resolved"}
<1>1. CommandsHold /\ [Next]_vars => [Kept]_Commands!vars
  <2> SUFFICES ASSUME CommandsHold, [Next]_vars, ran' # ran PROVE Kept
    BY Zenon
  <2>1. call = "apply" /\ Commands!Run
    <3>1. UNCHANGED vars => ran' = ran
      BY DEF vars, commandVars
    <3>2. Discover \/ LookUp \/ InRun(Runner!Next) => ran' = ran
      BY DEF Discover, LookUp, InRun, commandVars
    <3>3. Commands!Next => Commands!Run \/ ran' = ran
      BY DEF Commands!Next, Commands!Build, Commands!News, Commands!UserUninstalls
    <3> QED
      BY <3>1, <3>2, <3>3 DEF Next, Apply
  <2>2. Planned /\ Carrying
    BY <2>1 DEF CommandsHold, CommandsInv
  <2>3. /\ stage = "run" /\ commands # <<>>
        /\ (installed' \in Commands!Effects(Head(commands)) \/ UNCHANGED installed)
    BY <2>1 DEF Commands!Run
  <2>4. RightLine(Head(commands))
    BY <2>2, <2>3, NextIsRight
  <2>5. ASSUME NEW p \in Packages, manager # "brew", NEW v \in installed'[p] \ installed[p], v > aged[p]
        PROVE  \E i \in Commands!Here : PackageOf[i] = p /\ choice[i] \in {"forced", "resolved"}
    <3>1. installed' \in Commands!Effects(Head(commands))
      BY <2>3, <2>5
    <3> QED
      BY <2>2, <2>4, <2>5, <3>1, InstalledIsOldEnough
  <2> QED
    BY <2>5
<1> QED
  BY <1>1, CommandsInductive, PTL DEF Spec, CooldownKept, Commands!CooldownKept

=============================================================================
