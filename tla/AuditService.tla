------------------------------ MODULE AuditService ------------------------------
(***************************************************************************)
(* AuditService of upgate-audit: the managers planned at the same time     *)
(* share one service, which asks OSV about batches of package versions and *)
(* keeps every answer for the rest of the process.  One lock is held over  *)
(* a whole query; the batches of a query are sent by a rayon pool and may  *)
(* be answered in any order while advisories appear.                       *)
(*                                                                         *)
(* A query is a number, in the order of the BTreeSet of queries; an answer *)
(* is "clean", "vulnerable" or "failed", and "none" when there is none.    *)
(***************************************************************************)
EXTENDS Naturals, FiniteSets

CONSTANTS
  Callers,      (* the calls of AuditService::query, one per planned manager *)
  QueryCount,   (* the different package versions                            *)
  ChunkSize,    (* chunk_size, the queries in one request                    *)
  MayPanic      (* a worker of the rayon pool may panic                      *)

ASSUME AuditAssumption ==
  /\ QueryCount \in Nat
  /\ ChunkSize \in Nat \ {0}
  /\ MayPanic \in BOOLEAN

Queries == 1..QueryCount
AuditVerdicts == {"clean", "vulnerable"}
Answers == AuditVerdicts \cup {"failed"}
NoAnswer == [q \in Queries |-> "none"]

VARIABLES
  state,      (* where each call is: see AuditTypeOK                         *)
  requested,  (* the queries of each call                                    *)
  missing,    (* those that were not in the cache                            *)
  pending,    (* the chunks of missing that have not been answered           *)
  answers,    (* what the answered chunks of each call said                  *)
  result,     (* what each call returned                                     *)
  lock,       (* query_lock: "free", "held" or "poisoned"                    *)
  cache,      (* the answers kept                                            *)
  disclosed,  (* OSV: the queries with a published advisory                  *)
  initially   (* history: those with one when the process started            *)

auditVars == <<state, requested, missing, pending, answers, result, lock, cache, disclosed, initially>>

AuditInit ==
  /\ state = [c \in Callers |-> "idle"]
  /\ requested = [c \in Callers |-> {}]
  /\ missing = [c \in Callers |-> {}]
  /\ pending = [c \in Callers |-> {}]
  /\ answers = [c \in Callers |-> NoAnswer]
  /\ result = [c \in Callers |-> NoAnswer]
  /\ lock = "free"
  /\ cache = NoAnswer
  /\ disclosed \in SUBSET Queries
  /\ initially = disclosed

Go(c, label) == state' = [state EXCEPT ![c] = label]

-----------------------------------------------------------------------------
(* Batches *)

\* The place of a query in a set in BTreeSet order, from 0.
Place(q, S) == Cardinality({p \in S : p < q})

\* The chunk of a query, and the queries of a chunk.
ChunkOf(q, S) == Place(q, S) \div ChunkSize
Chunk(k, S) == {q \in S : ChunkOf(q, S) = k}

\* OSV answers the queries of a request in their order; a response is the
\* sequence of its results.
Verdict(q) == IF q \in disclosed THEN "vulnerable" ELSE "clean"
Response(chunk) ==
  [i \in 1..Cardinality(chunk) |-> Verdict(CHOOSE q \in chunk : Place(q, chunk) = i - 1)]
FirstOnly(response) == [i \in 1..1 |-> response[i]]
NoResponse == [i \in {} |-> "clean"]

\* parse_batch_response zips the queries and the results; query_chunk turns an
\* error of any kind into a failed lookup of every query of the chunk.
ZipFromZero(q, chunk, response) ==
  IF DOMAIN response # 1..Cardinality(chunk) THEN "failed"
  ELSE IF Place(q, chunk) = 0 THEN "clean" ELSE response[Place(q, chunk)]
AnswerFrom(q, chunk, response) ==
  IF DOMAIN response = 1..Cardinality(chunk) THEN response[Place(q, chunk) + 1] ELSE "failed"

-----------------------------------------------------------------------------
(* AuditService::query *)

\* An empty set of queries returns before the lock is taken.
Call(c) ==
  /\ state[c] = "idle"
  /\ \E S \in SUBSET Queries :
       /\ requested' = [requested EXCEPT ![c] = S]
       /\ Go(c, IF S = {} THEN "returned" ELSE "waiting")
  /\ UNCHANGED <<missing, pending, answers, result, lock, cache, disclosed, initially>>

Uncached(c) == {q \in requested[c] : cache[q] = "none"}

\* query_lock.lock() and the reading of the cache.
LockIsShared == lock # "poisoned"
LockIsFree == lock = "free"

Locked(c) ==
  /\ state[c] = "waiting"
  /\ LockIsFree
  /\ lock' = "held"
  /\ missing' = [missing EXCEPT ![c] = Uncached(c)]
  /\ pending' = [pending EXCEPT ![c] = {ChunkOf(q, Uncached(c)) : q \in Uncached(c)}]
  /\ Go(c, "asking")
  /\ UNCHANGED <<requested, answers, result, cache, disclosed, initially>>

\* A poisoned lock is an error.
LockFails(c) ==
  /\ state[c] = "waiting"
  /\ lock = "poisoned"
  /\ Go(c, "failed")
  /\ UNCHANGED <<requested, missing, pending, answers, result, lock, cache, disclosed, initially>>

\* One chunk is answered: in full, with too few results, or not at all.
Take(c, k, response) ==
  /\ state[c] = "asking" /\ k \in pending[c]
  /\ LET chunk == Chunk(k, missing[c])
     IN  answers' = [answers EXCEPT ![c] =
                       [q \in Queries |-> IF q \in chunk THEN AnswerFrom(q, chunk, response) ELSE @[q]]]
  /\ pending' = [pending EXCEPT ![c] = @ \ {k}]
  /\ UNCHANGED <<state, requested, missing, result, lock, cache, disclosed, initially>>

ChunkAnswered(c, k) == Take(c, k, Response(Chunk(k, missing[c])))
ChunkCutShort(c, k) == Cardinality(Chunk(k, missing[c])) > 1
                         /\ Take(c, k, FirstOnly(Response(Chunk(k, missing[c]))))
ChunkFails(c, k) == Take(c, k, NoResponse)

\* The rayon pool cannot be built: nothing has been asked, the lock is released.
PoolFails(c) ==
  /\ state[c] = "asking"
  /\ missing[c] # {} /\ answers[c] = NoAnswer
  /\ Go(c, "failed")
  /\ pending' = [pending EXCEPT ![c] = {}]
  /\ lock' = "free"
  /\ UNCHANGED <<requested, missing, answers, result, cache, disclosed, initially>>

\* A worker's panic leaves query() through install, with the lock held.
WorkerPanics(c) ==
  /\ MayPanic
  /\ state[c] = "asking" /\ pending[c] # {}
  /\ Go(c, "panicked")
  /\ pending' = [pending EXCEPT ![c] = {}]
  /\ answers' = [answers EXCEPT ![c] = NoAnswer]
  /\ lock' = "poisoned"
  /\ UNCHANGED <<requested, missing, result, cache, disclosed, initially>>

\* cache.extend, then the requested queries are read back from the cache.
KeepVerdicts(c) ==
  [q \in Queries |-> IF answers[c][q] \in AuditVerdicts THEN answers[c][q] ELSE cache[q]]
Extend(c) ==
  [q \in Queries |-> IF answers[c][q] # "none" THEN answers[c][q] ELSE cache[q]]

Return(c) ==
  /\ state[c] = "asking" /\ pending[c] = {}
  /\ cache' = Extend(c)
  /\ result' = [result EXCEPT ![c] =
                  [q \in Queries |-> IF q \in requested[c] THEN cache'[q] ELSE "none"]]
  /\ Go(c, "returned")
  /\ lock' = "free"
  /\ UNCHANGED <<requested, missing, pending, answers, disclosed, initially>>

\* Somebody publishes an advisory.
PublishAdvisory(q) ==
  /\ q \notin disclosed
  /\ disclosed' = disclosed \cup {q}
  /\ UNCHANGED <<state, requested, missing, pending, answers, result, lock, cache, initially>>

QueryStep(c) ==
  \/ Locked(c) \/ LockFails(c)
  \/ \E k \in pending[c] : ChunkAnswered(c, k) \/ ChunkCutShort(c, k) \/ ChunkFails(c, k)
  \/ PoolFails(c) \/ WorkerPanics(c) \/ Return(c)

Done == (\A c \in Callers : state[c] \in {"returned", "failed", "panicked"}) /\ UNCHANGED auditVars

AuditNext ==
  \/ \E c \in Callers : Call(c) \/ QueryStep(c)
  \/ \E q \in Queries : PublishAdvisory(q)
  \/ Done

AuditSpec == AuditInit /\ [][AuditNext]_auditVars

-----------------------------------------------------------------------------
(* Properties *)

\* Every variable stays in its range, and at most one call holds the lock.
AuditTypeOK ==
  /\ state \in [Callers -> {"idle", "waiting", "asking", "returned", "failed", "panicked"}]
  /\ requested \in [Callers -> SUBSET Queries]
  /\ missing \in [Callers -> SUBSET Queries]
  /\ pending \in [Callers -> SUBSET Nat]
  /\ answers \in [Callers -> [Queries -> Answers \cup {"none"}]]
  /\ result \in [Callers -> [Queries -> Answers \cup {"none"}]]
  /\ lock \in {"free", "held", "poisoned"}
  /\ \A c \in Callers : state[c] = "asking" => lock = "held" /\ \A d \in Callers : state[d] = "asking" => d = c
  /\ cache \in [Queries -> Answers \cup {"none"}]
  /\ disclosed \in SUBSET Queries /\ initially \in SUBSET Queries

\* A call that returns answers every query it was asked: the evaluation finds a
\* fact for each row, be the answer that the lookup failed.
EverythingIsAnswered ==
  \A c \in Callers : state[c] = "returned" => \A q \in requested[c] : result[c][q] \in Answers

\* The answer to a query is its own: whatever the batches and their order, a
\* version with an advisory from the start is never called clean, and one
\* without is never called vulnerable.
AnswersAreTheirOwn ==
  \A c \in Callers, q \in Queries :
    /\ result[c][q] = "clean" => q \notin initially
    /\ result[c][q] = "vulnerable" => q \in disclosed

\* Two managers never judge the same version differently in one process, even
\* if an advisory appears between their queries.
OneAnswerForAll ==
  \A c, d \in Callers : \A q \in requested[c] \cap requested[d] :
    state[c] = "returned" /\ state[d] = "returned" => result[c][q] = result[d][q]

\* What the cache holds is final, and is not asked again.
CachedIsFinal ==
  [][\A q \in Queries : cache[q] # "none" =>
       /\ cache'[q] = cache[q]
       /\ \A c \in Callers : answers[c][q] = "none" => answers'[c][q] = "none"]_auditVars

=============================================================================
