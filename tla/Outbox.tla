------------------------------- MODULE Outbox -------------------------------
(***************************************************************************)
(* The outbox processor: the replicas of the API poll one Postgres table   *)
(* of outbox entries, claim a batch under a lease (next_retry_at), apply   *)
(* the entries one by one to Elasticsearch and record the verdict of each. *)
(*                                                                         *)
(* What an application does to the index is abstracted to its outcome      *)
(* (module Projection models it); here the subject is the queue: claims,   *)
(* leases, retries, dead letters, purging, and the workers' crashes.       *)
(*                                                                         *)
(* Time is counted in ticks of the database's clock.  A timestamp is kept  *)
(* as its distance from now: retryIn is how long next_retry_at still lies  *)
(* ahead, age how long processed_at lies behind.  The workers write both   *)
(* by clocks of their own.                                                 *)
(***************************************************************************)
EXTENDS Integers, FiniteSets

CONSTANTS
    Worker,        \* the replicas of the API, each with one OutboxProcessor
    NumEntries,    \* bound: how many entries are ever written
    BatchSize,     \* outbox.batchSize
    MaxAttempts,   \* outbox.maxAttempts
    BackoffBase,   \* outbox.backoffBaseMs, in ticks
    BackoffMax,    \* outbox.backoffMaxMs, in ticks
    LockTime,      \* outbox.lockMs, in ticks
    Skew,          \* how far each worker's clock is ahead of the database's
    Retention,     \* outbox.retentionMs, in ticks
    PurgeLimit,    \* the LIMIT 1000 of the cleanup statement
    Healthy,       \* entries whose projection never fails
    Poison,        \* entries whose projection always fails
    MaxFaults      \* bound: crashes, lost replies and outlived leases in all

\* Entries are numbered in the order of created_at.
Entry == 1..NumEntries

ASSUME NumEntriesAssumption == NumEntries \in Nat
ASSUME BatchSizeAssumption == BatchSize \in Nat \ {0}
ASSUME MaxAttemptsAssumption == MaxAttempts \in Nat \ {0}
ASSUME BackoffAssumption == BackoffBase \in Nat /\ BackoffMax \in Nat
\* The environment's validation lets lockMs be zero.
ASSUME LockTimeAssumption == LockTime \in Nat
ASSUME SkewAssumption == Skew \in [Worker -> Int]
ASSUME RetentionAssumption == Retention \in Nat
ASSUME PurgeLimitAssumption == PurgeLimit \in Nat \ {0}
ASSUME OutcomeAssumption == Healthy \subseteq Entry /\ Poison \subseteq Entry \ Healthy
ASSUME MaxFaultsAssumption == MaxFaults \in Nat

VARIABLES
    \* The table outbox_entries.
    inserted,      \* rows committed so far
    attempts,      \* attempts
    retryIn,       \* ticks until next_retry_at; 0 when it is null or past
    processed,     \* rows with a processed_at (still counted once deleted)
    age,           \* ticks since processed_at, counted until every worker would purge
    failed,        \* rows with a failed_at
    purged,        \* rows deleted by cleanup
    \* The workers.
    pc,            \* idle, loop, mark, fail: where drain() stands; or down
    batch,         \* claimed entries without a verdict yet
    cur,           \* the entry at hand, 0 when there is none
    tries,         \* the attempts that the claim returned with each entry
    \* Observation only: nothing above depends on these, except that faults
    \* bounds the number of faults.
    lease,         \* ticks until the horizon of the worker's last claim
    applied,       \* entries whose projection the index acknowledged
    overran,       \* entries held by a worker beyond its lease
    torn,          \* entries whose verdict was committed but its reply lost
    abandoned,     \* entries claimed and then dropped without a verdict
    faults         \* faults so far

table == <<inserted, attempts, retryIn, processed, age, failed, purged>>
workers == <<pc, batch, cur, tries>>
observed == <<lease, applied, overran, torn, abandoned, faults>>
vars == <<table, workers, observed>>

Init ==
    /\ inserted = {}
    /\ attempts = [e \in Entry |-> 0]
    /\ retryIn = [e \in Entry |-> 0]
    /\ processed = {}
    /\ age = [e \in Entry |-> 0]
    /\ failed = {}
    /\ purged = {}
    /\ pc = [w \in Worker |-> "idle"]
    /\ batch = [w \in Worker |-> {}]
    /\ cur = [w \in Worker |-> 0]
    /\ tries = [w \in Worker |-> [e \in Entry |-> 0]]
    /\ lease = [w \in Worker |-> 0]
    /\ applied = {}
    /\ overran = {}
    /\ torn = {}
    /\ abandoned = {}
    /\ faults = 0

-----------------------------------------------------------------------------
(* Helpers.                                                                *)

MinOf(a, b) == IF a <= b THEN a ELSE b

\* ORDER BY created_at ASC LIMIT n.
Oldest(S, n) == {e \in S : Cardinality({f \in S : f < e}) < n}

\* Mutants: a claim that ignores the horizon, and one that leaves out entries
\* which have no attempts left.
EligibleAnyTime == inserted \ (processed \union failed \union purged)
EligibleWithin ==
    {e \in inserted \ (processed \union failed \union purged) :
        retryIn[e] = 0 /\ attempts[e] < MaxAttempts}

\* The WHERE clause of the claim.
Eligible == {e \in inserted \ (processed \union failed \union purged) : retryIn[e] = 0}

Backoff(n) == MinOf(BackoffBase * 2 ^ (n - 1), BackoffMax)

\* How far ahead of the database's clock it is in n ticks by the worker's.
Ahead(w, n) == IF n + Skew[w] > 0 THEN n + Skew[w] ELSE 0

\* The rows cleanup may delete.
Expired(w, e) == age[e] + Skew[w] > Retention
Purgeable(w) == {e \in processed \ purged : Expired(w, e)}

\* Time still matters to when the row is deleted.
Aging(e) == e \in processed \ purged /\ \E w \in Worker : ~ Expired(w, e)

\* Faults are bounded; every faulty step draws on the bound.
SpendFault == faults < MaxFaults /\ faults' = faults + 1

Held == UNION {batch[w] : w \in Worker}

-----------------------------------------------------------------------------
(* The writer's side: save() and delete() of the product repository commit *)
(* the entry in the transaction of the product row.                        *)

Enqueue(e) ==
    /\ inserted = 1..(e - 1)
    /\ inserted' = inserted \union {e}
    /\ UNCHANGED <<attempts, retryIn, processed, age, failed, purged, workers, observed>>

-----------------------------------------------------------------------------
(* drain(): one batch.                                                     *)

\* Mutant: attempts are counted down.
StampClaimDown(w, take) ==
    /\ attempts' = [e \in Entry |-> IF e \in take THEN attempts[e] - 1 ELSE attempts[e]]
    /\ retryIn' = [e \in Entry |-> IF e \in take THEN Ahead(w, LockTime) ELSE retryIn[e]]

\* The UPDATE of the claim: count the attempt and stamp the horizon.
StampClaim(w, take) ==
    /\ attempts' = [e \in Entry |-> IF e \in take THEN attempts[e] + 1 ELSE attempts[e]]
    /\ retryIn' = [e \in Entry |-> IF e \in take THEN Ahead(w, LockTime) ELSE retryIn[e]]

\* claimBatch(), possibly of nothing.  The lease may be over as it begins.
ClaimBatch(w) ==
    /\ pc[w] = "idle"
    /\ LET take == Oldest(Eligible, BatchSize)
       IN  /\ StampClaim(w, take)
           /\ batch' = [batch EXCEPT ![w] = take]
           /\ tries' = [tries EXCEPT ![w] =
                  [e \in Entry |-> IF e \in take THEN attempts[e] + 1 ELSE 0]]
           /\ overran' = IF Ahead(w, LockTime) = 0 THEN overran \union take ELSE overran
    /\ lease' = [lease EXCEPT ![w] = Ahead(w, LockTime)]
    /\ pc' = [pc EXCEPT ![w] = "loop"]
    /\ UNCHANGED <<inserted, processed, age, failed, purged, cur,
                   applied, torn, abandoned, faults>>

\* The claim commits but its reply is lost: drain() gives up the poll, and
\* the entries wait for their horizon.  (A claim that fails before it commits
\* changes nothing.)
ClaimReplyLost(w) ==
    /\ pc[w] = "idle"
    /\ Eligible # {}
    /\ SpendFault
    /\ LET take == Oldest(Eligible, BatchSize)
       IN  /\ StampClaim(w, take)
           /\ abandoned' = abandoned \union take
    /\ UNCHANGED <<inserted, processed, age, failed, purged, workers,
                   lease, applied, overran, torn>>

\* apply() of the next entry succeeds.  RETURNING promises no order, so the
\* next entry is any of the batch.
ApplyOk(w, e) ==
    /\ pc[w] = "loop"
    /\ e \in batch[w] \ Poison
    /\ cur' = [cur EXCEPT ![w] = e]
    /\ pc' = [pc EXCEPT ![w] = "mark"]
    /\ applied' = applied \union {e}
    /\ UNCHANGED <<table, batch, tries, lease, overran, torn, abandoned, faults>>

\* Mutant: the error is swallowed within apply().
ApplySwallows(w, e) ==
    /\ pc[w] = "loop"
    /\ e \in batch[w] \ Healthy
    /\ cur' = [cur EXCEPT ![w] = e]
    /\ pc' = [pc EXCEPT ![w] = "mark"]
    /\ UNCHANGED <<table, batch, tries, observed>>

\* apply() throws: Elasticsearch is out, or refuses the document.
ApplyThrows(w, e) ==
    /\ pc[w] = "loop"
    /\ e \in batch[w] \ Healthy
    /\ cur' = [cur EXCEPT ![w] = e]
    /\ pc' = [pc EXCEPT ![w] = "fail"]
    /\ UNCHANGED <<table, batch, tries, observed>>

\* The row of a verdict: processed_at is now and next_retry_at null.
SetProcessed(w, e) ==
    /\ processed' = processed \union {e}
    /\ age' = [age EXCEPT ![e] = 0 - Skew[w]]
    /\ retryIn' = [retryIn EXCEPT ![e] = 0]
    /\ UNCHANGED <<inserted, attempts, failed, purged>>

\* The verdict is in: the loop goes on with the rest of the batch.
NextEntry(w) ==
    /\ batch' = [batch EXCEPT ![w] = @ \ {cur[w]}]
    /\ cur' = [cur EXCEPT ![w] = 0]
    /\ pc' = [pc EXCEPT ![w] = "loop"]
    /\ UNCHANGED tries

\* Mutant: the failure is recorded in any case, not in the catch only.
MarkProcessedThenFails(w) ==
    /\ pc[w] = "mark"
    /\ cur[w] \notin purged
    /\ SetProcessed(w, cur[w])
    /\ pc' = [pc EXCEPT ![w] = "fail"]
    /\ UNCHANGED <<batch, cur, tries, observed>>

MarkProcessed(w) ==
    /\ pc[w] = "mark"
    /\ cur[w] \notin purged
    /\ SetProcessed(w, cur[w])
    /\ NextEntry(w)
    /\ UNCHANGED observed

\* markProcessed() throws after its update committed.
MarkProcessedReplyLost(w) ==
    /\ pc[w] = "mark"
    /\ cur[w] \notin purged
    /\ SpendFault
    /\ SetProcessed(w, cur[w])
    /\ torn' = torn \union {cur[w]}
    /\ pc' = [pc EXCEPT ![w] = "fail"]
    /\ UNCHANGED <<batch, cur, tries, lease, applied, overran, abandoned>>

\* markProcessed() throws without an update: the row is gone, or the
\* database is out of reach.  The same catch as for apply().
MarkProcessedThrows(w) ==
    /\ pc[w] = "mark"
    /\ \/ cur[w] \in purged /\ UNCHANGED faults
       \/ cur[w] \notin purged /\ SpendFault
    /\ pc' = [pc EXCEPT ![w] = "fail"]
    /\ UNCHANGED <<table, batch, cur, tries, lease, applied, overran, torn, abandoned>>

\* Mutants: one attempt too many, and one too few.
FailureAfter(w, e, limit) ==
    /\ \/ tries[w][e] >= limit /\ failed' = failed \union {e} /\ UNCHANGED retryIn
       \/ /\ tries[w][e] < limit
          /\ retryIn' = [retryIn EXCEPT ![e] = Ahead(w, Backoff(tries[w][e]))]
          /\ UNCHANGED failed
    /\ UNCHANGED <<inserted, attempts, processed, age, purged>>
SetFailureLate(w, e) == FailureAfter(w, e, MaxAttempts + 1)
SetFailureEarly(w, e) == FailureAfter(w, e, MaxAttempts - 1)

\* The row after a failed attempt, judged by the attempts the claim returned.
SetFailure(w, e) ==
    /\ \/ /\ tries[w][e] >= MaxAttempts
          /\ failed' = failed \union {e}
          /\ UNCHANGED retryIn
       \/ /\ tries[w][e] < MaxAttempts
          /\ retryIn' = [retryIn EXCEPT ![e] = Ahead(w, Backoff(tries[w][e]))]
          /\ UNCHANGED failed
    /\ UNCHANGED <<inserted, attempts, processed, age, purged>>

MarkFailure(w) ==
    /\ pc[w] = "fail"
    /\ cur[w] \notin purged
    /\ SetFailure(w, cur[w])
    /\ NextEntry(w)
    /\ UNCHANGED observed

\* The worker forgets its batch.
DropBatch(w) ==
    /\ batch' = [batch EXCEPT ![w] = {}]
    /\ cur' = [cur EXCEPT ![w] = 0]
    /\ tries' = [tries EXCEPT ![w] = [e \in Entry |-> 0]]
    /\ lease' = [lease EXCEPT ![w] = 0]

\* markFailure() throws, its update not done: the outer catch ends the poll
\* and the rest of the batch is abandoned with it.
MarkFailureThrows(w) ==
    /\ pc[w] = "fail"
    /\ \/ cur[w] \in purged /\ UNCHANGED faults
       \/ cur[w] \notin purged /\ SpendFault
    /\ abandoned' = abandoned \union batch[w]
    /\ DropBatch(w)
    /\ pc' = [pc EXCEPT ![w] = "idle"]
    /\ UNCHANGED <<table, applied, overran, torn>>

\* The same with the update committed and its reply lost.
MarkFailureReplyLost(w) ==
    /\ pc[w] = "fail"
    /\ cur[w] \notin purged
    /\ SpendFault
    /\ SetFailure(w, cur[w])
    /\ abandoned' = abandoned \union batch[w]
    /\ DropBatch(w)
    /\ pc' = [pc EXCEPT ![w] = "idle"]
    /\ UNCHANGED <<applied, overran, torn>>

\* The loop is over: cleanup() deletes a bounded page, in no given order, and
\* the poll ends.  (The metrics that follow are read only.)
Finish(w) ==
    /\ pc[w] = "loop"
    /\ batch[w] = {}
    /\ \E page \in SUBSET Purgeable(w) :
           /\ Cardinality(page) = MinOf(Cardinality(Purgeable(w)), PurgeLimit)
           /\ purged' = purged \union page
    /\ DropBatch(w)
    /\ pc' = [pc EXCEPT ![w] = "idle"]
    /\ UNCHANGED <<inserted, attempts, retryIn, processed, age, failed,
                   applied, overran, torn, abandoned, faults>>

\* cleanup() throws: the outer catch ends the poll.
CleanupThrows(w) ==
    /\ pc[w] = "loop"
    /\ batch[w] = {}
    /\ SpendFault
    /\ DropBatch(w)
    /\ pc' = [pc EXCEPT ![w] = "idle"]
    /\ UNCHANGED <<table, applied, overran, torn, abandoned>>

Drain(w) ==
    \/ ClaimBatch(w) \/ ClaimReplyLost(w)
    \/ \E e \in Entry : ApplyOk(w, e) \/ ApplyThrows(w, e)
    \/ MarkProcessed(w) \/ MarkProcessedReplyLost(w) \/ MarkProcessedThrows(w)
    \/ MarkFailure(w) \/ MarkFailureThrows(w) \/ MarkFailureReplyLost(w)
    \/ Finish(w) \/ CleanupThrows(w)

-----------------------------------------------------------------------------
(* The environment: processes stop and start, and time passes.             *)

\* The process dies, or is shut down with a poll under way.
Crash(w) ==
    /\ pc[w] # "down"
    /\ SpendFault
    /\ abandoned' = abandoned \union batch[w]
    /\ DropBatch(w)
    /\ pc' = [pc EXCEPT ![w] = "down"]
    /\ UNCHANGED <<table, applied, overran, torn>>

\* onModuleInit(): polling starts with nothing claimed.
Restart(w) ==
    /\ pc[w] = "down"
    /\ pc' = [pc EXCEPT ![w] = "idle"]
    /\ UNCHANGED <<table, batch, cur, tries, observed>>

Count(n) == IF n = 0 THEN 0 ELSE n - 1

\* A tick.  A worker whose batch outlives its lease counts as a fault, so that
\* it happens a bounded number of times.
Tick ==
    /\ \/ \E e \in Entry : retryIn[e] > 0
       \/ \E e \in Entry : Aging(e)
       \/ \E w \in Worker : lease[w] > 0
    /\ LET late == UNION {batch[w] : w \in {v \in Worker : lease[v] = 1}}
       IN  /\ overran' = overran \union late
           /\ \/ late = {} /\ UNCHANGED faults
              \/ late # {} /\ SpendFault
    /\ retryIn' = [e \in Entry |-> Count(retryIn[e])]
    /\ lease' = [w \in Worker |-> Count(lease[w])]
    /\ age' = [e \in Entry |-> IF Aging(e) THEN age[e] + 1 ELSE age[e]]
    /\ UNCHANGED <<inserted, attempts, processed, failed, purged, workers,
                   applied, torn, abandoned>>

Next ==
    \/ \E e \in Entry : Enqueue(e)
    \/ \E w \in Worker : Drain(w) \/ Crash(w) \/ Restart(w)
    \/ Tick

Spec == Init /\ [][Next]_vars

\* The interval timer keeps a live process polling, each awaited call of
\* drain() returns or throws, and time passes.  Nothing restarts a process.
Fairness == WF_vars(Tick) /\ \A w \in Worker : WF_vars(Drain(w))

FairSpec == Spec /\ Fairness

-----------------------------------------------------------------------------
(* Properties.                                                             *)

\* The type invariant of the table, the workers and the observations.
TypeOK ==
    /\ inserted \subseteq Entry
    /\ attempts \in [Entry -> Nat]
    /\ retryIn \in [Entry -> Nat]
    /\ processed \subseteq Entry
    /\ age \in [Entry -> Int]
    /\ failed \subseteq Entry
    /\ purged \subseteq Entry
    /\ pc \in [Worker -> {"idle", "loop", "mark", "fail", "down"}]
    /\ batch \in [Worker -> SUBSET Entry]
    /\ cur \in [Worker -> Entry \union {0}]
    /\ tries \in [Worker -> [Entry -> Nat]]
    /\ lease \in [Worker -> Nat]
    /\ applied \subseteq Entry
    /\ overran \subseteq Entry
    /\ torn \subseteq Entry
    /\ abandoned \subseteq Entry
    /\ faults \in Nat

\* The inductive invariant behind the safety properties below.

\* A held entry is protected by its horizon for as long as the lease lasts, or
\* by its verdict.
HoldersAreLeased ==
    \A w \in Worker : \A e \in batch[w] :
        e \in overran \union processed \/ (lease[w] > 0 /\ lease[w] <= retryIn[e])

\* A holder knows the attempts of its entry.
HoldersKnowAttempts ==
    \A w \in Worker : \A e \in batch[w] :
        /\ e \in inserted
        /\ tries[w][e] \in 1..attempts[e]
        /\ e \in overran \/ tries[w][e] = attempts[e]

\* A held entry has no verdict yet.
HeldIsUnsettled ==
    \A w \in Worker : \A e \in batch[w] :
        e \in processed \union failed => e \in overran \union torn

\* The entry at hand is held; nothing is held outside drain().
AtHand ==
    \A w \in Worker :
        /\ pc[w] \in {"mark", "fail"} => cur[w] \in batch[w]
        /\ pc[w] = "mark" => cur[w] \in applied
        /\ pc[w] \in {"idle", "down"} => batch[w] = {}

\* The last attempt is under way, or has ended one way or another.
LastAttemptAccounted ==
    \A e \in Entry : attempts[e] = MaxAttempts =>
        \/ e \in processed \union failed \union overran \union abandoned
        \/ \E w \in Worker : e \in batch[w]

\* Entries pass through the queue in order.
InOrder ==
    /\ purged \subseteq processed
    /\ processed \subseteq applied
    /\ applied \subseteq inserted
    /\ failed \subseteq inserted

\* Two workers hold the same entry only if some holder of it once outlived its
\* lease: short of that, SKIP LOCKED and the horizon make claims exclusive.
ExclusiveUnlessOverran ==
    \A v, w \in Worker : v # w => batch[v] \intersect batch[w] \subseteq overran

\* An entry is never both processed and dead-lettered, unless a holder of it
\* outlived its lease or the reply to its verdict was lost.
SettledOnce == processed \intersect failed \subseteq overran \union torn

\* attempts passes maxAttempts only for an entry that was at some time dropped
\* without a verdict or held past its lease; every other entry is settled by
\* its last attempt.
AttemptsBounded ==
    \A e \in Entry : attempts[e] > MaxAttempts => e \in overran \union abandoned

IInv ==
    /\ TypeOK
    /\ HoldersAreLeased
    /\ HoldersKnowAttempts
    /\ HeldIsUnsettled
    /\ AtHand
    /\ LastAttemptAccounted
    /\ InOrder
    /\ ExclusiveUnlessOverran
    /\ SettledOnce
    /\ AttemptsBounded

\* As AtLeastOnce promises, an entry is processed or purged only if its
\* projection was acknowledged, and nothing queued is discarded.
Promise == INSTANCE AtLeastOnce WITH
    queued <- inserted, delivered <- applied, done <- processed,
    dead <- failed, gone <- purged
ImplementsAtLeastOnce == Promise!Spec

AllDown == \A w \in Worker : pc[w] = "down"

\* While any process lives to poll, every entry is settled in the end,
\* whatever crashes, lost replies and overlong batches come before.
Settles ==
    <>[]AllDown \/ \A e \in Entry : (e \in inserted) ~> (e \in processed \union failed)

\* A poison message never blocks the queue: with fewer faults than attempts, and
\* no clock so far behind that a lease is over as it begins (such a claim spends
\* attempts without a fault), an entry that can be projected is processed, however
\* the others fail.  The exception is a row that was processed by a late worker and
\* deleted while another still held it: both verdicts of that one throw, and the
\* rest of its batch loses an attempt without a fault.
HealthyIsProcessed ==
    (\A w \in Worker : Ahead(w, LockTime) > 0) =>
        <>[]AllDown \/
        \A e \in Healthy :
            (e \in inserted) ~>
                (e \in processed \/ (e \in failed /\ overran \intersect purged # {}))
=============================================================================
