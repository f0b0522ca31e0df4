----------------------------- MODULE OutboxProofs -----------------------------
(***************************************************************************)
(* Proofs about Outbox, for every number of workers and entries, every     *)
(* size of a batch, lease, backoff and retention, clocks that differ by    *)
(* any amount, and any number of faults: type correctness, the inductive   *)
(* invariant and what follows.                                             *)
(***************************************************************************)
EXTENDS Outbox, FiniteSetTheorems, TLAPS

\* The powers of two behind the exponential backoff are natural numbers.
LEMMA PowerOfTwo == ASSUME NEW n \in Nat PROVE 2 ^ n \in Nat
<1>1. IsFiniteSet(1..n) /\ Cardinality(1..n) = n
  BY FS_Interval
<1>2. IsFiniteSet(SUBSET (1..n)) /\ Cardinality(SUBSET (1..n)) = 2 ^ n
  BY <1>1, FS_SUBSET
<1>. QED
  BY <1>2, FS_CardinalityType

\* The backoff after a first or later attempt is a duration.
LEMMA BackoffType == ASSUME NEW n \in Nat \ {0} PROVE Backoff(n) \in Nat
<1>1. n - 1 \in Nat /\ 2 ^ (n - 1) \in Nat
  BY PowerOfTwo
<1>2. BackoffBase * 2 ^ (n - 1) \in Nat
  <2>. DEFINE power == 2 ^ (n - 1)
  <2>1. power \in Nat /\ BackoffBase \in Nat
    BY <1>1, BackoffAssumption
  <2>. HIDE DEF power
  <2>2. BackoffBase * power \in Nat
    BY <2>1
  <2>. QED
    BY <2>2 DEF power
<1>. QED
  BY <1>2, BackoffAssumption DEF Backoff, MinOf

\* Every step is a step of one of the actions.
LEMMA NextCases ==
  ASSUME Next
  PROVE  \/ \E e \in Entry : Enqueue(e)
         \/ \E w \in Worker :
               \/ ClaimBatch(w) \/ ClaimReplyLost(w)
               \/ \E e \in Entry : ApplyOk(w, e) \/ ApplyThrows(w, e)
               \/ MarkProcessed(w) \/ MarkProcessedReplyLost(w) \/ MarkProcessedThrows(w)
               \/ MarkFailure(w) \/ MarkFailureThrows(w) \/ MarkFailureReplyLost(w)
               \/ Finish(w) \/ CleanupThrows(w) \/ Crash(w) \/ Restart(w)
         \/ Tick
BY DEF Next, Drain

\* What the assumptions on the constants come to.
LEMMA Assumptions ==
  /\ NumEntries \in Nat /\ BatchSize \in Nat \ {0} /\ MaxAttempts \in Nat \ {0}
  /\ BackoffBase \in Nat /\ BackoffMax \in Nat /\ LockTime \in Nat
  /\ Retention \in Nat /\ MaxFaults \in Nat /\ Entry \subseteq Nat \ {0}
  /\ \A w \in Worker : Skew[w] \in Int
BY NumEntriesAssumption, BatchSizeAssumption, MaxAttemptsAssumption, BackoffAssumption,
   LockTimeAssumption, SkewAssumption, RetentionAssumption, MaxFaultsAssumption DEF Entry

\* A horizon set by any clock lies ahead of the database's, or is past.
LEMMA AheadType == ASSUME NEW w \in Worker, NEW n \in Nat PROVE Ahead(w, n) \in Nat
BY Assumptions DEF Ahead

\* What holds of the entry at hand.
AtHandFacts(w) ==
    /\ cur[w] \in batch[w] /\ cur[w] \in Entry /\ cur[w] \in inserted
    /\ pc[w] = "mark" => cur[w] \in applied
    /\ cur[w] \in processed \union failed => cur[w] \in overran \union torn
    /\ tries[w][cur[w]] \in 1..attempts[cur[w]]
    /\ cur[w] \in overran \/ tries[w][cur[w]] = attempts[cur[w]]

\* A claim takes entries whose horizon is past: any earlier holder outlived its
\* lease, and none of them has used its last attempt unaccounted.
LEMMA ClaimBatchKeeps ==
  ASSUME IInv, NEW w \in Worker, ClaimBatch(w)
  PROVE  IInv'
<1>. DEFINE take == Oldest(Eligible, BatchSize)
<1>a. /\ take \subseteq Eligible
      /\ batch[w] = {} /\ \A v \in Worker : batch'[v] = IF v = w THEN take ELSE batch[v]
      /\ \A e \in Entry : attempts'[e] = IF e \in take THEN attempts[e] + 1 ELSE attempts[e]
      /\ UNCHANGED <<processed, failed, abandoned>> /\ overran \subseteq overran'
  BY DEF IInv, TypeOK, AtHand, Oldest, ClaimBatch, StampClaim
<1>b. \A v \in Worker : \A e \in take \intersect batch[v] : e \in overran
  BY Assumptions DEF IInv, TypeOK, HoldersAreLeased, Oldest, Eligible
<1>c. \A e \in take : attempts[e] = MaxAttempts => e \in overran \union abandoned
  BY <1>b DEF IInv, TypeOK, LastAttemptAccounted, Oldest, Eligible
<1>. HIDE DEF take
<1>0. Ahead(w, LockTime) \in Nat
  BY AheadType, Assumptions
<1>1. TypeOK'
  <2>1. /\ inserted' \subseteq Entry /\ processed' \subseteq Entry /\ failed' \subseteq Entry
        /\ purged' \subseteq Entry /\ attempts' \in [Entry -> Nat]
    BY DEF IInv, TypeOK, ClaimBatch, StampClaim, Oldest, Eligible, table
  <2>2. retryIn' \in [Entry -> Nat] /\ age' \in [Entry -> Int]
    BY <1>0, Assumptions DEF IInv, TypeOK, ClaimBatch, StampClaim, Oldest, Eligible, table
  <2>3. /\ pc' \in [Worker -> {"idle", "loop", "mark", "fail", "down"}]
        /\ batch' \in [Worker -> SUBSET Entry] /\ cur' \in [Worker -> Entry \union {0}]
    BY DEF IInv, TypeOK, ClaimBatch, StampClaim, Oldest, Eligible, workers, observed
  <2>4. tries' \in [Worker -> [Entry -> Nat]] /\ lease' \in [Worker -> Nat]
    BY <1>0, Assumptions DEF IInv, TypeOK, ClaimBatch, StampClaim, Oldest, Eligible, workers,
       observed
  <2>5. /\ applied' \subseteq Entry /\ overran' \subseteq Entry /\ torn' \subseteq Entry
        /\ abandoned' \subseteq Entry
    BY DEF IInv, TypeOK, ClaimBatch, StampClaim, Oldest, Eligible, observed
  <2>6. faults' \in Nat
    BY DEF IInv, TypeOK, ClaimBatch, StampClaim, Oldest, Eligible, observed
  <2>. QED
    BY <2>1, <2>2, <2>3, <2>4, <2>5, <2>6 DEF TypeOK
<1>2. HoldersAreLeased'
  BY <1>0, Assumptions DEF IInv, TypeOK, AtHand, HoldersAreLeased, ClaimBatch, StampClaim,
     Oldest, Eligible
<1>3. HoldersKnowAttempts'
  BY Assumptions DEF IInv, TypeOK, HoldersAreLeased, HoldersKnowAttempts, AtHand, ClaimBatch,
     StampClaim, Oldest, Eligible
<1>4. AtHand'
  BY DEF IInv, TypeOK, AtHand, ClaimBatch, StampClaim, Oldest, Eligible, table,
     workers, observed
<1>5. LastAttemptAccounted'
  BY <1>a, Assumptions DEF IInv, TypeOK, LastAttemptAccounted
<1>6. ExclusiveUnlessOverran'
  BY <1>a, <1>b DEF IInv, ExclusiveUnlessOverran
<1>7. AttemptsBounded'
  <2>. SUFFICES ASSUME NEW e \in Entry, attempts'[e] > MaxAttempts
                PROVE  e \in overran \union abandoned
    BY <1>a DEF AttemptsBounded
  <2>. attempts[e] \in Nat /\ MaxAttempts \in Nat
    BY Assumptions DEF IInv, TypeOK
  <2>1. CASE attempts[e] > MaxAttempts
    BY <2>1 DEF IInv, AttemptsBounded
  <2>2. CASE ~ attempts[e] > MaxAttempts
    BY <2>2, <1>a, <1>c
  <2>. QED
    BY <2>1, <2>2
<1>8. HeldIsUnsettled' /\ InOrder' /\ SettledOnce'
  BY DEF IInv, HeldIsUnsettled, InOrder, SettledOnce, ClaimBatch, StampClaim, Oldest,
     Eligible, table, workers, observed
<1>. QED
  BY <1>1, <1>2, <1>3, <1>4, <1>5, <1>6, <1>7, <1>8 DEF IInv

\* A claim whose reply is lost leaves its entries abandoned.
LEMMA ClaimReplyLostKeeps ==
  ASSUME IInv, NEW w \in Worker, ClaimReplyLost(w)
  PROVE  IInv'
<1>0. Ahead(w, LockTime) \in Nat
  BY AheadType, Assumptions
<1>1. TypeOK'
  <2>1. /\ inserted' \subseteq Entry /\ processed' \subseteq Entry /\ failed' \subseteq Entry
        /\ purged' \subseteq Entry /\ attempts' \in [Entry -> Nat]
    BY DEF IInv, TypeOK, ClaimReplyLost, StampClaim, SpendFault, Oldest, Eligible,
       table
  <2>2. retryIn' \in [Entry -> Nat] /\ age' \in [Entry -> Int]
    BY <1>0, Assumptions DEF IInv, TypeOK, ClaimReplyLost, StampClaim, SpendFault, Oldest,
       Eligible, table
  <2>3. /\ pc' \in [Worker -> {"idle", "loop", "mark", "fail", "down"}]
        /\ batch' \in [Worker -> SUBSET Entry] /\ cur' \in [Worker -> Entry \union {0}]
    BY DEF IInv, TypeOK, ClaimReplyLost, StampClaim, SpendFault, Oldest, Eligible,
       workers, observed
  <2>4. tries' \in [Worker -> [Entry -> Nat]] /\ lease' \in [Worker -> Nat]
    BY <1>0, Assumptions DEF IInv, TypeOK, ClaimReplyLost, StampClaim, SpendFault, Oldest,
       Eligible, workers, observed
  <2>5. /\ applied' \subseteq Entry /\ overran' \subseteq Entry /\ torn' \subseteq Entry
        /\ abandoned' \subseteq Entry
    BY DEF IInv, TypeOK, ClaimReplyLost, StampClaim, SpendFault, Oldest, Eligible,
       observed
  <2>6. faults' \in Nat
    BY DEF IInv, TypeOK, ClaimReplyLost, StampClaim, SpendFault, Oldest, Eligible,
       observed
  <2>. QED
    BY <2>1, <2>2, <2>3, <2>4, <2>5, <2>6 DEF TypeOK
<1>2. HoldersAreLeased'
  BY <1>0 DEF IInv, TypeOK, HoldersAreLeased, ClaimReplyLost, StampClaim, Oldest, Eligible,
     SpendFault, table, workers, observed
<1>3. HoldersKnowAttempts'
  BY Assumptions DEF IInv, TypeOK, HoldersAreLeased, HoldersKnowAttempts, InOrder,
     ClaimReplyLost, StampClaim, Oldest, Eligible, workers
<1>4. HeldIsUnsettled' /\ AtHand' /\ LastAttemptAccounted' /\ InOrder' /\
     ExclusiveUnlessOverran' /\ SettledOnce' /\ AttemptsBounded'
  BY DEF IInv, HeldIsUnsettled, AtHand, LastAttemptAccounted, InOrder,
     ExclusiveUnlessOverran, SettledOnce, AttemptsBounded, ClaimReplyLost, StampClaim,
     Oldest, Eligible, SpendFault, table, workers, observed
<1>. QED
  BY <1>1, <1>2, <1>3, <1>4 DEF IInv

\* A successful projection puts an applied entry at hand.
LEMMA ApplyOkKeeps ==
  ASSUME IInv, NEW w \in Worker, NEW e \in Entry, ApplyOk(w, e)
  PROVE  IInv'
<1>1. TypeOK'
  BY DEF IInv, TypeOK, ApplyOk, table, workers, observed
<1>2. AtHand'
  BY DEF IInv, TypeOK, AtHand, ApplyOk, table, workers, observed
<1>3. InOrder'
  BY DEF IInv, InOrder, HoldersKnowAttempts, ApplyOk, table
<1>4. HoldersAreLeased' /\ HoldersKnowAttempts' /\ HeldIsUnsettled' /\
     LastAttemptAccounted' /\ ExclusiveUnlessOverran' /\ SettledOnce' /\
     AttemptsBounded'
  BY DEF IInv, HoldersAreLeased, HoldersKnowAttempts, HeldIsUnsettled,
     LastAttemptAccounted, ExclusiveUnlessOverran, SettledOnce, AttemptsBounded,
     ApplyOk, table, workers, observed
<1>. QED
  BY <1>1, <1>2, <1>3, <1>4 DEF IInv

\* A failed projection puts an entry at hand.
LEMMA ApplyThrowsKeeps ==
  ASSUME IInv, NEW w \in Worker, NEW e \in Entry, ApplyThrows(w, e)
  PROVE  IInv'
<1>1. TypeOK'
  BY DEF IInv, TypeOK, ApplyThrows, table, workers, observed
<1>2. AtHand'
  BY DEF IInv, TypeOK, AtHand, ApplyThrows, table, workers, observed
<1>3. HoldersAreLeased' /\ HoldersKnowAttempts' /\ HeldIsUnsettled' /\
     LastAttemptAccounted' /\ InOrder' /\ ExclusiveUnlessOverran' /\ SettledOnce' /\
     AttemptsBounded'
  BY DEF IInv, HoldersAreLeased, HoldersKnowAttempts, HeldIsUnsettled,
     LastAttemptAccounted, InOrder, ExclusiveUnlessOverran, SettledOnce,
     AttemptsBounded, ApplyThrows, table, workers, observed
<1>. QED
  BY <1>1, <1>2, <1>3 DEF IInv

\* The holder's verdict is the only one, unless the entry was overrun.
LEMMA MarkProcessedKeeps ==
  ASSUME IInv, NEW w \in Worker, MarkProcessed(w)
  PROVE  IInv'
<1>0. AtHandFacts(w)
  BY DEF IInv, AtHandFacts, TypeOK, AtHand, HoldersKnowAttempts, HeldIsUnsettled,
     MarkProcessed
<1>1. TypeOK'
  <2>1. /\ inserted' \subseteq Entry /\ processed' \subseteq Entry /\ failed' \subseteq Entry
        /\ purged' \subseteq Entry /\ attempts' \in [Entry -> Nat]
    BY <1>0 DEF IInv, TypeOK, AtHandFacts, MarkProcessed, SetProcessed, NextEntry,
       table
  <2>2. retryIn' \in [Entry -> Nat] /\ age' \in [Entry -> Int]
    BY <1>0, Assumptions DEF IInv, TypeOK, AtHandFacts,
       MarkProcessed, SetProcessed, NextEntry, table
  <2>3. /\ pc' \in [Worker -> {"idle", "loop", "mark", "fail", "down"}]
        /\ batch' \in [Worker -> SUBSET Entry] /\ cur' \in [Worker -> Entry \union {0}]
    BY DEF IInv, TypeOK, AtHandFacts, MarkProcessed, SetProcessed, NextEntry, workers,
       observed
  <2>4. tries' \in [Worker -> [Entry -> Nat]] /\ lease' \in [Worker -> Nat]
    BY Assumptions DEF IInv, TypeOK, AtHandFacts, MarkProcessed, SetProcessed,
       NextEntry, workers, observed
  <2>5. /\ applied' \subseteq Entry /\ overran' \subseteq Entry /\ torn' \subseteq Entry
        /\ abandoned' \subseteq Entry
    BY <1>0 DEF IInv, TypeOK, AtHandFacts, MarkProcessed, SetProcessed, NextEntry,
       observed
  <2>6. faults' \in Nat
    BY DEF IInv, TypeOK, AtHandFacts, MarkProcessed, SetProcessed, NextEntry, observed
  <2>. QED
    BY <2>1, <2>2, <2>3, <2>4, <2>5, <2>6 DEF TypeOK
<1>2. HeldIsUnsettled'
  BY <1>0 DEF IInv, TypeOK, AtHandFacts, ExclusiveUnlessOverran, HeldIsUnsettled,
     MarkProcessed, SetProcessed, NextEntry, observed
<1>3. AtHand'
  BY <1>0 DEF IInv, AtHandFacts, TypeOK, AtHand, MarkProcessed, SetProcessed,
     NextEntry, table, workers, observed
<1>4. InOrder'
  BY <1>0 DEF IInv, InOrder, AtHandFacts, MarkProcessed, SetProcessed, NextEntry,
     table, observed
<1>5. SettledOnce'
  BY <1>0 DEF IInv, SettledOnce, AtHandFacts, MarkProcessed, SetProcessed, NextEntry,
     table, observed
<1>6. HoldersAreLeased' /\ HoldersKnowAttempts' /\ LastAttemptAccounted' /\
     ExclusiveUnlessOverran' /\ AttemptsBounded'
  BY DEF IInv, HoldersAreLeased, HoldersKnowAttempts, LastAttemptAccounted,
     ExclusiveUnlessOverran, AttemptsBounded, MarkProcessed, SetProcessed, NextEntry,
     table, workers, observed
<1>. QED
  BY <1>1, <1>2, <1>3, <1>4, <1>5, <1>6 DEF IInv

\* A verdict whose reply is lost leaves its entry torn.
LEMMA MarkProcessedReplyLostKeeps ==
  ASSUME IInv, NEW w \in Worker, MarkProcessedReplyLost(w)
  PROVE  IInv'
<1>0. AtHandFacts(w)
  BY DEF IInv, AtHandFacts, TypeOK, AtHand, HoldersKnowAttempts, HeldIsUnsettled,
     MarkProcessedReplyLost
<1>1. TypeOK'
  <2>1. /\ inserted' \subseteq Entry /\ processed' \subseteq Entry /\ failed' \subseteq Entry
        /\ purged' \subseteq Entry /\ attempts' \in [Entry -> Nat]
    BY <1>0 DEF IInv, TypeOK, AtHandFacts, MarkProcessedReplyLost, SetProcessed,
       SpendFault, table
  <2>2. retryIn' \in [Entry -> Nat] /\ age' \in [Entry -> Int]
    BY <1>0, Assumptions DEF IInv, TypeOK, AtHandFacts,
       MarkProcessedReplyLost, SetProcessed, SpendFault, table
  <2>3. /\ pc' \in [Worker -> {"idle", "loop", "mark", "fail", "down"}]
        /\ batch' \in [Worker -> SUBSET Entry] /\ cur' \in [Worker -> Entry \union {0}]
    BY DEF IInv, TypeOK, AtHandFacts, MarkProcessedReplyLost, SetProcessed, SpendFault,
       workers, observed
  <2>4. tries' \in [Worker -> [Entry -> Nat]] /\ lease' \in [Worker -> Nat]
    BY Assumptions DEF IInv, TypeOK, AtHandFacts, MarkProcessedReplyLost, SetProcessed,
       SpendFault, workers, observed
  <2>5. /\ applied' \subseteq Entry /\ overran' \subseteq Entry /\ torn' \subseteq Entry
        /\ abandoned' \subseteq Entry
    BY <1>0 DEF IInv, TypeOK, AtHandFacts, MarkProcessedReplyLost, SetProcessed,
       SpendFault, observed
  <2>6. faults' \in Nat
    BY DEF IInv, TypeOK, AtHandFacts, MarkProcessedReplyLost, SetProcessed, SpendFault,
       observed
  <2>. QED
    BY <2>1, <2>2, <2>3, <2>4, <2>5, <2>6 DEF TypeOK
<1>2. InOrder'
  BY <1>0 DEF IInv, InOrder, AtHandFacts, MarkProcessedReplyLost, SetProcessed, SpendFault,
     table, observed
<1>3. SettledOnce'
  BY <1>0 DEF IInv, SettledOnce, AtHandFacts, MarkProcessedReplyLost, SetProcessed, SpendFault,
     table, observed
<1>4. HoldersAreLeased' /\ HoldersKnowAttempts' /\ HeldIsUnsettled' /\ AtHand' /\
     LastAttemptAccounted' /\ ExclusiveUnlessOverran' /\ AttemptsBounded'
  BY DEF IInv, HoldersAreLeased, HoldersKnowAttempts, HeldIsUnsettled, AtHand,
     LastAttemptAccounted, ExclusiveUnlessOverran, AttemptsBounded,
     MarkProcessedReplyLost, SetProcessed, SpendFault, table, workers, observed
<1>. QED
  BY <1>1, <1>2, <1>3, <1>4 DEF IInv

\* A verdict that fails changes nothing but the worker's place.
LEMMA MarkProcessedThrowsKeeps ==
  ASSUME IInv, NEW w \in Worker, MarkProcessedThrows(w)
  PROVE  IInv'
<1>0. AtHandFacts(w)
  BY DEF IInv, AtHandFacts, TypeOK, AtHand, HoldersKnowAttempts, HeldIsUnsettled,
     MarkProcessedThrows
<1>1. TypeOK'
  BY DEF IInv, TypeOK, MarkProcessedThrows, SpendFault, table, workers, observed
<1>2. HoldersAreLeased' /\ HoldersKnowAttempts' /\ HeldIsUnsettled' /\ AtHand' /\
     LastAttemptAccounted' /\ InOrder' /\ ExclusiveUnlessOverran' /\ SettledOnce' /\
     AttemptsBounded'
  BY DEF IInv, HoldersAreLeased, HoldersKnowAttempts, HeldIsUnsettled, AtHand,
     LastAttemptAccounted, InOrder, ExclusiveUnlessOverran, SettledOnce,
     AttemptsBounded, MarkProcessedThrows, SpendFault, table, workers, observed
<1>. QED
  BY <1>1, <1>2 DEF IInv

\* A failed attempt ends in a dead letter exactly if it was the last.
LEMMA MarkFailureKeeps ==
  ASSUME IInv, NEW w \in Worker, MarkFailure(w)
  PROVE  IInv'
<1>0. AtHandFacts(w)
  BY DEF IInv, AtHandFacts, TypeOK, AtHand, HoldersKnowAttempts, HeldIsUnsettled,
     MarkFailure
<1>a. Ahead(w, Backoff(tries[w][cur[w]])) \in Nat
  <2>1. attempts[cur[w]] \in Nat /\ tries[w][cur[w]] \in Nat \ {0}
    BY <1>0 DEF IInv, TypeOK, AtHandFacts
  <2>. QED
    BY <2>1, BackoffType, AheadType
<1>1. TypeOK'
  <2>1. /\ inserted' \subseteq Entry /\ processed' \subseteq Entry /\ failed' \subseteq Entry
        /\ purged' \subseteq Entry /\ attempts' \in [Entry -> Nat]
    BY <1>0 DEF IInv, TypeOK, AtHandFacts, MarkFailure, SetFailure, NextEntry, table
  <2>2. retryIn' \in [Entry -> Nat] /\ age' \in [Entry -> Int]
    BY <1>0, <1>a, Assumptions DEF IInv, TypeOK, AtHandFacts, MarkFailure,
       SetFailure, NextEntry, table
  <2>3. /\ pc' \in [Worker -> {"idle", "loop", "mark", "fail", "down"}]
        /\ batch' \in [Worker -> SUBSET Entry] /\ cur' \in [Worker -> Entry \union {0}]
    BY DEF IInv, TypeOK, AtHandFacts, MarkFailure, SetFailure, NextEntry, workers,
       observed
  <2>4. tries' \in [Worker -> [Entry -> Nat]] /\ lease' \in [Worker -> Nat]
    BY Assumptions DEF IInv, TypeOK, AtHandFacts, MarkFailure, SetFailure, NextEntry,
       workers, observed
  <2>5. /\ applied' \subseteq Entry /\ overran' \subseteq Entry /\ torn' \subseteq Entry
        /\ abandoned' \subseteq Entry
    BY <1>0 DEF IInv, TypeOK, AtHandFacts, MarkFailure, SetFailure, NextEntry, observed
  <2>6. faults' \in Nat
    BY DEF IInv, TypeOK, AtHandFacts, MarkFailure, SetFailure, NextEntry, observed
  <2>. QED
    BY <2>1, <2>2, <2>3, <2>4, <2>5, <2>6 DEF TypeOK
<1>2. HoldersAreLeased'
  BY <1>0 DEF IInv, TypeOK, AtHandFacts, ExclusiveUnlessOverran, HoldersAreLeased,
     MarkFailure, SetFailure, NextEntry, observed
<1>3. HeldIsUnsettled'
  BY <1>0 DEF IInv, TypeOK, AtHandFacts, ExclusiveUnlessOverran, HeldIsUnsettled,
     MarkFailure, SetFailure, NextEntry, observed
<1>4. AtHand'
  BY <1>0 DEF IInv, AtHandFacts, TypeOK, AtHand, MarkFailure, SetFailure, NextEntry,
     table, workers, observed
<1>5. LastAttemptAccounted'
  BY <1>0 DEF IInv, AtHandFacts, TypeOK, LastAttemptAccounted, MarkFailure, SetFailure,
     NextEntry, table, workers, observed
<1>6. InOrder'
  BY <1>0 DEF IInv, InOrder, AtHandFacts, MarkFailure, SetFailure, NextEntry,
     table, observed
<1>7. SettledOnce'
  BY <1>0 DEF IInv, SettledOnce, AtHandFacts, MarkFailure, SetFailure, NextEntry,
     table, observed
<1>8. HoldersKnowAttempts' /\ ExclusiveUnlessOverran' /\ AttemptsBounded'
  BY DEF IInv, HoldersKnowAttempts, ExclusiveUnlessOverran, AttemptsBounded,
     MarkFailure, SetFailure, NextEntry, table, workers, observed
<1>. QED
  BY <1>1, <1>2, <1>3, <1>4, <1>5, <1>6, <1>7, <1>8 DEF IInv

\* A batch dropped without verdicts is abandoned.
LEMMA MarkFailureThrowsKeeps ==
  ASSUME IInv, NEW w \in Worker, MarkFailureThrows(w)
  PROVE  IInv'
<1>0. AtHandFacts(w)
  BY DEF IInv, AtHandFacts, TypeOK, AtHand, HoldersKnowAttempts, HeldIsUnsettled,
     MarkFailureThrows
<1>1. TypeOK'
  <2>1. /\ inserted' \subseteq Entry /\ processed' \subseteq Entry /\ failed' \subseteq Entry
        /\ purged' \subseteq Entry /\ attempts' \in [Entry -> Nat]
    BY <1>0 DEF IInv, TypeOK, AtHandFacts, MarkFailureThrows, DropBatch, SpendFault,
       table
  <2>2. retryIn' \in [Entry -> Nat] /\ age' \in [Entry -> Int]
    BY <1>0, Assumptions DEF IInv, TypeOK, AtHandFacts, MarkFailureThrows, DropBatch,
       SpendFault, table
  <2>3. /\ pc' \in [Worker -> {"idle", "loop", "mark", "fail", "down"}]
        /\ batch' \in [Worker -> SUBSET Entry] /\ cur' \in [Worker -> Entry \union {0}]
    BY DEF IInv, TypeOK, AtHandFacts, MarkFailureThrows, DropBatch, SpendFault,
       workers, observed
  <2>4. tries' \in [Worker -> [Entry -> Nat]] /\ lease' \in [Worker -> Nat]
    BY Assumptions DEF IInv, TypeOK, AtHandFacts, MarkFailureThrows, DropBatch,
       SpendFault, workers, observed
  <2>5. /\ applied' \subseteq Entry /\ overran' \subseteq Entry /\ torn' \subseteq Entry
        /\ abandoned' \subseteq Entry
    BY <1>0 DEF IInv, TypeOK, AtHandFacts, MarkFailureThrows, DropBatch, SpendFault,
       observed
  <2>6. faults' \in Nat
    BY DEF IInv, TypeOK, AtHandFacts, MarkFailureThrows, DropBatch, SpendFault,
       observed
  <2>. QED
    BY <2>1, <2>2, <2>3, <2>4, <2>5, <2>6 DEF TypeOK
<1>2. HoldersAreLeased'
  BY <1>0 DEF IInv, AtHandFacts, TypeOK, HoldersAreLeased, MarkFailureThrows,
     SpendFault, DropBatch, table, workers, observed
<1>3. HoldersKnowAttempts'
  BY <1>0 DEF IInv, AtHandFacts, TypeOK, HoldersKnowAttempts, MarkFailureThrows,
     SpendFault, DropBatch, table, workers, observed
<1>4. AtHand'
  BY <1>0 DEF IInv, AtHandFacts, TypeOK, AtHand, MarkFailureThrows, SpendFault,
     DropBatch, table, workers, observed
<1>5. HeldIsUnsettled' /\ LastAttemptAccounted' /\ InOrder' /\ ExclusiveUnlessOverran'
     /\ SettledOnce' /\ AttemptsBounded'
  BY DEF IInv, HeldIsUnsettled, LastAttemptAccounted, InOrder, ExclusiveUnlessOverran,
     SettledOnce, AttemptsBounded, MarkFailureThrows, SpendFault, DropBatch, table,
     workers, observed
<1>. QED
  BY <1>1, <1>2, <1>3, <1>4, <1>5 DEF IInv

\* The same with the verdict of the entry at hand in place.
LEMMA MarkFailureReplyLostKeeps ==
  ASSUME IInv, NEW w \in Worker, MarkFailureReplyLost(w)
  PROVE  IInv'
<1>0. AtHandFacts(w)
  BY DEF IInv, AtHandFacts, TypeOK, AtHand, HoldersKnowAttempts, HeldIsUnsettled,
     MarkFailureReplyLost
<1>a. Ahead(w, Backoff(tries[w][cur[w]])) \in Nat
  <2>1. attempts[cur[w]] \in Nat /\ tries[w][cur[w]] \in Nat \ {0}
    BY <1>0 DEF IInv, TypeOK, AtHandFacts
  <2>. QED
    BY <2>1, BackoffType, AheadType
<1>1. TypeOK'
  <2>1. /\ inserted' \subseteq Entry /\ processed' \subseteq Entry /\ failed' \subseteq Entry
        /\ purged' \subseteq Entry /\ attempts' \in [Entry -> Nat]
    BY <1>0 DEF IInv, TypeOK, AtHandFacts, MarkFailureReplyLost, SetFailure, DropBatch,
       SpendFault, table
  <2>2. retryIn' \in [Entry -> Nat] /\ age' \in [Entry -> Int]
    BY <1>0, <1>a, Assumptions DEF IInv, TypeOK, AtHandFacts,
       MarkFailureReplyLost, SetFailure, DropBatch, SpendFault, table
  <2>3. /\ pc' \in [Worker -> {"idle", "loop", "mark", "fail", "down"}]
        /\ batch' \in [Worker -> SUBSET Entry] /\ cur' \in [Worker -> Entry \union {0}]
    BY DEF IInv, TypeOK, AtHandFacts, MarkFailureReplyLost, SetFailure, DropBatch,
       SpendFault, workers, observed
  <2>4. tries' \in [Worker -> [Entry -> Nat]] /\ lease' \in [Worker -> Nat]
    BY Assumptions DEF IInv, TypeOK, AtHandFacts, MarkFailureReplyLost, SetFailure,
       DropBatch, SpendFault, workers, observed
  <2>5. /\ applied' \subseteq Entry /\ overran' \subseteq Entry /\ torn' \subseteq Entry
        /\ abandoned' \subseteq Entry
    BY <1>0 DEF IInv, TypeOK, AtHandFacts, MarkFailureReplyLost, SetFailure, DropBatch,
       SpendFault, observed
  <2>6. faults' \in Nat
    BY DEF IInv, TypeOK, AtHandFacts, MarkFailureReplyLost, SetFailure, DropBatch,
       SpendFault, observed
  <2>. QED
    BY <2>1, <2>2, <2>3, <2>4, <2>5, <2>6 DEF TypeOK
<1>2. HoldersAreLeased'
  BY <1>0 DEF IInv, TypeOK, AtHandFacts, ExclusiveUnlessOverran, HoldersAreLeased,
     MarkFailureReplyLost, SetFailure, DropBatch
<1>3. HoldersKnowAttempts'
  BY <1>0 DEF IInv, AtHandFacts, TypeOK, HoldersKnowAttempts, MarkFailureReplyLost,
     SpendFault, SetFailure, DropBatch, table, workers, observed
<1>4. HeldIsUnsettled'
  BY <1>0 DEF IInv, TypeOK, AtHandFacts, ExclusiveUnlessOverran, HeldIsUnsettled,
     MarkFailureReplyLost, SetFailure, DropBatch
<1>5. AtHand'
  BY <1>0 DEF IInv, AtHandFacts, TypeOK, AtHand, MarkFailureReplyLost, SpendFault,
     SetFailure, DropBatch, table, workers, observed
<1>6. InOrder'
  BY <1>0 DEF IInv, InOrder, AtHandFacts, MarkFailureReplyLost, SetFailure, DropBatch, SpendFault,
     table, observed
<1>7. SettledOnce'
  BY <1>0 DEF IInv, SettledOnce, AtHandFacts, MarkFailureReplyLost, SetFailure, DropBatch, SpendFault,
     table, observed
<1>8. LastAttemptAccounted' /\ ExclusiveUnlessOverran' /\ AttemptsBounded'
  BY DEF IInv, LastAttemptAccounted, ExclusiveUnlessOverran, AttemptsBounded,
     MarkFailureReplyLost, SpendFault, SetFailure, DropBatch, table, workers, observed
<1>. QED
  BY <1>1, <1>2, <1>3, <1>4, <1>5, <1>6, <1>7, <1>8 DEF IInv

\* Cleanup deletes processed rows and the worker holds nothing.
LEMMA FinishKeeps ==
  ASSUME IInv, NEW w \in Worker, Finish(w)
  PROVE  IInv'
<1>1. TypeOK'
  <2>1. /\ inserted' \subseteq Entry /\ processed' \subseteq Entry /\ failed' \subseteq Entry
        /\ purged' \subseteq Entry /\ attempts' \in [Entry -> Nat]
    BY DEF IInv, TypeOK, Finish, DropBatch, Purgeable, table
  <2>2. retryIn' \in [Entry -> Nat] /\ age' \in [Entry -> Int]
    BY Assumptions DEF IInv, TypeOK, Finish, DropBatch, Purgeable, table
  <2>3. /\ pc' \in [Worker -> {"idle", "loop", "mark", "fail", "down"}]
        /\ batch' \in [Worker -> SUBSET Entry] /\ cur' \in [Worker -> Entry \union {0}]
    BY DEF IInv, TypeOK, Finish, DropBatch, Purgeable, workers, observed
  <2>4. tries' \in [Worker -> [Entry -> Nat]] /\ lease' \in [Worker -> Nat]
    BY Assumptions DEF IInv, TypeOK, Finish, DropBatch, Purgeable, workers, observed
  <2>5. /\ applied' \subseteq Entry /\ overran' \subseteq Entry /\ torn' \subseteq Entry
        /\ abandoned' \subseteq Entry
    BY DEF IInv, TypeOK, Finish, DropBatch, Purgeable, observed
  <2>6. faults' \in Nat
    BY DEF IInv, TypeOK, Finish, DropBatch, Purgeable, observed
  <2>. QED
    BY <2>1, <2>2, <2>3, <2>4, <2>5, <2>6 DEF TypeOK
<1>2. InOrder'
  BY DEF IInv, InOrder, Finish, Purgeable
<1>3. HoldersAreLeased' /\ HoldersKnowAttempts' /\ HeldIsUnsettled' /\ AtHand' /\
     LastAttemptAccounted' /\ ExclusiveUnlessOverran' /\ SettledOnce' /\
     AttemptsBounded'
  BY DEF IInv, HoldersAreLeased, HoldersKnowAttempts, HeldIsUnsettled, AtHand,
     LastAttemptAccounted, ExclusiveUnlessOverran, SettledOnce, AttemptsBounded,
     Finish, DropBatch, table, workers, observed
<1>. QED
  BY <1>1, <1>2, <1>3 DEF IInv

\* A poll that ends early holds nothing.
LEMMA CleanupThrowsKeeps ==
  ASSUME IInv, NEW w \in Worker, CleanupThrows(w)
  PROVE  IInv'
<1>1. TypeOK'
  BY DEF IInv, TypeOK, CleanupThrows, SpendFault, DropBatch, table, workers, observed
<1>2. HoldersAreLeased' /\ HoldersKnowAttempts' /\ HeldIsUnsettled' /\ AtHand' /\
     LastAttemptAccounted' /\ InOrder' /\ ExclusiveUnlessOverran' /\ SettledOnce' /\
     AttemptsBounded'
  BY DEF IInv, HoldersAreLeased, HoldersKnowAttempts, HeldIsUnsettled, AtHand,
     LastAttemptAccounted, InOrder, ExclusiveUnlessOverran, SettledOnce,
     AttemptsBounded, CleanupThrows, SpendFault, DropBatch, table, workers, observed
<1>. QED
  BY <1>1, <1>2 DEF IInv

\* What a dying worker holds is abandoned.
LEMMA CrashKeeps ==
  ASSUME IInv, NEW w \in Worker, Crash(w)
  PROVE  IInv'
<1>1. TypeOK'
  <2>1. /\ inserted' \subseteq Entry /\ processed' \subseteq Entry /\ failed' \subseteq Entry
        /\ purged' \subseteq Entry /\ attempts' \in [Entry -> Nat]
    BY DEF IInv, TypeOK, Crash, DropBatch, SpendFault, table
  <2>2. retryIn' \in [Entry -> Nat] /\ age' \in [Entry -> Int]
    BY Assumptions DEF IInv, TypeOK, Crash, DropBatch, SpendFault, table
  <2>3. /\ pc' \in [Worker -> {"idle", "loop", "mark", "fail", "down"}]
        /\ batch' \in [Worker -> SUBSET Entry] /\ cur' \in [Worker -> Entry \union {0}]
    BY DEF IInv, TypeOK, Crash, DropBatch, SpendFault, workers, observed
  <2>4. tries' \in [Worker -> [Entry -> Nat]] /\ lease' \in [Worker -> Nat]
    BY Assumptions DEF IInv, TypeOK, Crash, DropBatch, SpendFault, workers, observed
  <2>5. /\ applied' \subseteq Entry /\ overran' \subseteq Entry /\ torn' \subseteq Entry
        /\ abandoned' \subseteq Entry
    BY DEF IInv, TypeOK, Crash, DropBatch, SpendFault, observed
  <2>6. faults' \in Nat
    BY DEF IInv, TypeOK, Crash, DropBatch, SpendFault, observed
  <2>. QED
    BY <2>1, <2>2, <2>3, <2>4, <2>5, <2>6 DEF TypeOK
<1>2. HoldersAreLeased'
  BY DEF IInv, TypeOK, HoldersAreLeased, Crash, SpendFault, DropBatch, table, workers,
     observed
<1>3. HoldersKnowAttempts'
  BY DEF IInv, TypeOK, HoldersKnowAttempts, Crash, SpendFault, DropBatch, table,
     workers, observed
<1>4. AtHand'
  BY DEF IInv, TypeOK, AtHand, Crash, SpendFault, DropBatch, table, workers, observed
<1>5. HeldIsUnsettled' /\ LastAttemptAccounted' /\ InOrder' /\ ExclusiveUnlessOverran'
     /\ SettledOnce' /\ AttemptsBounded'
  BY DEF IInv, HeldIsUnsettled, LastAttemptAccounted, InOrder, ExclusiveUnlessOverran,
     SettledOnce, AttemptsBounded, Crash, SpendFault, DropBatch, table, workers,
     observed
<1>. QED
  BY <1>1, <1>2, <1>3, <1>4, <1>5 DEF IInv

\* A worker starts with nothing in hand.
LEMMA RestartKeeps ==
  ASSUME IInv, NEW w \in Worker, Restart(w)
  PROVE  IInv'
<1>1. TypeOK'
  BY DEF IInv, TypeOK, Restart, table, workers, observed
<1>2. HoldersAreLeased' /\ HoldersKnowAttempts' /\ HeldIsUnsettled' /\ AtHand' /\
     LastAttemptAccounted' /\ InOrder' /\ ExclusiveUnlessOverran' /\ SettledOnce' /\
     AttemptsBounded'
  BY DEF IInv, HoldersAreLeased, HoldersKnowAttempts, HeldIsUnsettled, AtHand,
     LastAttemptAccounted, InOrder, ExclusiveUnlessOverran, SettledOnce,
     AttemptsBounded, Restart, table, workers, observed
<1>. QED
  BY <1>1, <1>2 DEF IInv

\* An entry that is new has no attempts and no holder.
LEMMA EnqueueKeeps ==
  ASSUME IInv, NEW e \in Entry, Enqueue(e)
  PROVE  IInv'
BY DEF IInv, TypeOK, HoldersAreLeased, HoldersKnowAttempts, HeldIsUnsettled, AtHand,
       LastAttemptAccounted, InOrder, ExclusiveUnlessOverran, SettledOnce,
       AttemptsBounded, Enqueue, workers, observed

\* Time shortens leases and horizons alike; what a lease no longer covers is
\* overrun.
LEMMA TickKeeps ==
  ASSUME IInv, Tick
  PROVE  IInv'
<1>1. TypeOK'
  <2>1. retryIn' \in [Entry -> Nat] /\ lease' \in [Worker -> Nat]
    <3>1. \A n \in Nat : Count(n) \in Nat
      BY DEF Count
    <3>2. /\ retryIn' = [e \in Entry |-> Count(retryIn[e])]
          /\ lease' = [w \in Worker |-> Count(lease[w])]
      BY DEF Tick
    <3>3. (\A e \in Entry : retryIn[e] \in Nat) /\ (\A w \in Worker : lease[w] \in Nat)
      BY DEF IInv, TypeOK
    <3>4. /\ (\A e \in Entry : Count(retryIn[e]) \in Nat)
          /\ (\A w \in Worker : Count(lease[w]) \in Nat)
      BY <3>1, <3>3
    <3>. QED
      BY <3>2, <3>4
  <2>2. age' \in [Entry -> Int]
    BY Assumptions DEF IInv, TypeOK, Tick
  <2>3. overran' \subseteq Entry /\ faults' \in Nat
    BY DEF IInv, TypeOK, Tick, SpendFault
  <2>. QED
    BY <2>1, <2>2, <2>3 DEF IInv, TypeOK, Tick, workers
<1>2. HoldersAreLeased'
  <2>. SUFFICES ASSUME NEW w \in Worker, NEW e \in batch[w],
                       e \notin overran', e \notin processed
                PROVE  lease'[w] > 0 /\ lease'[w] <= retryIn'[e]
    BY DEF HoldersAreLeased, Tick, workers
  <2>1. e \in Entry /\ lease[w] \in Nat /\ retryIn[e] \in Nat
    BY DEF IInv, TypeOK
  <2>2. lease[w] # 1 /\ e \notin overran
    BY DEF Tick
  <2>3. lease[w] > 0 /\ lease[w] <= retryIn[e]
    BY <2>2 DEF IInv, HoldersAreLeased
  <2>4. lease'[w] = lease[w] - 1 /\ retryIn'[e] = retryIn[e] - 1
    BY <2>1, <2>3 DEF Tick, Count
  <2>. QED
    BY <2>1, <2>2, <2>3, <2>4
<1>3. /\ HoldersKnowAttempts' /\ HeldIsUnsettled' /\ AtHand' /\ LastAttemptAccounted'
      /\ InOrder' /\ ExclusiveUnlessOverran' /\ SettledOnce' /\ AttemptsBounded'
  BY DEF IInv, HoldersKnowAttempts, HeldIsUnsettled, AtHand, LastAttemptAccounted,
         InOrder, ExclusiveUnlessOverran, SettledOnce, AttemptsBounded, Tick, workers
<1>. QED
  BY <1>1, <1>2, <1>3 DEF IInv

\* Nothing is inserted, held or attempted at first.
LEMMA InitIInv == Init => IInv
<1>. SUFFICES ASSUME Init PROVE IInv
  OBVIOUS
<1>1. TypeOK
  BY Assumptions DEF Init, TypeOK
<1>2. \A e \in Entry : attempts[e] = 0 /\ MaxAttempts > 0
  BY Assumptions DEF Init
<1>. QED
  BY <1>1, <1>2, Assumptions
     DEF Init, IInv, HoldersAreLeased, HoldersKnowAttempts, HeldIsUnsettled, AtHand,
         LastAttemptAccounted, InOrder, ExclusiveUnlessOverran, SettledOnce,
         AttemptsBounded

\* Every step keeps the inductive invariant.
LEMMA NextIInv == IInv /\ [Next]_vars => IInv'
<1>. SUFFICES ASSUME IInv, [Next]_vars PROVE IInv'
  OBVIOUS
<1>1. CASE UNCHANGED vars
  BY <1>1 DEF vars, table, workers, observed, IInv, TypeOK, HoldersAreLeased,
              HoldersKnowAttempts, HeldIsUnsettled, AtHand, LastAttemptAccounted,
              InOrder, ExclusiveUnlessOverran, SettledOnce, AttemptsBounded
<1>2. CASE Next
  <2>1. CASE \E e \in Entry : Enqueue(e)
    BY <2>1, EnqueueKeeps
  <2>2. ASSUME NEW w \in Worker, ClaimBatch(w) \/ ClaimReplyLost(w)
        PROVE  IInv'
    BY <2>2, ClaimBatchKeeps, ClaimReplyLostKeeps
  <2>3. ASSUME NEW w \in Worker, NEW e \in Entry, ApplyOk(w, e) \/ ApplyThrows(w, e)
        PROVE  IInv'
    BY <2>3, ApplyOkKeeps, ApplyThrowsKeeps
  <2>4. ASSUME NEW w \in Worker,
               MarkProcessed(w) \/ MarkProcessedReplyLost(w) \/ MarkProcessedThrows(w)
        PROVE  IInv'
    BY <2>4, MarkProcessedKeeps, MarkProcessedReplyLostKeeps, MarkProcessedThrowsKeeps
  <2>5. ASSUME NEW w \in Worker,
               MarkFailure(w) \/ MarkFailureThrows(w) \/ MarkFailureReplyLost(w)
        PROVE  IInv'
    BY <2>5, MarkFailureKeeps, MarkFailureThrowsKeeps, MarkFailureReplyLostKeeps
  <2>6. ASSUME NEW w \in Worker,
               Finish(w) \/ CleanupThrows(w) \/ Crash(w) \/ Restart(w)
        PROVE  IInv'
    BY <2>6, FinishKeeps, CleanupThrowsKeeps, CrashKeeps, RestartKeeps
  <2>7. CASE Tick
    BY <2>7, TickKeeps
  <2>. QED
    BY <1>2, <2>1, <2>2, <2>3, <2>4, <2>5, <2>6, <2>7, NextCases
<1>. QED
  BY <1>1, <1>2

\* The inductive invariant holds throughout.
THEOREM InductiveInvariant == Spec => []IInv
BY InitIInv, NextIInv, PTL DEF Spec

\* The variables of the queue keep their types.
THEOREM TypeCorrect == Spec => []TypeOK
<1>1. IInv => TypeOK
  BY DEF IInv
<1>. QED
  BY <1>1, InductiveInvariant, PTL

\* Short of a holder that outlived its lease, no two workers hold the same entry.
THEOREM ClaimsAreExclusive == Spec => []ExclusiveUnlessOverran
<1>1. IInv => ExclusiveUnlessOverran
  BY DEF IInv
<1>. QED
  BY <1>1, InductiveInvariant, PTL

\* Short of an outlived lease or a lost reply, an entry has one verdict.
THEOREM VerdictsAreUnique == Spec => []SettledOnce
<1>1. IInv => SettledOnce
  BY DEF IInv
<1>. QED
  BY <1>1, InductiveInvariant, PTL

\* Short of an outlived lease or an abandoned claim, an entry has at most
\* maxAttempts attempts.
THEOREM AttemptsAreBounded == Spec => []AttemptsBounded
<1>1. IInv => AttemptsBounded
  BY DEF IInv
<1>. QED
  BY <1>1, InductiveInvariant, PTL

\* A step of the processor is a step of the abstract queue, or none.
LEMMA StepRefines == IInv /\ [Next]_vars => [Promise!Next]_(Promise!vars)
<1>. SUFFICES ASSUME IInv, [Next]_vars
              PROVE  Promise!Next \/ UNCHANGED Promise!vars
  BY DEF Promise!vars
<1>. USE DEF Promise!Next, Promise!vars, Promise!Enqueue, Promise!Deliver,
             Promise!Complete, Promise!Bury, Promise!Purge
<1>1. CASE UNCHANGED vars
  BY <1>1 DEF vars, table, workers, observed
<1>2. CASE \E e \in Entry : Enqueue(e)
  BY <1>2 DEF Enqueue, observed
<1>3. ASSUME NEW w \in Worker, ClaimBatch(w) \/ ClaimReplyLost(w)
      PROVE  UNCHANGED Promise!vars
  BY <1>3 DEF ClaimBatch, ClaimReplyLost, StampClaim
<1>4. ASSUME NEW w \in Worker, NEW e \in Entry, ApplyOk(w, e)
      PROVE  Promise!Deliver(e)
  BY <1>4 DEF IInv, HoldersKnowAttempts, ApplyOk, table
<1>5. ASSUME NEW w \in Worker, NEW e \in Entry, ApplyThrows(w, e)
      PROVE  UNCHANGED Promise!vars
  BY <1>5 DEF ApplyThrows, table, observed
<1>6. ASSUME NEW w \in Worker, MarkProcessed(w) \/ MarkProcessedReplyLost(w)
      PROVE  Promise!Complete(cur[w])
  BY <1>6 DEF IInv, AtHand, MarkProcessed, MarkProcessedReplyLost, SetProcessed, observed
<1>7. ASSUME NEW w \in Worker, MarkProcessedThrows(w) \/ MarkFailureThrows(w)
      PROVE  UNCHANGED Promise!vars
  BY <1>7 DEF MarkProcessedThrows, MarkFailureThrows, table
<1>8. ASSUME NEW w \in Worker, MarkFailure(w) \/ MarkFailureReplyLost(w)
      PROVE  Promise!Bury(cur[w]) \/ UNCHANGED Promise!vars
  BY <1>8 DEF IInv, AtHand, HoldersKnowAttempts, MarkFailure, MarkFailureReplyLost,
              SetFailure, observed
<1>9. ASSUME NEW w \in Worker, Finish(w)
      PROVE  Promise!Purge
  BY <1>9 DEF IInv, Finish, Purgeable
<1>10. ASSUME NEW w \in Worker, CleanupThrows(w) \/ Crash(w) \/ Restart(w)
       PROVE  UNCHANGED Promise!vars
  BY <1>10 DEF CleanupThrows, Crash, Restart, table, observed
<1>11. CASE Tick
  BY <1>11 DEF Tick
<1>12. \A w \in Worker : pc[w] \in {"mark", "fail"} => cur[w] \in Entry
  BY DEF IInv, AtHand, TypeOK
<1>. QED
  <2>1. ASSUME NEW w \in Worker, MarkProcessed(w) \/ MarkProcessedReplyLost(w)
        PROVE  Promise!Next
    BY <1>6, <1>12, <2>1 DEF MarkProcessed, MarkProcessedReplyLost
  <2>2. ASSUME NEW w \in Worker, MarkFailure(w) \/ MarkFailureReplyLost(w)
        PROVE  Promise!Next \/ UNCHANGED Promise!vars
    BY <1>8, <1>12, <2>2 DEF MarkFailure, MarkFailureReplyLost
  <2>. QED
    BY <1>1, <1>2, <1>3, <1>4, <1>5, <1>7, <1>9, <1>10, <1>11, <2>1, <2>2, NextCases

\* The processor implements the abstract queue: an entry leaves it only when
\* its projection was acknowledged, and whatever is not delivered is kept.
THEOREM OutboxImplementsAtLeastOnce == Spec => ImplementsAtLeastOnce
<1>1. Init => Promise!Init
  BY DEF Init, Promise!Init
<1>. QED
  BY <1>1, StepRefines, InductiveInvariant, PTL DEF Spec, ImplementsAtLeastOnce, Promise!Spec

=============================================================================
