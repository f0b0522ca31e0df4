----------------------------- MODULE AtLeastOnce -----------------------------
(***************************************************************************)
(* What the transactional outbox promises, whatever the number of workers, *)
(* leases and retries behind it: an entry leaves the queue only after its  *)
(* projection reached the search index at least once, or else it is        *)
(* visibly dead-lettered; nothing that is still queued is ever discarded.  *)
(***************************************************************************)
CONSTANT Entry           \* the outbox entries that may ever be written

VARIABLES
    queued,              \* entries committed together with their product
    delivered,           \* entries whose projection the index acknowledged
    done,                \* entries recorded as processed
    dead,                \* entries recorded as failed (dead-lettered)
    gone                 \* entries whose row was deleted

vars == <<queued, delivered, done, dead, gone>>

Init ==
    /\ queued = {}
    /\ delivered = {}
    /\ done = {}
    /\ dead = {}
    /\ gone = {}

\* The product and its entry commit in one transaction.
Enqueue(e) ==
    /\ e \notin queued
    /\ queued' = queued \union {e}
    /\ UNCHANGED <<delivered, done, dead, gone>>

\* The index acknowledges the projection; it may do so more than once.
Deliver(e) ==
    /\ e \in queued
    /\ delivered' = delivered \union {e}
    /\ UNCHANGED <<queued, done, dead, gone>>

\* Only a delivered entry is recorded as processed.
Complete(e) ==
    /\ e \in delivered
    /\ done' = done \union {e}
    /\ UNCHANGED <<queued, delivered, dead, gone>>

Bury(e) ==
    /\ e \in queued
    /\ dead' = dead \union {e}
    /\ UNCHANGED <<queued, delivered, done, gone>>

\* Only processed entries are ever deleted, some of them at a time.
Purge ==
    /\ \E old \in SUBSET done : gone' = gone \union old
    /\ UNCHANGED <<queued, delivered, done, dead>>

Next ==
    \/ \E e \in Entry : Enqueue(e) \/ Deliver(e) \/ Complete(e) \/ Bury(e)
    \/ Purge

Spec == Init /\ [][Next]_vars
=============================================================================
