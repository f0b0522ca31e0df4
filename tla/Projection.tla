------------------------------ MODULE Projection ------------------------------
(***************************************************************************)
(* Keeping Elasticsearch in step with Postgres.  Requests write a product  *)
(* row and its outbox entry in one transaction and then index the document *)
(* themselves; the outbox workers replay every entry.  Nobody coordinates  *)
(* the two, and a call to Elasticsearch takes effect at some later moment, *)
(* perhaps after its caller has given it up.                               *)
(*                                                                         *)
(* A product's data is abstracted to a version, the number of commits that *)
(* touched it, and the views it has accumulated.  The version is not in    *)
(* the database: it identifies what was written.  The queue's leases and   *)
(* attempts are module Outbox's; here any pending entry may be claimed,    *)
(* also by two workers at once, as Outbox shows can happen.                *)
(***************************************************************************)
EXTENDS Integers, FiniteSets

CONSTANTS
    Product,
    Request,       \* requests served at the same time
    Worker,        \* outbox processors
    MaxVersion,    \* bound: commits to one product
    MaxFaults,     \* bound: refused calls, crashes and dead letters in all
    MaxStrays      \* bound: calls that outlive their caller in all

ASSUME ProductAssumption == Product # {}
ASSUME DisjointAssumption == Request \intersect Worker = {}
ASSUME MaxVersionAssumption == MaxVersion \in Nat
ASSUME BudgetAssumption == MaxFaults \in Nat /\ MaxStrays \in Nat

Process == Request \union Worker

\* What a row or a document holds; a deleted or missing one is not live.
Content == [live : BOOLEAN, ver : Nat, views : Nat]
Absent == [live |-> FALSE, ver |-> 0, views |-> 0]

\* An index call writes a live content, a delete call one that is not live.
Call == [product : Product, content : Content]

Operation == {"upsert", "delete"}
OutboxEntry == [product : Product, ver : Nat, operation : Operation]

VARIABLES
    row,           \* the products table
    pending,       \* outbox entries waiting for a worker, or being worked on
    done,          \* entries with a processed_at
    dead,          \* entries with a failed_at
    doc,           \* the documents behind the alias
    pc,            \* where each process stands
    work,          \* the row an update has read; the call a process waits for
    entry,         \* the entry a worker has claimed
    strays,        \* calls on their way whose callers no longer wait
    overtaken,     \* observed: products whose newest document an older call overwrote
    faults,        \* faults so far
    lost           \* calls that became strays so far

database == <<row, pending, done, dead>>
index == <<doc, overtaken>>
vars == <<database, index, pc, work, entry, strays, faults, lost>>

NoCall == [product |-> CHOOSE p \in Product : TRUE, content |-> Absent]
NoEntry == [product |-> CHOOSE p \in Product : TRUE, ver |-> 0, operation |-> "upsert"]

Init ==
    /\ row = [p \in Product |-> Absent]
    /\ pending = {}
    /\ done = {}
    /\ dead = {}
    /\ doc = [p \in Product |-> Absent]
    /\ pc = [c \in Process |-> "idle"]
    /\ work = [c \in Process |-> NoCall]
    /\ entry = [w \in Worker |-> NoEntry]
    /\ strays = {}
    /\ overtaken = {}
    /\ faults = 0
    /\ lost = 0

SpendFault == faults < MaxFaults /\ faults' = faults + 1
SpendStray == lost < MaxStrays /\ lost' = lost + 1

-----------------------------------------------------------------------------
(* The repository: each operation commits a row with its outbox entry.     *)

Commit(p, content, operation) ==
    /\ row' = [row EXCEPT ![p] = content]
    /\ pending' = pending \union
           {[product |-> p, ver |-> content.ver, operation |-> operation]}
    /\ UNCHANGED <<done, dead>>

\* Mutant: the deletion is queued as an upsert.
RemoveAsUpsert(p) ==
    Commit(p, [live |-> FALSE, ver |-> row[p].ver + 1, views |-> 0], "upsert")

\* save() is an upsert: whether the row is there or not does not matter.
Save(p, views) ==
    Commit(p, [live |-> TRUE, ver |-> row[p].ver + 1, views |-> views], "upsert")

\* delete(), of a row that is there.
Remove(p) ==
    Commit(p, [live |-> FALSE, ver |-> row[p].ver + 1, views |-> 0], "delete")

\* incrementPopularity(), of a row that is there.
Increment(p) ==
    Commit(p, [live |-> TRUE, ver |-> row[p].ver + 1, views |-> row[p].views + 1], "upsert")

\* The request has committed and calls Elasticsearch with what it wrote.
Project(r, p) ==
    /\ work' = [work EXCEPT ![r] = [product |-> p, content |-> row'[p]]]
    /\ pc' = [pc EXCEPT ![r] = "call"]
    /\ UNCHANGED <<index, entry, strays, faults, lost>>

-----------------------------------------------------------------------------
(* The requests.                                                           *)

\* POST /products, under a fresh identifier.
Create(r, p) ==
    /\ pc[r] = "idle"
    /\ row[p].ver = 0 /\ MaxVersion > 0
    /\ Save(p, 0)
    /\ Project(r, p)

\* PUT /products/:id begins by reading the product; without one it is a 404.
UpdateReads(r, p) ==
    /\ pc[r] = "idle"
    /\ row[p].live
    /\ work' = [work EXCEPT ![r] = [product |-> p, content |-> row[p]]]
    /\ pc' = [pc EXCEPT ![r] = "save"]
    /\ UNCHANGED <<database, index, entry, strays, faults, lost>>

\* Mutant: the update starts the popularity afresh.
UpdateSavesAfresh(r) ==
    /\ pc[r] = "save"
    /\ row[work[r].product].ver < MaxVersion
    /\ Save(work[r].product, 0)
    /\ Project(r, work[r].product)

\* It saves the new content with the popularity it has read.
UpdateSaves(r) ==
    /\ pc[r] = "save"
    /\ row[work[r].product].ver < MaxVersion
    /\ Save(work[r].product, work[r].content.views)
    /\ Project(r, work[r].product)

\* The request ends before it saves: invalid data, a failed transaction, a
\* process that stops.
UpdateEnds(r) ==
    /\ pc[r] = "save"
    /\ work' = [work EXCEPT ![r] = NoCall]
    /\ pc' = [pc EXCEPT ![r] = "idle"]
    /\ UNCHANGED <<database, index, entry, strays, faults, lost>>

\* DELETE /products/:id; without the product it is a 404.
Delete(r, p) ==
    /\ pc[r] = "idle"
    /\ row[p].live /\ row[p].ver < MaxVersion
    /\ Remove(p)
    /\ Project(r, p)

\* POST /products/:id/view; without the product it is a 404.
RecordView(r, p) ==
    /\ pc[r] = "idle"
    /\ row[p].live /\ row[p].ver < MaxVersion
    /\ Increment(p)
    /\ Project(r, p)

-----------------------------------------------------------------------------
(* The outbox workers.                                                     *)

\* The worker has come to this entry of its batch.
Claim(w, e) ==
    /\ pc[w] = "idle"
    /\ e \in pending
    /\ entry' = [entry EXCEPT ![w] = e]
    /\ pc' = [pc EXCEPT ![w] = "apply"]
    /\ UNCHANGED <<database, index, work, strays, faults, lost>>

\* apply() of a delete entry removes the document and looks at no row.
ApplyDelete(w) ==
    /\ pc[w] = "apply"
    /\ entry[w].operation = "delete"
    /\ work' = [work EXCEPT ![w] = [product |-> entry[w].product,
                    content |-> [live |-> FALSE, ver |-> entry[w].ver, views |-> 0]]]
    /\ pc' = [pc EXCEPT ![w] = "call"]
    /\ UNCHANGED <<database, index, entry, strays, faults, lost>>

\* apply() of an upsert entry reads the row as it is now, to index that.
ApplyUpsert(w) ==
    /\ pc[w] = "apply"
    /\ entry[w].operation = "upsert"
    /\ row[entry[w].product].live
    /\ work' = [work EXCEPT ![w] = [product |-> entry[w].product,
                                    content |-> row[entry[w].product]]]
    /\ pc' = [pc EXCEPT ![w] = "call"]
    /\ UNCHANGED <<database, index, entry, strays, faults, lost>>

\* A product deleted since is left to its delete entry.
ApplySkips(w) ==
    /\ pc[w] = "apply"
    /\ entry[w].operation = "upsert"
    /\ ~ row[entry[w].product].live
    /\ pc' = [pc EXCEPT ![w] = "ok"]
    /\ UNCHANGED <<database, index, work, entry, strays, faults, lost>>

\* The worker turns to its next entry, or its next poll.
Release(w) ==
    /\ pc' = [pc EXCEPT ![w] = "idle"]
    /\ entry' = [entry EXCEPT ![w] = NoEntry]

MarkProcessed(w) ==
    /\ pc[w] = "ok"
    /\ pending' = pending \ {entry[w]}
    /\ done' = done \union {entry[w]}
    /\ Release(w)
    /\ UNCHANGED <<row, dead, index, work, strays, faults, lost>>

\* markFailure() with attempts to spare: the entry will come up again.
Retry(w) ==
    /\ pc[w] = "failed"
    /\ Release(w)
    /\ UNCHANGED <<database, index, work, strays, faults, lost>>

\* markFailure() after the last attempt.
DeadLetter(w) ==
    /\ pc[w] = "failed"
    /\ SpendFault
    /\ pending' = pending \ {entry[w]}
    /\ dead' = dead \union {entry[w]}
    /\ Release(w)
    /\ UNCHANGED <<row, done, index, work, strays, lost>>

\* The worker dies, or its verdict is lost: the entry comes up again.
Crash(w) ==
    /\ pc[w] \in {"apply", "ok", "failed"}
    /\ SpendFault
    /\ Release(w)
    /\ UNCHANGED <<database, index, work, strays, lost>>

-----------------------------------------------------------------------------
(* The calls to Elasticsearch.  Documents carry no external version: the   *)
(* last call to arrive wins.                                               *)

Takes(call) ==
    LET p == call.product IN
    /\ doc' = [doc EXCEPT ![p] = call.content]
    /\ overtaken' =
           IF call.content.ver < doc[p].ver THEN overtaken \union {p}
           ELSE IF call.content.ver = row[p].ver THEN overtaken \ {p}
           ELSE overtaken

\* Mutant: a request, too, waits for a verdict to be recorded.
ReturnsToAll(c, verdict) ==
    /\ pc' = [pc EXCEPT ![c] = verdict]
    /\ work' = [work EXCEPT ![c] = NoCall]

\* A request answers its client either way; a worker has a verdict to record.
Returns(c, verdict) ==
    /\ pc' = [pc EXCEPT ![c] = IF c \in Request THEN "idle" ELSE verdict]
    /\ work' = [work EXCEPT ![c] = NoCall]

\* The call takes effect and its caller hears so.
Lands(c) ==
    /\ pc[c] = "call"
    /\ Takes(work[c])
    /\ Returns(c, "ok")
    /\ UNCHANGED <<database, entry, strays, faults, lost>>

\* Mutant: a worker that does not notice the error.
RefusedUnnoticed(c) ==
    /\ pc[c] = "call"
    /\ SpendFault
    /\ Returns(c, "ok")
    /\ UNCHANGED <<database, index, entry, strays, lost>>

\* The call has no effect and its caller catches an error, or stops.
Refused(c) ==
    /\ pc[c] = "call"
    /\ SpendFault
    /\ Returns(c, "failed")
    /\ UNCHANGED <<database, index, entry, strays, lost>>

\* The caller gives up, or stops, with the call still on its way.
TimesOut(c) ==
    /\ pc[c] = "call"
    /\ SpendStray
    /\ strays' = strays \union {work[c]}
    /\ Returns(c, "failed")
    /\ UNCHANGED <<database, index, entry, faults>>

\* The client library sends the call again while the first is on its way.
Resent(c) ==
    /\ pc[c] = "call"
    /\ SpendStray
    /\ strays' = strays \union {work[c]}
    /\ UNCHANGED <<database, index, pc, work, entry, faults>>

StrayLands(call) ==
    /\ call \in strays
    /\ Takes(call)
    /\ strays' = strays \ {call}
    /\ UNCHANGED <<database, pc, work, entry, faults, lost>>

StrayVanishes(call) ==
    /\ call \in strays
    /\ strays' = strays \ {call}
    /\ UNCHANGED <<database, index, pc, work, entry, faults, lost>>

-----------------------------------------------------------------------------

RequestStep(r) ==
    \/ \E p \in Product : Create(r, p) \/ UpdateReads(r, p) \/ Delete(r, p) \/ RecordView(r, p)
    \/ UpdateSaves(r) \/ UpdateEnds(r)

WorkerStep(w) ==
    \/ \E e \in pending : Claim(w, e)
    \/ ApplyDelete(w) \/ ApplyUpsert(w) \/ ApplySkips(w)
    \/ MarkProcessed(w) \/ Retry(w) \/ DeadLetter(w) \/ Crash(w)

CallStep(c) == Lands(c) \/ Refused(c) \/ TimesOut(c) \/ Resent(c)

Next ==
    \/ \E r \in Request : RequestStep(r)
    \/ \E w \in Worker : WorkerStep(w)
    \/ \E c \in Process : CallStep(c)
    \/ \E call \in strays : StrayLands(call) \/ StrayVanishes(call)

Spec == Init /\ [][Next]_vars

\* Each worker goes on polling (module Outbox shows that every entry comes
\* up), each call returns (the client has a request timeout), and no call is
\* on its way forever.  No request need ever be made.
Fairness ==
    /\ \A w \in Worker : WF_vars(WorkerStep(w))
    /\ \A c \in Process : WF_vars(CallStep(c))
    /\ WF_vars(\E call \in strays : StrayLands(call) \/ StrayVanishes(call))

FairSpec == Spec /\ Fairness

-----------------------------------------------------------------------------
(* Properties.                                                             *)

\* The type invariant.
TypeOK ==
    /\ row \in [Product -> Content]
    /\ pending \subseteq OutboxEntry
    /\ done \subseteq OutboxEntry
    /\ dead \subseteq OutboxEntry
    /\ doc \in [Product -> Content]
    /\ pc \in [Process -> {"idle", "save", "apply", "call", "ok", "failed"}]
    /\ \A r \in Request : pc[r] \in {"idle", "save", "call"}
    /\ \A w \in Worker : pc[w] # "save"
    /\ work \in [Process -> Call]
    /\ entry \in [Worker -> OutboxEntry]
    /\ strays \subseteq Call
    /\ overtaken \subseteq Product
    /\ faults \in Nat
    /\ lost \in Nat

\* The index shows the product as Postgres has it.
Synced(p) ==
    /\ doc[p].live = row[p].live
    /\ row[p].live => doc[p] = row[p]

\* The outbox entry of the product's last commit.
LatestEntry(p) ==
    [product |-> p, ver |-> row[p].ver,
     operation |-> IF row[p].live THEN "upsert" ELSE "delete"]

\* Wherever the index differs from Postgres there is a reason on record: the
\* entry of the last commit is still to be replayed, or was dead-lettered, or
\* an older call overwrote a newer document and nothing has repaired it since.
DriftIsAccounted ==
    \A p \in Product :
        Synced(p) \/ LatestEntry(p) \in pending \union dead \/ p \in overtaken

\* Views are lost, and a deleted product comes back, only by an update that
\* another commit to the product overlapped.
OnlyStaleUpdatesUndo ==
    [][\A p \in Product :
        \/ row[p].live /\ row'[p].live /\ row'[p].views < row[p].views
        \/ row[p].ver > 0 /\ ~ row[p].live /\ row'[p].live
        => \E r \in Request :
               /\ pc[r] = "save" /\ pc'[r] = "call"
               /\ work[r].product = p /\ work[r].content.ver < row[p].ver]_vars

\* The projection converges: in the end the index shows what Postgres holds,
\* or shows the entry that was given up ("the outbox processor as the
\* convergence guarantee", "a short delay instead of silent drift", README).
Converges ==
    <>[](\A p \in Product : Synced(p) \/ LatestEntry(p) \in dead)
=============================================================================
