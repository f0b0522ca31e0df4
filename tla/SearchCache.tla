----------------------------- MODULE SearchCache -----------------------------
(***************************************************************************)
(* The cache in front of Elasticsearch.  A search keeps its page in Redis  *)
(* under a key that carries the generation it has read; a write bumps the  *)
(* generation after its commit and before it indexes the product.  No      *)
(* step of one and of the other is atomic, and each call to Redis may fail *)
(* without the caller noticing more than a miss.                           *)
(*                                                                         *)
(* One set of criteria is enough, since keys of different criteria never   *)
(* meet; autocomplete follows the same steps under keys of its own.  What  *)
(* a page shows is the set of writes that the index had when it was asked. *)
(***************************************************************************)
EXTENDS Integers, FiniteSets

CONSTANTS
    Write,         \* requests that create, update or delete a product
    View,          \* requests that record a view
    Reader,        \* searches under way at the same time
    MaxGeneration, \* bound: generations ever reached
    MaxFaults,     \* bound: failed calls and stopped processes in all
    MaxFlushes     \* bound: how often Redis loses its data

ASSUME WriteAssumption == Write \intersect View = {}
ASSUME BoundAssumption == MaxGeneration \in Nat /\ MaxFaults \in Nat /\ MaxFlushes \in Nat

Commit == Write \union View
Generation == 0..MaxGeneration

VARIABLES
    generation,    \* search:generation, 0 when there is no such key
    cached,        \* the generations under which the page is in Redis
    page,          \* what that page shows
    indexed,       \* the commits that Elasticsearch shows
    wpc,           \* idle, bump, index, acked, failed: where a write stands
    rpc,           \* idle, get, search, set, answered: where a search stands
    key,           \* the generation a search has read, or fallen back to
    answer,        \* what the search returns
    faults,        \* failures so far
    flushes,       \* losses of Redis's data so far
    atBump,        \* observed: what was indexed when a generation began
    fence          \* observed: what was indexed when its generation began

redis == <<generation, cached, page>>
readers == <<rpc, key, answer, fence>>
bounds == <<faults, flushes>>
vars == <<redis, indexed, wpc, readers, bounds, atBump>>

Init ==
    /\ generation = 0
    /\ cached = {}
    /\ page = [g \in Generation |-> {}]
    /\ indexed = {}
    /\ wpc = [w \in Commit |-> "idle"]
    /\ rpc = [r \in Reader |-> "idle"]
    /\ key = [r \in Reader |-> 0]
    /\ answer = [r \in Reader |-> {}]
    /\ faults = 0
    /\ flushes = 0
    /\ atBump = [g \in Generation |-> {}]
    /\ fence = [r \in Reader |-> {}]

SpendFault == faults < MaxFaults /\ faults' = faults + 1 /\ UNCHANGED flushes

-----------------------------------------------------------------------------
(* Create, update, delete; and views.                                      *)

\* The product and its outbox entry are committed; a view bumps nothing.
Commits(w) ==
    /\ wpc[w] = "idle"
    /\ wpc' = [wpc EXCEPT ![w] = IF w \in View THEN "index" ELSE "bump"]
    /\ UNCHANGED <<redis, indexed, readers, bounds, atBump>>

Bump(w) ==
    /\ wpc[w] = "bump"
    /\ generation < MaxGeneration
    /\ generation' = generation + 1
    /\ atBump' = [atBump EXCEPT ![generation + 1] = indexed]
    /\ wpc' = [wpc EXCEPT ![w] = "index"]
    /\ UNCHANGED <<cached, page, indexed, readers, bounds>>

\* incr() fails, and is ignored.
BumpFails(w) ==
    /\ wpc[w] = "bump"
    /\ wpc' = [wpc EXCEPT ![w] = "index"]
    /\ SpendFault
    /\ UNCHANGED <<redis, indexed, readers, atBump>>

\* With refresh: wait_for the call returns once searches see the document.
Indexes(w) ==
    /\ wpc[w] = "index"
    /\ indexed' = indexed \union {w}
    /\ wpc' = [wpc EXCEPT ![w] = "acked"]
    /\ UNCHANGED <<redis, readers, bounds, atBump>>

\* Elasticsearch is out, or the process dies: the outbox is left to do it.
IndexFails(w) ==
    /\ wpc[w] \in {"bump", "index"}
    /\ wpc' = [wpc EXCEPT ![w] = "failed"]
    /\ SpendFault
    /\ UNCHANGED <<redis, indexed, readers, atBump>>

\* The outbox worker projects a commit, and bumps nothing.
OutboxIndexes(w) ==
    /\ wpc[w] # "idle"
    /\ w \notin indexed
    /\ indexed' = indexed \union {w}
    /\ UNCHANGED <<redis, wpc, readers, bounds, atBump>>

-----------------------------------------------------------------------------
(* A search.                                                               *)

\* Mutant: without an answer from Redis the key is that of no generation.
ReadGenerationOrNone(r) ==
    /\ rpc[r] = "idle"
    /\ \/ /\ key' = [key EXCEPT ![r] = generation]
          /\ fence' = [fence EXCEPT ![r] = atBump[generation]]
          /\ UNCHANGED bounds
       \/ /\ SpendFault
          /\ key' = [key EXCEPT ![r] = -1]
          /\ UNCHANGED fence
    /\ rpc' = [rpc EXCEPT ![r] = "get"]
    /\ UNCHANGED <<redis, indexed, wpc, answer, atBump>>

\* The search begins, and reads the generation for its key.  Without an
\* answer from Redis the key is that of generation 0.
ReadGeneration(r) ==
    /\ rpc[r] = "idle"
    /\ \/ /\ key' = [key EXCEPT ![r] = generation]
          /\ fence' = [fence EXCEPT ![r] = atBump[generation]]
          /\ UNCHANGED bounds
       \/ /\ SpendFault
          /\ UNCHANGED <<key, fence>>
    /\ rpc' = [rpc EXCEPT ![r] = "get"]
    /\ UNCHANGED <<redis, indexed, wpc, answer, atBump>>

GetHits(r) ==
    /\ rpc[r] = "get"
    /\ key[r] \in cached
    /\ answer' = [answer EXCEPT ![r] = page[key[r]]]
    /\ rpc' = [rpc EXCEPT ![r] = "answered"]
    /\ UNCHANGED <<redis, indexed, wpc, key, bounds, atBump, fence>>

\* There is no such page, or Redis fails.
GetMisses(r) ==
    /\ rpc[r] = "get"
    /\ \/ key[r] \notin cached /\ UNCHANGED bounds
       \/ key[r] \in cached /\ SpendFault
    /\ rpc' = [rpc EXCEPT ![r] = "search"]
    /\ UNCHANGED <<redis, indexed, wpc, key, answer, atBump, fence>>

Search(r) ==
    /\ rpc[r] = "search"
    /\ answer' = [answer EXCEPT ![r] = indexed]
    /\ rpc' = [rpc EXCEPT ![r] = "set"]
    /\ UNCHANGED <<redis, indexed, wpc, key, bounds, atBump, fence>>

\* Mutant: the key is built anew when the page is stored.
StoresAnew(r) ==
    /\ rpc[r] = "set"
    /\ cached' = cached \union {generation}
    /\ page' = [page EXCEPT ![generation] = answer[r]]
    /\ rpc' = [rpc EXCEPT ![r] = "answered"]
    /\ UNCHANGED <<generation, indexed, wpc, key, answer, bounds, atBump, fence>>

Stores(r) ==
    /\ rpc[r] = "set"
    /\ cached' = cached \union {key[r]}
    /\ page' = [page EXCEPT ![key[r]] = answer[r]]
    /\ rpc' = [rpc EXCEPT ![r] = "answered"]
    /\ UNCHANGED <<generation, indexed, wpc, key, answer, bounds, atBump, fence>>

StoreFails(r) ==
    /\ rpc[r] = "set"
    /\ rpc' = [rpc EXCEPT ![r] = "answered"]
    /\ SpendFault
    /\ UNCHANGED <<redis, indexed, wpc, key, answer, atBump, fence>>

\* The client has its page, or an error (Elasticsearch is out, the process
\* dies), and the next search may begin.
Ends(r) ==
    /\ rpc[r] \in {"search", "answered"}
    /\ rpc' = [rpc EXCEPT ![r] = "idle"]
    /\ key' = [key EXCEPT ![r] = 0]
    /\ answer' = [answer EXCEPT ![r] = {}]
    /\ fence' = [fence EXCEPT ![r] = {}]
    /\ UNCHANGED <<redis, indexed, wpc, bounds, atBump>>

-----------------------------------------------------------------------------
(* Redis.                                                                  *)

\* Mutant: pages are stored without a time to live.
ExpireNever(g) == g \notin Generation /\ UNCHANGED vars

\* The page's time to live is over.
Expire(g) ==
    /\ g \in cached
    /\ cached' = cached \ {g}
    /\ page' = [page EXCEPT ![g] = {}]
    /\ UNCHANGED <<generation, indexed, wpc, readers, bounds, atBump>>

\* Redis restarts with nothing: the generations are counted anew.
Flush ==
    /\ flushes < MaxFlushes
    /\ flushes' = flushes + 1
    /\ generation' = 0
    /\ cached' = {}
    /\ page' = [g \in Generation |-> {}]
    /\ UNCHANGED <<indexed, wpc, readers, faults, atBump>>

-----------------------------------------------------------------------------

WriteStep(w) ==
    Commits(w) \/ Bump(w) \/ BumpFails(w) \/ Indexes(w) \/ IndexFails(w) \/ OutboxIndexes(w)

ReadStep(r) ==
    GetHits(r) \/ GetMisses(r) \/ Search(r) \/ Stores(r) \/ StoreFails(r) \/ Ends(r)

Next ==
    \/ \E w \in Commit : WriteStep(w)
    \/ \E r \in Reader : ReadGeneration(r) \/ ReadStep(r)
    \/ \E g \in Generation : Expire(g)
    \/ Flush

Spec == Init /\ [][Next]_vars

\* The outbox projects every commit (module Projection says when); a search
\* ends, a page expires.  No request need ever be made.
Fairness ==
    /\ \A w \in Commit : WF_vars(OutboxIndexes(w))
    /\ \A r \in Reader : WF_vars(ReadStep(r))
    /\ \A g \in Generation : WF_vars(Expire(g))

FairSpec == Spec /\ Fairness

-----------------------------------------------------------------------------
(* Properties.                                                             *)

\* The type invariant.
TypeOK ==
    /\ generation \in Generation
    /\ cached \subseteq Generation
    /\ page \in [Generation -> SUBSET Commit]
    /\ indexed \subseteq Commit
    /\ wpc \in [Commit -> {"idle", "bump", "index", "acked", "failed"}]
    /\ rpc \in [Reader -> {"idle", "get", "search", "set", "answered"}]
    /\ key \in [Reader -> Generation]
    /\ answer \in [Reader -> SUBSET Commit]
    /\ flushes \in Nat
    /\ atBump \in [Generation -> SUBSET Commit]
    /\ faults \in Nat
    /\ fence \in [Reader -> SUBSET Commit]

\* Bumping the generation fences off older pages: as long as Redis keeps its
\* data, a search that read the generation answers with everything that was
\* indexed when that generation began, from whatever page and whoever stored it.
AnswersAreFenced ==
    flushes = 0 => \A r \in Reader : rpc[r] = "answered" => fence[r] \subseteq answer[r]

\* A stale page does not live on: whatever fails, and in whatever order reads
\* and writes overlap, in the end a cached page shows what is indexed.
StaleDiesOut == <>[](\A g \in cached : page[g] = indexed)
=============================================================================
