# A verification of nestjs-advanced-search

TLA+ models of the product search service, the TLC runs that check them on small
instances, and theorems about them whose proofs TLAPS checks for every value of
the constants. Paths below are relative to the repository.

1. [The system](#1-the-system)
2. [The modules](#2-the-modules)
3. [The runs](#3-the-runs)
4. [Fairness](#4-fairness)
5. [The proofs](#5-the-proofs)
6. [Where the code and its documents disagree](#6-where-the-code-and-its-documents-disagree)
7. [What is left out](#7-what-is-left-out)
8. [The plan](#8-the-plan)

## 1. The system

Products live in Postgres. Elasticsearch holds a projection of them, which
searches read; Redis holds pages of search results, and the counters of the
throttler. The API runs in several replicas. Each container first seeds or
backfills the products table, then runs `search:reindex`, then serves
(`docker-entrypoint.sh`). Nothing coordinates the replicas but the three stores.

| Component | State it keeps | Operations | What makes it correct |
|---|---|---|---|
| Product repository (`prisma-product.repository.ts`) | `products`, `outbox_entries` | `save`, `delete`, `incrementPopularity`, each committing the row and its outbox entry in one transaction; `findBatch`, `count`, `contentChecksum` | every commit has its entry |
| Write use cases (create, update, delete, record view) | none; a row read before it is written | commit, bump the cache generation, index; errors of the last two are swallowed | the index and the cache follow, whatever fails |
| Outbox processor (`outbox.processor.ts`) | the claimed batch, `running` | `drain`: claim, apply, `markProcessed`/`markFailure`, `cleanup` | claims exclusive, verdicts unique, attempts bounded, every entry settled, poison does not block |
| Index manager (`es-index.manager.ts`) and the reindex use case | `stagingIndex`; physical indices, alias, mapping, stamp | `ensureIndex`, `startRebuild`, `bulkIndex`, `finishRebuild`, `abortRebuild`, `index`, `remove` | the alias is never missing, leads to one complete index, and a skip is right |
| Search use case and cache (`search-products.use-case.ts`, `redis-cache.adapter.ts`) | `search:generation`, pages with a time to live | `get`, `set`, `incr` | a page from before a generation is not served under it |
| Autocomplete use case | lists of names under keys of its own | as the search use case | a list served is the one asked for, neither longer nor shorter |
| Query builder, mapping, response mapper | none | criteria to query, response to page | facets agree with hits; `search_after` repeats and skips nothing |
| Criteria mapper, pagination, cursors | none | clamps, the window of 10000 results, cursor encoding | no request leaves the window |
| Throttler (`resilient-throttler.storage.ts`) | counters in Redis | count a request, fail open or closed | the limits hold across replicas |
| API key guard and registry | the keys, read once | look a key up | nothing is written without a role |
| Controllers, DTOs, value objects, filters | none | refuse or accept input, turn errors into statuses | the status tells what happened; what is accepted can be read back |
| Seed and container start (`seed.ts`, `docker-entrypoint.sh`) | what it has counted or listed | count, delete, insert in batches; backfill in chunks | a whole catalogue, right coordinates, every container serves in the end |
| Configuration, health, metrics | none that others depend on | parsing and reporting | |

How they interact: a request commits to Postgres, then calls Redis, then
Elasticsearch, and each may fail after the commit. The outbox worker of every
replica (and of the CLI process, which starts the same application module)
replays the same commit from the outbox table. A reindex reads Postgres page by
page into a staging index while requests and workers write through the alias,
and then moves the alias. Searches read the generation, then the page, then the
index, and store what they found.

What is hard is that none of these sequences is atomic. The behaviours the
models are after:

- a worker whose batch outlives its lease, dies, or loses the reply to a verdict
  that was committed;
- index calls that carry no version, sent by a request and by workers for
  different commits of the same product, arriving in any order and sometimes
  after their callers have given them up;
- an update that writes back what it has read while other requests commit;
- a rebuild whose checksum, count, pages, stamp and swap are all taken at
  different moments, in a process that does not see the writes of the others;
- processes that boot at once on a cold cluster, and writes that reach it
  before there is an alias and so create an index of the alias's name;
- a generation that is bumped before the product it is for is indexed, reads
  that overlap the bump, Redis failing or losing its data;
- requests of many replicas that share one budget, one table and one cache, and
  whose handlers fail before or after their commit;
- containers that seed, backfill and serve at the same time, and starts that are
  cut short half way;
- a client that goes from page to page by cursor while products come, go and
  change their rank; orderings with ties; facets that must count what a click on
  them would find; the edges of the page and of the window.

`PROJECT.json` lists each of these hazards at its line, with the properties that
are aimed at it, or the reason why none is.

## 2. The modules

| Module | Models | Shape |
|---|---|---|
| `AtLeastOnce` | what an outbox promises | abstract specification |
| `Outbox` | `drain()` and everything it calls, in any number of replicas, with time and with clocks that disagree | implements `AtLeastOnce` |
| `OutboxProofs` | theorems about `Outbox` | TLAPS |
| `Projection` | the four write use cases, the repository, `apply()`, and the calls they make to Elasticsearch | |
| `IndexLifecycle` | boot, reindex, index manager and the writes around them, in several processes | |
| `SearchCache` | the cached search, the bump of the write use cases, Redis failures | |
| `ProductSearch` | `GET /products/search` from query to page, and a client that pages while the index changes | |
| `Gateway` | every route from arrival to status: body parser, throttler, key guard, validation, handler, filters | |
| `Seeding` | the start of containers: seed, backfill, reindex, beside the requests of those that serve | |
| `ProjectionProofs`, `IndexLifecycleProofs`, `SearchCacheProofs`, `ProductSearchProofs`, `GatewayProofs`, `SeedingProofs` | theorems about these six | TLAPS |
| `IndexRebuildProofs` | that a rebuild is complete, on top of `IndexLifecycleProofs` | TLAPS |
| `MCOutbox`, `MCProjection`, `MCIndexLifecycle`, `MCSearchCache`, `MCProductSearch`, `MCGateway`, `MCSeeding` | instances for TLC (symmetry where it is sound; the documents and queries of `ProductSearch`) | |

Three definitions in the models stand for much code, on purpose: a product's
data is the *number of commits* that touched it (`Projection`, `IndexLifecycle`),
since what matters is which commit a document shows; a search page is *the set
of commits that the index showed* when it was asked (`SearchCache`); and the
projection of an outbox entry is just *its outcome* in `Outbox`, because
`Projection` models what it does. The modules share the seam and assume of each
other only what the other one shows: `Projection` lets any pending entry be
claimed at any time, by two workers at once if need be (as `Outbox` shows can
happen), and leaves leases and attempts to `Outbox`.

### Outbox

| Model | Code |
|---|---|
| `inserted`, `attempts`, `retryIn`, `processed`, `age`, `failed`, `purged` | rows of `outbox_entries` and their `attempts`, `next_retry_at`, `processed_at`, `failed_at` |
| `pc`, `batch`, `cur`, `tries` | where `drain()` stands, the rows that the claim returned and their `attempts` |
| `Enqueue` | the `outboxEntry.create` of the repository |
| `ClaimBatch`, `ClaimReplyLost` | `claimBatch()`: one statement; its error ends the poll |
| `ApplyOk`, `ApplyThrows` | `apply()` |
| `MarkProcessed`, `MarkProcessedReplyLost`, `MarkProcessedThrows` | `markProcessed()`, within the same `try` as `apply()` |
| `MarkFailure`, `MarkFailureThrows`, `MarkFailureReplyLost` | `markFailure()`, whose error leaves the loop |
| `Finish`, `CleanupThrows` | `cleanup()` and the `finally` |
| `Crash`, `Restart`, `Tick` | the process stops or starts; time passes |

Each awaited call is a step of its own. Time is counted in ticks and a timestamp
is kept as its distance from now, so that the state space is finite without a
bound on time. The horizon of a claim and the cutoff of a purge are computed from
the replica's clock and compared with the database's: `Skew` says how far each
clock is ahead, and `Ahead` what is left of a horizon by the database's clock,
which may be nothing. `lease`, `applied`, `overran`, `torn`, `abandoned` and `faults`
only observe: they record that a fault happened, so that a property can say
*unless this fault happened to this entry* instead of excluding the fault.

### Projection

`row` is the products table, `doc` what is behind the alias, `work` the row an
update has read or the call a process waits for. `Create`, `UpdateReads` and
`UpdateSaves`, `Delete`, `RecordView` are the use cases, split where they await.
`Claim`, `ApplyDelete`, `ApplyUpsert`, `ApplySkips`, `MarkProcessed`, `Retry`,
`DeadLetter`, `Crash` are the worker. A call `Lands`, is `Refused`, `TimesOut`
with the request still on its way, or is `Resent` by the client library while
the first is on its way; the strays land or vanish later.

### IndexLifecycle

The cluster is `indices`, `mapped` (those created with the product mapping),
`alias` (what it points at, perhaps several), `docs`, `stamp`. Every process has
a program counter through `ensureIndex()` and, in the CLI, through the reindex:
count, checksum, decide, start, read page, write page, stamp, check alias, drop
a bare index, swap, list stale indices, delete them one at a time, exit; any of
them may fail, which leads to `abortRebuild()`. Beside it each process serves at
most one write and its worker at a time (`RequestCommits`, `WorkerTakes`, `Send`,
`Mirror`, `Marks`). Elasticsearch is modelled as the index manager uses it: a
write through a name that is neither index nor alias creates an unmapped index,
a write through an alias of several indices is refused, an alias cannot take the
name of an index, `updateAliases` is atomic.

### SearchCache

One set of criteria, any number of writes, views and searches. A write commits,
bumps and indexes; a view commits and indexes; a search reads the generation,
gets, searches, sets. Each call to Redis may fail (a failed read of the
generation makes the search use the key of generation 0), pages expire, and
Redis may lose its data, which starts the generations at 0 again.

### ProductSearch

| Model | Code |
|---|---|
| `doc` | the index: for each product a document, or none |
| `query`, `cursor` | the parameters of the request, after the validation of the DTO |
| `Rejected`, `ClampPageSize`, `NormalizePage`, `ResolveSort`, `Filters` | `toSearchCriteria()` and `pagination.ts` |
| `TermsClause`, `PriceClause`, `GeoClause`, `PostFilter`, `Others` | the clauses, post filter and filters of the facets in `EsQueryBuilder` |
| `Bucket`, `Buckets`, `PricesSeen`, `PriceRange` | its aggregations, as Elasticsearch answers them and the response mapper reads them |
| `SortDirections`, `SortValues`, `Body` | `buildSort()`, and `size`, `from` and `search_after` |
| `Accepts`, `Hits` | Elasticsearch: the window, the length of a tuple, the order of hits |
| `NextCursor`, `TotalPages`, `Response` | `readNextCursor()`, `toSearchResult()` and `toSearchResponse()` |
| `Rejects`, `Answers`, `Refuses`, `Fails` | the four outcomes of a request |
| `Asks`, `Follows`, `Strays`, `AsksAgain`, `Ends` | the client: follows the cursor, or uses it in a way it is not meant for, or retries |
| `Changes` | any write to the index between two requests |

Clauses, facets and orderings are operators on the set of documents: what a
clause *selects* is modelled, not the JSON it is written in. A text selects
documents and scores them, and nothing else depends on it, so that a document
carries its score. The actions of the client are external; what they are made of
is in `src/`.

`scan`, `steady` and `seen` observe: whether the client began at the first page
and only follows cursors, which products have not changed since, and how often
each was on a page.

### Gateway

| Model | Code |
|---|---|
| `hits`, `blocked` | the throttler's counters and blocks in Redis, one per route and client |
| `lists`, `NoList` | the length of the suggestions cached in Redis, by the limit in their key |
| `row`, `used` | the products table, and the ids handed out |
| `pc`, `req` | where a request stands, and what its handler knows |
| `ParserRefuses` | the body parser, which runs before anything else; only errors of syntax become a 400 |
| `Arrive`, `FirstStop` | the routes, and which of them skip the throttler |
| `Throttle`, `ThrottleFails` | `ResilientThrottlerStorage.increment()` |
| `RolesOf`, `RoleFor`, `Authenticate` | the decorators, `ApiKeyRegistry`, `ApiKeyGuard` |
| `DtoAccepts`, `Paired`, `ProductAccepts`, `ValidPlace`, `Cents`, `ReadsBack` | the DTO, `toCoordinates()`, `Product.create()`, `isValidGeoPoint()`, `Money`, `ProductMapper.toDomain()` |
| `CreateReceives`, `UpdateReceives`, `UpdateReads`, `IdReceives` | the handlers up to their transaction |
| `RowHolds`, `CountsOn` | what the columns and indices of `products` take, which no check before asks for |
| `Save`, `Remove`, `ViewFinds`, `ViewIncrements`, `CommitUnconfirmed`, `PostgresFails` | the repository's transactions, and how they fail |
| `Project` | the bump and the index call, whose errors are swallowed |
| `Search`, `Suggest...`, `Suggested`, `Misses` | the searches; what the index has for a limit |
| `Probe`, `Scrape` | the health routes and `GET /metrics` |
| `StatusOf`, `Throws`, `Answer` | the exception filters |

The modules of the write path say what a commit does to index and cache;
`Gateway` says what the *client* learns of it. An input is chosen when the code
first looks at it, so that a request that is refused earlier has none. Of a body
only what some check tells apart is kept: the DTO looks for an empty name, the
aggregate for a blank one, and nobody for texts that a row cannot hold (characters
that Postgres refuses, a category too long for its index); `@IsOptional()` lets a null coordinate pass, the
aggregate does not; a price is a number of tenths of a cent, so that rounding to
cents happens. Windows and blocks of the throttler end at any time.

### Seeding

`pc` follows the script of a container: count, then clear and insert or list and
fill, reindex, serve; any step may fail, which ends the start, and the operator
may start it again. `seeded` is the sample catalogue as the batches that are in
the table, with the seeder they come from; `row` are products of requests, of
which only the place and the origin of the coordinates are kept. `since` and
`touched` observe which products were written since a container counted or
listed; `disturbed` that a seeder was cut short or met another; `misplaced` that
the backfill wrote over a request's write.

## 3. The runs

Passing runs, with what their bounds let happen:

| Run | Instance | Shows |
|---|---|---|
| `OutboxQueue` | 2 replicas, the clock of one a tick behind, an older entry that may fail, a younger one that never does, batches of 2, 2 attempts, lease 2 ticks, 1 fault | `ExclusiveUnlessOverran`, `SettledOnce`, `AttemptsBounded`, and that `Outbox` implements `AtLeastOnce`; `Settles`: every entry is processed or dead-lettered while a replica lives; `HealthyIsProcessed`: an entry that fails does not block the younger one. Two entries in one batch are what makes a lease end in the middle of it, and the slow clock makes the lease of one replica shorter. One fault fewer than attempts, since every fault may cost the healthy entry an attempt (section 6 has the case in which one is lost without a fault; it needs a third entry). The safety properties are proved for every size (section 5), so that the run need not be large. |
| `ProjectionSafety` | 1 product, 2 requests, 2 workers, 3 commits, 1 refused call, crash or dead letter, 1 stray | `DriftIsAccounted`: index and Postgres differ only while the entry of the last commit is pending or dead, or after an older call overtook a newer one. `OnlyStaleUpdatesUndo`: views are lost, and a deleted product returns, only through an update that another commit overlapped. Products do not interact, so that one is enough. |
| `ProjectionConverges` | 1 product, 1 request and 1 worker at a time, 4 commits, 2 faults | `Converges`; that every entry is settled is what `OutboxQueue` shows. |
| `IndexRebuild` | 2 products in pages of 1, an API and a CLI process, 2 commits, 1 reindex, 1 fault | `AliasNeverMissing`, `OneLiveIndex` and `SwapIsComplete` from a cluster that already has an index (from a cold one `OneLiveIndex` does not hold, section 6). Two pages let a write fall between them. |
| `IndexRecovers` | 1 product, cold, with an index squatting on the alias name, or with an old schema; 3 reindexes, 1 commit, 1 fault, which may be a lost reply to the swap | `ServedInTheEnd`, `SkipIsSound`, and `LiveIsMapped`: writes that come before there is an alias create an index without the mapping, which must not get behind the alias. Three runs are needed: the fault may undo one and a write that meets no alias between the drop and the swap another. With one product no page is ever cut short, so that this exception of `SkipIsSound` is not used here; the theorem of section 5 is about any number of products. |
| `CacheGenerations` | a write, a view, 2 searches, 2 generations, 1 failure, 1 loss of Redis's data | `AnswersAreFenced`, `StaleDiesOut`. |
| `SearchScan` | 3 products, 3 documents that tie in every ordering (two values in each facet, one without coordinates), 11 queries, pages of up to 2, a window of 4, lists of one bucket, 1 change, 1 failed request | `ScanIsExact`, `ScanEnds`, `FacetsKeepTheirPromise`, `NumberedPagesAddUp`, `RefusesForeignCursorsOnly`. Three products in pages of one or two let a tie fall on the end of a page, and a change before or behind it; pages of two in a window of four put the last allowed page and the first rejected one within reach. A default page above the maximum tests the clamp. |
| `GatewayRequests` | 2 requests at a time, 3 in all, 1 client, 1 product, budgets of 1 and 2, 1 fault, four keys of which one is given twice and one has an unknown role, prices below, at and above what a row can hold, texts that it can and cannot, a counter that ends at 1, an index with two names | `BudgetHolds`, `RowsReadBack`, `SuccessIsCommitted`, `RefusalsChangeNothing`, `DoubtNeedsFault`, `OnlyKeysWrite`, `SuggestionsFit`. Two names let a list for one and a list for two differ; two views of a product reach the end of its counter. A product must be created before two requests can race for it. |
| `Seeding` | 2 containers, 2 products, 2 cities and a place elsewhere, catalogues of 2 batches, chunks of 2, with and without `SEED_FORCE`, 2 writes, 1 fault; an empty volume or an old one | `CatalogueIsWhole`, `FilledWhereItIs`, `ErasesOnlyNewer`, `ServesInTheEnd`. Two containers are what lets one serve while the other starts, and both seed. |

Runs that find a violation state what a document or comment says, and are
explained in section 6: `ProjectionDrift`, `IndexRace`, `IndexOverlap`.

Every property of a passing run has a mutant: a change to a definition, of the
kind a plausible bug makes, under which TLC finds that property violated. The
mutants stand in the modules just before what they change.

Deadlock is checked except in the runs of `Projection`, `IndexLifecycle`,
`Gateway` and `Seeding`: with their bounds on commits, reindexes, requests and
faults used up and everything drained, nothing is left to do.

## 4. Fairness

- `Outbox`: a tick happens, and a live replica takes its next step. The interval
  timer of `onModuleInit` keeps it polling and each awaited call returns or
  throws. Nothing restarts a process, and the liveness properties exempt the
  behaviours in which every replica stays down.
- `Projection`: each worker goes on (`Outbox` shows that each entry comes up),
  each call returns (the client has a `requestTimeout`), and no stray is on its
  way for ever. No request is ever assumed to be made.
- `IndexLifecycle`: a process that boots or reindexes goes on, and the command is
  run again while `MaxRuns` allows, as the entry point does at each start of a
  container. Nothing is assumed of writes.
- `SearchCache`: commits are projected in the end (by the outbox), a search ends,
  a page expires. Writes and searches need not be made.
- `ProductSearch`: a request is answered or fails, and a client goes on, retries
  or leaves. Changes and failed requests are finite in number; a client whose
  index keeps growing behind its cursor never comes to an end.
- `Seeding`: a script that runs goes on, and the operator starts a container
  that stopped again (the compose file has no restart policy, so that nothing
  else does). Requests need not be made.
- `Gateway`: none; its properties are about steps.

Fairness is weak throughout.

## 5. The proofs

`OutboxProofs` proves, for any set of workers, any number of entries and faults,
and any batch size, lease, backoff, retention and number of attempts that the
named assumptions of `Outbox` admit (all of them natural numbers, the batch, the
attempts and the page of `cleanup` positive, the skew of each clock any integer):

| Theorem | Says |
|---|---|
| `TypeCorrect` | `Spec => []TypeOK` |
| `ClaimsAreExclusive` | two workers hold an entry only after a holder of it outlived its lease |
| `VerdictsAreUnique` | no entry is processed and dead-lettered, unless a holder outlived its lease or the reply to a verdict was lost |
| `AttemptsAreBounded` | an entry exceeds `maxAttempts` only if it was dropped without a verdict or held past its lease |
| `OutboxImplementsAtLeastOnce` | every behaviour of `Outbox` is one of `AtLeastOnce` |

None of the three safety properties is inductive. That claims are exclusive
rests on the horizon of a held entry lasting at least as long as its holder's
lease (`HoldersAreLeased`): a claim takes only entries whose `retryIn` is 0, so
that a holder whose lease still lasts cannot lose one to it. But a *late* holder
may shorten the horizon of an entry (`SetFailure` backs off from now), hence the
exception for entries that were overrun, and a verdict resets it, hence the one
for processed entries. That the attempts are bounded rests on the holder knowing
them (`HoldersKnowAttempts`: what the claim returned is what the row holds,
unless another claim came after an overrun), on a held entry having no verdict
yet (`HeldIsUnsettled`), and on every entry with its last attempt counted being
held, settled or on record as dropped (`LastAttemptAccounted`), since the claim
itself does not look at `attempts`. `AtHand` ties the program counter to the
batch; `InOrder` (purged entries are processed, processed ones applied) is what
the refinement needs. `IInv` is their conjunction. Each action has a lemma that
it preserves `IInv`; `InductiveInvariant` puts them together, and the refinement maps
each step to `Enqueue`, `Deliver`, `Complete`, `Bury`, `Purge` or a stutter.

`PowerOfTwo` gets that 2^n is a natural number from the cardinality of the
subsets of 1..n, since the backends have no induction over naturals to offer.

`ProjectionProofs`, for any number of products, requests, workers, commits, faults
and stray calls (there is at least one product, and no request is a worker):

| Theorem | Says |
|---|---|
| `ProjectionTypeCorrect` | `Spec => []TypeOK` |
| `DriftIsOnRecord` | a product the index shows wrongly has its last entry waiting or given up, or was overwritten by an older call and not repaired since |
| `UndoNeedsStaleUpdate` | views are lost, and a deleted product returns, only by an update that read the product before another commit to it |

Why is it enough that the *last* entry was replayed, when entries may be replayed
in any order and calls land late? The invariant says that nothing is ahead of
Postgres: every document, call and stray is older than its row or is the row
(`CopiesAreOld`), every entry is older than the last commit or is its entry
(`EntriesAreOld`), and the last commit has one (`RowsHaveEntries`, the
transaction). The call a worker makes for an entry is at least as new as the entry
(`CallsReach`: an upsert reads the row as it is now). Hence `VerdictsAreTrue`: for
each processed entry there has been another commit since, or the document is as new as
the row, and so is the row, or an older call has overwritten it, which is on record. A later
commit makes the first of these true for all entries of the product before it
(`CommitOutdates`), and a call that lands settles every entry it is not older
than (`CallSettles`).

`IndexLifecycleProofs`, for any number of containers, products, commits, failed
calls and crashes, and with `search:reindex` in one process at a time (`OneCli`;
`IndexOverlap` shows why):

| Theorem | Says |
|---|---|
| `LiveKeepsMapping` | whatever is behind the alias was created with the product mapping |
| `AliasIsKept` | the alias never goes missing, if no reply to a swap is lost |
| `WarmAliasIsSingle` | where it was there from the start, it stays on one index |

Here the danger is a name that is used once more. A write to an index that was
deleted meanwhile brings it back without a mapping, so that `LiveIsMapped` needs
`StagingIsMapped` (what is being rebuilt is there, mapped, and not yet live) and
`BootIsFresh`: nobody writes to the index that a boot is about to put behind the
alias, which rests on new names being new (`NamesAreOld`). `CurrentIsLive` is why
the clean-up cannot take the last live index, and `StagingIsMapped` why an abort
cannot, unless the swap took effect without a reply. `WarmAliasIsSingle` adds
`Warm`: with an alias there, no boot gets to `ensureCreate`, the only step that
adds to it.

`IndexRebuildProofs`, for any page size, the last three with the assumptions of
`IndexLifecycleProofs`:

| Theorem | Says |
|---|---|
| `LifecycleTypeCorrect` | `Spec => []TypeOK`, however many processes reindex at once |
| `PagesAdvance` | each page that a reindex reads leads beyond the page before |
| `SwapsAreComplete` | every product that is as it was when the checksum was taken comes in with the swap, unless an outdated write or a deletion was in the way |
| `SkipsMissNothing` | a reindex that skips finds each such product behind the alias as Postgres has it, with the same exceptions |
| `SkipsAreSound` | where there was an alias from the start and no reply to a swap is lost, searches show just that of it, and nothing older |

`TypeOK` alone is not inductive. That no index without a name comes to life needs
that whoever reads or writes pages has a staging index, and whoever mirrors a call
a target; that versions stay within their bound, that a row has had no more of
them than there were commits (`TInv`). `PagesAdvance` adds `MoreToRead`: who is about to
read has not passed the last product.

`SwapsAreComplete` has the invariant `Made`. It says of each product that did not
change since the checksum (`Unchanged`) that the staging index has it (`Right`), or
that it is still to come: behind the cursor's page, or on the page that is about
to be written. `PagesMeet` is why nothing falls between two pages: a page that
leaves out a product is full (`FullPage`), and then everything up to its last
product is on it. This needs the least and the greatest of a finite set of
products, which come from the well-foundedness of the naturals. A deletion may
empty the page after it (`CutShort`), and stays one, as no row comes back under its
identifier (`RowsFollow`; an update that would do so is `Projection`'s matter).

A skip trusts a stamp that an earlier reindex left, perhaps one that crashed
since, and anything may have been written in between. `Vouched` says what a stamp
is worth: it is no newer than the rows, and the index that has it has every
product that is still as in the stamp. `Made` hands this over when the stamp is
set (after the last page, before the swap); from then on a write to a product
either is of its newest commit, and then the stamp no longer fits the product, or
is of an older one, which is on record (`tainted`). Versions only grow, so that a
stamp which ceased to fit a product never fits it again. `SkipsAreSound` adds
`Warm`: with a single index behind the alias, nothing else can show an older
document beside the right one.

`SearchCacheProofs`, for any number of commits, searches and generations:

| Theorem | Says |
|---|---|
| `CacheTypeCorrect` | `Spec => []TypeOK` |
| `GenerationsFence` | what was indexed when a generation began is in every answer under its key, while Redis keeps its data |

`AnswersAreFenced` speaks of searches that have answered; the invariant has to
speak of where answers come from. `PagesAreFenced` says of every cached page, and
of every answer still on its way into the cache, that it shows what was indexed
when its generation began, and `KeysHaveBegun` that a generation yet to come has
no page, so that a bump starts with none. `FencesAreKeys` ties the observed fence
of a search to its key. All of it is void after a flush, which starts the
generations anew while searches begun before it may still store their pages.

`ProductSearchProofs`, for any catalogue, any queries, and any limits with a page
size that fits the window:

| Theorem | Says |
|---|---|
| `WindowIsRespected` | Elasticsearch refuses no page but for a cursor from an ordering with another number of keys |
| `CountsAreKept` | the count of a facet value is what a search that selects just this value finds |
| `ScansAreExact` | a client that follows the cursors to the end gets every product that did not change meanwhile exactly once |
| `SearchTypeCorrect` | `Spec => []TypeOK`; in particular no page is longer than the maximum |
| `PagesAddUp` | numbered pages are full up to the last, which has the rest, and there is nothing behind it |
| `CursorsAdvance` | each cursor is strictly behind the one that was followed to it |
| `PromisesHold` | counts, lists and price range of the facets are what a search that selects them would find |

`WindowIsKept` is the arithmetic of the first: `from + size` is the page number
times the clamped size, which is what `toSearchCriteria()` has checked, or the
size alone when there is a cursor. The second is the counting part of
`PromisesHold`: selecting one value in a facet changes the filter of
this facet only, the one that its own aggregation leaves out.

`ScansAreExact` rests on the identifier that ends every sort tuple: with it the
tuples order the products totally, without ties (`ProductsAreOrdered`, from
`LastKeyTells`; drop the tiebreaker and this lemma fails). Then a page that leaves
something out is full (`FullPage`), so that a page that is not full is the last
one, and a page is what is not behind its last hit (`PageEndsAtLast`), so that the
next cursor leaves out just that. The invariant, `Scanning`, says of every product
that stays that it has been seen once if the scan has passed it (`Passed`: by the
cursor that is under way, or by the one just received), and not at all otherwise.
Changes to other products and failed requests leave both sides alone.
`CursorsAdvance` is the part that needs no client: a page is behind the cursor it
was asked with, and the next cursor is the place of one of its hits, whatever
changed in between.

`PagesAddUp` counts. The place of a product in a total order is the number of
those before it, and the places of n products are 0 to n - 1, each taken once: no
two have the same, and n different numbers below n are all of them. A page is a
stretch of places, so that it has as many products as the stretch has numbers
below n, and the rest is the arithmetic of `TotalPages`. A list of buckets is such
a stretch, too (the first `FacetSize` places by count and value), which is why
`PromisesHold` can say that a value with a count is left out of a full list only.
Its price range are the least and the greatest of a finite set. For both, the
catalogue is finite: a document has finitely many values in each facet
(`CatalogueAssumption`).

`GatewayProofs`, for any number of requests, clients, products, limits and
failures, and any list of keys (one key with several roles included):

| Theorem | Says |
|---|---|
| `GatewayTypeCorrect` | `Spec => []TypeOK` |
| `LimitsHold` | a window lets in no more than its budget, plus the calls of a limiter that failed open |
| `RowsAreSound` | whatever is stored can be read back through the aggregate's checks |
| `SuccessesAreOwn` | a write that succeeds has itself committed |
| `RefusalsAreFinal` | what is answered with a 4xx or a 503 has changed no row |
| `DoubtsAreFaults` | a 500 answers a write that has committed only if a store has failed |
| `WritesNeedKeys` | rows change only by requests whose key has the role |
| `SuggestionsAreCut` | a cached list that is served is what the index has for the limit asked |

The heart is `Fits`, one predicate on where a request stands and what it knows:
past the guard it holds a role of its route, what waits to be saved has passed
the aggregate's checks, it has committed exactly when only the projection is
left. A step of one request cannot disturb it for another, and so `GotoFits` and
`AnswerFits` carry it over every action. Beside it, `PassedAreCounted` bounds
what the limiter let in both by what it counted and by the limit (the second does
not follow from the first, as refused requests are counted, too), and
`TableIsSound` and `ListsFit` are `RowsReadBack` and what every cached list is for its limit.
Each action's lemma shows `IInv'` and `StepIsRight` at once, what the action
properties ask of the step.

`SeedingProofs`, for any containers, products, cities, batches and chunk size,
and whatever SEED_FORCE may be set to:

| Theorem | Says |
|---|---|
| `SeedingTypeCorrect` | `Spec => []TypeOK` |
| `ServersAreWhole` | who serves has one whole catalogue, but for seeders cut short, met or forced |
| `BackfillIsRight` | the backfill fills in a product's own place, but for products written meanwhile |
| `CountedIsKept` | a seeder that is not forced deletes only what came after its count |

`CatalogueIsWhole` is about who serves, `SeedersAreAlone` about everybody: while
nothing is disturbed, one container inserts and the catalogue is exactly what it
has inserted so far (`SeedersStartAnew`: it begins with the first batch), or
nobody inserts and the catalogue is whole, or nobody is past the count of an
empty table. `ListsAreKnown` is why a late fill is right: what was listed is
still so, or gone, or was written since. `CountsAreKnown` says of a seeder at its
deletion that all rows came after its count.

Every invariant and action property of the passing runs is stated by one of these
theorems. Only model-checked is liveness, which is out of this prover's reach:
`Settles`, `HealthyIsProcessed`, `Converges`, `ServedInTheEnd`, `StaleDiesOut`,
`ScanEnds`, `ServesInTheEnd`. `PagesAdvance` and `CursorsAdvance` are what can be
proved of it here, that the loop of a reindex and a scan never go in circles.
`SkipsAreSound` covers clusters that start with an alias; that `SkipIsSound` holds
from the other starts of `IndexRecovers`, and with a lost reply to a swap, is
model-checked (`SkipsMissNothing` is proved for them, too).

## 6. Where the code and its documents disagree

- `ProjectionDrift`. The outbox is called the convergence guarantee, yet index
  calls carry no external version: when a request's call for an older commit
  arrives after the newer one, and both entries are already replayed, nothing
  repairs the index but a reindex. It needs no failure, only two overlapping
  requests. `DriftIsAccounted` shows that this overtaking is the only way.
- `IndexRace`. A write racing a reindex in another process is said to be
  reprojected by the outbox. It is, if its entry is still pending at the swap; an
  entry processed a moment before is not.
- `IndexOverlap`. Two reindexes overlap, say of two containers that start at
  once. The clean-up of the first lists the second's new index as stale; the
  second swaps the alias to it; the clean-up deletes it, and the alias with it.

Met on the way, and not in runs of their own:

- "Two workers never grab the same entry" (README) holds as long as a batch is
  done within its lease. `drain()` works through its batch one await at a time
  and renews nothing, so that a slow batch (`batchSize` calls of up to
  `requestTimeout`) is claimed again in part: the exception in
  `ExclusiveUnlessOverran`.
- "A poison message never blocks the queue" (the processor's comment) has an
  exception. A late worker finishes an entry and `cleanup()` deletes its row while
  another worker still has it in its batch: `markProcessed()` throws there, so does
  `markFailure()` in its `catch`, and the rest of that batch, healthy entries
  included, has spent an attempt. With as many neighbours of this kind as attempts,
  an entry that never failed is dead-lettered: the exception in
  `HealthyIsProcessed`. The retention (a week by default) makes it unlikely.
- A reindex "rebuilds only when" the schema, the count or the checksum differ, and
  is called self-healing. A product that is created after the checksum, read into a
  page, and deleted before the next one leads `findBatch()` to an empty page behind
  a cursor that is gone. The products behind it are missing, the deleted one may
  stay in the index and make up for one of them in the count, and the checksum
  knows nothing of it: the next reindex skips. It needs two products and two
  commits; `SkipIsSound` and `SwapIsComplete` have the exception.
- An attempt is counted by the claim and judged by `markFailure()`, so that a
  replica that dies on the last attempt makes the entry exceed `maxAttempts`: the
  exception in `AttemptsBounded`.
- An update writes back the popularity it has read, and inserts anew a product
  deleted meanwhile: the disjuncts of `OnlyStaleUpdatesUndo`.
- An alias swap that commits but whose reply is lost is aborted, which deletes
  the index that is now live (`SwapReplyLost`, excused in `ServedInTheEnd`).
- Two processes that boot on a cold cluster both find no alias, and put two
  indices behind it (`EnsureAliases`). Elasticsearch then refuses writes through
  the alias, and a reindex that finds count and checksum in sync skips. It happens
  in `IndexRecovers`, where `ServedInTheEnd` says no more than that the alias is
  there; `OneLiveIndex` is about clusters that start with one.
- A product is said to be searchable at once. The bump comes before the
  indexing, and a search in between stores the old page under the new
  generation, where searches find it after the write was acknowledged, until the
  page expires. `AnswersAreFenced` and `StaleDiesOut` are what holds instead.
- A lease of zero, which the validation lets pass, or a clock that is slower than
  the database's by a lease protects nothing: `ClaimBatch` records the batch as
  overrun at once.
- "A malformed request is the caller's mistake (400)" (`domain-exception.filter.ts:22-23`)
  holds for the errors of that filter. A body that the parser refuses for its size
  or its encoding, a value that does not convert to a number, texts with characters
  that Postgres refuses or too long for the index of their column, and a price
  beyond numeric(12, 2) are known to no filter and answered with a 500
  (`ParserRefuses`, `RejectsInput`, `Save`); so are a view whose product is deleted
  between its two statements and one whose counter is at its end (`ViewIncrements`).
  None of them has committed anything, which is what `DoubtNeedsFault` says.
- A view is answered 201: its `@Post` has no `@HttpCode`, and
  `products.e2e-spec.ts:190-197` expects it. `@ApiOkResponse` at
  `products.controller.ts:201` documents a 200.
- "A plain `docker compose up --build` migrates an already populated stack in
  place", yet one product in a city that the seed does not know, created without
  coordinates, makes every later start fail: `Unplaceable` in `ServesInTheEnd`.
- The seed is "skipped if the table is already populated". A catalogue cut short
  after its first batch counts as populated, and the rest is never seeded
  (`disturbed` in `CatalogueIsWhole`); a seeder that counted an empty table
  deletes what clients of a faster container have created meanwhile
  (`ErasesOnlyNewer`).
- The backfill may write the coordinates of a place that a request has just
  changed (`misplaced` in `FilledWhereItIs`).
- `THROTTLE_FAIL_OPEN=False` passes the validation as a boolean, but is compared
  with `'false'` and stays fail-open; `THROTTLE_LIMIT=6e4` passes as a number and
  `parseInt` reads 6.
- The description of `cursor` in the DTO says that it overrides `page`; a cursor
  with a page above 1 is rejected (`Rejected`).
- Documents without coordinates are said to sort last by distance. With
  `order=desc` their infinite distance sorts first (`Before`).
- "No skips or repeats" is about products that keep their rank. One that is
  re-ranked during the scan may be met twice or not at all, which `ScanIsExact`
  says by being about `steady` products.
- `meta.nextCursor` is said to be null on the last page. When the last page is
  full it is not, and leads to an empty page (`NextCursor`); `ScanIsExact` takes
  a scan to end with the page that has no cursor.
- A maximal page size above the window is accepted by the configuration, and
  would make the first page of such a size be rejected (`WindowAssumption`).

## 7. What is left out

- *The three reads of the skip* (`isCurrentSchema`, `getContentChecksum`,
  `countDocuments`) are one step of the model.
- *Popularity* is not part of the checksum, so that a view never makes a reindex
  rebuild; `IndexLifecycle` has no views.
- *A cursor whose row is deleted* between two pages: what Prisma returns is
  modelled both ways, and `SwapIsComplete` excuses the products behind it.
- *Content that returns*: each commit makes a new content of its product. An edit
  and its undoing while a rebuild is under way leave the checksum as it was, which
  hashes contents and no time of update.
- *A second concurrent reindex*, except in `IndexOverlap`.
- *Names*: two rebuilds are given different timestamps.
- Formatting, logging, metrics, and configuration parsing except that of the API
  keys: the modules take its values as constants.
- *Wording and layout of responses*: of an answer its status is kept.
- *Rows of the sample catalogue*: requests that change or delete single ones.
- *Text*: how a query is analysed and scored, spelling suggestions, highlights,
  averages of prices, and the body of the autocomplete request.
- *The encoding of a cursor* keeps its tuple. Elasticsearch writes an infinite
  distance as a string and takes it back, which the model takes for granted.
- *Pages of a scan that come from the cache*: `ProductSearch` asks the index,
  `SearchCache` says how old a cached page may be. A view does not bump the
  generation, so that a page cached before it may list a product under its old
  rank.
- *Routes that are no controller's*: the pages of the API documentation, unknown
  paths, and CORS.
- *The throttler's counting* is the Redis storage library's, modelled from its
  use: it counts, blocks above the limit, and forgets.

## 8. The plan

Done, in order of importance: A `AtLeastOnce`, `Outbox`, `OutboxProofs`;
B `Projection` and `ProjectionProofs`; C `IndexLifecycle` and `IndexLifecycleProofs`; D `SearchCache`; E `ProductSearch`;
F `Gateway` and `GatewayProofs`; G `Seeding` and `SeedingProofs`; H
`SearchCacheProofs`, `ProductSearchProofs`, `IndexRebuildProofs`; I theorems for every
invariant and action property of the passing runs.

Next:

1. `Service`: `Projection` and `SearchCache` composed, so that staleness is
   bounded from the commit to the page, with pages of a scan from the cache.
2. An abstract specification of the index for `IndexLifecycle` (a name that
   leads to one set of documents, replaced as a whole), and the refinement.

Theorems to follow: the refinement of 2, and `SkipIsSound` from a cold start.

Runs are kept few: each new module brings one passing run, and a question that
an existing instance can answer is added to its run.
