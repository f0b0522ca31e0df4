---------------------------- MODULE IndexLifecycle ----------------------------
(***************************************************************************)
(* The physical indices behind the alias: their creation at boot, the      *)
(* rebuild into a staging index with its alias swap and clean-up, and the  *)
(* writes that go on meanwhile.                                            *)
(*                                                                         *)
(* Each API process serves writes; each CLI process boots, reindexes and   *)
(* exits.  Both run an outbox worker, because both start the same          *)
(* application module.  The staging index is a field of the index manager, *)
(* so a process knows of its own rebuild only.                             *)
(*                                                                         *)
(* A product's content is the number of commits that touched it.  Index 0  *)
(* has the name of an older schema version, the others the current one;    *)
(* Bare is a concrete index that squats on the name of the alias.          *)
(***************************************************************************)
EXTENDS Integers, FiniteSets

CONSTANTS
    NumProducts,   \* products, numbered in the order of their identifiers
    Api,           \* processes that serve requests
    Cli,           \* processes that run search:reindex
    PageSize,      \* batchSize of the reindex
    Starts,        \* where the cluster may start: "cold", "bare", "old", "current"
    MaxIndex,      \* bound: physical indices ever created under the current schema
    MaxCommits,    \* bound: commits of requests in all
    MaxRuns,       \* bound: runs of search:reindex
    MaxFaults,     \* bound: failed calls and stopped processes in all
    MaxLost        \* bound: those of them that are swaps whose reply is lost

Product == 1..NumProducts
Process == Api \union Cli
Physical == 0..MaxIndex
Bare == -1
Index == Physical \union {Bare}
None == -2                      \* no index

ASSUME ProcessAssumption == Api \intersect Cli = {}
ASSUME PageAssumption == NumProducts \in Nat /\ PageSize \in Nat \ {0}
ASSUME StartsAssumption == Starts \subseteq {"cold", "bare", "old", "current"}
ASSUME BoundsAssumption ==
    /\ MaxIndex \in Nat \ {0} /\ MaxCommits \in Nat /\ MaxRuns \in Nat
    /\ MaxFaults \in Nat /\ MaxLost \in Nat

VARIABLES
    \* Postgres.
    row,           \* the products: version and whether it is there
    pending,       \* outbox entries not yet processed
    \* Elasticsearch.
    indices,       \* the indices that exist
    mapped,        \* those created with the settings and mapping of a product index
    alias,         \* the indices the alias points at
    docs,          \* per index and product the version indexed, 0 for none
    stamp,         \* per index its _meta.contentChecksum, NoSum for none
    next,          \* newest name taken; names are timestamps
    \* The index manager and the reindex of each process.
    pc,            \* where the process stands in its boot or its reindex
    staging,       \* stagingIndex
    total,         \* the row count of the reindex
    sum,           \* its content checksum
    cursor,        \* the last product of the page before
    page,          \* the page read and not yet written
    aliasSeen,     \* aliasExists of finishRebuild
    current,       \* the index finishRebuild has put behind the alias
    stale,         \* the indices still to be deleted
    \* The projection under way in each process.
    tpc,           \* idle, send, sent, mirror
    task,          \* the product, the version to write (0: remove), its entry
    target,        \* the staging index the write is mirrored to
    \* Observation and bounds.
    tainted,       \* pairs of index and product that an outdated write has reached
    faults, lost, runs, commits

database == <<row, pending>>
cluster == <<indices, mapped, alias, docs, stamp, next>>
rebuild == <<pc, staging, total, sum, cursor, page, aliasSeen, current, stale>>
tasks == <<tpc, task, target>>
bounds == <<faults, lost, runs, commits>>
vars == <<database, cluster, rebuild, tasks, tainted, bounds>>

\* The version of the document a product should have, 0 for none.
RowDoc(p) == IF row[p].live THEN row[p].ver ELSE 0

\* contentChecksum(): it tells any two contents of the table apart.  Each commit
\* makes a new one: an edit that restores what was there before is left out.
Checksum == [p \in Product |-> RowDoc(p)]
NoSum == [p \in Product |-> -1]

NoDocs == [p \in Product |-> 0]
NoTask == [product |-> 0, put |-> 0, entry |-> 0]

\* Where a search, or a call by the alias name, ends up.
Resolved == IF alias # {} THEN alias ELSE indices \intersect {Bare}

Init ==
    \E start \in Starts, present \in SUBSET Product :
    LET first == CASE start = "cold" -> {} [] start = "bare" -> {Bare}
                   [] start = "old" -> {0} [] start = "current" -> {1}
    IN
    /\ row = [p \in Product |-> [ver |-> IF p \in present THEN 1 ELSE 0,
                                 live |-> p \in present]]
    /\ pending = {}
    /\ indices = first
    /\ mapped = first \ {Bare}
    /\ alias = first \ {Bare}
    /\ docs = [i \in Index |-> IF i \in first THEN Checksum ELSE NoDocs]
    /\ stamp = [i \in Index |-> IF i \in first \ {Bare} THEN Checksum ELSE NoSum]
    /\ next = 1
    /\ pc = [c \in Process |-> IF c \in Api THEN "boot" ELSE "off"]
    /\ staging = [c \in Process |-> None]
    /\ total = [c \in Process |-> 0]
    /\ sum = [c \in Process |-> NoSum]
    /\ cursor = [c \in Process |-> 0]
    /\ page = [c \in Process |-> NoDocs]
    /\ aliasSeen = [c \in Process |-> FALSE]
    /\ current = [c \in Process |-> None]
    /\ stale = [c \in Process |-> {}]
    /\ tpc = [c \in Process |-> "idle"]
    /\ task = [c \in Process |-> NoTask]
    /\ target = [c \in Process |-> None]
    /\ tainted = {}
    /\ faults = 0 /\ lost = 0 /\ runs = 0 /\ commits = 0

SpendFault == faults < MaxFaults /\ faults' = faults + 1 /\ UNCHANGED <<lost, runs, commits>>

Goto(c, label) == pc' = [pc EXCEPT ![c] = label]

-----------------------------------------------------------------------------
(* Elasticsearch, as far as the index manager relies on it.                *)

\* indices.create of a new name.
CreatesIndex(i) ==
    /\ next < MaxIndex
    /\ next' = next + 1
    /\ indices' = indices \union {i}
    /\ mapped' = mapped \union {i}
    /\ UNCHANGED <<alias, docs, stamp>>

\* indices.delete takes the index out of the alias, too.
DeletesIndex(i) ==
    /\ indices' = indices \ {i}
    /\ mapped' = mapped \ {i}
    /\ alias' = alias \ {i}
    /\ docs' = [docs EXCEPT ![i] = NoDocs]
    /\ stamp' = [stamp EXCEPT ![i] = NoSum]
    /\ tainted' = {t \in tainted : t[1] # i}
    /\ UNCHANGED next

\* Documents are written to index i, which is created without a mapping
\* when it is missing.  A version behind the row's taints the document.
WritesDocs(i, puts) ==
    /\ indices' = indices \union {i}
    /\ docs' = [docs EXCEPT ![i] = [p \in Product |->
                   IF p \in DOMAIN puts THEN puts[p] ELSE docs[i][p]]]
    /\ tainted' = {t \in tainted : ~ (t[1] = i /\ t[2] \in DOMAIN puts)}
           \union {<<i, p>> : p \in {q \in DOMAIN puts : puts[q] # RowDoc(q)}}
    /\ UNCHANGED <<mapped, alias, stamp, next>>

-----------------------------------------------------------------------------
(* Boot: onApplicationBootstrap() makes sure the alias exists.             *)

manager == <<staging, total, sum, cursor, page, aliasSeen, stale>>

Booted(c) == Goto(c, IF c \in Api THEN "serving" ELSE "count")

\* The command is run: its process boots.
Launch(c) ==
    /\ pc[c] = "off"
    /\ runs < MaxRuns /\ runs' = runs + 1
    /\ Goto(c, "boot")
    /\ UNCHANGED <<database, cluster, manager, current, tasks, tainted, faults, lost, commits>>

EnsureChecks(c) ==
    /\ pc[c] = "boot"
    /\ \/ alias # {} /\ Booted(c)
       \/ alias = {} /\ Goto(c, "ensureDrop")
    /\ UNCHANGED <<database, cluster, manager, current, tasks, tainted, bounds>>

\* A concrete index with the name of the alias is dropped.  When the name has
\* become an alias in the meantime, it exists too, but cannot be deleted: the
\* error is swallowed and the boot goes on.
EnsureDrops(c) ==
    /\ pc[c] = "ensureDrop"
    /\ \/ /\ alias # {}
          /\ Booted(c)
          /\ UNCHANGED <<cluster, tainted>>
       \/ /\ alias = {}
          /\ DeletesIndex(Bare)
          /\ Goto(c, "ensureCreate")
    /\ UNCHANGED <<database, manager, current, tasks, bounds>>

EnsureCreates(c) ==
    /\ pc[c] = "ensureCreate"
    /\ CreatesIndex(next + 1)
    /\ current' = [current EXCEPT ![c] = next + 1]
    /\ Goto(c, "ensureAlias")
    /\ UNCHANGED <<database, manager, tasks, tainted, bounds>>

\* putAlias is refused when an index of that name exists, or the physical
\* index does not.
EnsureAliases(c) ==
    /\ pc[c] = "ensureAlias"
    /\ alias' = IF Bare \in indices \/ current[c] \notin indices THEN alias
                ELSE alias \union {current[c]}
    /\ current' = [current EXCEPT ![c] = None]
    /\ Booted(c)
    /\ UNCHANGED <<database, indices, mapped, docs, stamp, next, manager, tasks,
                   tainted, bounds>>

\* Any of these calls may fail; the boot goes on without the alias.
EnsureFails(c) ==
    /\ pc[c] \in {"boot", "ensureDrop", "ensureCreate", "ensureAlias"}
    /\ SpendFault
    /\ current' = [current EXCEPT ![c] = None]
    /\ Booted(c)
    /\ UNCHANGED <<database, cluster, manager, tasks, tainted>>

-----------------------------------------------------------------------------
(* The reindex use case, and the protocol of the index manager under it.   *)

CountsRows(c) ==
    /\ pc[c] = "count"
    /\ total' = [total EXCEPT ![c] = Cardinality({p \in Product : row[p].live})]
    /\ Goto(c, "sum")
    /\ UNCHANGED <<database, cluster, staging, sum, cursor, page, aliasSeen, current,
                   stale, tasks, tainted, bounds>>

SumsRows(c) ==
    /\ pc[c] = "sum"
    /\ sum' = [sum EXCEPT ![c] = Checksum]
    /\ Goto(c, "decide")
    /\ UNCHANGED <<database, cluster, staging, total, cursor, page, aliasSeen, current,
                   stale, tasks, tainted, bounds>>

\* The three answers of the index, taken at one moment: whether an index of the
\* current schema is behind the alias, how many documents are, and the stamp of
\* one of the indices.
InSync(c) ==
    /\ total[c] > 0
    /\ alias \ {0} # {}
    /\ total[c] = Cardinality({d \in alias \X Product : docs[d[1]][d[2]] # 0})
    /\ \E i \in alias : stamp[i] = sum[c]

Skip(c) ==
    /\ pc[c] = "decide"
    /\ InSync(c)
    /\ Goto(c, "exit")
    /\ UNCHANGED <<database, cluster, manager, current, tasks, tainted, bounds>>

\* Mutants: startRebuild() forgets to set stagingIndex, or to create it.
StartRebuildUnnamed(c) ==
    /\ pc[c] = "decide"
    /\ CreatesIndex(next + 1)
    /\ cursor' = [cursor EXCEPT ![c] = 0]
    /\ Goto(c, "read")
    /\ UNCHANGED <<database, staging, total, sum, page, aliasSeen, current, stale,
                   tasks, tainted, bounds>>
StartRebuildUnmade(c) ==
    /\ pc[c] = "decide"
    /\ next < MaxIndex /\ next' = next + 1
    /\ staging' = [staging EXCEPT ![c] = next + 1]
    /\ cursor' = [cursor EXCEPT ![c] = 0]
    /\ Goto(c, "read")
    /\ UNCHANGED <<database, indices, mapped, alias, docs, stamp, total, sum, page,
                   aliasSeen, current, stale, tasks, tainted, bounds>>

\* startRebuild(), because the index is not in sync or the run is forced.
StartRebuild(c) ==
    /\ pc[c] = "decide"
    /\ CreatesIndex(next + 1)
    /\ staging' = [staging EXCEPT ![c] = next + 1]
    /\ cursor' = [cursor EXCEPT ![c] = 0]
    /\ Goto(c, "read")
    /\ UNCHANGED <<database, total, sum, page, aliasSeen, current, stale, tasks,
                   tainted, bounds>>

\* The creation fails outside the try block: no abort, and stagingIndex stays.
StartRebuildFails(c) ==
    /\ pc[c] = "decide"
    /\ SpendFault
    /\ next < MaxIndex /\ next' = next + 1
    /\ staging' = [staging EXCEPT ![c] = next + 1]
    /\ Goto(c, "exit")
    /\ UNCHANGED <<database, indices, mapped, alias, docs, stamp, total, sum, cursor,
                   page, aliasSeen, current, stale, tasks, tainted>>

\* The first n products of S in the order of their identifiers.
FirstPage(S, n) == {p \in S : Cardinality({q \in S : q < p}) < n}

\* Mutant: the next page begins after the product that follows the last one.
NextCursorBeyond(ids) ==
    IF Cardinality(ids) = PageSize THEN (CHOOSE p \in ids : \A q \in ids : q <= p) + 1
    ELSE NumProducts + 1

\* The cursor of the next page; a page that is not full is the last one.
NextCursor(ids) ==
    IF Cardinality(ids) = PageSize THEN CHOOSE p \in ids : \A q \in ids : q <= p
    ELSE NumProducts + 1

\* findBatch(): what follows the cursor.  Prisma looks the cursor up; when its
\* row has been deleted meanwhile, the page may come back empty.
PagesAfter(at) ==
    {FirstPage({p \in Product : row[p].live /\ p > at}, PageSize)}
        \union {{} : q \in {p \in Product : p = at /\ ~ row[p].live}}

ReadPage(c) ==
    /\ pc[c] = "read"
    /\ \E ids \in PagesAfter(cursor[c]) :
           /\ page' = [page EXCEPT ![c] = [p \in Product |-> IF p \in ids THEN RowDoc(p) ELSE 0]]
           /\ cursor' = [cursor EXCEPT ![c] = NextCursor(ids)]
    /\ Goto(c, "write")
    /\ UNCHANGED <<database, cluster, staging, total, sum, aliasSeen, current, stale,
                   tasks, tainted, bounds>>

\* bulkIndex(), into the staging index; of an empty page nothing is sent.
WritePage(c) ==
    /\ pc[c] = "write"
    /\ LET ids == {p \in Product : page[c][p] # 0}
       IN  \/ /\ ids # {}
              /\ WritesDocs(staging[c], [p \in ids |-> page[c][p]])
           \/ ids = {} /\ UNCHANGED <<cluster, tainted>>
    /\ page' = [page EXCEPT ![c] = NoDocs]
    /\ Goto(c, IF cursor[c] > NumProducts THEN "stamp" ELSE "read")
    /\ UNCHANGED <<database, staging, total, sum, cursor, aliasSeen, current, stale,
                   tasks, bounds>>

\* Mutant: the checksum is taken anew when the index is stamped.
StampStagingAnew(c) ==
    /\ pc[c] = "stamp"
    /\ staging[c] \in indices
    /\ stamp' = [stamp EXCEPT ![staging[c]] = Checksum]
    /\ Goto(c, "check")
    /\ UNCHANGED <<database, indices, mapped, alias, docs, next, manager, current,
                   tasks, tainted, bounds>>

\* finishRebuild(): stamp the staging index with the checksum taken at first.
StampStaging(c) ==
    /\ pc[c] = "stamp"
    /\ staging[c] \in indices
    /\ stamp' = [stamp EXCEPT ![staging[c]] = sum[c]]
    /\ Goto(c, "check")
    /\ UNCHANGED <<database, indices, mapped, alias, docs, next, manager, current,
                   tasks, tainted, bounds>>

\* Mutant: a concrete index in place of the alias is not dropped.
CheckAliasOnly(c) ==
    /\ pc[c] = "check"
    /\ aliasSeen' = [aliasSeen EXCEPT ![c] = alias # {}]
    /\ Goto(c, "swap")
    /\ UNCHANGED <<database, cluster, staging, total, sum, cursor, page, current, stale,
                   tasks, tainted, bounds>>

CheckAlias(c) ==
    /\ pc[c] = "check"
    /\ aliasSeen' = [aliasSeen EXCEPT ![c] = alias # {}]
    /\ Goto(c, IF alias # {} THEN "swap" ELSE "drop")
    /\ UNCHANGED <<database, cluster, staging, total, sum, cursor, page, current, stale,
                   tasks, tainted, bounds>>

DropBare(c) ==
    /\ pc[c] = "drop"
    /\ alias = {}
    /\ DeletesIndex(Bare)
    /\ Goto(c, "swap")
    /\ UNCHANGED <<database, manager, current, tasks, bounds>>

\* updateAliases is refused when the staging index is gone, the name belongs
\* to an index, or the alias to be removed is not there.
CanSwap(c) ==
    /\ staging[c] \in indices
    /\ Bare \notin indices
    /\ aliasSeen[c] => alias # {}

\* Mutant: the alias is added to the new index and not removed from the old.
MovesAliasAdding(c) ==
    /\ pc[c] = "swap"
    /\ CanSwap(c)
    /\ alias' = alias \union {staging[c]}
    /\ UNCHANGED <<database, indices, mapped, docs, stamp, next, total, sum, cursor, page,
                   aliasSeen, stale, tasks, tainted>>

MovesAlias(c) ==
    /\ pc[c] = "swap"
    /\ CanSwap(c)
    /\ alias' = IF aliasSeen[c] THEN {staging[c]} ELSE alias \union {staging[c]}
    /\ UNCHANGED <<database, indices, mapped, docs, stamp, next, total, sum, cursor, page,
                   aliasSeen, stale, tasks, tainted>>

Swap(c) ==
    /\ MovesAlias(c)
    /\ current' = [current EXCEPT ![c] = staging[c]]
    /\ staging' = [staging EXCEPT ![c] = None]
    /\ Goto(c, "list")
    /\ UNCHANGED bounds

\* The alias has moved, but the call throws.
SwapReplyLost(c) ==
    /\ MovesAlias(c)
    /\ faults < MaxFaults /\ faults' = faults + 1
    /\ lost < MaxLost /\ lost' = lost + 1
    /\ Goto(c, "abort")
    /\ UNCHANGED <<staging, current, runs, commits>>

\* A step of the rebuild throws, by an outage or because it is refused.
RebuildFails(c) ==
    /\ \/ pc[c] \in {"read", "write", "stamp", "check", "drop", "swap"} /\ SpendFault
       \/ pc[c] = "stamp" /\ staging[c] \notin indices /\ UNCHANGED bounds
       \/ pc[c] = "drop" /\ alias # {} /\ UNCHANGED bounds
       \/ pc[c] = "swap" /\ ~ CanSwap(c) /\ UNCHANGED bounds
    /\ page' = [page EXCEPT ![c] = NoDocs]
    /\ Goto(c, "abort")
    /\ UNCHANGED <<database, cluster, staging, total, sum, cursor, aliasSeen, current,
                   stale, tasks, tainted>>

\* abortRebuild() deletes the staging index, if it can.
AbortRebuild(c) ==
    /\ pc[c] = "abort"
    /\ \/ DeletesIndex(staging[c]) /\ UNCHANGED bounds
       \/ SpendFault /\ UNCHANGED <<cluster, tainted>>
    /\ staging' = [staging EXCEPT ![c] = None]
    /\ Goto(c, "exit")
    /\ UNCHANGED <<database, total, sum, cursor, page, aliasSeen, current, stale, tasks>>

\* Mutant: the current index is not spared.
ListStaleAll(c) ==
    /\ pc[c] = "list"
    /\ stale' = [stale EXCEPT ![c] = indices \intersect Physical]
    /\ Goto(c, "clean")
    /\ UNCHANGED <<database, cluster, staging, total, sum, cursor, page, aliasSeen, current,
                   tasks, tainted, bounds>>

\* deleteStalePhysicals(): every physical index but the current one, of any
\* schema version and whosever it is.
ListStale(c) ==
    /\ pc[c] = "list"
    /\ stale' = [stale EXCEPT ![c] = (indices \intersect Physical) \ {current[c]}]
    /\ Goto(c, "clean")
    /\ UNCHANGED <<database, cluster, staging, total, sum, cursor, page, aliasSeen, current,
                   tasks, tainted, bounds>>

DeleteStale(c) ==
    /\ pc[c] = "clean"
    /\ \E i \in stale[c] :
           /\ i \in indices
           /\ DeletesIndex(i)
           /\ stale' = [stale EXCEPT ![c] = @ \ {i}]
    /\ UNCHANGED <<database, pc, staging, total, sum, cursor, page, aliasSeen, current,
                   tasks, bounds>>

\* Nothing is left to delete, or a deletion fails and ends the clean-up.
EndClean(c) ==
    /\ pc[c] \in {"list", "clean"}
    /\ \/ pc[c] = "clean" /\ stale[c] = {} /\ UNCHANGED bounds
       \/ pc[c] = "clean" /\ ~ stale[c] \subseteq indices /\ UNCHANGED bounds
       \/ SpendFault
    /\ Goto(c, "exit")
    /\ UNCHANGED <<database, cluster, manager, current, tasks, tainted>>

\* The process is gone, and with it all that it knew.
Forgets(c, label) ==
    /\ Goto(c, label)
    /\ staging' = [staging EXCEPT ![c] = None]
    /\ total' = [total EXCEPT ![c] = 0]
    /\ sum' = [sum EXCEPT ![c] = NoSum]
    /\ cursor' = [cursor EXCEPT ![c] = 0]
    /\ page' = [page EXCEPT ![c] = NoDocs]
    /\ aliasSeen' = [aliasSeen EXCEPT ![c] = FALSE]
    /\ current' = [current EXCEPT ![c] = None]
    /\ stale' = [stale EXCEPT ![c] = {}]
    /\ tpc' = [tpc EXCEPT ![c] = "idle"]
    /\ task' = [task EXCEPT ![c] = NoTask]
    /\ target' = [target EXCEPT ![c] = None]
    /\ UNCHANGED <<database, cluster, tainted>>

Exit(c) ==
    /\ pc[c] = "exit"
    /\ Forgets(c, "off")
    /\ UNCHANGED bounds

\* The process dies; an API process is started again.
Crash(c) ==
    /\ pc[c] # "off"
    /\ SpendFault
    /\ Forgets(c, IF c \in Api THEN "boot" ELSE "off")

-----------------------------------------------------------------------------
(* The projection of a write: by the request itself, or by a worker.       *)

\* A request commits a new version of the product, or its deletion.
RequestCommits(c, p) ==
    /\ pc[c] = "serving" /\ tpc[c] = "idle"
    /\ commits < MaxCommits /\ commits' = commits + 1
    /\ \E live \in BOOLEAN :
           /\ row[p].live \/ (live /\ row[p].ver = 0)
           /\ row' = [row EXCEPT ![p] = [ver |-> @.ver + 1, live |-> live]]
           /\ pending' = pending \union {[product |-> p, ver |-> row[p].ver + 1, live |-> live]}
           /\ task' = [task EXCEPT ![c] = [product |-> p, entry |-> 0,
                           put |-> IF live THEN row[p].ver + 1 ELSE 0]]
    /\ tpc' = [tpc EXCEPT ![c] = "send"]
    /\ UNCHANGED <<cluster, rebuild, target, tainted, faults, lost, runs>>

\* A worker has claimed an entry and read the row that it is to index.
WorkerTakes(c, e) ==
    /\ pc[c] # "off" /\ tpc[c] = "idle"
    /\ e \in pending
    /\ e.live => row[e.product].live
    /\ task' = [task EXCEPT ![c] = [product |-> e.product, entry |-> e.ver,
                    put |-> IF e.live THEN RowDoc(e.product) ELSE 0]]
    /\ tpc' = [tpc EXCEPT ![c] = "send"]
    /\ UNCHANGED <<database, cluster, rebuild, target, tainted, bounds>>

\* An upsert whose row is gone is processed without a call.
WorkerSkips(c, e) ==
    /\ pc[c] # "off" /\ tpc[c] = "idle"
    /\ e \in pending /\ e.live /\ ~ row[e.product].live
    /\ pending' = pending \ {e}
    /\ UNCHANGED <<row, cluster, rebuild, tasks, tainted, bounds>>

Ends(c) ==
    /\ tpc' = [tpc EXCEPT ![c] = "idle"]
    /\ task' = [task EXCEPT ![c] = NoTask]
    /\ target' = [target EXCEPT ![c] = None]

\* index() or remove() through the alias takes effect.  An index call creates
\* a concrete index when the name resolves to nothing.
Send(c) ==
    /\ tpc[c] = "send"
    /\ Cardinality(alias) <= 1
    /\ \/ /\ task[c].put = 0 /\ Resolved = {}
          /\ UNCHANGED <<cluster, tainted>>
       \/ /\ task[c].put # 0 \/ Resolved # {}
          /\ WritesDocs(IF Resolved = {} THEN Bare ELSE CHOOSE i \in Resolved : TRUE,
                        [p \in {task[c].product} |-> task[c].put])
    /\ tpc' = [tpc EXCEPT ![c] = "sent"]
    /\ UNCHANGED <<database, rebuild, task, target, bounds>>

\* The call fails: an outage, or an alias over two indices.  The entry stays.
SendFails(c) ==
    /\ tpc[c] \in {"send", "mirror"}
    /\ \/ SpendFault
       \/ tpc[c] = "send" /\ Cardinality(alias) > 1 /\ UNCHANGED bounds
    /\ Ends(c)
    /\ UNCHANGED <<database, cluster, rebuild, tainted>>

\* An index call that has returned is repeated on the staging index, if this
\* process has one by now.
MirrorStarts(c) ==
    /\ tpc[c] = "sent"
    /\ task[c].put # 0 /\ staging[c] # None
    /\ target' = [target EXCEPT ![c] = staging[c]]
    /\ tpc' = [tpc EXCEPT ![c] = "mirror"]
    /\ UNCHANGED <<database, cluster, rebuild, task, tainted, bounds>>

\* The worker marks its entry processed; a request has nothing to mark.
Marks(c) ==
    /\ pending' = {e \in pending : ~ (e.product = task[c].product /\ e.ver = task[c].entry)}
    /\ UNCHANGED row

NoMirror(c) ==
    /\ tpc[c] = "sent"
    /\ task[c].put = 0 \/ staging[c] = None
    /\ Marks(c)
    /\ Ends(c)
    /\ UNCHANGED <<cluster, rebuild, tainted, bounds>>

Mirror(c) ==
    /\ tpc[c] = "mirror"
    /\ WritesDocs(target[c], [p \in {task[c].product} |-> task[c].put])
    /\ Marks(c)
    /\ Ends(c)
    /\ UNCHANGED <<rebuild, bounds>>

-----------------------------------------------------------------------------

Boot(c) ==
    \/ EnsureChecks(c) \/ EnsureDrops(c) \/ EnsureCreates(c) \/ EnsureAliases(c)
    \/ EnsureFails(c)

Reindex(c) ==
    \/ CountsRows(c) \/ SumsRows(c) \/ Skip(c) \/ StartRebuild(c) \/ StartRebuildFails(c)
    \/ ReadPage(c) \/ WritePage(c) \/ StampStaging(c) \/ CheckAlias(c) \/ DropBare(c)
    \/ Swap(c) \/ SwapReplyLost(c) \/ RebuildFails(c) \/ AbortRebuild(c)
    \/ ListStale(c) \/ DeleteStale(c) \/ EndClean(c) \/ Exit(c)

Projection(c) ==
    \/ \E p \in Product : RequestCommits(c, p)
    \/ \E e \in pending : WorkerTakes(c, e) \/ WorkerSkips(c, e)
    \/ Send(c) \/ SendFails(c) \/ MirrorStarts(c) \/ NoMirror(c) \/ Mirror(c)

Next ==
    \/ \E c \in Cli : Launch(c) \/ Reindex(c)
    \/ \E c \in Process : Boot(c) \/ Projection(c) \/ Crash(c)

Spec == Init /\ [][Next]_vars

\* A booting process and a reindex go on to their end; a command is run again
\* as long as MaxRuns allows (the container entry point runs it at each start).
Fairness ==
    /\ \A c \in Process : WF_vars(Boot(c))
    /\ \A c \in Cli : WF_vars(Reindex(c)) /\ WF_vars(Launch(c))

FairSpec == Spec /\ Fairness

-----------------------------------------------------------------------------
(* Properties.                                                             *)

\* The type invariant.
TypeOK ==
    /\ row \in [Product -> [ver : 0..(MaxCommits + 1), live : BOOLEAN]]
    /\ pending \subseteq [product : Product, ver : 1..(MaxCommits + 1), live : BOOLEAN]
    /\ indices \subseteq Index /\ mapped \subseteq indices
    /\ alias \subseteq indices \ {Bare}
    /\ docs \in [Index -> [Product -> Nat]]
    /\ stamp \in [Index -> [Product -> Int]]
    /\ next \in 1..MaxIndex
    /\ pc \in [Process -> {"off", "boot", "ensureDrop", "ensureCreate", "ensureAlias",
                           "serving", "count", "sum", "decide", "read", "write", "stamp",
                           "check", "drop", "swap", "abort", "list", "clean", "exit"}]
    /\ staging \in [Process -> Physical \union {None}]
    /\ total \in [Process -> Nat]
    /\ sum \in [Process -> [Product -> Int]]
    /\ cursor \in [Process -> 0..(NumProducts + 1)]
    /\ page \in [Process -> [Product -> Nat]]
    /\ aliasSeen \in [Process -> BOOLEAN]
    /\ current \in [Process -> Physical \union {None}]
    /\ stale \in [Process -> SUBSET Physical]
    /\ tpc \in [Process -> {"idle", "send", "sent", "mirror"}]
    /\ task \in [Process -> [product : 0..NumProducts, put : Nat, entry : Nat]]
    /\ target \in [Process -> Physical \union {None}]
    /\ tainted \subseteq Index \X Product
    /\ faults \in Nat /\ lost \in Nat /\ runs \in Nat /\ commits \in Nat

\* "Readers never observe a missing alias" (finishRebuild): from the first
\* alias on there is always one, through swaps, aborts and clean-ups.
AliasNeverMissing == [][alias # {} => alias' # {}]_vars

\* The alias leads to a single index, or writes through it would be refused.
OneLiveIndex == Cardinality(alias) <= 1

\* The index behind the alias has the mapping the queries are written for; one
\* that a stray write has brought to life is never put there.
LiveIsMapped == alias \subseteq mapped

HasEntry(p) == \E e \in pending : e.product = p

Deleted(p) == row[p].ver > 0 /\ ~ row[p].live

\* What a rebuild puts behind the alias is complete: every product that is as it
\* was when the checksum was taken is in it as Postgres has it, save where a
\* projection wrote an outdated version over it, or a product before it was
\* deleted while the pages were read and cut them short.
SwapIsComplete ==
    [][\A c \in Cli : Swap(c) =>
        \A p \in Product :
            row[p].live /\ sum[c][p] = row[p].ver =>
                \/ docs[staging[c]][p] = row[p].ver
                \/ <<staging[c], p>> \in tainted
                \/ \E q \in Product : q < p /\ Deleted(q)]_vars

\* The versions of a product that a search through the alias meets.
Shown(p) == {docs[i][p] : i \in alias} \ {0}

\* A reindex that skips is right to: the alias shows every product that is as it was
\* when the checksum was taken as Postgres has it, and no older version of it, save
\* where a projection wrote an outdated version, or a product before it was deleted
\* and cut the pages short that the index was made from.
SkipIsSound ==
    [][\A c \in Cli : Skip(c) =>
        \A p \in Product :
            row[p].live /\ sum[c][p] = row[p].ver =>
                \/ Shown(p) = {row[p].ver}
                \/ \E i \in alias : <<i, p>> \in tainted
                \/ \E q \in Product : q < p /\ Deleted(q)]_vars

\* The alias is there in the end, however the cluster started and whatever failed
\* on the way, unless the reply to a swap was lost (the abort that follows deletes
\* the live index).
ServedInTheEnd == <>[](alias # {} \/ lost > 0)

\* "A write racing a reindex in another process is reprojected into the new
\* generation by the outbox within one poll interval" (README): a product that
\* the live index shows right, and that the new one does not, has its entry
\* still pending.
SwapLosesNoWrite ==
    [][\A c \in Cli : Swap(c) =>
        \A p \in Product, i \in alias :
            docs[i][p] = RowDoc(p) =>
                \/ docs[staging[c]][p] = RowDoc(p)
                \/ HasEntry(p)]_vars
=============================================================================
