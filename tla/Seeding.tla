------------------------------- MODULE Seeding -------------------------------
(***************************************************************************)
(* The start of a container: seed or backfill, reindex, serve, in a script *)
(* that any failure ends.  Containers share the products table with one    *)
(* another and with the requests that those already serving answer.        *)
(*                                                                         *)
(* The sample catalogue comes in batches that nothing changes one row of;  *)
(* of a product made by a request the place and the coordinates are kept,  *)
(* and of these where they come from.                                      *)
(***************************************************************************)
EXTENDS Naturals, FiniteSets

CONSTANTS
    Container,     \* the API's containers
    Product,       \* identifiers of products that requests create
    City,          \* the cities in the seed's table
    Batches,       \* createMany() calls that SEED_PRODUCT_COUNT takes
    ChunkSize,     \* products in one transaction of the backfill
    Forces,        \* what containers may be started with: SEED_FORCE
    MaxRequests,   \* bound: writes by requests in all
    MaxFaults      \* bound: failed calls and stopped containers in all

ASSUME BatchesAssumption == Batches \in Nat
ASSUME ChunkAssumption == ChunkSize \in Nat \ {0}
ASSUME ForcesAssumption == Forces \subseteq BOOLEAN /\ Forces # {}
ASSUME BudgetAssumption == MaxRequests \in Nat /\ MaxFaults \in Nat
ASSUME NamesAssumption == {"elsewhere", "none", "given", "absent"} \intersect City = {}

Place == City \union {"elsewhere"}            \* a request may name any place
Coordinates == City \union {"none", "given"}  \* filled in from a city, or not
Row == [place : Place, at : Coordinates]
Absent == [place |-> "absent", at |-> "none"]

Before == "before"             \* the seeder of a catalogue that was there before
Catalogue(c) == {c} \X (1..Batches)

VARIABLES
    seeded,        \* Postgres: batches of the sample catalogue
    row,           \* Postgres: the products that requests have created
    used,          \* identifiers already handed out
    pc,            \* off, count, clear, insert, list, fill, reindex, serve
    force,         \* SEED_FORCE of each container
    inserted,      \* batches its seeder has inserted
    missing,       \* rows it has found without coordinates and not yet filled
    since,         \* observed: products written since it counted
    touched,       \* observed: products written since it listed
    disturbed,     \* observed: a seeder was stopped half way, or met another
    misplaced,     \* observed: products filled in after a write the backfill missed
    requests, faults

table == <<seeded, row, used>>
start == <<pc, force, inserted, missing>>
observed == <<since, touched, disturbed, misplaced>>
bounds == <<requests, faults>>
vars == <<table, start, observed, bounds>>

\* An empty volume, or one from before there were coordinates.
Init ==
    /\ \/ seeded = {} /\ row = [p \in Product |-> Absent]
       \/ /\ seeded = Catalogue(Before)
          /\ row \in [Product -> {Absent} \union [place : Place, at : {"none"}]]
    /\ used = {p \in Product : row[p] # Absent}
    /\ pc = [c \in Container |-> "off"]
    /\ force = [c \in Container |-> FALSE]
    /\ inserted = [c \in Container |-> 0]
    /\ missing = [c \in Container |-> {}]
    /\ since = [c \in Container |-> {}]
    /\ touched = [c \in Container |-> {}]
    /\ disturbed = FALSE
    /\ misplaced = {}
    /\ requests = 0 /\ faults = 0

Present == {p \in Product : row[p] # Absent}

Goto(c, label) == pc' = [pc EXCEPT ![c] = label]

SpendFault == faults < MaxFaults /\ faults' = faults + 1 /\ UNCHANGED requests

-----------------------------------------------------------------------------
(* The start of a container.                                               *)

\* Nothing but the operator starts a container, a stopped one again.
Up(c) ==
    /\ pc[c] = "off"
    /\ Goto(c, "count")
    /\ \E f \in Forces : force' = [force EXCEPT ![c] = f]
    /\ inserted' = [inserted EXCEPT ![c] = 0]
    /\ missing' = [missing EXCEPT ![c] = {}]
    /\ UNCHANGED <<table, observed, bounds>>

\* Mutant: the count does not matter.
SeedsAnyway(c) == TRUE

\* Whether main() seeds: it counts every product.
Seeds(c) == (seeded = {} /\ Present = {}) \/ force[c]

CountRows(c) ==
    /\ pc[c] = "count"
    /\ Goto(c, IF Seeds(c) THEN "clear" ELSE "list")
    /\ since' = [since EXCEPT ![c] = {}]
    /\ UNCHANGED <<table, force, inserted, missing, touched, disturbed, misplaced, bounds>>

\* deleteMany(), with no outbox entries.
Clear(c) ==
    /\ pc[c] = "clear"
    /\ seeded' = {}
    /\ row' = [p \in Product |-> Absent]
    /\ Goto(c, "insert")
    /\ disturbed' = (disturbed \/ \E d \in Container \ {c} : pc[d] \in {"clear", "insert"})
    /\ UNCHANGED <<used, force, inserted, missing, since, touched, misplaced, bounds>>

\* Mutant: a last batch that is not full is left out.
LastBatchShort == Batches - 1

\* Mutant: one batch more, of what is left.
LastBatchMore == Batches + 1

LastBatch == Batches

InsertBatch(c) ==
    /\ pc[c] = "insert" /\ inserted[c] < LastBatch
    /\ inserted' = [inserted EXCEPT ![c] = @ + 1]
    /\ seeded' = seeded \union {<<c, inserted'[c]>>}
    /\ UNCHANGED <<row, used, pc, force, missing, observed, bounds>>

SeedEnds(c) ==
    /\ pc[c] = "insert" /\ inserted[c] >= LastBatch
    /\ Goto(c, "reindex")
    /\ UNCHANGED <<table, force, inserted, missing, observed, bounds>>

\* Mutant: rows that have coordinates are listed, too.
LacksCoordinatesOrNot(p) == row[p] # Absent

LacksCoordinates(p) == row[p] # Absent /\ row[p].at = "none"

\* The backfill reads the identifiers and places of all such rows at once.
ListMissing(c) ==
    /\ pc[c] = "list"
    /\ missing' = [missing EXCEPT ![c] =
           {[product |-> p, place |-> row[p].place] : p \in {q \in Product : LacksCoordinates(q)}}]
    /\ touched' = [touched EXCEPT ![c] = {}]
    /\ Goto(c, "fill")
    /\ UNCHANGED <<table, force, inserted, since, disturbed, misplaced, bounds>>

\* Any chunk may be next: the rows were not ordered.
Chunk(c) ==
    LET size == Cardinality(missing[c]) IN
    {chunk \in SUBSET missing[c] :
        Cardinality(chunk) = (IF size < ChunkSize THEN size ELSE ChunkSize)}

\* Mutant: the whole chunk is placed by one of its rows.
CoordinatesOfFirst(chunk, p) == (CHOOSE m \in chunk : TRUE).place

CoordinatesFor(chunk, p) == (CHOOSE m \in chunk : m.product = p).place

\* One transaction, of rows that are still there.
FillChunk(c, chunk) ==
    LET ids == {m.product : m \in chunk} IN
    /\ ids \subseteq Present
    /\ row' = [p \in Product |->
           IF p \in ids THEN [row[p] EXCEPT !.at = CoordinatesFor(chunk, p)] ELSE row[p]]
    /\ missing' = [missing EXCEPT ![c] = @ \ chunk]
    /\ misplaced' = misplaced \union (ids \intersect touched[c])
    /\ UNCHANGED <<seeded, used, pc, force, inserted, since, touched, disturbed, bounds>>

\* The seed exits with 1, and with it the container: a place is in no table, or
\* a row is gone and takes the transaction with it.
FillFails(c, chunk) ==
    /\ {m.place : m \in chunk} \subseteq City => ~ {m.product : m \in chunk} \subseteq Present
    /\ Goto(c, "off")
    /\ UNCHANGED <<table, force, inserted, missing, observed, bounds>>

Fill(c) ==
    /\ pc[c] = "fill" /\ missing[c] # {}
    /\ \E chunk \in Chunk(c) :
           \/ {m.place : m \in chunk} \subseteq City /\ FillChunk(c, chunk)
           \/ FillFails(c, chunk)

FillEnds(c) ==
    /\ pc[c] = "fill" /\ missing[c] = {}
    /\ Goto(c, "reindex")
    /\ UNCHANGED <<table, force, inserted, missing, observed, bounds>>

\* The reindex is module IndexLifecycle's; here it ends well, or stops the start.
Reindex(c) ==
    /\ pc[c] = "reindex"
    /\ Goto(c, "serve")
    /\ UNCHANGED <<table, force, inserted, missing, observed, bounds>>

\* A call to Postgres or Elasticsearch fails, or the container is stopped.
Stops(c) ==
    /\ pc[c] # "off"
    /\ SpendFault
    /\ Goto(c, "off")
    /\ disturbed' = (disturbed \/ pc[c] = "insert")
    /\ UNCHANGED <<table, force, inserted, missing, since, touched, misplaced>>

-----------------------------------------------------------------------------
(* Requests, as far as they concern the seed.                              *)

\* A container that serves commits this; what was observed of the row is void.
Writes(p, content) ==
    /\ \E c \in Container : pc[c] = "serve"
    /\ requests < MaxRequests /\ requests' = requests + 1
    /\ row' = [row EXCEPT ![p] = content]
    /\ used' = used \union {p}
    /\ since' = [c \in Container |-> since[c] \union {p}]
    /\ touched' = [c \in Container |-> touched[c] \union {p}]
    /\ misplaced' = misplaced \ {p}
    /\ UNCHANGED <<seeded, start, disturbed, faults>>

\* Bodies name a place, with its coordinates or without.
Body == [place : Place, at : {"none", "given"}]

Create(p) == p \notin used /\ \E body \in Body : Writes(p, body)
Update(p) == p \in Present /\ \E body \in Body : Writes(p, body)
Delete(p) == p \in Present /\ Writes(p, Absent)

-----------------------------------------------------------------------------

Starting(c) ==
    \/ CountRows(c) \/ Clear(c) \/ InsertBatch(c) \/ SeedEnds(c)
    \/ ListMissing(c) \/ Fill(c) \/ FillEnds(c) \/ Reindex(c)

Next ==
    \/ \E c \in Container : Up(c) \/ Starting(c) \/ Stops(c)
    \/ \E p \in Product : Create(p) \/ Update(p) \/ Delete(p)

Spec == Init /\ [][Next]_vars

\* The script runs on, and the operator does not give up a container that stopped.
Fairness == \A c \in Container : WF_vars(Up(c)) /\ WF_vars(Starting(c))

FairSpec == Spec /\ Fairness

-----------------------------------------------------------------------------
(* Properties.                                                             *)

\* The type invariant.
TypeOK ==
    /\ seeded \subseteq (Container \union {Before}) \X (1..Batches)
    /\ row \in [Product -> Row \union {Absent}]
    /\ used \subseteq Product
    /\ pc \in [Container -> {"off", "count", "clear", "insert", "list", "fill",
                              "reindex", "serve"}]
    /\ force \in [Container -> BOOLEAN]
    /\ inserted \in [Container -> 0..Batches]
    /\ missing \in [Container -> SUBSET [product : Product, place : Place]]
    /\ since \in [Container -> SUBSET Product]
    /\ touched \in [Container -> SUBSET Product]
    /\ disturbed \in BOOLEAN
    /\ misplaced \subseteq Product
    /\ requests \in Nat /\ faults \in Nat

\* Whoever serves has one whole sample catalogue, and not a part of one or two of
\* them, unless a seeder was stopped half way (the next start then takes the part
\* for the whole), two seeded at once, or one seeds anew as it was told to.
CatalogueIsWhole ==
    (\E c \in Container : pc[c] = "serve") =>
        \/ \E d \in Container \union {Before} : seeded = Catalogue(d)
        \/ disturbed
        \/ \E d \in Container : pc[d] = "insert"

\* "Skipped if the table is already populated" (README): a seeder that was not
\* forced deletes no product that was there when it counted.  What was created
\* between its count and its deletion, through another container, it does delete.
ErasesOnlyNewer ==
    [][\A c \in Container : Clear(c) /\ ~ force[c] => Present \subseteq since[c]]_vars

\* Coordinates that were filled in are those of the product's own place, unless
\* the product was written between the listing and the filling: the backfill
\* then overwrites what the request has stored.
FilledWhereItIs ==
    \A p \in Present : row[p].at \in City => row[p].at = row[p].place \/ p \in misplaced

\* A product that keeps containers from starting.
Unplaceable == \E p \in Present : row[p] = [place |-> "elsewhere", at |-> "none"]

\* Every container serves in the end, however often a start was cut short and
\* whatever other containers and requests did meanwhile, with one exception: a
\* product without coordinates in a place that the seed's table does not know,
\* which a request may create and which stops every later start.
ServesInTheEnd ==
    <>[](\A c \in Container : pc[c] = "serve") \/ <>[]Unplaceable
=============================================================================
