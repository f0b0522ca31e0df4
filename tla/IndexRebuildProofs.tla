-------------------------- MODULE IndexRebuildProofs --------------------------
(***************************************************************************)
(* For any number of products, any page size, and any requests, workers,   *)
(* containers and failures: the types of the model; its loop over pages    *)
(* advances; and, with one search:reindex at a time, what a rebuild puts   *)
(* behind the alias is complete, and a reindex that skips is right to.     *)
(***************************************************************************)
EXTENDS IndexLifecycleProofs

-----------------------------------------------------------------------------
(* The pages of findBatch().                                               *)

Rank(S, p) == Cardinality({q \in S : q < p})

LEMMA ProductIsFinite ==
  ASSUME NEW S \in SUBSET Product
  PROVE  IsFiniteSet(S) /\ Cardinality(S) \in Nat
<1>1. IsFiniteSet(Product)
  BY PageAssumption, FS_Interval DEF Product
<1> QED
  BY <1>1, FS_Subset, FS_CardinalityType

LEMMA ProductsAreNumbers ==
  ASSUME NEW S \in SUBSET Product, NEW p \in S
  PROVE  p \in Nat /\ 1 <= p /\ p <= NumProducts /\ NumProducts \in Nat
  BY PageAssumption DEF Product

LEMMA Least ==
  ASSUME NEW S \in SUBSET Nat, S # {}
  PROVE  \E p \in S : \A q \in S : p <= q
<1>1. \E p \in S : \A q \in S : ~ (<<q, p>> \in OpToRel(<, Nat))
  BY NatLessThanWellFounded, WFMin
<1>2. \A p, q \in Nat : ~ (<<q, p>> \in OpToRel(<, Nat)) => p <= q
  BY DEF OpToRel
<1> QED
  BY <1>1, <1>2

LEMMA Greatest ==
  ASSUME NEW S \in SUBSET Product, S # {}
  PROVE  \E p \in S : \A q \in S : q <= p
<1> DEFINE T == {NumProducts - p : p \in S}
<1>1. T \in SUBSET Nat /\ T # {}
  <2>1. \A p \in S : NumProducts - p \in Nat
    BY ProductsAreNumbers
  <2> QED
    BY <2>1
<1>2. PICK t \in T : \A u \in T : t <= u
  BY <1>1, Least
<1>3. PICK p \in S : t = NumProducts - p
  BY <1>2
<1>4. \A q \in S : NumProducts - p <= NumProducts - q
  BY <1>2, <1>3
<1> QED
  BY <1>4, ProductsAreNumbers

LEMMA RankGrows ==
  ASSUME NEW S \in SUBSET Product, NEW p \in S, NEW q \in S, q <= p
  PROVE  Rank(S, q) \in Nat /\ Rank(S, p) \in Nat /\ Rank(S, q) <= Rank(S, p)
<1>1. \A s \in S : s < q => s < p
  BY ProductsAreNumbers
<1>2. IsFiniteSet({s \in S : s < p}) /\ IsFiniteSet({s \in S : s < q})
  BY ProductIsFinite
<1> QED
  BY <1>1, <1>2, FS_Subset, FS_CardinalityType DEF Rank

\* A page that leaves something out is full.
LEMMA FullPage ==
  ASSUME NEW S \in SUBSET Product, NEW p \in S, p \notin FirstPage(S, PageSize)
  PROVE  Cardinality(FirstPage(S, PageSize)) = PageSize
<1> DEFINE ids == FirstPage(S, PageSize)
           Beyond == {q \in S : ~ (Rank(S, q) < PageSize)}
<1>1. ids = {q \in S : Rank(S, q) < PageSize}
  BY DEF FirstPage, Rank
<1>2. PICK first \in Beyond : \A q \in Beyond : first <= q
  <2>1. Beyond # {} /\ Beyond \in SUBSET Nat
    BY <1>1, ProductsAreNumbers
  <2> HIDE DEF Beyond
  <2> QED
    BY <2>1, Least
<1>3. ids = {q \in S : q < first}
  <2>1. ASSUME NEW q \in S, q < first
        PROVE  q \in ids
    BY <1>1, <1>2, <2>1, ProductsAreNumbers
  <2>2. ASSUME NEW q \in ids
        PROVE  q < first
    <3>1. q \in S /\ first \in S /\ q \in Nat /\ first \in Nat
      BY <1>1, <1>2, <2>2, ProductsAreNumbers
    <3>2. ~ (first <= q)
      <4>1. Rank(S, q) < PageSize /\ ~ (Rank(S, first) < PageSize)
        BY <1>1, <1>2, <2>2
      <4> QED
        BY <3>1, <4>1, RankGrows, PageAssumption
    <3> QED
      BY <3>1, <3>2
  <2>3. ids \subseteq S
    BY <1>1
  <2> QED
    BY <2>1, <2>2, <2>3
<1>4. Cardinality(ids) \in Nat /\ Cardinality(ids) >= PageSize
  BY <1>2, <1>3, RankGrows, PageAssumption DEF Rank, Product
<1>5. ids # {} /\ ids \in SUBSET Product /\ IsFiniteSet(ids)
  BY <1>1, <1>4, FS_EmptySet, ProductIsFinite, PageAssumption
<1>6. PICK last \in ids : \A q \in ids : q <= last
  BY <1>5, Greatest
<1>7. ids \subseteq {q \in S : q < last} \union {last}
  BY <1>1, <1>5, <1>6, ProductsAreNumbers
<1>8. Cardinality(ids) <= PageSize
  <2> DEFINE below == {q \in S : q < last}
  <2>1. IsFiniteSet(below) /\ last \notin below
    BY <1>5, <1>6, ProductIsFinite, ProductsAreNumbers
  <2>2. IsFiniteSet(below \union {last}) /\ Cardinality(below \union {last}) = Cardinality(below) + 1
    BY <2>1, FS_AddElement
  <2>3. Cardinality(ids) <= Cardinality(below) + 1
    BY <1>7, <2>2, FS_Subset
  <2>4. Cardinality(below) < PageSize /\ Cardinality(below) \in Nat
    BY <1>1, <1>6, <2>1, FS_CardinalityType DEF Rank
  <2> QED
    BY <1>4, <2>3, <2>4, PageAssumption
<1> QED
  BY <1>4, <1>8, PageAssumption

\* The next page begins where this one ends: nothing is left out in between.
LEMMA PagesMeet ==
  ASSUME NEW S \in SUBSET Product, NEW ids, ids = FirstPage(S, PageSize)
  PROVE  /\ NextCursor(ids) \in 0..(NumProducts + 1)
         /\ NextCursor(ids) \in Product => NextCursor(ids) \in S
         /\ \A p \in S : p <= NextCursor(ids) => p \in ids
<1>1. ids \in SUBSET S /\ ids \in SUBSET Product /\ ids = {q \in S : Rank(S, q) < PageSize}
  BY DEF FirstPage, Rank
<1>2. CASE Cardinality(ids) # PageSize
  <2>1. NextCursor(ids) = NumProducts + 1
    BY <1>2 DEF NextCursor
  <2>2. \A p \in S : p \in ids
    BY <1>2, FullPage
  <2> QED
    BY <2>1, <2>2, PageAssumption DEF Product
<1>3. CASE Cardinality(ids) = PageSize
  <2>1. ids # {}
    BY <1>3, FS_EmptySet, PageAssumption
  <2>2. \E p \in ids : \A q \in ids : q <= p
    BY <1>1, <2>1, Greatest
  <2>3. NextCursor(ids) = CHOOSE p \in ids : \A q \in ids : q <= p
    BY <1>3 DEF NextCursor
  <2>4. NextCursor(ids) \in ids
    BY <2>2, <2>3
  <2>5. \A p \in S : p <= NextCursor(ids) => p \in ids
    BY <1>1, <2>4, RankGrows, PageAssumption
  <2> QED
    BY <1>1, <2>4, <2>5, PageAssumption DEF Product
<1> QED
  BY <1>2, <1>3

-----------------------------------------------------------------------------
(* The invariant.                                                          *)

Known ==
    /\ row \in [Product -> [ver : Nat, live : BOOLEAN]]
    /\ \A p \in Product : row[p].live => row[p].ver > 0
    /\ DOMAIN docs = Index /\ DOMAIN page = Process /\ DOMAIN cursor = Process
    /\ sum \in [Process -> [Product -> Int]]
    /\ \A c \in Process, p \in Product : sum[c][p] <= row[p].ver

\* The product is there as it was when the checksum was taken.
Unchanged(c, p) == row[p].live /\ sum[c][p] = row[p].ver

\* Index i has the product as Postgres has it, or had it before an outdated write.
Right(i, p) == docs[i][p] = RowDoc(p) \/ <<i, p>> \in tainted

CutShort(p) == \E q \in Product : q < p /\ Deleted(q)

\* Every such product is in the staging index, or still to come.
Made(c) ==
    pc[c] \in Rebuilding =>
        /\ staging[c] \in Physical
        /\ cursor[c] \in 0..(NumProducts + 1)
        /\ cursor[c] \in Product => row[cursor[c]].ver > 0
        /\ \A p \in Product : Unchanged(c, p) =>
               \/ Right(staging[c], p)
               \/ CutShort(p)
               \/ pc[c] \in {"read", "write"} /\ p > cursor[c]
               \/ pc[c] = "write" /\ page[c][p] # 0

RInv == Known /\ \A c \in Cli : Made(c)

LEMMA InitRInv == Init => RInv
<1> SUFFICES ASSUME Init
             PROVE  RInv
  OBVIOUS
<1>1. PICK present \in SUBSET Product :
         row = [p \in Product |-> [ver |-> IF p \in present THEN 1 ELSE 0,
                                   live |-> p \in present]]
  BY DEF Init
<1>2. /\ DOMAIN docs = Index
      /\ pc = [c \in Process |-> IF c \in Api THEN "boot" ELSE "off"]
      /\ sum = [c \in Process |-> NoSum]
      /\ cursor = [c \in Process |-> 0] /\ page = [c \in Process |-> NoDocs]
  BY DEF Init
<1>3. /\ row \in [Product -> [ver : Nat, live : BOOLEAN]]
      /\ \A p \in Product : row[p].live => row[p].ver > 0
      /\ \A p \in Product : row[p].ver >= 0
  <2>1. ASSUME NEW p \in Product
        PROVE  row[p] \in [ver : Nat, live : BOOLEAN] /\ row[p].ver >= 0
               /\ (row[p].live => row[p].ver > 0)
    <3>1. row[p] = [ver |-> IF p \in present THEN 1 ELSE 0, live |-> p \in present]
      BY <1>1
    <3>2. CASE p \in present
      BY <3>1, <3>2
    <3>3. CASE p \notin present
      <4>1. row[p].ver = 0 /\ row[p].live = FALSE
        <5>1. row[p] = [ver |-> 0, live |-> FALSE]
          <6>1. (p \in present) = FALSE
            BY <3>3
          <6> QED
            BY <3>1, <3>3, <6>1, Zenon
        <5> QED
          BY <5>1
      <4>2. row[p] \in [ver : Nat, live : BOOLEAN]
        BY <3>1, <3>3
      <4> QED
        BY <4>1, <4>2
    <3> QED
      BY <3>2, <3>3
  <2> QED
    BY <1>1, <2>1
<1>4. sum \in [Process -> [Product -> Int]] /\ \A c \in Process, p \in Product : sum[c][p] = -1
  BY <1>2 DEF NoSum
<1>5. Known
  BY <1>2, <1>3, <1>4 DEF Known
<1>6. \A c \in Cli : pc[c] \notin Rebuilding
  BY <1>2, CliIsProcess DEF Rebuilding
<1> QED
  BY <1>5, <1>6 DEF RInv, Made

-----------------------------------------------------------------------------
(* What is known.                                                          *)

\* A commit makes a row newer, and none brings a deleted one back.
RowsFollow ==
    \A p \in Product :
        \/ row'[p] = row[p]
        \/ row'[p].ver = row[p].ver + 1 /\ ~ Deleted(p)

LEMMA OnlyCommitsWriteRows ==
  ASSUME NEW c \in Process, Boot(c) \/ Projection(c) \/ Crash(c) \/ Launch(c) \/ Reindex(c),
         ~ \E p \in Product : RequestCommits(c, p)
  PROVE  row' = row
<1>1. Boot(c) \/ Crash(c) \/ Launch(c) => row' = row
  BY DEF Boot, EnsureChecks, EnsureDrops, EnsureCreates, EnsureAliases, EnsureFails,
         Crash, Forgets, Launch, database
<1>2. Projection(c) => row' = row
  BY DEF Projection, WorkerTakes, WorkerSkips, Send, SendFails, MirrorStarts, NoMirror,
         Mirror, Marks, database
<1>3. Reindex(c) => row' = row
  BY DEF Reindex, CountsRows, SumsRows, Skip, StartRebuild, StartRebuildFails, ReadPage,
         WritePage, StampStaging, CheckAlias, DropBare, Swap, SwapReplyLost, MovesAlias,
         RebuildFails, AbortRebuild, ListStale, DeleteStale, EndClean, Exit, Forgets, database
<1> QED
  BY <1>1, <1>2, <1>3

LEMMA RowsKnown ==
  ASSUME Known, [Next]_vars
  PROVE  /\ RowsFollow
         /\ row' \in [Product -> [ver : Nat, live : BOOLEAN]]
         /\ \A p \in Product : row'[p].live => row'[p].ver > 0
         /\ \A p \in Product : row[p].ver <= row'[p].ver
<1>1. CASE row' = row
  BY <1>1 DEF Known, RowsFollow
<1>2. ASSUME NEW c \in Process, NEW p \in Product, RequestCommits(c, p)
      PROVE  /\ RowsFollow
             /\ row' \in [Product -> [ver : Nat, live : BOOLEAN]]
             /\ \A q \in Product : row'[q].live => row'[q].ver > 0
             /\ \A q \in Product : row[q].ver <= row'[q].ver
  <2>1. PICK live \in BOOLEAN :
           /\ row[p].live \/ (live /\ row[p].ver = 0)
           /\ row' = [row EXCEPT ![p] = [ver |-> row[p].ver + 1, live |-> live]]
    BY <1>2 DEF RequestCommits
  <2>2. ~ Deleted(p) /\ row[p].ver \in Nat
    BY <2>1 DEF Deleted, Known
  <2>3. /\ row'[p] = [ver |-> row[p].ver + 1, live |-> live]
        /\ \A q \in Product \ {p} : row'[q] = row[q]
    BY <2>1 DEF Known
  <2> QED
    BY <2>1, <2>2, <2>3 DEF Known, RowsFollow
<1>3. CASE UNCHANGED vars
  BY <1>1, <1>3 DEF vars, database
<1> QED
  BY <1>1, <1>2, <1>3, OnlyCommitsWriteRows, CliIsProcess DEF Next

\* The other variables, as far as an action may write them.
Writes(c) ==
    /\ DOMAIN docs' = DOMAIN docs
    /\ DOMAIN page' = DOMAIN page
    /\ DOMAIN cursor' = DOMAIN cursor
    /\ \/ sum' = sum
       \/ sum' = [sum EXCEPT ![c] = Checksum]
       \/ sum' = [sum EXCEPT ![c] = NoSum]

LEMMA StepsWrite ==
  ASSUME NEW c \in Process, Boot(c) \/ Projection(c) \/ Crash(c) \/ Launch(c) \/ Reindex(c)
  PROVE  Writes(c)
<1>1. Boot(c) \/ Launch(c) => Writes(c)
  BY DEF Writes, Boot, EnsureChecks, EnsureDrops, EnsureCreates, EnsureAliases, EnsureFails,
         Launch, DeletesIndex, CreatesIndex, cluster, manager
<1>2. Crash(c) \/ Exit(c) => Writes(c)
  BY DEF Writes, Crash, Exit, Forgets, cluster
<1>3. Projection(c) => Writes(c)
  BY DEF Writes, Projection, RequestCommits, WorkerTakes, WorkerSkips, Send, SendFails,
         MirrorStarts, NoMirror, Mirror, WritesDocs, cluster, rebuild
<1>4. ASSUME Reindex(c), ~ Exit(c)
      PROVE  Writes(c)
  <2>1. CASE \/ CountsRows(c) \/ SumsRows(c) \/ Skip(c) \/ StartRebuild(c) \/ StartRebuildFails(c)
             \/ ReadPage(c) \/ WritePage(c) \/ StampStaging(c)
    BY <2>1 DEF Writes, CountsRows, SumsRows, Skip, StartRebuild, StartRebuildFails, ReadPage,
           WritePage, StampStaging, CreatesIndex, WritesDocs, cluster, manager
  <2>2. CASE \/ CheckAlias(c) \/ DropBare(c) \/ Swap(c) \/ SwapReplyLost(c) \/ RebuildFails(c)
             \/ AbortRebuild(c) \/ ListStale(c) \/ DeleteStale(c) \/ EndClean(c)
    BY <2>2 DEF Writes, CheckAlias, DropBare, Swap, SwapReplyLost, MovesAlias, RebuildFails,
           AbortRebuild, ListStale, DeleteStale, EndClean, DeletesIndex, cluster, manager
  <2> QED
    BY <1>4, <2>1, <2>2 DEF Reindex
<1> QED
  BY <1>1, <1>2, <1>3, <1>4

LEMMA KnownKeeps ==
  ASSUME Known, [Next]_vars
  PROVE  Known'
<1>1. /\ row' \in [Product -> [ver : Nat, live : BOOLEAN]]
      /\ \A p \in Product : row'[p].live => row'[p].ver > 0
      /\ \A p \in Product : row[p].ver <= row'[p].ver /\ row[p].ver \in Nat /\ row'[p].ver \in Nat
  BY RowsKnown DEF Known
<1>2. ASSUME NEW c \in Process, Writes(c)
      PROVE  Known'
  <2>1. Checksum \in [Product -> Int] /\ NoSum \in [Product -> Int]
        /\ \A p \in Product : Checksum[p] <= row[p].ver /\ NoSum[p] <= row[p].ver
    BY <1>1 DEF Checksum, NoSum, RowDoc, Known
  <2>2. sum' \in [Process -> [Product -> Int]]
    BY <1>2, <2>1 DEF Writes, Known
  <2>3. \A d \in Process, p \in Product : sum'[d][p] <= row[p].ver
    BY <1>2, <2>1 DEF Writes, Known
  <2>4. ASSUME NEW d \in Process, NEW p \in Product
        PROVE  sum'[d][p] <= row'[p].ver
    <3>1. sum'[d][p] \in Int
      BY <2>2
    <3> QED
      BY <1>1, <2>3, <3>1
  <2> QED
    BY <1>1, <1>2, <2>2, <2>4 DEF Writes, Known
<1>3. CASE UNCHANGED vars
  BY <1>3 DEF vars, database, cluster, rebuild, Known
<1> QED
  BY <1>2, <1>3, StepsWrite, CliIsProcess DEF Next

-----------------------------------------------------------------------------
(* The documents.                                                          *)

\* An index that is right about a row that stays is still right.
StaysRight(i) ==
    \A p \in Product : row'[p] = row[p] /\ Right(i, p) => Right(i, p)'

LEMMA LeftAlone ==
  ASSUME NEW i, docs' = docs, tainted' = tainted
  PROVE  StaysRight(i)
  BY DEF StaysRight, Right, RowDoc

LEMMA WritesAreRight ==
  ASSUME Known, NEW i \in Index, NEW j, NEW puts, WritesDocs(j, puts), row' = row
  PROVE  /\ StaysRight(i)
         /\ i = j => \A p \in Product : p \in DOMAIN puts => Right(i, p)'
<1>1. \A p : RowDoc(p)' = RowDoc(p)
  BY DEF RowDoc
<1>2. CASE i # j
  <2>1. docs'[i] = docs[i] /\ \A p : <<i, p>> \in tainted => <<i, p>> \in tainted'
    BY <1>2 DEF WritesDocs, Known
  <2> QED
    BY <1>1, <1>2, <2>1 DEF StaysRight, Right
<1>3. CASE i = j
  <2>1. \A p \in Product : docs'[i][p] = IF p \in DOMAIN puts THEN puts[p] ELSE docs[i][p]
    BY <1>3 DEF WritesDocs, Known
  <2>2. /\ \A p : <<i, p>> \in tainted /\ p \notin DOMAIN puts => <<i, p>> \in tainted'
        /\ \A p : p \in DOMAIN puts /\ puts[p] # RowDoc(p) => <<i, p>> \in tainted'
    BY <1>3 DEF WritesDocs
  <2>3. \A p \in Product : p \in DOMAIN puts => Right(i, p)'
    BY <1>1, <2>1, <2>2 DEF Right
  <2>4. ASSUME NEW p \in Product, p \notin DOMAIN puts, Right(i, p)
        PROVE  Right(i, p)'
    BY <1>1, <2>1, <2>2, <2>4 DEF Right
  <2> QED
    BY <2>3, <2>4 DEF StaysRight
<1> QED
  BY <1>2, <1>3

LEMMA DeletesAreRight ==
  ASSUME Known, NEW i \in Index, NEW j, DeletesIndex(j), i # j, row' = row
  PROVE  StaysRight(i)
<1>1. docs'[i] = docs[i] /\ \A p : <<i, p>> \in tainted => <<i, p>> \in tainted'
  BY DEF DeletesIndex, Known
<1> QED
  BY <1>1 DEF StaysRight, Right, RowDoc

-----------------------------------------------------------------------------
(* The rebuild goes on, or another process takes a step.                   *)

GoesOn(c) ==
    /\ pc[c] \in Rebuilding
    /\ pc'[c] = pc[c] \/ pc[c] \in {"stamp", "check", "drop"}
    /\ staging'[c] = staging[c] /\ sum'[c] = sum[c]
    /\ cursor'[c] = cursor[c] /\ page'[c] = page[c]
    /\ staging[c] \in Physical => StaysRight(staging[c])

\* What was true of a product that is as it was when the checksum was taken.
LEMMA UnchangedStays ==
  ASSUME Known, RowsFollow, NEW c \in Process, sum'[c] = sum[c], NEW p \in Product,
         Unchanged(c, p)'
  PROVE  row'[p] = row[p] /\ Unchanged(c, p)
<1>1. sum[c][p] = row'[p].ver /\ row'[p].live
  BY DEF Unchanged
<1>2. row[p].ver \in Nat /\ sum[c][p] \in Int /\ sum[c][p] <= row[p].ver
  BY DEF Known
<1>3. row'[p] = row[p]
  BY <1>1, <1>2 DEF RowsFollow
<1> QED
  BY <1>1, <1>3 DEF Unchanged

LEMMA DeletedStays ==
  ASSUME RowsFollow, NEW p \in Product, CutShort(p)
  PROVE  CutShort(p)'
  BY DEF RowsFollow, CutShort, Deleted

LEMMA OldRowsStay ==
  ASSUME Known, RowsFollow, NEW p \in Product, row[p].ver > 0
  PROVE  row'[p].ver > 0
  BY DEF Known, RowsFollow

LEMMA MadeStays ==
  ASSUME RInv, RowsFollow, NEW c \in Cli, pc'[c] \in Rebuilding => GoesOn(c)
  PROVE  Made(c)'
<1> SUFFICES ASSUME pc'[c] \in Rebuilding
             PROVE  Made(c)'
  BY DEF Made
<1>1. GoesOn(c) /\ Made(c) /\ c \in Process
  BY CliIsProcess DEF RInv
<1>2. /\ staging[c] \in Physical /\ staging'[c] = staging[c] /\ cursor'[c] = cursor[c]
      /\ cursor[c] \in 0..(NumProducts + 1)
      /\ page'[c] = page[c] /\ sum'[c] = sum[c] /\ StaysRight(staging[c])
  BY <1>1 DEF GoesOn, Made
<1>3. cursor'[c] \in Product => row'[cursor'[c]].ver > 0
  BY <1>1, <1>2, OldRowsStay DEF GoesOn, Made, RInv
<1>4. ASSUME NEW p \in Product, Unchanged(c, p)'
      PROVE  \/ Right(staging[c], p)'
             \/ CutShort(p)'
             \/ pc'[c] \in {"read", "write"} /\ p > cursor'[c]
             \/ pc'[c] = "write" /\ page'[c][p] # 0
  <2>1. row'[p] = row[p] /\ Unchanged(c, p)
    BY <1>1, <1>2, <1>4, UnchangedStays DEF RInv
  <2>2. CASE Right(staging[c], p)
    BY <1>2, <2>1, <2>2 DEF StaysRight, Right
  <2>3. CASE CutShort(p)
    BY <2>3, DeletedStays
  <2>4. CASE pc[c] \in {"read", "write"} /\ p > cursor[c]
    BY <1>1, <1>2, <2>4 DEF GoesOn
  <2>5. CASE pc[c] = "write" /\ page[c][p] # 0
    BY <1>1, <1>2, <2>5 DEF GoesOn
  <2> QED
    BY <1>1, <2>1, <2>2, <2>3, <2>4, <2>5 DEF GoesOn, Made
<1> QED
  BY <1>2, <1>3, <1>4 DEF Made

\* A process that starts, ends, or projects a write.
LEMMA OthersGoOn ==
  ASSUME IInv, RInv, NEW c \in Cli, NEW d \in Process,
         Boot(d) \/ Projection(d) \/ Crash(d) \/ Exit(d),
         pc'[c] \in Rebuilding
  PROVE  GoesOn(c)
<1>1. /\ pc \in [Process -> Stage] /\ staging \in [Process -> Int] /\ c \in Process
      /\ DOMAIN cursor = Process /\ DOMAIN page = Process /\ DOMAIN sum = Process
  BY CliIsProcess DEF IInv, Shapes, RInv, Known
<1>2. CASE Boot(d)
  <2>1. UNCHANGED <<staging, sum, cursor, page, row>>
    BY <1>2 DEF Boot, EnsureChecks, EnsureDrops, EnsureCreates, EnsureAliases, EnsureFails,
                manager, database
  <2>2. \E label \in Stage \ Rebuilding : Goto(d, label)
    BY <1>2 DEF Boot, EnsureChecks, EnsureDrops, EnsureCreates, EnsureAliases, EnsureFails,
                Booted, Stage, Rebuilding
  <2>3. pc'[c] = pc[c]
    BY <1>1, <2>2 DEF Goto
  <2>4. \/ docs' = docs /\ tainted' = tainted
        \/ DeletesIndex(Bare)
    BY <1>2 DEF Boot, EnsureChecks, EnsureDrops, EnsureCreates, EnsureAliases, EnsureFails,
                CreatesIndex, cluster
  <2>5. staging[c] \in Physical => staging[c] \in Index /\ staging[c] # Bare
    BY BoundsAssumption DEF Physical, Index, Bare
  <2>6. staging[c] \in Physical => StaysRight(staging[c])
    BY <2>1, <2>4, <2>5, LeftAlone, DeletesAreRight DEF RInv
  <2> QED
    BY <2>1, <2>3, <2>6 DEF GoesOn
<1>3. CASE Projection(d)
  <2>1. UNCHANGED <<pc, staging, sum, cursor, page>>
    BY <1>3 DEF Projection, RequestCommits, WorkerTakes, WorkerSkips, Send, SendFails,
                MirrorStarts, NoMirror, Mirror, rebuild
  <2>2. \/ docs' = docs /\ tainted' = tainted
        \/ row' = row /\ \E j, puts : WritesDocs(j, puts)
    BY <1>3 DEF Projection, RequestCommits, WorkerTakes, WorkerSkips, Send, SendFails,
                MirrorStarts, NoMirror, Mirror, Marks, cluster, database
  <2>3. staging[c] \in Physical => StaysRight(staging[c])
    BY <2>2, LeftAlone, WritesAreRight DEF RInv, Index
  <2> QED
    BY <2>1, <2>3 DEF GoesOn
<1>4. CASE Crash(d) \/ Exit(d)
  <2>1. /\ pc' = [pc EXCEPT ![d] = "off"] \/ pc' = [pc EXCEPT ![d] = "boot"]
        /\ staging' = [staging EXCEPT ![d] = None] /\ sum' = [sum EXCEPT ![d] = NoSum]
        /\ cursor' = [cursor EXCEPT ![d] = 0] /\ page' = [page EXCEPT ![d] = NoDocs]
        /\ docs' = docs /\ tainted' = tainted
    BY <1>4 DEF Crash, Exit, Forgets, Goto, cluster
  <2>2. d # c
    BY <1>1, <2>1 DEF Rebuilding
  <2> QED
    BY <1>1, <2>1, <2>2, LeftAlone DEF GoesOn
<1> QED
  BY <1>2, <1>3, <1>4

-----------------------------------------------------------------------------
(* The reindex.                                                            *)

\* A new index has everything still to come.
LEMMA StartMakes ==
  ASSUME IInv, RInv, NEW c \in Cli, StartRebuild(c)
  PROVE  Made(c)'
<1>1. /\ staging' = [staging EXCEPT ![c] = next + 1] /\ next < MaxIndex
      /\ cursor' = [cursor EXCEPT ![c] = 0] /\ Goto(c, "read")
  BY DEF StartRebuild, CreatesIndex
<1>2. c \in Process /\ next \in Nat
  BY CliIsProcess DEF IInv, Shapes
<1>3. pc'[c] = "read" /\ staging'[c] = next + 1 /\ cursor'[c] = 0
  BY <1>1, <1>2 DEF IInv, Shapes, RInv, Known, Goto
<1>4. staging'[c] \in Physical /\ cursor'[c] \in 0..(NumProducts + 1)
      /\ cursor'[c] \notin Product /\ \A p \in Product : p > cursor'[c]
  BY <1>1, <1>2, <1>3, BoundsAssumption, PageAssumption DEF Physical, Product
<1> QED
  BY <1>3, <1>4 DEF Made

\* What the page leaves out is behind its end, or was cut off by a deletion.
LEMMA ReadMakes ==
  ASSUME IInv, RInv, NEW c \in Cli, ReadPage(c)
  PROVE  Made(c)'
<1> DEFINE at == cursor[c]
           S == {p \in Product : row[p].live /\ p > at}
<1>1. PICK ids \in PagesAfter(at) :
          /\ page' = [page EXCEPT ![c] = [p \in Product |-> IF p \in ids THEN RowDoc(p) ELSE 0]]
          /\ cursor' = [cursor EXCEPT ![c] = NextCursor(ids)]
  BY DEF ReadPage
<1>2. /\ pc[c] = "read" /\ c \in Process /\ Goto(c, "write")
      /\ row' = row /\ docs' = docs /\ tainted' = tainted
      /\ staging' = staging /\ sum' = sum
  BY CliIsProcess DEF ReadPage, database, cluster
<1>3. /\ pc'[c] = "write" /\ cursor'[c] = NextCursor(ids)
      /\ page'[c] = [p \in Product |-> IF p \in ids THEN RowDoc(p) ELSE 0]
  BY <1>1, <1>2 DEF IInv, Shapes, RInv, Known, Goto
<1>4. /\ staging[c] \in Physical /\ at \in 0..(NumProducts + 1)
      /\ at \in Product => row[at].ver > 0
      /\ \A p \in Product : Unchanged(c, p) =>
            Right(staging[c], p) \/ CutShort(p) \/ p > at
  BY <1>2 DEF RInv, Made, Rebuilding
<1>5. \/ ids = FirstPage(S, PageSize)
      \/ ids = {} /\ at \in Product /\ ~ row[at].live
  BY DEF PagesAfter
<1>6. /\ NextCursor(ids) \in 0..(NumProducts + 1)
      /\ NextCursor(ids) \in Product => row[NextCursor(ids)].ver > 0
      /\ \A p \in Product : row[p].live /\ p > at =>
            p \in ids \/ CutShort(p) \/ p > NextCursor(ids)
  <2>1. CASE ids = FirstPage(S, PageSize)
    <3>1. S \in SUBSET Product
      OBVIOUS
    <3> HIDE DEF S
    <3>2. /\ NextCursor(ids) \in 0..(NumProducts + 1)
          /\ NextCursor(ids) \in Product => NextCursor(ids) \in S
          /\ \A p \in S : p <= NextCursor(ids) => p \in ids
      BY <2>1, <3>1, PagesMeet
    <3>3. \A p \in S : row[p].ver > 0
      BY DEF S, RInv, Known
    <3>4. \A p \in Product : row[p].live /\ p > at => p \in S
      BY DEF S
    <3>5. \A p \in Product : p \in Nat
      BY DEF Product
    <3> QED
      BY <3>2, <3>3, <3>4, <3>5, PageAssumption
  <2>2. CASE ids = {} /\ at \in Product /\ ~ row[at].live
    <3>1. NextCursor(ids) = NumProducts + 1
      BY <2>2, FS_EmptySet, PageAssumption DEF NextCursor
    <3>2. \A p \in Product : p > at => CutShort(p)
      BY <1>4, <2>2 DEF CutShort, Deleted, Product
    <3> QED
      BY <3>1, <3>2, PageAssumption DEF Product
  <2> QED
    BY <1>5, <2>1, <2>2
<1> HIDE DEF at, S
<1>7. ASSUME NEW p \in Product, Unchanged(c, p)'
      PROVE  \/ Right(staging[c], p)'
             \/ CutShort(p)'
             \/ p > cursor'[c]
             \/ page'[c][p] # 0
  <2>1. Unchanged(c, p) /\ row[p].live
    BY <1>2, <1>7 DEF Unchanged
  <2>2. CASE p > at
    <3>1. p \in ids => page'[c][p] = row[p].ver /\ row[p].ver > 0
      BY <1>3, <2>1 DEF RowDoc, RInv, Known
    <3> QED
      BY <1>2, <1>3, <1>6, <2>1, <2>2, <3>1 DEF CutShort, Deleted, RInv, Known
  <2>3. CASE Right(staging[c], p) \/ CutShort(p)
    BY <1>2, <2>3 DEF Right, RowDoc, CutShort, Deleted
  <2> QED
    BY <1>4, <2>1, <2>2, <2>3
<1> QED
  BY <1>2, <1>3, <1>4, <1>6, <1>7 DEF Made

\* What is written is right, or was outdated by a commit since it was read.
LEMMA WriteMakes ==
  ASSUME IInv, RInv, NEW c \in Cli, WritePage(c)
  PROVE  Made(c)'
<1> DEFINE ids == {p \in Product : page[c][p] # 0}
           puts == [p \in ids |-> page[c][p]]
<1>1. /\ pc[c] = "write" /\ c \in Process
      /\ row' = row /\ staging' = staging /\ sum' = sum /\ cursor' = cursor
      /\ Goto(c, IF cursor[c] > NumProducts THEN "stamp" ELSE "read")
      /\ \/ WritesDocs(staging[c], puts)
         \/ ids = {} /\ docs' = docs /\ tainted' = tainted
  BY CliIsProcess DEF WritePage, database, cluster
<1>2. pc'[c] = IF cursor[c] > NumProducts THEN "stamp" ELSE "read"
  BY <1>1 DEF IInv, Shapes, Goto
<1>3. /\ staging[c] \in Physical /\ cursor[c] \in 0..(NumProducts + 1)
      /\ cursor[c] \in Product => row[cursor[c]].ver > 0
      /\ \A p \in Product : Unchanged(c, p) =>
            \/ Right(staging[c], p) \/ CutShort(p) \/ p > cursor[c] \/ page[c][p] # 0
  BY <1>1 DEF RInv, Made, Rebuilding
<1>4. /\ StaysRight(staging[c])
      /\ \A p \in Product : page[c][p] # 0 => Right(staging[c], p)'
  <2>1. CASE WritesDocs(staging[c], puts)
    <3>1. DOMAIN puts = ids
      OBVIOUS
    <3> HIDE DEF puts
    <3> QED
      BY <1>1, <1>3, <2>1, <3>1, WritesAreRight DEF RInv, Index
  <2>2. CASE ids = {} /\ docs' = docs /\ tainted' = tainted
    BY <2>2, LeftAlone
  <2> QED
    BY <1>1, <2>1, <2>2
<1>5. ASSUME NEW p \in Product, Unchanged(c, p)'
      PROVE  Right(staging[c], p)' \/ CutShort(p)' \/ (p > cursor[c] /\ pc'[c] = "read")
  <2>1. Unchanged(c, p)
    BY <1>1, <1>5 DEF Unchanged
  <2>2. Right(staging[c], p) => Right(staging[c], p)'
    BY <1>1, <1>4 DEF StaysRight, Right, RowDoc
  <2>3. CutShort(p) => CutShort(p)'
    BY <1>1 DEF CutShort, Deleted
  <2>4. p > cursor[c] => pc'[c] = "read"
    BY <1>2, <1>3, PageAssumption DEF Product
  <2> QED
    BY <1>3, <1>4, <2>1, <2>2, <2>3, <2>4
<1> QED
  BY <1>1, <1>2, <1>3, <1>5 DEF Made

\* The steps that end a rebuild, or go on with it past its pages.
LEMMA FinishMakes ==
  ASSUME IInv, RInv, RowsFollow, NEW c \in Cli, Launch(c) \/ Reindex(c), ~ Exit(c),
         ~ StartRebuild(c), ~ ReadPage(c), ~ WritePage(c)
  PROVE  Made(c)'
<1>1. c \in Process /\ pc \in [Process -> Stage]
  BY CliIsProcess DEF IInv, Shapes
<1>2. CASE StampStaging(c) \/ CheckAlias(c) \/ DropBare(c)
  <2>1. /\ pc[c] \in {"stamp", "check", "drop"}
        /\ UNCHANGED <<row, staging, sum, cursor, page>>
    BY <1>2 DEF StampStaging, CheckAlias, DropBare, manager, database
  <2>2. (docs' = docs /\ tainted' = tainted) \/ DeletesIndex(Bare)
    BY <1>2 DEF StampStaging, CheckAlias, DropBare, cluster
  <2>3. staging[c] \in Physical => staging[c] \in Index /\ staging[c] # Bare
    BY BoundsAssumption DEF Physical, Index, Bare
  <2>4. staging[c] \in Physical => StaysRight(staging[c])
    BY <2>1, <2>2, <2>3, LeftAlone, DeletesAreRight DEF RInv
  <2>5. GoesOn(c)
    BY <2>1, <2>4 DEF GoesOn, Rebuilding
  <2> QED
    BY <2>5, MadeStays
<1>3. CASE \/ Launch(c) \/ CountsRows(c) \/ SumsRows(c) \/ Skip(c) \/ StartRebuildFails(c)
           \/ Swap(c) \/ SwapReplyLost(c) \/ RebuildFails(c) \/ AbortRebuild(c)
           \/ ListStale(c) \/ EndClean(c)
  <2>1. \E label \in {"boot", "sum", "decide", "exit", "abort", "list", "clean"} : Goto(c, label)
    BY <1>3 DEF Launch, CountsRows, SumsRows, Skip, StartRebuildFails, Swap, SwapReplyLost,
                RebuildFails, AbortRebuild, ListStale, EndClean
  <2>2. pc'[c] \notin Rebuilding
    BY <1>1, <2>1 DEF Goto, Rebuilding
  <2> QED
    BY <2>2 DEF Made
<1>4. CASE DeleteStale(c)
  <2>1. pc'[c] = "clean"
    BY <1>4 DEF DeleteStale
  <2> QED
    BY <2>1 DEF Made, Rebuilding
<1> QED
  BY <1>2, <1>3, <1>4 DEF Reindex

-----------------------------------------------------------------------------
(* Together.                                                               *)

LEMMA NextRInv ==
  ASSUME OneCli, IInv, RInv, [Next]_vars
  PROVE  RInv'
<1>1. Known' /\ RowsFollow
  BY KnownKeeps, RowsKnown DEF RInv
<1>2. ASSUME NEW c \in Cli
      PROVE  Made(c)'
  <2>1. CASE \E d \in Process : Boot(d) \/ Projection(d) \/ Crash(d) \/ Exit(d)
    BY <1>1, <2>1, OthersGoOn, MadeStays
  <2>2. ASSUME NEW d \in Cli, Launch(d) \/ Reindex(d), ~ Exit(d)
        PROVE  Made(c)'
    <3>1. d = c
      BY DEF OneCli
    <3> QED
      BY <1>1, <2>2, <3>1, StartMakes, ReadMakes, WriteMakes, FinishMakes
  <2>3. CASE UNCHANGED vars
    <3>1. UNCHANGED <<pc, staging, sum, cursor, page, docs, tainted>>
      BY <2>3 DEF vars, cluster, rebuild
    <3>2. pc'[c] \in Rebuilding => GoesOn(c)
      BY <3>1, LeftAlone DEF GoesOn
    <3> QED
      BY <1>1, <3>2, MadeStays
  <2> QED
    BY <2>1, <2>2, <2>3, CliIsProcess DEF Next
<1> QED
  BY <1>1, <1>2 DEF RInv

LEMMA RebuildInvariant ==
  ASSUME OneCli
  PROVE  Spec => []RInv
<1>1. IInv /\ RInv /\ [Next]_vars => RInv'
  BY NextRInv
<1> QED
  BY <1>1, InitRInv, InductiveInvariant, PTL DEF Spec

\* When finishRebuild() moves the alias, every product that is as it was when the
\* checksum was taken is in the new index as Postgres has it, save where a
\* projection wrote an outdated version, or a deletion cut a page short.
THEOREM SwapsAreComplete ==
  ASSUME OneCli
  PROVE  Spec => SwapIsComplete
<1> DEFINE Complete(c) ==
             \A p \in Product :
                 row[p].live /\ sum[c][p] = row[p].ver =>
                     \/ docs[staging[c]][p] = row[p].ver
                     \/ <<staging[c], p>> \in tainted
                     \/ \E q \in Product : q < p /\ Deleted(q)
<1>1. ASSUME RInv, NEW c \in Cli, Swap(c)
      PROVE  Complete(c)
  <2>1. pc[c] = "swap" /\ Made(c)
    BY <1>1 DEF Swap, MovesAlias, RInv
  <2> QED
    BY <2>1 DEF Made, Rebuilding, Unchanged, Right, RowDoc, CutShort
<1>2. RInv => [\A c \in Cli : Swap(c) => Complete(c)]_vars
  BY <1>1
<1>3. Spec => [][\A c \in Cli : Swap(c) => Complete(c)]_vars
  BY <1>2, RebuildInvariant, PTL DEF Spec
<1> QED
  BY <1>3 DEF SwapIsComplete

-----------------------------------------------------------------------------
(* The types.                                                              *)

TypedRows ==
    /\ row \in [Product -> [ver : 0..(MaxCommits + 1), live : BOOLEAN]]
    /\ pending \subseteq [product : Product, ver : 1..(MaxCommits + 1), live : BOOLEAN]
    /\ commits \in 0..MaxCommits
    /\ \A p \in Product : row[p].ver <= commits + 1

TypedCluster ==
    /\ indices \subseteq Index /\ mapped \subseteq indices
    /\ alias \subseteq indices \ {Bare}
    /\ docs \in [Index -> [Product -> Nat]]
    /\ stamp \in [Index -> [Product -> Int]]
    /\ next \in 1..MaxIndex
    /\ tainted \subseteq Index \X Product

\* A page is written only by a process that has a staging index.
TypedRebuild ==
    /\ pc \in [Process -> Stage]
    /\ staging \in [Process -> Physical \union {None}]
    /\ \A c \in Process : pc[c] \in {"read", "write"} => staging[c] \in Physical
    /\ total \in [Process -> Nat]
    /\ sum \in [Process -> [Product -> Int]]
    /\ cursor \in [Process -> 0..(NumProducts + 1)]
    /\ page \in [Process -> [Product -> Nat]]
    /\ aliasSeen \in [Process -> BOOLEAN]
    /\ current \in [Process -> Physical \union {None}]
    /\ stale \in [Process -> SUBSET Physical]

\* A call is about a product, and the mirrored one goes to an index.
TypedTasks ==
    /\ tpc \in [Process -> {"idle", "send", "sent", "mirror"}]
    /\ task \in [Process -> [product : 0..NumProducts, put : Nat, entry : Nat]]
    /\ target \in [Process -> Physical \union {None}]
    /\ \A c \in Process : tpc[c] # "idle" => task[c].product \in Product
    /\ \A c \in Process : tpc[c] = "mirror" => target[c] \in Physical

TypedBounds == faults \in Nat /\ lost \in Nat /\ runs \in Nat

TInv == TypedRows /\ TypedCluster /\ TypedRebuild /\ TypedTasks /\ TypedBounds

LEMMA TypesFollow == TInv => TypeOK
BY BoundsAssumption DEF TInv, TypedRows, TypedCluster, TypedRebuild, TypedTasks, TypedBounds, TypeOK, Stage

\* What a row tells: a version, and a document for it.
LEMMA RowsAreTyped ==
  ASSUME TypedRows
  PROVE  /\ \A p \in Product : /\ row[p].ver \in Nat /\ row[p].live \in BOOLEAN
                               /\ RowDoc(p) \in Nat
         /\ Checksum \in [Product -> Int] /\ NoSum \in [Product -> Int]
         /\ NoDocs \in [Product -> Nat]
<1>1. \A p \in Product : row[p].ver \in Nat /\ row[p].live \in BOOLEAN
  BY BoundsAssumption DEF TypedRows
<1>2. \A p \in Product : RowDoc(p) \in Nat
  BY <1>1 DEF RowDoc
<1> QED
  BY <1>1, <1>2 DEF Checksum, NoSum, NoDocs

LEMMA InitTyped == Init => TInv
<1> SUFFICES ASSUME Init
             PROVE  TInv
  OBVIOUS
<1>1. PICK present \in SUBSET Product :
         row = [p \in Product |-> [ver |-> IF p \in present THEN 1 ELSE 0,
                                   live |-> p \in present]]
  BY DEF Init
<1>2. TypedRows
  <2>1. \A p \in Product : (p \in present) \in BOOLEAN
    OBVIOUS
  <2>2. \A p \in Product : /\ row[p] \in [ver : 0..(MaxCommits + 1), live : BOOLEAN]
                           /\ row[p].ver <= 1
    <3> SUFFICES ASSUME NEW p \in Product
                 PROVE  /\ row[p] \in [ver : 0..(MaxCommits + 1), live : BOOLEAN]
                        /\ row[p].ver <= 1
      OBVIOUS
    <3> DEFINE v == IF p \in present THEN 1 ELSE 0
               l == p \in present
    <3>1. row[p] = [ver |-> v, live |-> l]
      BY <1>1
    <3>2. v \in 0..(MaxCommits + 1) /\ v <= 1
      BY BoundsAssumption
    <3>3. l \in BOOLEAN
      OBVIOUS
    <3> HIDE DEF v, l
    <3>4. row[p].ver = v
      BY <3>1
    <3>5. row[p] \in [ver : 0..(MaxCommits + 1), live : BOOLEAN]
      BY <3>1, <3>2, <3>3
    <3> QED
      BY <3>2, <3>4, <3>5
  <2>3. row \in [Product -> [ver : 0..(MaxCommits + 1), live : BOOLEAN]]
    BY <1>1, <2>2
  <2>4. pending = {} /\ commits = 0
    BY DEF Init
  <2> QED
    BY <2>2, <2>3, <2>4, BoundsAssumption DEF TypedRows
<1>3. /\ Checksum \in [Product -> Int] /\ Checksum \in [Product -> Nat]
      /\ NoSum \in [Product -> Int] /\ NoDocs \in [Product -> Nat]
  BY <1>2, RowsAreTyped DEF Checksum
<1>4. TypedCluster
  <2>1. PICK start \in Starts :
        LET first == CASE start = "cold" -> {} [] start = "bare" -> {Bare}
                       [] start = "old" -> {0} [] start = "current" -> {1}
        IN  /\ indices = first /\ mapped = first \ {Bare} /\ alias = first \ {Bare}
            /\ docs = [i \in Index |-> IF i \in first THEN Checksum ELSE NoDocs]
            /\ stamp = [i \in Index |-> IF i \in first \ {Bare} THEN Checksum ELSE NoSum]
    BY DEF Init
  <2>2. PICK first :
            /\ first \in {{}, {Bare}, {0}, {1}}
            /\ indices = first /\ mapped = first \ {Bare} /\ alias = first \ {Bare}
            /\ docs = [i \in Index |-> IF i \in first THEN Checksum ELSE NoDocs]
            /\ stamp = [i \in Index |-> IF i \in first \ {Bare} THEN Checksum ELSE NoSum]
    BY <2>1, StartsAssumption
  <2>3. first \subseteq Index
    BY <2>2, BoundsAssumption DEF Index, Physical
  <2>4. next \in 1..MaxIndex /\ tainted = {}
    BY BoundsAssumption DEF Init
  <2> QED
    BY <1>3, <2>2, <2>3, <2>4 DEF TypedCluster
<1>5. TypedRebuild
  BY <1>3, PageAssumption DEF Init, TypedRebuild, Stage
<1>6. TypedTasks
  BY PageAssumption DEF Init, TypedTasks, NoTask
<1> QED
  BY <1>2, <1>4, <1>5, <1>6 DEF TInv, TypedBounds, Init

\* The table is written by requests, and each commits once.
LEMMA RowsStayTyped ==
  ASSUME TInv, [Next]_vars
  PROVE  TypedRows'
<1>1. ASSUME NEW c \in Process, NEW p \in Product, RequestCommits(c, p)
      PROVE  TypedRows'
  <2>1. PICK live \in BOOLEAN :
           /\ row' = [row EXCEPT ![p] = [ver |-> row[p].ver + 1, live |-> live]]
           /\ pending' = pending \union {[product |-> p, ver |-> row[p].ver + 1, live |-> live]}
    BY <1>1 DEF RequestCommits
  <2>2. commits < MaxCommits /\ commits' = commits + 1 /\ commits \in Nat /\ MaxCommits \in Nat
    BY <1>1, BoundsAssumption DEF RequestCommits, TInv, TypedRows
  <2>3. row[p].ver + 1 \in 1..(MaxCommits + 1) /\ row[p].ver + 1 <= commits' + 1
    BY <2>2 DEF TInv, TypedRows
  <2>4. row' \in [Product -> [ver : 0..(MaxCommits + 1), live : BOOLEAN]]
    BY <2>1, <2>3, BoundsAssumption DEF TInv, TypedRows
  <2>5. pending' \subseteq [product : Product, ver : 1..(MaxCommits + 1), live : BOOLEAN]
    BY <2>1, <2>3 DEF TInv, TypedRows
  <2>6. \A q \in Product : row'[q].ver <= commits' + 1
    BY <2>1, <2>2, <2>3 DEF TInv, TypedRows
  <2> QED
    BY <2>2, <2>4, <2>5, <2>6 DEF TypedRows
<1>2. ASSUME row' = row, pending' \subseteq pending, commits' = commits
      PROVE  TypedRows'
  BY <1>2 DEF TInv, TypedRows
<1>3. ASSUME NEW c \in Process,
             \/ Boot(c) \/ Projection(c) \/ Crash(c)
             \/ c \in Cli /\ (Launch(c) \/ Reindex(c)),
             ~ \E p \in Product : RequestCommits(c, p)
      PROVE  TypedRows'
  <2>1. row' = row
    BY <1>3, OnlyCommitsWriteRows
  <2>2. Boot(c) \/ Launch(c) \/ Crash(c) \/ Exit(c) => pending' = pending /\ commits' = commits
    BY DEF Boot, EnsureChecks, EnsureDrops, EnsureCreates, EnsureAliases, EnsureFails, SpendFault,
           Launch, Crash, Exit, Forgets, database, bounds
  <2>3. Projection(c) => pending' \subseteq pending /\ commits' = commits
    BY <1>3 DEF Projection, WorkerTakes, WorkerSkips, Send, SendFails, SpendFault, MirrorStarts,
           NoMirror, Mirror, Marks, database, bounds
  <2>4. ASSUME Reindex(c), ~ Exit(c)
        PROVE  pending' = pending /\ commits' = commits
    <3>1. CASE \/ CountsRows(c) \/ SumsRows(c) \/ Skip(c) \/ StartRebuild(c) \/ StartRebuildFails(c)
               \/ ReadPage(c) \/ WritePage(c) \/ StampStaging(c) \/ CheckAlias(c) \/ DropBare(c)
      BY <3>1 DEF CountsRows, SumsRows, Skip, StartRebuild, StartRebuildFails, ReadPage, WritePage,
             StampStaging, CheckAlias, DropBare, SpendFault, database, bounds
    <3>2. CASE \/ Swap(c) \/ SwapReplyLost(c) \/ RebuildFails(c) \/ AbortRebuild(c)
               \/ ListStale(c) \/ DeleteStale(c) \/ EndClean(c)
      BY <3>2 DEF Swap, SwapReplyLost, MovesAlias, RebuildFails, AbortRebuild, ListStale, DeleteStale,
             EndClean, SpendFault, database, bounds
    <3> QED
      BY <2>4, <3>1, <3>2 DEF Reindex
  <2> QED
    BY <1>2, <1>3, <2>1, <2>2, <2>3, <2>4
<1>4. CASE UNCHANGED vars
  BY <1>2, <1>4 DEF vars, database, bounds
<1> QED
  BY <1>1, <1>3, <1>4, CliIsProcess DEF Next

-----------------------------------------------------------------------------
(* What a step does to the cluster.                                        *)

\* Its effects on Elasticsearch, one call at a time.
Calls(c) ==
    \/ UNCHANGED <<cluster, tainted>>
    \/ CreatesIndex(next + 1) /\ UNCHANGED tainted
    \/ \E j : DeletesIndex(j)
    \/ \E j \in Index : \E puts :
           /\ WritesDocs(j, puts)
           /\ DOMAIN puts \subseteq Product /\ \A p \in DOMAIN puts : puts[p] \in Nat
    \/ /\ alias' \subseteq alias \union (indices \ {Bare})
       /\ UNCHANGED <<indices, mapped, docs, stamp, next, tainted>>
    \/ /\ stamp' = [stamp EXCEPT ![staging[c]] = sum[c]]
       /\ UNCHANGED <<indices, mapped, alias, docs, next, tainted>>
    \/ next < MaxIndex /\ next' = next + 1 /\ UNCHANGED <<indices, mapped, alias, docs, stamp, tainted>>

LEMMA CallsKeepTypes ==
  ASSUME TInv, NEW c \in Process, Calls(c)
  PROVE  TypedCluster'
<1>1. /\ Physical \subseteq Index /\ Bare \in Index /\ next \in Nat /\ MaxIndex \in Nat
      /\ next <= MaxIndex
      /\ sum[c] \in [Product -> Int]
      /\ NoSum \in [Product -> Int] /\ NoDocs \in [Product -> Nat]
  BY BoundsAssumption, RowsAreTyped DEF TInv, TypedCluster, TypedRebuild, Index
<1>2. CASE UNCHANGED <<cluster, tainted>>
  BY <1>2 DEF TInv, TypedCluster, cluster
<1>3. CASE CreatesIndex(next + 1) /\ UNCHANGED tainted
  <2>1. next + 1 \in 1..MaxIndex /\ next + 1 \in Physical
    BY <1>1, <1>3 DEF CreatesIndex, Physical
  <2> QED
    BY <1>1, <1>3, <2>1 DEF TInv, TypedCluster, CreatesIndex
<1>4. CASE \E j : DeletesIndex(j)
  <2>1. PICK j : DeletesIndex(j)
    BY <1>4
  <2>2. docs' \in [Index -> [Product -> Nat]]
    BY <1>1, <2>1 DEF DeletesIndex, TInv, TypedCluster
  <2>3. stamp' \in [Index -> [Product -> Int]]
    BY <1>1, <2>1 DEF DeletesIndex, TInv, TypedCluster
  <2>4. /\ indices' \subseteq Index /\ mapped' \subseteq indices'
        /\ alias' \subseteq indices' \ {Bare} /\ next' \in 1..MaxIndex
        /\ tainted' \subseteq Index \X Product
    BY <2>1 DEF DeletesIndex, TInv, TypedCluster
  <2> QED
    BY <2>2, <2>3, <2>4 DEF TypedCluster
<1>5. ASSUME NEW j \in Index, NEW puts, WritesDocs(j, puts), DOMAIN puts \subseteq Product,
             \A p \in DOMAIN puts : puts[p] \in Nat
      PROVE  TypedCluster'
  <2> DEFINE new == [p \in Product |-> IF p \in DOMAIN puts THEN puts[p] ELSE docs[j][p]]
  <2>1. new \in [Product -> Nat]
    BY <1>5 DEF TInv, TypedCluster
  <2>2. docs' = [docs EXCEPT ![j] = new]
    BY <1>5 DEF WritesDocs
  <2> HIDE DEF new
  <2>3. docs' \in [Index -> [Product -> Nat]]
    BY <2>1, <2>2 DEF TInv, TypedCluster
  <2>4. tainted' \subseteq Index \X Product
    <3>1. tainted' \subseteq tainted \union {<<j, p>> : p \in DOMAIN puts}
      BY <1>5 DEF WritesDocs
    <3> QED
      BY <1>5, <3>1 DEF TInv, TypedCluster
  <2> QED
    BY <1>5, <2>3, <2>4 DEF TInv, TypedCluster, WritesDocs
<1>6. CASE /\ alias' \subseteq alias \union (indices \ {Bare})
           /\ UNCHANGED <<indices, mapped, docs, stamp, next, tainted>>
  BY <1>6 DEF TInv, TypedCluster
<1>7. CASE /\ stamp' = [stamp EXCEPT ![staging[c]] = sum[c]]
           /\ UNCHANGED <<indices, mapped, alias, docs, next, tainted>>
  BY <1>1, <1>7 DEF TInv, TypedCluster
<1>8. CASE /\ next < MaxIndex /\ next' = next + 1
           /\ UNCHANGED <<indices, mapped, alias, docs, stamp, tainted>>
  BY <1>1, <1>8 DEF TInv, TypedCluster
<1> QED
  BY <1>2, <1>3, <1>4, <1>5, <1>6, <1>7, <1>8 DEF Calls

LEMMA StepsCall ==
  ASSUME TInv, NEW c \in Process,
         Boot(c) \/ Projection(c) \/ Crash(c) \/ (c \in Cli /\ (Launch(c) \/ Reindex(c)))
  PROVE  Calls(c)
<1>1. /\ Physical \subseteq Index /\ Bare \in Index /\ None \notin Index /\ Bare \notin Physical
      /\ alias \subseteq Index /\ indices \subseteq Index
  BY BoundsAssumption DEF TInv, TypedCluster, Index, Physical, None, Bare
<1>2. CASE Boot(c) \/ Launch(c) \/ Crash(c) \/ Exit(c)
  <2>1. EnsureAliases(c) => Calls(c)
    <3> SUFFICES ASSUME EnsureAliases(c)
                 PROVE  alias' \subseteq alias \union (indices \ {Bare})
      BY DEF EnsureAliases, Calls
    <3> QED
      BY <1>1 DEF EnsureAliases
  <2> QED
    BY <1>2, <2>1 DEF Calls, Boot, EnsureChecks, EnsureDrops, EnsureCreates, EnsureFails,
           Launch, Crash, Exit, Forgets
<1>3. CASE Projection(c)
  <2>1. CASE Send(c)
    <3> SUFFICES ASSUME WritesDocs(IF Resolved = {} THEN Bare ELSE CHOOSE i \in Resolved : TRUE,
                                   [p \in {task[c].product} |-> task[c].put]),
                        tpc[c] = "send"
                 PROVE  Calls(c)
      BY <2>1 DEF Send, Calls
    <3> DEFINE to == IF Resolved = {} THEN Bare ELSE CHOOSE i \in Resolved : TRUE
    <3>1. to \in Index
      BY <1>1 DEF Resolved
    <3>2. task[c].product \in Product /\ task[c].put \in Nat
      BY DEF TInv, TypedTasks
    <3> HIDE DEF to
    <3> QED
      BY <3>1, <3>2 DEF Calls, to
  <2>2. CASE Mirror(c)
    <3>1. target[c] \in Index /\ task[c].product \in Product /\ task[c].put \in Nat
      BY <1>1, <2>2 DEF Mirror, TInv, TypedTasks
    <3>2. WritesDocs(target[c], [p \in {task[c].product} |-> task[c].put])
      BY <2>2 DEF Mirror
    <3> QED
      BY <3>1, <3>2 DEF Calls
  <2> QED
    BY <1>3, <2>1, <2>2 DEF Calls, Projection, RequestCommits, WorkerTakes, WorkerSkips, SendFails,
           MirrorStarts, NoMirror
<1>4. CASE c \in Cli /\ Reindex(c) /\ ~ Exit(c)
  <2>1. CASE WritePage(c)
    <3>1. staging[c] \in Index /\ page[c] \in [Product -> Nat]
      BY <1>1, <2>1 DEF WritePage, TInv, TypedRebuild
    <3> DEFINE ids == {p \in Product : page[c][p] # 0}
    <3>2. \/ WritesDocs(staging[c], [p \in ids |-> page[c][p]])
          \/ UNCHANGED <<cluster, tainted>>
      BY <2>1 DEF WritePage
    <3> QED
      BY <3>1, <3>2 DEF Calls
  <2>2. CASE Swap(c) \/ SwapReplyLost(c)
    <3>1. staging[c] \in indices \ {Bare}
      BY <1>1, <2>2 DEF Swap, SwapReplyLost, MovesAlias, CanSwap, TInv, TypedRebuild
    <3> QED
      BY <2>2, <3>1 DEF Calls, Swap, SwapReplyLost, MovesAlias
  <2>3. CASE \/ CountsRows(c) \/ SumsRows(c) \/ Skip(c) \/ StartRebuild(c) \/ StartRebuildFails(c)
             \/ ReadPage(c) \/ StampStaging(c) \/ CheckAlias(c) \/ DropBare(c)
    BY <2>3 DEF Calls, CountsRows, SumsRows, Skip, StartRebuild, StartRebuildFails, ReadPage,
           StampStaging, CheckAlias, DropBare
  <2>4. CASE RebuildFails(c) \/ AbortRebuild(c) \/ ListStale(c) \/ DeleteStale(c) \/ EndClean(c)
    BY <2>4 DEF Calls, RebuildFails, AbortRebuild, ListStale, DeleteStale, EndClean
  <2> QED
    BY <1>4, <2>1, <2>2, <2>3, <2>4 DEF Reindex
<1> QED
  BY <1>2, <1>3, <1>4

-----------------------------------------------------------------------------
(* What a step does to the process that takes it.                          *)

\* Where the processes stand, and the staging indices they have for it.
Placed ==
    /\ pc \in [Process -> Stage]
    /\ staging \in [Process -> Physical \union {None}]
    /\ \A c \in Process : pc[c] \in {"read", "write"} => staging[c] \in Physical

LEMMA MovesPlace ==
  ASSUME Placed, NEW c \in Process, NEW label \in Stage, Goto(c, label),
         \/ staging' = staging
         \/ \E i \in Physical \union {None} : staging' = [staging EXCEPT ![c] = i],
         label \in {"read", "write"} => staging'[c] \in Physical
  PROVE  Placed'
<1>1. staging' \in [Process -> Physical \union {None}]
      /\ \A d \in Process \ {c} : staging'[d] = staging[d]
  BY DEF Placed
<1>2. pc' \in [Process -> Stage] /\ pc'[c] = label /\ \A d \in Process \ {c} : pc'[d] = pc[d]
  BY DEF Placed, Goto
<1> QED
  BY <1>1, <1>2 DEF Placed

\* The other variables of the index manager.
Noted ==
    /\ total \in [Process -> Nat]
    /\ sum \in [Process -> [Product -> Int]]
    /\ cursor \in [Process -> 0..(NumProducts + 1)]
    /\ page \in [Process -> [Product -> Nat]]
    /\ aliasSeen \in [Process -> BOOLEAN]
    /\ current \in [Process -> Physical \union {None}]
    /\ stale \in [Process -> SUBSET Physical]

LEMMA ReadsAreTyped ==
  ASSUME TInv, NEW c \in Process, ReadPage(c)
  PROVE  /\ page' \in [Process -> [Product -> Nat]]
         /\ cursor' \in [Process -> 0..(NumProducts + 1)]
<1>1. PICK ids \in PagesAfter(cursor[c]) :
           /\ page' = [page EXCEPT ![c] = [p \in Product |-> IF p \in ids THEN RowDoc(p) ELSE 0]]
           /\ cursor' = [cursor EXCEPT ![c] = NextCursor(ids)]
  BY DEF ReadPage
<1>2. NextCursor(ids) \in 0..(NumProducts + 1)
  <2> DEFINE S == {p \in Product : row[p].live /\ p > cursor[c]}
  <2>1. S \in SUBSET Product
    OBVIOUS
  <2>2. ids = FirstPage(S, PageSize) \/ ids = {}
    BY DEF PagesAfter
  <2>3. ids = FirstPage({}, PageSize) \/ ids = FirstPage(S, PageSize)
    BY <2>2 DEF FirstPage
  <2> HIDE DEF S
  <2> QED
    BY <2>1, <2>3, PagesMeet
<1>3. [p \in Product |-> IF p \in ids THEN RowDoc(p) ELSE 0] \in [Product -> Nat]
  BY RowsAreTyped DEF TInv
<1> QED
  BY <1>1, <1>2, <1>3 DEF TInv, TypedRebuild

LEMMA BootIsTyped ==
  ASSUME TInv, NEW c \in Process, Boot(c) \/ Launch(c) \/ Crash(c) \/ Exit(c)
  PROVE  TypedRebuild'
<1>1. Placed /\ Noted
  BY DEF TInv, TypedRebuild, Placed, Noted
<1>2. CASE Boot(c) \/ Launch(c)
  <2>1. \E label \in Stage \ {"read", "write"} : Goto(c, label)
    BY <1>2 DEF Boot, EnsureChecks, EnsureDrops, EnsureCreates, EnsureAliases, EnsureFails,
                Booted, Launch, Stage
  <2>2. UNCHANGED <<staging, total, sum, cursor, page, aliasSeen, stale>>
    BY <1>2 DEF Boot, EnsureChecks, EnsureDrops, EnsureCreates, EnsureAliases, EnsureFails,
                Launch, manager
  <2>3. Placed'
    BY <1>1, <2>1, <2>2, MovesPlace
  <2>4. EnsureCreates(c) => next + 1 \in Physical
    BY BoundsAssumption DEF EnsureCreates, CreatesIndex, Physical, TInv, TypedCluster
  <2>5. \/ current' = current \/ current' = [current EXCEPT ![c] = None]
        \/ next + 1 \in Physical /\ current' = [current EXCEPT ![c] = next + 1]
    BY <1>2, <2>4 DEF Boot, EnsureChecks, EnsureDrops, EnsureCreates, EnsureAliases, EnsureFails,
                      Launch
  <2>6. current' \in [Process -> Physical \union {None}]
    BY <1>1, <2>5 DEF Noted
  <2> QED
    BY <1>1, <2>2, <2>3, <2>6 DEF TypedRebuild, Placed, Noted
<1>3. CASE Crash(c) \/ Exit(c)
  <2>1. PICK label \in {"off", "boot"} : Forgets(c, label)
    BY <1>3 DEF Crash, Exit
  <2>2. Placed'
    BY <1>1, <2>1, MovesPlace DEF Forgets, Stage
  <2>3. NoSum \in [Product -> Int] /\ NoDocs \in [Product -> Nat] /\ 0 \in 0..(NumProducts + 1)
    BY RowsAreTyped, PageAssumption DEF TInv
  <2>4. Noted'
    BY <1>1, <2>1, <2>3 DEF Noted, Forgets
  <2> QED
    BY <2>2, <2>4 DEF TypedRebuild, Placed, Noted
<1> QED
  BY <1>2, <1>3

LEMMA ReindexIsTyped ==
  ASSUME TInv, NEW c \in Process, Reindex(c), ~ Exit(c)
  PROVE  TypedRebuild'
<1>1. /\ Placed /\ Noted /\ NoDocs \in [Product -> Nat] /\ Checksum \in [Product -> Int]
      /\ 0 \in 0..(NumProducts + 1)
  BY RowsAreTyped, PageAssumption DEF TInv, TypedRebuild, Placed, Noted
<1>2. CASE StartRebuild(c) \/ StartRebuildFails(c)
  <2>1. next + 1 \in Physical
    BY <1>2, BoundsAssumption DEF StartRebuild, StartRebuildFails, CreatesIndex, Physical,
                                  TInv, TypedCluster
  <2>2. staging' = [staging EXCEPT ![c] = next + 1] /\ \E label \in Stage : Goto(c, label)
    BY <1>2 DEF StartRebuild, StartRebuildFails, Stage
  <2>3. Placed'
    <3>1. staging'[c] \in Physical
      BY <1>1, <2>1, <2>2 DEF Placed
    <3> QED
      BY <1>1, <2>1, <2>2, <3>1, MovesPlace
  <2>4. Noted'
    BY <1>1, <1>2 DEF StartRebuild, StartRebuildFails, Noted
  <2> QED
    BY <2>3, <2>4 DEF TypedRebuild, Placed, Noted
<1>3. CASE ReadPage(c) \/ WritePage(c)
  <2>1. staging[c] \in Physical /\ staging' = staging
    BY <1>1, <1>3 DEF ReadPage, WritePage, Placed
  <2>2. \E label \in Stage : Goto(c, label)
    BY <1>3 DEF ReadPage, WritePage, Stage
  <2>3. Placed'
    BY <1>1, <2>1, <2>2, MovesPlace
  <2>4. Noted'
    <3>1. /\ page' \in [Process -> [Product -> Nat]]
          /\ cursor' \in [Process -> 0..(NumProducts + 1)]
      BY <1>1, <1>3, ReadsAreTyped DEF WritePage, Noted
    <3> QED
      BY <1>1, <1>3, <3>1 DEF ReadPage, WritePage, Noted
  <2> QED
    BY <2>3, <2>4 DEF TypedRebuild, Placed, Noted
<1>4. CASE \/ CountsRows(c) \/ SumsRows(c) \/ Skip(c) \/ StampStaging(c) \/ CheckAlias(c)
           \/ DropBare(c) \/ Swap(c) \/ SwapReplyLost(c) \/ RebuildFails(c) \/ AbortRebuild(c)
           \/ ListStale(c) \/ EndClean(c)
  <2>1. \E label \in Stage \ {"read", "write"} : Goto(c, label)
    BY <1>4 DEF CountsRows, SumsRows, Skip, StampStaging, CheckAlias, DropBare, Swap,
                SwapReplyLost, RebuildFails, AbortRebuild, ListStale, EndClean, Stage
  <2>2. staging' = staging \/ staging' = [staging EXCEPT ![c] = None]
    BY <1>4 DEF CountsRows, SumsRows, Skip, StampStaging, CheckAlias, DropBare, Swap,
                SwapReplyLost, RebuildFails, AbortRebuild, ListStale, EndClean, manager
  <2>3. Placed'
    BY <1>1, <2>1, <2>2, MovesPlace
  <2>4. Noted'
    <3>1. CASE CountsRows(c)
      <4>1. Cardinality({p \in Product : row[p].live}) \in Nat
        BY ProductIsFinite
      <4> QED
        BY <1>1, <3>1, <4>1 DEF CountsRows, Noted
    <3>2. CASE SumsRows(c)
      BY <1>1, <3>2 DEF SumsRows, Noted
    <3>3. CASE CheckAlias(c)
      BY <1>1, <3>3 DEF CheckAlias, Noted
    <3>4. CASE Swap(c) \/ SwapReplyLost(c)
      BY <1>1, <3>4 DEF Swap, SwapReplyLost, MovesAlias, Noted, Placed
    <3>5. CASE RebuildFails(c)
      BY <1>1, <3>5 DEF RebuildFails, Noted
    <3>6. CASE ListStale(c)
      BY <1>1, <3>6 DEF ListStale, Noted
    <3>7. CASE Skip(c) \/ StampStaging(c) \/ DropBare(c) \/ AbortRebuild(c) \/ EndClean(c)
      BY <1>1, <3>7 DEF Skip, StampStaging, DropBare, AbortRebuild, EndClean, manager, Noted
    <3> QED
      BY <1>4, <3>1, <3>2, <3>3, <3>4, <3>5, <3>6, <3>7
  <2> QED
    BY <2>3, <2>4 DEF TypedRebuild, Placed, Noted
<1>5. CASE DeleteStale(c)
  BY <1>1, <1>5 DEF DeleteStale, TypedRebuild, Placed, Noted
<1> QED
  BY <1>2, <1>3, <1>4, <1>5 DEF Reindex

\* A projection under way.
LEMMA ProjectionIsTyped ==
  ASSUME TInv, NEW c \in Process, Projection(c)
  PROVE  TypedTasks'
<1>1. TypedTasks /\ NoTask \in [product : 0..NumProducts, put : Nat, entry : Nat]
      /\ Product \subseteq 0..NumProducts
  BY PageAssumption DEF TInv, NoTask, Product
<1>2. ASSUME NEW t \in [product : Product, put : Nat, entry : Nat],
             task' = [task EXCEPT ![c] = t], tpc' = [tpc EXCEPT ![c] = "send"], target' = target
      PROVE  TypedTasks'
  <2>1. t \in [product : 0..NumProducts, put : Nat, entry : Nat] /\ t.product \in Product
    BY <1>1
  <2> QED
    BY <1>1, <1>2, <2>1 DEF TypedTasks
<1>3. ASSUME NEW p \in Product, RequestCommits(c, p)
      PROVE  TypedTasks'
  <2>1. PICK live \in BOOLEAN :
          task' = [task EXCEPT ![c] = [product |-> p, entry |-> 0,
                                       put |-> IF live THEN row[p].ver + 1 ELSE 0]]
    BY <1>3 DEF RequestCommits
  <2>2. (IF live THEN row[p].ver + 1 ELSE 0) \in Nat
    BY RowsAreTyped DEF TInv
  <2> QED
    BY <1>2, <1>3, <2>1, <2>2 DEF RequestCommits
<1>4. ASSUME NEW e \in pending, WorkerTakes(c, e) \/ WorkerSkips(c, e)
      PROVE  TypedTasks'
  <2>1. /\ e.product \in Product /\ e.ver \in Nat /\ RowDoc(e.product) \in Nat
    BY RowsAreTyped, BoundsAssumption DEF TInv, TypedRows
  <2>2. WorkerTakes(c, e) => TypedTasks'
    BY <1>2, <2>1 DEF WorkerTakes
  <2> QED
    BY <1>1, <1>4, <2>2 DEF WorkerSkips, tasks, TypedTasks
<1>5. CASE Send(c)
  BY <1>1, <1>5 DEF Send, TypedTasks
<1>6. CASE MirrorStarts(c)
  <2>1. staging[c] \in Physical /\ tpc[c] # "idle"
    BY <1>6 DEF MirrorStarts, TInv, TypedRebuild
  <2> QED
    BY <1>1, <1>6, <2>1 DEF MirrorStarts, TypedTasks
<1>7. CASE SendFails(c) \/ NoMirror(c) \/ Mirror(c)
  <2>1. Ends(c)
    BY <1>7 DEF SendFails, NoMirror, Mirror
  <2> QED
    BY <1>1, <2>1 DEF Ends, TypedTasks
<1> QED
  BY <1>3, <1>4, <1>5, <1>6, <1>7 DEF Projection

LEMMA TasksStayTyped ==
  ASSUME TInv, NEW c \in Process,
         \/ Boot(c) \/ Projection(c) \/ Crash(c)
         \/ c \in Cli /\ (Launch(c) \/ Reindex(c))
  PROVE  TypedTasks'
<1>1. CASE Projection(c)
  BY <1>1, ProjectionIsTyped
<1>2. CASE Crash(c) \/ Exit(c)
  <2>1. /\ tpc' = [tpc EXCEPT ![c] = "idle"] /\ task' = [task EXCEPT ![c] = NoTask]
        /\ target' = [target EXCEPT ![c] = None]
    BY <1>2 DEF Crash, Exit, Forgets
  <2>2. NoTask \in [product : 0..NumProducts, put : Nat, entry : Nat]
    BY PageAssumption DEF NoTask
  <2> QED
    BY <2>1, <2>2 DEF TInv, TypedTasks
<1>3. CASE Boot(c) \/ Launch(c)
  <2>1. UNCHANGED tasks
    BY <1>3 DEF Boot, EnsureChecks, EnsureDrops, EnsureCreates, EnsureAliases, EnsureFails, Launch
  <2> QED
    BY <2>1 DEF TInv, TypedTasks, tasks
<1>4. CASE Reindex(c) /\ ~ Exit(c)
  <2>1. CASE \/ CountsRows(c) \/ SumsRows(c) \/ Skip(c) \/ StartRebuild(c) \/ StartRebuildFails(c)
             \/ ReadPage(c) \/ WritePage(c) \/ StampStaging(c) \/ CheckAlias(c) \/ DropBare(c)
    BY <2>1 DEF TInv, TypedTasks, CountsRows, SumsRows, Skip, StartRebuild, StartRebuildFails,
                ReadPage, WritePage, StampStaging, CheckAlias, DropBare, tasks
  <2>2. CASE \/ Swap(c) \/ SwapReplyLost(c) \/ RebuildFails(c) \/ AbortRebuild(c)
             \/ ListStale(c) \/ DeleteStale(c) \/ EndClean(c)
    BY <2>2 DEF TInv, TypedTasks, Swap, SwapReplyLost, MovesAlias, RebuildFails, AbortRebuild,
                ListStale, DeleteStale, EndClean, tasks
  <2> QED
    BY <1>4, <2>1, <2>2 DEF Reindex
<1> QED
  BY <1>1, <1>2, <1>3, <1>4

LEMMA BoundsStayTyped ==
  ASSUME TInv, NEW c \in Process,
         \/ Boot(c) \/ Projection(c) \/ Crash(c)
         \/ c \in Cli /\ (Launch(c) \/ Reindex(c))
  PROVE  TypedBounds'
<1> DEFINE Adds == /\ faults' \in {faults, faults + 1} /\ lost' \in {lost, lost + 1}
                   /\ runs' \in {runs, runs + 1}
<1>1. Adds => TypedBounds'
  BY DEF TInv, TypedBounds
<1>2. Boot(c) \/ Launch(c) \/ Crash(c) \/ Exit(c) => Adds
  BY DEF Boot, EnsureChecks, EnsureDrops, EnsureCreates, EnsureAliases, EnsureFails, Launch,
         Crash, Exit, SpendFault, bounds
<1>3. Projection(c) => Adds
  BY DEF Projection, RequestCommits, WorkerTakes, WorkerSkips, Send, SendFails, MirrorStarts,
         NoMirror, Mirror, SpendFault, bounds
<1>4. ASSUME Reindex(c), ~ Exit(c)
      PROVE  Adds
  <2>1. CASE \/ CountsRows(c) \/ SumsRows(c) \/ Skip(c) \/ StartRebuild(c) \/ StartRebuildFails(c)
             \/ ReadPage(c) \/ WritePage(c) \/ StampStaging(c) \/ CheckAlias(c) \/ DropBare(c)
    BY <2>1 DEF CountsRows, SumsRows, Skip, StartRebuild, StartRebuildFails, ReadPage, WritePage,
                StampStaging, CheckAlias, DropBare, SpendFault, bounds
  <2>2. CASE \/ Swap(c) \/ SwapReplyLost(c) \/ RebuildFails(c) \/ AbortRebuild(c)
             \/ ListStale(c) \/ DeleteStale(c) \/ EndClean(c)
    BY <2>2 DEF Swap, SwapReplyLost, RebuildFails, AbortRebuild, ListStale, DeleteStale, EndClean,
                SpendFault, bounds
  <2> QED
    BY <1>4, <2>1, <2>2 DEF Reindex
<1> QED
  BY <1>1, <1>2, <1>3, <1>4

LEMMA NextTyped ==
  ASSUME TInv, [Next]_vars
  PROVE  TInv'
<1>1. ASSUME NEW c \in Process,
             \/ Boot(c) \/ Projection(c) \/ Crash(c)
             \/ c \in Cli /\ (Launch(c) \/ Reindex(c))
      PROVE  TInv'
  <2>1. TypedRows' /\ TypedCluster' /\ TypedTasks' /\ TypedBounds'
    BY <1>1, RowsStayTyped, StepsCall, CallsKeepTypes, TasksStayTyped, BoundsStayTyped
  <2>2. ASSUME Projection(c)
        PROVE  TypedRebuild'
    <3>1. UNCHANGED rebuild
      BY <2>2 DEF Projection, RequestCommits, WorkerTakes, WorkerSkips, Send, SendFails,
                  MirrorStarts, NoMirror, Mirror
    <3> QED
      BY <3>1 DEF rebuild, TInv, TypedRebuild
  <2> QED
    BY <1>1, <2>1, <2>2, BootIsTyped, ReindexIsTyped DEF TInv
<1>2. CASE UNCHANGED vars
  BY <1>2 DEF vars, database, cluster, rebuild, tasks, bounds, TInv, TypedRows, TypedCluster,
              TypedRebuild, TypedTasks, TypedBounds
<1> QED
  BY <1>1, <1>2, CliIsProcess DEF Next

\* The types of the model, for any cluster the system may start from, however many
\* processes reindex at once.  A rebuild and a mirrored call know their index: had
\* one of them written with none, an index by no name would have come to life.
THEOREM LifecycleTypeCorrect == Spec => []TypeOK
<1> QED
  BY InitTyped, NextTyped, TypesFollow, PTL DEF Spec

-----------------------------------------------------------------------------
(* The pages come to an end.                                               *)

\* Another page is read only while there is something after the last one.
MoreToRead == \A c \in Process : pc[c] = "read" => cursor[c] <= NumProducts

LEMMA NextMoreToRead ==
  ASSUME TInv, MoreToRead, [Next]_vars
  PROVE  MoreToRead'
<1>1. pc \in [Process -> Stage] /\ cursor \in [Process -> 0..(NumProducts + 1)]
  BY DEF TInv, TypedRebuild
<1>2. ASSUME NEW c \in Process, NEW label, label # "read", Goto(c, label),
             \A d \in Process \ {c} : cursor'[d] = cursor[d]
      PROVE  MoreToRead'
  <2>1. pc'[c] = label /\ \A d \in Process \ {c} : pc'[d] = pc[d]
    BY <1>1, <1>2 DEF Goto
  <2> QED
    BY <1>2, <2>1 DEF MoreToRead
<1>3. ASSUME UNCHANGED <<pc, cursor>>
      PROVE  MoreToRead'
  BY <1>3 DEF MoreToRead
<1>4. ASSUME NEW c \in Process, Boot(c) \/ Projection(c) \/ Crash(c) \/ Launch(c) \/ Exit(c)
      PROVE  MoreToRead'
  <2>1. CASE Projection(c)
    <3>1. UNCHANGED <<pc, cursor>>
      BY <2>1 DEF Projection, RequestCommits, WorkerTakes, WorkerSkips, Send, SendFails,
                  MirrorStarts, NoMirror, Mirror, rebuild
    <3> QED
      BY <1>3, <3>1
  <2>2. CASE Boot(c) \/ Launch(c)
    <3>1. cursor' = cursor /\ \E label \in Stage \ {"read"} : Goto(c, label)
      BY <2>2 DEF Boot, EnsureChecks, EnsureDrops, EnsureCreates, EnsureAliases, EnsureFails,
                  Booted, Launch, manager, Stage
    <3> QED
      BY <1>2, <3>1
  <2>3. CASE Crash(c) \/ Exit(c)
    <3>1. /\ cursor' = [cursor EXCEPT ![c] = 0]
          /\ \E label \in {"off", "boot"} : Goto(c, label)
      BY <2>3 DEF Crash, Exit, Forgets
    <3> QED
      BY <1>1, <1>2, <3>1
  <2> QED
    BY <1>4, <2>1, <2>2, <2>3
<1>5. ASSUME NEW c \in Cli, Reindex(c), ~ Exit(c)
      PROVE  MoreToRead'
  <2>1. c \in Process
    BY CliIsProcess
  <2>2. CASE StartRebuild(c)
    <3>1. cursor' = [cursor EXCEPT ![c] = 0] /\ pc' = [pc EXCEPT ![c] = "read"]
      BY <2>2 DEF StartRebuild, Goto
    <3> QED
      BY <1>1, <2>1, <3>1, PageAssumption DEF MoreToRead
  <2>3. CASE WritePage(c)
    <3>1. /\ cursor' = cursor
          /\ pc' = [pc EXCEPT ![c] = IF cursor[c] > NumProducts THEN "stamp" ELSE "read"]
      BY <2>3 DEF WritePage, Goto
    <3>2. cursor[c] > NumProducts \/ cursor[c] <= NumProducts
      BY <1>1, <2>1, PageAssumption
    <3> QED
      BY <1>1, <2>1, <3>1, <3>2 DEF MoreToRead
  <2>4. CASE ReadPage(c)
    <3>1. (\A d \in Process \ {c} : cursor'[d] = cursor[d]) /\ Goto(c, "write")
      BY <1>1, <2>4 DEF ReadPage
    <3> QED
      BY <1>2, <2>1, <3>1
  <2>5. CASE \/ CountsRows(c) \/ SumsRows(c) \/ Skip(c) \/ StartRebuildFails(c) \/ StampStaging(c)
             \/ CheckAlias(c) \/ DropBare(c) \/ Swap(c) \/ SwapReplyLost(c) \/ RebuildFails(c)
             \/ AbortRebuild(c) \/ ListStale(c) \/ EndClean(c)
    <3>1. cursor' = cursor
      BY <2>5 DEF CountsRows, SumsRows, Skip, StartRebuildFails, StampStaging, CheckAlias, DropBare,
                  Swap, SwapReplyLost, MovesAlias, RebuildFails, AbortRebuild, ListStale, EndClean,
                  manager
    <3>2. \E label \in Stage \ {"read"} : Goto(c, label)
      BY <2>5 DEF CountsRows, SumsRows, Skip, StartRebuildFails, StampStaging, CheckAlias, DropBare,
                  Swap, SwapReplyLost, RebuildFails, AbortRebuild, ListStale, EndClean, Stage
    <3> QED
      BY <1>2, <2>1, <3>1, <3>2
  <2>6. CASE DeleteStale(c)
    BY <1>3, <2>6 DEF DeleteStale
  <2> QED
    BY <1>5, <2>2, <2>3, <2>4, <2>5, <2>6 DEF Reindex
<1>6. CASE UNCHANGED vars
  BY <1>3, <1>6 DEF vars, rebuild
<1> QED
  BY <1>4, <1>5, <1>6, CliIsProcess DEF Next

\* Each page that the reindex reads leads beyond the one before, whatever is deleted
\* meanwhile, so that its loop over findBatch() ends after as many pages as there are
\* products and one.
THEOREM PagesAdvance ==
  Spec => [][\A c \in Cli : ReadPage(c) => cursor[c] < cursor'[c]]_vars
<1>1. ASSUME TInv, MoreToRead, NEW c \in Cli, ReadPage(c)
      PROVE  cursor[c] < cursor'[c]
  <2>1. PICK ids \in PagesAfter(cursor[c]) :
             cursor' = [cursor EXCEPT ![c] = NextCursor(ids)]
    BY <1>1 DEF ReadPage
  <2>2. c \in Process /\ cursor[c] \in 0..(NumProducts + 1) /\ cursor[c] <= NumProducts
        /\ cursor'[c] = NextCursor(ids)
    BY <1>1, <2>1, CliIsProcess DEF ReadPage, MoreToRead, TInv, TypedRebuild
  <2>3. ids \subseteq {p \in Product : p > cursor[c]}
    BY DEF PagesAfter, FirstPage
  <2>4. CASE Cardinality(ids) # PageSize
    BY <2>2, <2>4, PageAssumption DEF NextCursor
  <2>5. CASE Cardinality(ids) = PageSize
    <3>1. ids # {}
      BY <2>5, FS_EmptySet, PageAssumption
    <3>2. \E p \in ids : \A q \in ids : q <= p
      BY <2>3, <3>1, Greatest
    <3>3. NextCursor(ids) \in ids
      BY <2>5, <3>2 DEF NextCursor
    <3> QED
      BY <2>2, <2>3, <3>3, ProductsAreNumbers
  <2> QED
    BY <2>4, <2>5
<1>2. TInv /\ MoreToRead => [\A c \in Cli : ReadPage(c) => cursor[c] < cursor'[c]]_vars
  BY <1>1
<1>3. Init => MoreToRead
  BY DEF Init, MoreToRead
<1> QED
  BY <1>2, <1>3, InitTyped, NextTyped, NextMoreToRead, PTL DEF Spec

-----------------------------------------------------------------------------
(* What a stamp vouches for.                                               *)

\* A product that is as the stamp of an index has it.
Stamped(i, p) == row[p].live /\ stamp[i][p] = row[p].ver

\* A stamp is as old as the checksum it was made from, and the index that has it
\* has every product that did not change since.
Vouched ==
    /\ stamp \in [Index -> [Product -> Int]]
    /\ \A i \in Index, p \in Product : stamp[i][p] <= row[p].ver
    /\ \A i \in Index, p \in Product : Stamped(i, p) => Right(i, p) \/ CutShort(p)

LEMMA InitVouched == Init => Vouched
<1> SUFFICES ASSUME Init
             PROVE  Vouched
  OBVIOUS
<1>1. Known
  BY InitRInv DEF RInv
<1>2. PICK first :
         /\ docs = [i \in Index |-> IF i \in first THEN Checksum ELSE NoDocs]
         /\ stamp = [i \in Index |-> IF i \in first \ {Bare} THEN Checksum ELSE NoSum]
  BY DEF Init
<1>3. /\ Checksum \in [Product -> Int] /\ NoSum \in [Product -> Int]
      /\ \A p \in Product : Checksum[p] = RowDoc(p) /\ NoSum[p] = -1
      /\ \A p \in Product : RowDoc(p) <= row[p].ver /\ -1 < row[p].ver
  BY <1>1 DEF Known, Checksum, NoSum, RowDoc
<1>4. stamp \in [Index -> [Product -> Int]]
  BY <1>2, <1>3
<1>5. \A i \in Index, p \in Product : stamp[i][p] <= row[p].ver
  BY <1>1, <1>2, <1>3 DEF Known
<1>6. ASSUME NEW i \in Index, NEW p \in Product, Stamped(i, p)
      PROVE  Right(i, p)
  <2>1. stamp[i][p] # -1
    BY <1>1, <1>6 DEF Stamped, Known
  <2>2. i \in first
    BY <1>2, <1>3, <2>1
  <2> QED
    BY <1>2, <1>3, <2>2 DEF Right
<1> QED
  BY <1>4, <1>5, <1>6 DEF Vouched

\* The stamps and the documents, as far as a step may write them.
Vouches(c) ==
    \/ UNCHANGED <<docs, stamp, tainted>>
    \/ row' = row /\ \E j : DeletesIndex(j)
    \/ row' = row /\ \E j, puts : WritesDocs(j, puts)
    \/ c \in Cli /\ StampStaging(c)

LEMMA StepsVouch ==
  ASSUME NEW c \in Process,
         Boot(c) \/ Projection(c) \/ Crash(c) \/ (c \in Cli /\ (Launch(c) \/ Reindex(c)))
  PROVE  Vouches(c)
<1>1. Boot(c) \/ Launch(c) \/ Crash(c) \/ Exit(c) => Vouches(c)
  BY DEF Vouches, Boot, EnsureChecks, EnsureDrops, EnsureCreates, EnsureAliases, EnsureFails,
         Launch, Crash, Exit, Forgets, CreatesIndex, cluster, database
<1>2. Projection(c) => Vouches(c)
  BY DEF Vouches, Projection, RequestCommits, WorkerTakes, WorkerSkips, Send, SendFails,
         MirrorStarts, NoMirror, Mirror, Marks, cluster, database
<1>3. ASSUME c \in Cli, Reindex(c), ~ Exit(c)
      PROVE  Vouches(c)
  <2>1. CASE \/ CountsRows(c) \/ SumsRows(c) \/ Skip(c) \/ StartRebuild(c) \/ StartRebuildFails(c)
             \/ ReadPage(c) \/ WritePage(c) \/ StampStaging(c)
    BY <1>3, <2>1 DEF Vouches, CountsRows, SumsRows, Skip, StartRebuild, StartRebuildFails, ReadPage,
           WritePage, CreatesIndex, cluster, database
  <2>2. CASE \/ CheckAlias(c) \/ DropBare(c) \/ Swap(c) \/ SwapReplyLost(c) \/ RebuildFails(c)
             \/ ListStale(c) \/ DeleteStale(c) \/ EndClean(c)
    BY <2>2 DEF Vouches, CheckAlias, DropBare, Swap, SwapReplyLost, MovesAlias, RebuildFails,
           ListStale, DeleteStale, EndClean, cluster, database
  <2>3. CASE AbortRebuild(c)
    <3>1. row' = row /\ (DeletesIndex(staging[c]) \/ UNCHANGED <<docs, stamp, tainted>>)
      BY <2>3 DEF AbortRebuild, database, cluster
    <3> QED
      BY <3>1 DEF Vouches
  <2> QED
    BY <1>3, <2>1, <2>2, <2>3 DEF Reindex
<1> QED
  BY <1>1, <1>2, <1>3

LEMMA VouchedKeeps ==
  ASSUME RInv, RowsFollow, Known', Vouched, NEW c \in Process, Vouches(c)
  PROVE  Vouched'
<1>1. /\ \A p \in Product : row[p].ver \in Nat /\ row'[p].ver \in Nat /\ row[p].ver <= row'[p].ver
      /\ \A i \in Index, p \in Product : stamp[i][p] \in Int
      /\ NoSum \in [Product -> Int] /\ \A p \in Product : NoSum[p] = -1
  BY DEF RInv, Known, RowsFollow, Vouched, NoSum
<1>2. CASE UNCHANGED <<docs, stamp, tainted>>
  <2>1. ASSUME NEW i \in Index, NEW p \in Product
        PROVE  stamp'[i][p] <= row'[p].ver
    BY <1>1, <1>2 DEF Vouched
  <2>2. ASSUME NEW i \in Index, NEW p \in Product, Stamped(i, p)'
        PROVE  Right(i, p)' \/ CutShort(p)'
    <3>1. row'[p] = row[p]
      BY <1>1, <1>2, <2>2 DEF Vouched, Stamped, RowsFollow
    <3>2. Stamped(i, p)
      BY <1>2, <2>2, <3>1 DEF Stamped
    <3>3. Right(i, p) => Right(i, p)'
      BY <1>2, <3>1, LeftAlone DEF StaysRight
    <3> QED
      BY <3>2, <3>3, DeletedStays DEF Vouched
  <2> QED
    BY <1>2, <2>1, <2>2 DEF Vouched
<1>3. CASE row' = row /\ \E j : DeletesIndex(j)
  <2>1. PICK j : DeletesIndex(j)
    BY <1>3
  <2>2. stamp' \in [Index -> [Product -> Int]]
        /\ \A i \in Index : stamp'[i] = IF i = j THEN NoSum ELSE stamp[i]
    BY <1>1, <2>1 DEF DeletesIndex, Vouched
  <2>3. ASSUME NEW i \in Index, NEW p \in Product
        PROVE  /\ stamp'[i][p] <= row'[p].ver
               /\ Stamped(i, p)' => Right(i, p)' \/ CutShort(p)'
    <3>1. CASE i = j
      BY <1>1, <2>2, <3>1 DEF Stamped
    <3>2. CASE i # j
      <4>1. Right(i, p) => Right(i, p)'
        BY <1>3, <2>1, <3>2, DeletesAreRight DEF StaysRight, RInv
      <4>2. (Stamped(i, p)' => Stamped(i, p)) /\ stamp'[i] = stamp[i]
        BY <1>3, <2>2, <3>2 DEF Stamped
      <4> QED
        BY <1>3, <4>1, <4>2, DeletedStays DEF Vouched
    <3> QED
      BY <3>1, <3>2
  <2> QED
    BY <2>2, <2>3 DEF Vouched
<1>4. CASE row' = row /\ \E j, puts : WritesDocs(j, puts)
  <2>1. stamp' = stamp
    BY <1>4 DEF WritesDocs
  <2>2. ASSUME NEW i \in Index, NEW p \in Product, Stamped(i, p)'
        PROVE  Right(i, p)' \/ CutShort(p)'
    <3>1. Stamped(i, p)
      BY <1>4, <2>1, <2>2 DEF Stamped
    <3>2. Right(i, p) => Right(i, p)'
      BY <1>4, WritesAreRight DEF StaysRight, RInv
    <3> QED
      BY <3>1, <3>2, DeletedStays DEF Vouched
  <2> QED
    BY <1>4, <2>1, <2>2 DEF Vouched
<1>5. CASE c \in Cli /\ StampStaging(c)
  <2>1. /\ pc[c] = "stamp" /\ UNCHANGED <<row, docs, tainted>>
        /\ stamp' = [stamp EXCEPT ![staging[c]] = sum[c]]
    BY <1>5 DEF StampStaging, database
  <2>2. sum[c] \in [Product -> Int] /\ \A p \in Product : sum[c][p] <= row[p].ver
    BY DEF RInv, Known
  <2>3. stamp' \in [Index -> [Product -> Int]]
        /\ \A i \in Index : stamp'[i] = IF i = staging[c] THEN sum[c] ELSE stamp[i]
    BY <2>1, <2>2 DEF Vouched
  <2>4. ASSUME NEW i \in Index, NEW p \in Product
        PROVE  /\ stamp'[i][p] <= row'[p].ver
               /\ Stamped(i, p)' => Right(i, p)' \/ CutShort(p)'
    <3>1. Right(i, p) => Right(i, p)'
      BY <2>1, LeftAlone DEF StaysRight
    <3>2. CASE i = staging[c]
      <4>1. Stamped(i, p)' => Unchanged(c, p)
        BY <2>1, <2>3, <3>2 DEF Stamped, Unchanged
      <4>2. Unchanged(c, p) => Right(i, p) \/ CutShort(p)
        BY <1>5, <2>1, <3>2 DEF RInv, Made, Rebuilding
      <4> QED
        BY <2>1, <2>2, <2>3, <3>1, <3>2, <4>1, <4>2, DeletedStays
    <3>3. CASE i # staging[c]
      <4>1. (Stamped(i, p)' => Stamped(i, p)) /\ stamp'[i] = stamp[i]
        BY <2>1, <2>3, <3>3 DEF Stamped
      <4> QED
        BY <2>1, <3>1, <4>1, DeletedStays DEF Vouched
    <3> QED
      BY <3>2, <3>3
  <2> QED
    BY <2>3, <2>4 DEF Vouched
<1> QED
  BY <1>2, <1>3, <1>4, <1>5 DEF Vouches

LEMMA StampsAreVouched ==
  ASSUME OneCli
  PROVE  Spec => []Vouched
<1>1. ASSUME RInv, RInv', Vouched, [Next]_vars
      PROVE  Vouched'
  <2>1. RowsFollow /\ Known'
    BY <1>1, RowsKnown DEF RInv
  <2>2. CASE UNCHANGED vars
    <3>1. UNCHANGED <<row, docs, stamp, tainted>>
      BY <2>2 DEF vars, database, cluster
    <3>2. ASSUME NEW i \in Index, NEW p \in Product, Stamped(i, p)'
          PROVE  Right(i, p)' \/ CutShort(p)'
      <4>1. Right(i, p) \/ CutShort(p)
        BY <1>1, <3>1, <3>2 DEF Vouched, Stamped
      <4> QED
        BY <2>1, <3>1, <4>1, LeftAlone, DeletedStays DEF StaysRight
    <3> QED
      BY <1>1, <3>1, <3>2 DEF Vouched
  <2>3. ASSUME NEW c \in Process, Vouches(c)
        PROVE  Vouched'
    BY <1>1, <2>1, <2>3, VouchedKeeps
  <2> QED
    BY <1>1, <2>2, <2>3, StepsVouch, CliIsProcess DEF Next
<1> QED
  BY <1>1, InitVouched, RebuildInvariant, PTL DEF Spec

\* A reindex that skips finds every product that is as it was when it took the
\* checksum in an index behind the alias, wherever the cluster started from and
\* whatever failed: the stamp was made from a checksum that a whole rebuild followed.
THEOREM SkipsMissNothing ==
  ASSUME OneCli
  PROVE  Spec => [][\A c \in Cli : Skip(c) =>
             \A p \in Product :
                 row[p].live /\ sum[c][p] = row[p].ver =>
                     \/ row[p].ver \in Shown(p)
                     \/ \E i \in alias : <<i, p>> \in tainted
                     \/ \E q \in Product : q < p /\ Deleted(q)]_vars
<1> DEFINE Finds(c) ==
             \A p \in Product :
                 row[p].live /\ sum[c][p] = row[p].ver =>
                     \/ row[p].ver \in Shown(p)
                     \/ \E i \in alias : <<i, p>> \in tainted
                     \/ \E q \in Product : q < p /\ Deleted(q)
<1>1. ASSUME TypeOK, RInv, Vouched, NEW c \in Cli, Skip(c)
      PROVE  Finds(c)
  <2>1. PICK i \in alias : stamp[i] = sum[c]
    BY <1>1 DEF Skip, InSync
  <2>2. i \in Index
    BY <1>1 DEF TypeOK
  <2>3. ASSUME NEW p \in Product, row[p].live, sum[c][p] = row[p].ver
        PROVE  \/ row[p].ver \in Shown(p)
               \/ <<i, p>> \in tainted
               \/ \E q \in Product : q < p /\ Deleted(q)
    <3>1. Right(i, p) \/ CutShort(p)
      BY <1>1, <2>1, <2>2, <2>3 DEF Vouched, Stamped
    <3>2. row[p].ver # 0
      BY <1>1, <2>3 DEF Known, RInv
    <3> QED
      BY <2>3, <3>1, <3>2 DEF Right, RowDoc, CutShort, Shown
  <2> QED
    BY <2>1, <2>3
<1>2. TypeOK /\ RInv /\ Vouched => [\A c \in Cli : Skip(c) => Finds(c)]_vars
  BY <1>1
<1>3. Spec => [][\A c \in Cli : Skip(c) => Finds(c)]_vars
  BY <1>2, LifecycleTypeCorrect, RebuildInvariant, StampsAreVouched, PTL DEF Spec
<1> QED
  BY <1>3

\* And where the cluster had its alias from the start, that is what a search shows
\* of it, and nothing older: the alias leads to a single index.
THEOREM SkipsAreSound ==
  ASSUME OneCli, MaxLost = 0, Starts \subseteq {"old", "current"}
  PROVE  Spec => SkipIsSound
<1> DEFINE Shows(c) ==
             \A p \in Product :
                 row[p].live /\ sum[c][p] = row[p].ver =>
                     \/ Shown(p) = {row[p].ver}
                     \/ \E i \in alias : <<i, p>> \in tainted
                     \/ \E q \in Product : q < p /\ Deleted(q)
<1>1. ASSUME Warm, TypeOK, RInv, Vouched, NEW c \in Cli, Skip(c)
      PROVE  Shows(c)
  <2>1. PICK i \in alias : stamp[i] = sum[c]
    BY <1>1 DEF Skip, InSync
  <2>2. i \in Index /\ alias = {i}
    BY <1>1 DEF TypeOK, Warm
  <2>3. ASSUME NEW p \in Product, row[p].live, sum[c][p] = row[p].ver
        PROVE  \/ Shown(p) = {row[p].ver}
               \/ <<i, p>> \in tainted
               \/ \E q \in Product : q < p /\ Deleted(q)
    <3>1. Right(i, p) \/ CutShort(p)
      BY <1>1, <2>1, <2>2, <2>3 DEF Vouched, Stamped
    <3>2. row[p].ver # 0
      BY <1>1, <2>3 DEF Known, RInv
    <3>3. Shown(p) = {docs[i][p]} \ {0}
      BY <2>2 DEF Shown
    <3> QED
      BY <2>3, <3>1, <3>2, <3>3 DEF Right, RowDoc, CutShort
  <2> QED
    BY <2>1, <2>3
<1>2. Warm /\ TypeOK /\ RInv /\ Vouched => [\A c \in Cli : Skip(c) => Shows(c)]_vars
  BY <1>1
<1>3. IInv /\ Warm /\ [Next]_vars => Warm'
  BY NextWarm
<1>4. Init => Warm
  BY InitWarm
<1>5. Spec => [][\A c \in Cli : Skip(c) => Shows(c)]_vars
  BY <1>2, <1>3, <1>4, InductiveInvariant, LifecycleTypeCorrect, RebuildInvariant,
     StampsAreVouched, PTL DEF Spec
<1> QED
  BY <1>5 DEF SkipIsSound

=============================================================================
