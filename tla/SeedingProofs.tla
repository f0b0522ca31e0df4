---------------------------- MODULE SeedingProofs ----------------------------
(***************************************************************************)
(* For any containers, products, cities, batches and chunks: who serves    *)
(* has a whole catalogue, the backfill fills in the right places, and a    *)
(* seed that is not forced deletes nothing that it has counted.            *)
(***************************************************************************)
EXTENDS Seeding, TLAPS

Whole == \E d \in Container \union {Before} : seeded = Catalogue(d)

\* One container inserts its batches on its own, or the catalogue is whole, or
\* the volume is empty and nobody has come past the count.
SeedersAreAlone ==
    ~ disturbed =>
        \/ \E c \in Container :
              /\ pc[c] = "insert" /\ seeded = {c} \X (1..inserted[c])
              /\ \A d \in Container \ {c} : pc[d] # "insert"
        \/ /\ \A d \in Container : pc[d] # "insert"
           /\ \/ Whole
              \/ /\ seeded = {} /\ Present = {}
                 /\ \A d \in Container : pc[d] \in {"off", "count", "clear"}

\* A seeder starts with the first batch.
SeedersStartAnew == \A c \in Container : pc[c] \in {"count", "clear"} => inserted[c] = 0

\* What a container has listed is still so, or gone, or written since.
ListsAreKnown ==
    \A c \in Container : \A m \in missing[c] :
        \/ m.product \in touched[c]
        \/ row[m.product] = Absent
        \/ row[m.product].place = m.place

\* What a container that is not forced will delete came after its count.
CountsAreKnown ==
    \A c \in Container : pc[c] = "clear" /\ ~ force[c] => Present \subseteq since[c]

IInv ==
    /\ TypeOK
    /\ SeedersAreAlone /\ SeedersStartAnew
    /\ ListsAreKnown /\ FilledWhereItIs
    /\ CountsAreKnown

-----------------------------------------------------------------------------
(* Helpers.                                                                *)

\* No row looks like none.
LEMMA RowIsPresent == Absent \notin Row
  BY NamesAssumption DEF Absent, Row, Place, Coordinates

\* The backfill places a row by an entry of its own.
LEMMA EntryOfRow ==
  ASSUME NEW c \in Container, NEW chunk \in Chunk(c), NEW p \in {m.product : m \in chunk}
  PROVE  \E m \in missing[c] :
            m \in chunk /\ m.product = p /\ CoordinatesFor(chunk, p) = m.place
<1> DEFINE e == CHOOSE m \in chunk : m.product = p
<1>1. chunk \subseteq missing[c]
  BY DEF Chunk
<1>2. e \in chunk /\ e.product = p
  OBVIOUS
<1> QED
  BY <1>1, <1>2 DEF CoordinatesFor

\* It leaves the same products in the same places, and the others as they are.
LEMMA FillChunkRows ==
  ASSUME TypeOK, NEW c \in Container, NEW chunk \in Chunk(c),
         {m.place : m \in chunk} \subseteq City, FillChunk(c, chunk)
  PROVE  /\ \A p \in Product :
               /\ row'[p] \in Row \union {Absent}
               /\ row'[p] = Absent <=> row[p] = Absent
               /\ row'[p].place = row[p].place
         /\ \A p \in Product \ {m.product : m \in chunk} : row'[p] = row[p]
         /\ \A p \in {m.product : m \in chunk} :
               p \in Present /\ row'[p].at = CoordinatesFor(chunk, p)
         /\ row' \in [Product -> Row \union {Absent}]
<1> DEFINE ids == {m.product : m \in chunk}
<1>1. ids \subseteq Present /\ Present \subseteq Product
  BY DEF FillChunk, Present
<1>2. row' = [p \in Product |->
           IF p \in ids THEN [row[p] EXCEPT !.at = CoordinatesFor(chunk, p)] ELSE row[p]]
  BY DEF FillChunk
<1>3. ASSUME NEW p \in ids
      PROVE  /\ row[p] \in Row
             /\ row'[p] = [row[p] EXCEPT !.at = CoordinatesFor(chunk, p)]
             /\ CoordinatesFor(chunk, p) \in City
  <2>1. row[p] \in Row
    BY <1>1 DEF TypeOK, Present
  <2>2. CoordinatesFor(chunk, p) \in City
    BY EntryOfRow
  <2> QED
    BY <1>1, <1>2, <2>1, <2>2
<1>4. ASSUME NEW p \in ids
      PROVE  /\ row'[p] \in Row /\ row'[p].place = row[p].place
             /\ row'[p].at = CoordinatesFor(chunk, p)
  BY <1>3 DEF Row, Coordinates
<1>5. \A p \in Product \ ids : row'[p] = row[p]
  BY <1>2
<1> QED
  BY <1>1, <1>2, <1>3, <1>4, <1>5, RowIsPresent DEF TypeOK

-----------------------------------------------------------------------------
(* Initially.                                                              *)

LEMMA InitIInv == Init => IInv
<1> SUFFICES ASSUME Init
             PROVE  IInv
  OBVIOUS
<1>1. row \in [Product -> Row \union {Absent}]
      /\ \A p \in Product : row[p] = Absent \/ row[p].at = "none"
  BY DEF Init, Row, Coordinates, Absent
<1>2. seeded \subseteq (Container \union {Before}) \X (1..Batches)
  <2>1. CASE seeded = {}
    BY <2>1
  <2>2. CASE seeded = Catalogue(Before)
    BY <2>2 DEF Catalogue
  <2> QED
    BY <2>1, <2>2 DEF Init
<1>3. TypeOK
  <2>1. used \subseteq Product
    BY DEF Init
  <2>2. pc \in [Container -> {"off", "count", "clear", "insert", "list", "fill",
                              "reindex", "serve"}]
    BY DEF Init
  <2>3. force \in [Container -> BOOLEAN] /\ disturbed \in BOOLEAN
    BY DEF Init
  <2>4. inserted \in [Container -> 0..Batches]
    BY BatchesAssumption DEF Init
  <2>5. missing \in [Container -> SUBSET [product : Product, place : Place]]
    BY DEF Init
  <2>6. /\ since \in [Container -> SUBSET Product]
        /\ touched \in [Container -> SUBSET Product]
        /\ misplaced \subseteq Product
    BY DEF Init
  <2>7. requests \in Nat /\ faults \in Nat
    BY DEF Init
  <2> QED
    BY <1>1, <1>2, <2>1, <2>2, <2>3, <2>4, <2>5, <2>6, <2>7 DEF TypeOK
<1>4. SeedersAreAlone
  BY DEF Init, SeedersAreAlone, Whole, Present
<1>5. FilledWhereItIs
  BY <1>1, NamesAssumption DEF FilledWhereItIs, Present
<1> QED
  BY <1>3, <1>4, <1>5 DEF Init, IInv, SeedersStartAnew, ListsAreKnown, CountsAreKnown

-----------------------------------------------------------------------------
(* Steps that leave the rows alone.                                        *)

LEMMA UpIInv ==
  ASSUME IInv, NEW c \in Container, Up(c)
  PROVE  IInv'
<1> USE DEF IInv, Up, Goto, table, observed, bounds, Present
<1>1. TypeOK'
  BY ForcesAssumption, BatchesAssumption DEF TypeOK
<1>2. SeedersAreAlone'
  BY DEF SeedersAreAlone, Whole, Catalogue, TypeOK
<1>3. SeedersStartAnew' /\ ListsAreKnown' /\ FilledWhereItIs' /\ CountsAreKnown'
  BY DEF SeedersStartAnew, ListsAreKnown, FilledWhereItIs, CountsAreKnown, TypeOK
<1> QED
  BY <1>1, <1>2, <1>3

LEMMA CountRowsIInv ==
  ASSUME IInv, NEW c \in Container, CountRows(c)
  PROVE  IInv'
<1> USE DEF IInv, CountRows, Goto, Seeds, table, bounds, Present
<1>1. TypeOK'
  BY DEF TypeOK
<1>2. SeedersAreAlone'
  <2>1. CASE Seeds(c)
    BY <2>1 DEF SeedersAreAlone, Whole, Catalogue, TypeOK
  <2>2. CASE ~ Seeds(c)
    BY <2>2 DEF SeedersAreAlone, Whole, Catalogue, TypeOK
  <2> QED
    BY <2>1, <2>2
<1>3. SeedersStartAnew' /\ ListsAreKnown' /\ FilledWhereItIs' /\ CountsAreKnown'
  BY DEF SeedersStartAnew, ListsAreKnown, FilledWhereItIs, CountsAreKnown, TypeOK
<1> QED
  BY <1>1, <1>2, <1>3

LEMMA InsertBatchIInv ==
  ASSUME IInv, NEW c \in Container, InsertBatch(c)
  PROVE  IInv'
<1> USE DEF IInv, InsertBatch, LastBatch, observed, bounds, Present
<1>1. inserted'[c] = inserted[c] + 1 /\ inserted[c] \in 0..Batches /\ inserted'[c] \in 1..Batches
      /\ \A d \in Container \ {c} : inserted'[d] = inserted[d]
  BY BatchesAssumption DEF TypeOK
<1>2. TypeOK'
  BY <1>1, BatchesAssumption DEF TypeOK
<1>3. SeedersAreAlone'
  <2> SUFFICES ASSUME ~ disturbed
               PROVE  SeedersAreAlone'
    BY DEF SeedersAreAlone
  <2>1. seeded = {c} \X (1..inserted[c]) /\ \A d \in Container \ {c} : pc[d] # "insert"
    BY DEF SeedersAreAlone
  <2>2. 1..inserted'[c] = (1..inserted[c]) \union {inserted'[c]}
    BY <1>1
  <2>3. seeded' = {c} \X (1..inserted'[c])
    BY <2>1, <2>2
  <2> QED
    BY <2>1, <2>3 DEF SeedersAreAlone
<1>4. SeedersStartAnew' /\ ListsAreKnown' /\ FilledWhereItIs' /\ CountsAreKnown'
  BY <1>1 DEF SeedersStartAnew, ListsAreKnown, FilledWhereItIs, CountsAreKnown, TypeOK
<1> QED
  BY <1>2, <1>3, <1>4

LEMMA SeedEndsIInv ==
  ASSUME IInv, NEW c \in Container, SeedEnds(c)
  PROVE  IInv'
<1> USE DEF IInv, SeedEnds, LastBatch, Goto, table, observed, bounds, Present
<1>1. TypeOK'
  BY DEF TypeOK
<1>2. SeedersAreAlone'
  <2> SUFFICES ASSUME ~ disturbed
               PROVE  SeedersAreAlone'
    BY DEF SeedersAreAlone
  <2>1. seeded = {c} \X (1..inserted[c]) /\ \A d \in Container \ {c} : pc[d] # "insert"
    BY DEF SeedersAreAlone
  <2>2. inserted[c] = Batches
    BY BatchesAssumption DEF TypeOK
  <2>3. Whole'
    BY <2>1, <2>2 DEF Whole, Catalogue
  <2> QED
    BY <2>1, <2>3 DEF SeedersAreAlone, TypeOK
<1>3. SeedersStartAnew' /\ ListsAreKnown' /\ FilledWhereItIs' /\ CountsAreKnown'
  BY DEF SeedersStartAnew, ListsAreKnown, FilledWhereItIs, CountsAreKnown, TypeOK
<1> QED
  BY <1>1, <1>2, <1>3

\* Steps from fill or reindex on, and starts that end there.
LEMMA MovesOnIInv ==
  ASSUME IInv, NEW c \in Container, NEW label \in {"off", "reindex", "serve"},
         pc[c] \in {"fill", "reindex"}, Goto(c, label),
         UNCHANGED <<table, force, inserted, missing, observed>>,
         faults' \in Nat, requests' \in Nat
  PROVE  IInv'
<1> USE DEF IInv, Goto, table, observed, Present
<1>1. TypeOK'
  BY DEF TypeOK
<1>2. SeedersAreAlone'
  BY DEF SeedersAreAlone, Whole, Catalogue, TypeOK
<1>3. SeedersStartAnew' /\ ListsAreKnown' /\ FilledWhereItIs' /\ CountsAreKnown'
  BY DEF SeedersStartAnew, ListsAreKnown, FilledWhereItIs, CountsAreKnown, TypeOK
<1> QED
  BY <1>1, <1>2, <1>3

LEMMA StopsIInv ==
  ASSUME IInv, NEW c \in Container, Stops(c)
  PROVE  IInv'
<1> USE DEF IInv, Stops, SpendFault, Goto, table, Present
<1>1. TypeOK'
  BY DEF TypeOK
<1>2. SeedersAreAlone'
  BY DEF SeedersAreAlone, Whole, Catalogue, TypeOK
<1>3. SeedersStartAnew' /\ ListsAreKnown' /\ FilledWhereItIs' /\ CountsAreKnown'
  BY DEF SeedersStartAnew, ListsAreKnown, FilledWhereItIs, CountsAreKnown, TypeOK
<1> QED
  BY <1>1, <1>2, <1>3

LEMMA ListMissingIInv ==
  ASSUME IInv, NEW c \in Container, ListMissing(c)
  PROVE  IInv'
<1> USE DEF IInv, ListMissing, Goto, table, bounds, Present
<1>1. \A q \in Product : LacksCoordinates(q) => row[q].place \in Place
  BY DEF TypeOK, LacksCoordinates, Row
<1>2. TypeOK'
  BY <1>1 DEF TypeOK
<1>3. SeedersAreAlone'
  BY DEF SeedersAreAlone, Whole, Catalogue, TypeOK
<1>4. ListsAreKnown'
  <2>1. \A m \in missing'[c] : row[m.product].place = m.place
    BY DEF TypeOK
  <2>2. \A d \in Container \ {c} : missing'[d] = missing[d] /\ touched'[d] = touched[d]
    BY DEF TypeOK
  <2> QED
    BY <2>1, <2>2 DEF ListsAreKnown
<1>5. SeedersStartAnew' /\ FilledWhereItIs' /\ CountsAreKnown'
  BY DEF SeedersStartAnew, FilledWhereItIs, CountsAreKnown, TypeOK
<1> QED
  BY <1>2, <1>3, <1>4, <1>5

-----------------------------------------------------------------------------
(* Steps that change rows.                                                 *)

LEMMA ClearIInv ==
  ASSUME IInv, NEW c \in Container, Clear(c)
  PROVE  IInv'
<1> USE DEF IInv, Clear, Goto, bounds
<1>1. TypeOK'
  BY DEF TypeOK
<1>2. Present' = {} /\ \A p \in Product : row'[p] = Absent
  BY DEF Present
<1>3. SeedersAreAlone'
  <2> SUFFICES ASSUME ~ disturbed'
               PROVE  SeedersAreAlone'
    BY DEF SeedersAreAlone
  <2>1. /\ pc'[c] = "insert"
        /\ \A d \in Container \ {c} : pc'[d] # "insert"
    BY DEF TypeOK
  <2>2. inserted'[c] = 0 /\ seeded' = {c} \X (1..0)
    BY DEF SeedersStartAnew
  <2> QED
    BY <2>1, <2>2 DEF SeedersAreAlone
<1>4. ListsAreKnown'
  BY <1>2 DEF ListsAreKnown, TypeOK
<1>5. SeedersStartAnew' /\ FilledWhereItIs' /\ CountsAreKnown'
  BY <1>2 DEF SeedersStartAnew, FilledWhereItIs, CountsAreKnown, TypeOK
<1> QED
  BY <1>1, <1>3, <1>4, <1>5

LEMMA FillChunkIInv ==
  ASSUME IInv, NEW c \in Container, NEW chunk \in Chunk(c), pc[c] = "fill",
         {m.place : m \in chunk} \subseteq City, FillChunk(c, chunk)
  PROVE  IInv'
<1> DEFINE ids == {m.product : m \in chunk}
<1>1. TypeOK
  BY DEF IInv
<1>2. /\ row' \in [Product -> Row \union {Absent}]
      /\ \A p \in Product : (row'[p] = Absent <=> row[p] = Absent) /\ row'[p].place = row[p].place
      /\ \A p \in Product \ ids : row'[p] = row[p]
      /\ \A p \in ids : p \in Present /\ row'[p].at = CoordinatesFor(chunk, p)
  BY <1>1, FillChunkRows
<1>3. Present' = Present
  BY <1>2 DEF Present
<1>4. \A d \in Container : missing'[d] \subseteq missing[d]
  BY <1>1 DEF FillChunk, TypeOK
<1>5. TypeOK'
  BY <1>1, <1>2, <1>4 DEF FillChunk, TypeOK, bounds
<1>6. SeedersAreAlone' /\ SeedersStartAnew' /\ CountsAreKnown'
  BY <1>3 DEF IInv, FillChunk, SeedersAreAlone, SeedersStartAnew, CountsAreKnown, Whole, Catalogue
<1>7. ListsAreKnown'
  BY <1>1, <1>2, <1>4 DEF IInv, FillChunk, ListsAreKnown, TypeOK
<1>8. FilledWhereItIs'
  <2> SUFFICES ASSUME NEW p \in Present, row'[p].at \in City
               PROVE  row'[p].at = row'[p].place \/ p \in misplaced'
    BY <1>3 DEF FilledWhereItIs
  <2>1. p \in Product /\ row[p] # Absent
    BY DEF Present
  <2>2. misplaced' = misplaced \union (ids \intersect touched[c])
    BY DEF FillChunk
  <2>3. CASE p \notin ids
    BY <1>2, <2>1, <2>2, <2>3 DEF IInv, FilledWhereItIs
  <2>4. CASE p \in ids
    <3>1. PICK m \in missing[c] : m.product = p /\ CoordinatesFor(chunk, p) = m.place
      BY <2>4, EntryOfRow
    <3>2. p \in touched[c] \/ row[p].place = m.place
      BY <2>1, <3>1 DEF IInv, ListsAreKnown
    <3> QED
      BY <1>2, <2>1, <2>2, <2>4, <3>1, <3>2
  <2> QED
    BY <2>3, <2>4
<1> QED
  BY <1>5, <1>6, <1>7, <1>8 DEF IInv

LEMMA FillIInv ==
  ASSUME IInv, NEW c \in Container, Fill(c)
  PROVE  IInv'
<1>1. ASSUME NEW chunk \in Chunk(c), {m.place : m \in chunk} \subseteq City, FillChunk(c, chunk)
      PROVE  IInv'
  BY <1>1, FillChunkIInv DEF Fill
<1>2. ASSUME NEW chunk \in Chunk(c), FillFails(c, chunk)
      PROVE  IInv'
  BY <1>2, MovesOnIInv DEF Fill, FillFails, bounds, IInv, TypeOK
<1> QED
  BY <1>1, <1>2 DEF Fill

\* A request writes one row, of which all that was observed is void.
LEMMA WritesIInv ==
  ASSUME IInv, NEW p \in Product, NEW content \in Body \union {Absent}, Writes(p, content)
  PROVE  IInv'
<1> USE DEF IInv, Writes, start
<1>1. content \in Row \union {Absent} /\ content.at \notin City
  BY NamesAssumption DEF Body, Row, Coordinates, Absent
<1>2. row'[p] = content /\ \A q \in Product \ {p} : row'[q] = row[q]
  BY DEF TypeOK
<1>3. Present' \subseteq Present \union {p}
  BY <1>2 DEF Present
<1>4. TypeOK'
  BY <1>1 DEF TypeOK
<1>5. SeedersAreAlone'
  <2>1. \E c \in Container : pc[c] = "serve"
    OBVIOUS
  <2> QED
    BY <2>1 DEF SeedersAreAlone, Whole, Catalogue
<1>6. \A c \in Container : since'[c] = since[c] \union {p} /\ touched'[c] = touched[c] \union {p}
  OBVIOUS
<1>7. ListsAreKnown'
  BY <1>2, <1>6 DEF ListsAreKnown, TypeOK
<1>8. FilledWhereItIs'
  BY <1>1, <1>2 DEF FilledWhereItIs, Present
<1>9. SeedersStartAnew' /\ CountsAreKnown'
  BY <1>3, <1>6 DEF SeedersStartAnew, CountsAreKnown
<1> QED
  BY <1>4, <1>5, <1>7, <1>8, <1>9

-----------------------------------------------------------------------------

LEMMA NextIInv == IInv /\ [Next]_vars => IInv'
<1> SUFFICES ASSUME IInv, [Next]_vars
             PROVE  IInv'
  OBVIOUS
<1>1. ASSUME NEW c \in Container, Up(c) \/ Stops(c)
      PROVE  IInv'
  BY <1>1, UpIInv, StopsIInv
<1>2. ASSUME NEW c \in Container, Starting(c)
      PROVE  IInv'
  <2>1. CASE FillEnds(c) \/ Reindex(c)
    BY <2>1, MovesOnIInv DEF FillEnds, Reindex, bounds, IInv, TypeOK
  <2> QED
    BY <1>2, <2>1, CountRowsIInv, ClearIInv, InsertBatchIInv, SeedEndsIInv, ListMissingIInv,
       FillIInv DEF Starting
<1>3. ASSUME NEW p \in Product, Create(p) \/ Update(p) \/ Delete(p)
      PROVE  IInv'
  BY <1>3, WritesIInv DEF Create, Update, Delete
<1>4. CASE UNCHANGED vars
  BY <1>4 DEF IInv, TypeOK, SeedersAreAlone, SeedersStartAnew, ListsAreKnown, FilledWhereItIs,
              CountsAreKnown, Whole, Catalogue, Present, vars, table, start, observed, bounds
<1> QED
  BY <1>1, <1>2, <1>3, <1>4 DEF Next

LEMMA InductiveInvariant == Spec => []IInv
  BY InitIInv, NextIInv, PTL DEF Spec

\* The variables keep their types.
THEOREM SeedingTypeCorrect == Spec => []TypeOK
<1>1. IInv => TypeOK
  BY DEF IInv
<1> QED
  BY <1>1, InductiveInvariant, PTL

\* Whoever serves has one whole catalogue, unless a seeder was stopped half way,
\* two seeded at once, or one seeds anew: main() of the seed, with deleteMany()
\* and createMany() in batches and no transaction around them.
THEOREM ServersAreWhole == Spec => []CatalogueIsWhole
<1>1. IInv => CatalogueIsWhole
  BY DEF IInv, SeedersAreAlone, Whole, CatalogueIsWhole
<1> QED
  BY <1>1, InductiveInvariant, PTL

\* The backfill fills in the coordinates of the product's own place, unless it
\* overwrites what a request has written since it listed the rows.
THEOREM BackfillIsRight == Spec => []FilledWhereItIs
<1>1. IInv => FilledWhereItIs
  BY DEF IInv
<1> QED
  BY <1>1, InductiveInvariant, PTL

\* A seeder that was not forced deletes only what was written since it counted.
THEOREM CountedIsKept == Spec => ErasesOnlyNewer
<1>1. IInv /\ [Next]_vars =>
         [\A c \in Container : Clear(c) /\ ~ force[c] => Present \subseteq since[c]]_vars
  BY DEF IInv, CountsAreKnown, Clear
<1> QED
  BY <1>1, InductiveInvariant, PTL DEF Spec, ErasesOnlyNewer
=============================================================================
