---------------------------- MODULE ProductSearch ----------------------------
(***************************************************************************)
(* GET /products: the query a client sends becomes criteria, the criteria  *)
(* an Elasticsearch request, and the response a page of hits with facets   *)
(* and a cursor.  A client may go through the result page by page, by      *)
(* number or by cursor, while the index changes between its requests.      *)
(*                                                                         *)
(* The text of a query only selects documents and scores them.  A document *)
(* carries its score, and those that do not match the text are taken not   *)
(* to be in the index.  Scores change with the index; such a change is one *)
(* of the document.  Highlights, suggestions and averages are left out.    *)
(***************************************************************************)
EXTENDS Integers, FiniteSets, Sequences

CONSTANTS
    NumProducts,     \* products, numbered in the order of their keyword id
    Catalogue,       \* the documents that the index may hold
    Queries,         \* the queries with which clients begin
    DefaultPageSize, \* DEFAULT_PAGE_SIZE
    MaxPageSize,     \* search.maxPageSize
    MaxWindow,       \* MAX_SEARCH_WINDOW, max_result_window of the index
    FacetSize,       \* FACET_SIZE
    MaxChanges,      \* bound: changes of the index in all
    MaxFaults        \* bound: failed searches in all

Id == 1..NumProducts
Facet == {"categories", "subcategories", "locations"}
Infinity == 1000     \* the distance of a product without coordinates
SortField == {"relevance", "popularity", "created_at", "distance"}

\* A document; category and location are single values, kept as sets.
Document == [categories : SUBSET Nat, subcategories : SUBSET Nat, locations : SUBSET Nat,
             price : Nat, popularity : Nat, createdAt : Nat, score : Nat,
             distance : 0..Infinity]
Absent == [absent |-> TRUE]

\* Where a cursor says a page begins; one that does not decode is malformed.
NoCursor == [kind |-> "none", at |-> <<>>]
Malformed == [kind |-> "malformed", at |-> <<>>]
CursorAt(tuple) == [kind |-> "tuple", at |-> tuple]

\* A response: its hits and meta.nextCursor, meta.total, meta.totalPages.
NoResponse == [hits |-> {}, next |-> NoCursor, total |-> 0, pages |-> 0]

\* A query that passed the validation of the DTO.  Parameters that are not
\* given are 0 for page, pageSize and radius, -1 for the prices, "none" for sort
\* and order, the empty set for the filters.
Query == [categories : SUBSET Nat, subcategories : SUBSET Nat, locations : SUBSET Nat,
          min : Nat \union {-1}, max : Nat \union {-1},
          lat : BOOLEAN, lon : BOOLEAN, radius : Nat,
          sort : SortField \union {"none"}, order : {"asc", "desc", "none"},
          page : Nat, pageSize : Nat]

ASSUME SizeAssumption ==
    /\ NumProducts \in Nat /\ DefaultPageSize \in Nat \ {0} /\ FacetSize \in Nat
    /\ MaxChanges \in Nat /\ MaxFaults \in Nat
\* The configuration does not bound the page size; its default is far below.
ASSUME WindowAssumption == MaxWindow \in Nat /\ MaxPageSize \in 1..MaxWindow
\* A document has finitely many values in each facet.
ASSUME CatalogueAssumption ==
    \A d \in Catalogue : d \in Document /\ \A f \in Facet : IsFiniteSet(d[f])
ASSUME QueriesAssumption == \A q \in Queries : q \in Query

VARIABLES
    doc,             \* the index: a document or Absent for each product
    pc,              \* idle, asked, answered: where the client stands
    query,           \* its query
    cursor,          \* and the cursor it sends along
    response,        \* the page it has received
    status,          \* ok, rejected, refused, unavailable
    changes, faults,
    \* Observation only.
    scan,            \* the client began at the first page and follows cursors
    steady,          \* found when the scan began, and unchanged since
    seen             \* how often a product was on a page of the scan, up to 2

client == <<pc, query, cursor, response, status>>
observed == <<scan, steady, seen>>
vars == <<doc, client, changes, faults, observed>>

-----------------------------------------------------------------------------
(* toSearchCriteria().                                                     *)

MinOf(a, b) == IF a <= b THEN a ELSE b

\* Mutant: the default is not capped.
ClampPageSizeGiven(requested) ==
    IF requested < 1 THEN DefaultPageSize ELSE MinOf(requested, MaxPageSize)

\* The default is capped, too.
ClampPageSize(requested) ==
    IF requested < 1 THEN MinOf(DefaultPageSize, MaxPageSize)
    ELSE MinOf(requested, MaxPageSize)

NormalizePage(requested) == IF requested < 1 THEN 1 ELSE requested

ResolveSort(q) ==
    LET field == IF q.sort = "none" THEN "relevance" ELSE q.sort
    IN  [field |-> field,
         direction |-> CASE q.order # "none" -> q.order
                         [] q.order = "none" /\ field = "distance" -> "asc"
                         [] OTHER -> "desc"]

HasGeo(q) == q.lat /\ q.lon

\* Mutant: the window ends with the last page that begins within it.
RejectedBeyond(q, c) ==
    \/ q.lat # q.lon
    \/ ~ q.lat /\ q.radius > 0
    \/ ResolveSort(q).field = "distance" /\ ~ HasGeo(q)
    \/ c.kind # "none" /\ (q.page > 1 \/ c.kind = "malformed")
    \/ c.kind = "none" /\ (NormalizePage(q.page) - 1) * ClampPageSize(q.pageSize) > MaxWindow

\* The queries that toSearchCriteria() throws at.
Rejected(q, c) ==
    \/ q.lat # q.lon
    \/ ~ q.lat /\ q.radius > 0
    \/ ResolveSort(q).field = "distance" /\ ~ HasGeo(q)
    \/ c.kind # "none" /\ (q.page > 1 \/ c.kind = "malformed")
    \/ c.kind = "none" /\ NormalizePage(q.page) * ClampPageSize(q.pageSize) > MaxWindow

Filters(q) ==
    [categories |-> q.categories, subcategories |-> q.subcategories,
     locations |-> q.locations, min |-> q.min, max |-> q.max, radius |-> q.radius]

-----------------------------------------------------------------------------
(* EsQueryBuilder: what the clauses of a request select.                   *)

\* categoryClause(), subcategoryClause(), locationClause(): no value, no clause.
TermsClause(f, d, filters) == filters[f] = {} \/ d[f] \intersect filters[f] # {}

PriceClause(d, filters) ==
    /\ filters.min = -1 \/ filters.min <= d.price
    /\ filters.max = -1 \/ d.price <= filters.max

\* A document without coordinates is within no radius.
GeoClause(d, filters) ==
    filters.radius = 0 \/ (d.distance < Infinity /\ d.distance <= filters.radius)

PostFilter(d, filters) ==
    /\ \A f \in Facet : TermsClause(f, d, filters)
    /\ PriceClause(d, filters)
    /\ GeoClause(d, filters)

\* Mutant: the filter of a facet counts for the facet itself too.
OthersAll(exclude, d, filters) == exclude \in Facet \union {"price"} /\ PostFilter(d, filters)

\* The filter of a facet: every other active filter, not its own.
Others(exclude, d, filters) ==
    /\ \A f \in Facet \ {exclude} : TermsClause(f, d, filters)
    /\ exclude = "price" \/ PriceClause(d, filters)
    /\ GeoClause(d, filters)

Live == {i \in Id : doc[i] # Absent}

Found(filters) == {i \in Live : PostFilter(doc[i], filters)}

\* The terms aggregation of a facet: how many documents each value has.
Bucket(f, v, filters) ==
    Cardinality({i \in Live : Others(f, doc[i], filters) /\ v \in doc[i][f]})

\* Its buckets: the FacetSize largest, ties in the order of the values.
Buckets(f, filters) ==
    LET values == UNION {doc[i][f] : i \in {j \in Live : Others(f, doc[j], filters)}}
        Larger(u, v) ==
            \/ Bucket(f, u, filters) > Bucket(f, v, filters)
            \/ Bucket(f, u, filters) = Bucket(f, v, filters) /\ u < v
    IN  {v \in values : Cardinality({u \in values : Larger(u, v)}) < FacetSize}

\* The prices that the aggregation price_stats sees.
PricesSeen(filters) == {doc[i].price : i \in {j \in Live : Others("price", doc[j], filters)}}

\* readPriceStats(): their minimum and maximum, as a set, or none.
PriceRange(filters) ==
    LET prices == PricesSeen(filters)
    IN  {p \in prices : (\A r \in prices : p <= r) \/ (\A r \in prices : p >= r)}

\* Mutant: the ordering lacks its tiebreaker.
SortDirectionsTied(sort) ==
    CASE sort.field \in {"popularity", "distance"} -> <<sort.direction, "desc">>
      [] sort.field = "created_at" -> <<sort.direction>>
      [] OTHER -> <<"desc", "desc">>

\* buildSort(): by the field, then the score or popularity, then the id.
SortDirections(sort) ==
    CASE sort.field \in {"popularity", "distance"} -> <<sort.direction, "desc", "asc">>
      [] sort.field = "created_at" -> <<sort.direction, "asc">>
      [] OTHER -> <<"desc", "desc", "asc">>

\* The sort tuple of a product.
SortValues(i, sort) ==
    CASE sort.field = "popularity" -> <<doc[i].popularity, doc[i].score, i>>
      [] sort.field = "created_at" -> <<doc[i].createdAt, i>>
      [] sort.field = "distance" -> <<doc[i].distance, doc[i].score, i>>
      [] OTHER -> <<doc[i].score, doc[i].popularity, i>>

-----------------------------------------------------------------------------
(* The request, and Elasticsearch's answer.                                *)

\* search_after takes the place of from.
Body(q, c) ==
    [size |-> ClampPageSize(q.pageSize),
     from |-> IF c.kind = "tuple" THEN 0 ELSE (NormalizePage(q.page) - 1) * ClampPageSize(q.pageSize),
     after |-> c, filters |-> Filters(q), sort |-> ResolveSort(q)]

\* Elasticsearch refuses to look beyond its window, and a tuple that does not
\* fit the sort.
Accepts(body) ==
    /\ body.from + body.size <= MaxWindow
    /\ body.after.kind = "tuple" =>
           Len(body.after.at) = IF body.sort.field = "created_at" THEN 2 ELSE 3

\* Tuple s comes before tuple t.
Before(s, t, directions) ==
    \E k \in DOMAIN directions :
        /\ \A j \in 1..(k - 1) : s[j] = t[j]
        /\ IF directions[k] = "asc" THEN s[k] < t[k] ELSE s[k] > t[k]

\* Product i comes before product j, which is never a tie.
Ahead(i, j, sort) ==
    LET s == SortValues(i, sort)
        t == SortValues(j, sort)
        directions == SortDirections(sort)
    IN  Before(s, t, directions) \/ (~ Before(t, s, directions) /\ i < j)

\* The hits: found, after the cursor, and within from and size.
Hits(body) ==
    LET rest == {i \in Found(body.filters) : body.after.kind = "tuple" =>
                    Before(body.after.at, SortValues(i, body.sort), SortDirections(body.sort))}
        Rank(i) == Cardinality({j \in rest \ {i} : Ahead(j, i, body.sort)})
    IN  {i \in rest : Rank(i) \in body.from..(body.from + body.size - 1)}

LastHit(page, sort) == CHOOSE i \in page : \A j \in page \ {i} : Ahead(j, i, sort)

\* Mutant: a page without hits passes on the cursor it was asked with.
NextCursorKept(page, body) ==
    IF page = {} THEN body.after
    ELSE IF Cardinality(page) < body.size THEN NoCursor
    ELSE CursorAt(SortValues(LastHit(page, body.sort), body.sort))

\* readNextCursor(): the sort tuple of the last hit, when the page is full.
NextCursor(page, body) ==
    IF page = {} \/ Cardinality(page) < body.size THEN NoCursor
    ELSE CursorAt(SortValues(LastHit(page, body.sort), body.sort))

\* Mutant: the last page is forgotten when it is not full.
TotalPagesDown(total, pageSize) == total \div pageSize

\* Math.ceil(total / pageSize).
TotalPages(total, pageSize) == (total + pageSize - 1) \div pageSize

\* toSearchResult(), toSearchResponse(): the total is that of all hits, also of
\* those on the pages before.
Response(page, body) ==
    LET total == Cardinality(Found(body.filters))
    IN  [hits |-> page, next |-> NextCursor(page, body),
         total |-> total, pages |-> TotalPages(total, body.size)]

-----------------------------------------------------------------------------
(* The client and the index.                                               *)

AnswersNothing == response' = NoResponse

Init ==
    /\ doc \in [Id -> Catalogue \union {Absent}]
    /\ pc = "idle"
    /\ query \in Queries
    /\ cursor = NoCursor
    /\ response = NoResponse
    /\ status = "ok"
    /\ changes = 0
    /\ faults = 0
    /\ scan = FALSE
    /\ steady = {}
    /\ seen = [i \in Id |-> 0]

\* The client begins, at whatever page.
Asks ==
    /\ pc = "idle"
    /\ pc' = "asked"
    /\ cursor' = NoCursor
    /\ scan' = (query.page <= 1)
    /\ steady' = IF query.page <= 1 THEN Found(Filters(query)) ELSE {}
    /\ UNCHANGED <<doc, query, response, status, changes, faults, seen>>

\* The controller turns the query away.
Rejects ==
    /\ pc = "asked"
    /\ Rejected(query, cursor)
    /\ pc' = "answered"
    /\ status' = "rejected"
    /\ AnswersNothing
    /\ UNCHANGED <<doc, query, cursor, changes, faults, observed>>

\* search(): Elasticsearch answers; the client receives the page.
Answers ==
    /\ pc = "asked"
    /\ ~ Rejected(query, cursor)
    /\ Accepts(Body(query, cursor))
    /\ \E page \in {Hits(Body(query, cursor))} : response' = Response(page, Body(query, cursor))
    /\ pc' = "answered"
    /\ status' = "ok"
    /\ seen' = [i \in Id |-> IF scan /\ i \in response'.hits THEN MinOf(seen[i] + 1, 2) ELSE seen[i]]
    /\ UNCHANGED <<doc, query, cursor, changes, faults, scan, steady>>

\* A 400 from Elasticsearch is reported as the client's mistake.
Refuses ==
    /\ pc = "asked"
    /\ ~ Rejected(query, cursor)
    /\ ~ Accepts(Body(query, cursor))
    /\ pc' = "answered"
    /\ status' = "refused"
    /\ AnswersNothing
    /\ UNCHANGED <<doc, query, cursor, changes, faults, observed>>

\* Any other failure is reported as an outage, and so is a page that is lost on
\* its way; the client may ask again.
Fails ==
    /\ pc = "asked"
    /\ ~ Rejected(query, cursor)
    /\ faults < MaxFaults /\ faults' = faults + 1
    /\ pc' = "answered"
    /\ status' = "unavailable"
    /\ AnswersNothing
    /\ UNCHANGED <<doc, query, cursor, changes, observed>>

AsksAgain ==
    /\ pc = "answered" /\ status = "unavailable"
    /\ pc' = "asked"
    /\ UNCHANGED <<doc, query, cursor, response, status, changes, faults, observed>>

\* The client follows meta.nextCursor.
Follows ==
    /\ pc = "answered" /\ response.next.kind = "tuple"
    /\ pc' = "asked"
    /\ cursor' = response.next
    /\ query' = [query EXCEPT !.page = 0]
    /\ AnswersNothing
    /\ UNCHANGED <<doc, status, changes, faults, observed>>

\* It turns to the next page by its number instead, or sends the cursor along
\* with the number, with another sort, or damaged.
Strays ==
    /\ pc = "answered" /\ response.next.kind = "tuple"
    /\ pc' = "asked"
    /\ \/ cursor' = NoCursor /\ query' = [query EXCEPT !.page = NormalizePage(@) + 1]
       \/ cursor' = response.next /\ query' = [query EXCEPT !.page = 2]
       \/ cursor' = response.next /\ \E f \in SortField : query' = [query EXCEPT !.sort = f]
       \/ cursor' = Malformed /\ query' = query
    /\ scan' = FALSE /\ steady' = {} /\ seen' = [i \in Id |-> 0]
    /\ AnswersNothing
    /\ UNCHANGED <<doc, status, changes, faults>>

\* The client has what it wants, and another one comes.
Ends ==
    /\ pc = "answered"
    /\ pc' = "idle"
    /\ query' \in Queries
    /\ cursor' = NoCursor
    /\ AnswersNothing
    /\ scan' = FALSE /\ steady' = {} /\ seen' = [i \in Id |-> 0]
    /\ status' = "ok"
    /\ UNCHANGED <<doc, changes, faults>>

\* A product is indexed or removed, or its score changes.
Changes(i, d) ==
    /\ changes < MaxChanges /\ changes' = changes + 1
    /\ d # doc[i]
    /\ doc' = [doc EXCEPT ![i] = d]
    /\ steady' = steady \ {i}
    /\ UNCHANGED <<client, faults, scan, seen>>

Replies == Rejects \/ Answers \/ Refuses \/ Fails
GoesOn == AsksAgain \/ Follows \/ Strays \/ Ends

Next ==
    \/ Asks \/ Replies \/ GoesOn
    \/ \E i \in Id, d \in Catalogue \union {Absent} : Changes(i, d)

Spec == Init /\ [][Next]_vars

\* Every request is answered, and a client goes on or leaves.
Fairness == WF_vars(Replies) /\ WF_vars(GoesOn)

FairSpec == Spec /\ Fairness

-----------------------------------------------------------------------------
(* Properties.                                                             *)

\* The type invariant, with the limit on a page.
TypeOK ==
    /\ doc \in [Id -> Catalogue \union {Absent}]
    /\ pc \in {"idle", "asked", "answered"}
    /\ query \in Query
    /\ \A c \in {cursor, response.next} : c.kind \in {"none", "malformed", "tuple"}
    /\ response.hits \subseteq Id /\ Cardinality(response.hits) <= MaxPageSize
    /\ response.total \in 0..NumProducts /\ response.pages \in 0..NumProducts
    /\ status \in {"ok", "rejected", "refused", "unavailable"}
    /\ changes \in 0..MaxChanges /\ faults \in 0..MaxFaults
    /\ scan \in BOOLEAN /\ steady \subseteq Id
    /\ seen \in [Id -> 0..2]

\* A client that begins at the first page and follows the cursors to the end
\* gets every product that did not change meanwhile exactly once, whatever
\* happens to the others between the pages, with failed requests asked again
\* ("a client can page through the entire result set ... with no skips or
\* repeats", README).
ScanIsExact ==
    scan =>
        /\ \A i \in steady : seen[i] <= 1
        /\ pc = "answered" /\ status = "ok" /\ response.next = NoCursor =>
               \A i \in steady : seen[i] = 1

\* The counts of a facet are promises: the count of a value is what a search
\* that selects just that value, and leaves the other filters as they are, would
\* find, a value that is not listed would find nothing or the list is full, and
\* the price range is the narrowest outside which no price would find anything.
FacetsKeepTheirPromise ==
    pc = "asked" /\ ~ Rejected(query, cursor) =>
        LET filters == Filters(query)
            Selecting(f, v) == Cardinality(Found([filters EXCEPT ![f] = {v}]))
        IN  /\ \A f \in Facet :
                   \A v \in UNION {doc[i][f] : i \in Live} :
                       IF v \in Buckets(f, filters)
                       THEN Bucket(f, v, filters) = Selecting(f, v)
                       ELSE Selecting(f, v) = 0 \/ Cardinality(Buckets(f, filters)) = FacetSize
            /\ LET range == PriceRange(filters)
                   found == {p \in {doc[i].price : i \in Live} :
                                Found([filters EXCEPT !.min = p, !.max = p]) # {}}
               IN  range \subseteq found /\ \A p \in found : \E a, b \in range : a <= p /\ p <= b

\* A client that goes by page numbers can trust the counts it is given: pages
\* before the last one are full, the last one has the rest and at least one
\* product, and there is nothing behind it (meta.total, meta.totalPages).
NumberedPagesAddUp ==
    pc = "answered" /\ status = "ok" /\ cursor = NoCursor =>
        LET page == NormalizePage(query.page)
            size == ClampPageSize(query.pageSize)
            found == Cardinality(response.hits)
        IN  \/ page < response.pages /\ found = size
            \/ page = response.pages /\ found = response.total - (page - 1) * size /\ found > 0
            \/ page > response.pages /\ found = 0

\* Requests beyond the window "are rejected up front instead of failing inside
\* the engine" (MAX_SEARCH_WINDOW): whatever page a client asks for or follows,
\* Elasticsearch refuses only a cursor that comes from another ordering.
RefusesForeignCursorsOnly ==
    pc = "answered" /\ status = "refused" =>
        /\ cursor.kind = "tuple"
        /\ Len(cursor.at) = 2 <=> ResolveSort(query).field # "created_at"

\* A scan comes to an end: once the index no longer changes, the cursors lead to
\* a page that has none, and the client leaves.
ScanEnds == scan ~> ~ scan
=============================================================================
