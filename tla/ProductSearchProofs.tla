------------------------- MODULE ProductSearchProofs --------------------------
(***************************************************************************)
(* For any catalogue, any queries and any limits: whatever page a client   *)
(* asks for or follows, Elasticsearch refuses only a foreign cursor; the   *)
(* counts, lists and prices of the facets are what a search would find;    *)
(* numbered pages add up to the total; and a client that follows the       *)
(* cursors advances, and gets what stays as it is exactly once.            *)
(***************************************************************************)
EXTENDS ProductSearch, FiniteSetTheorems, TLAPS

\* A cursor that is a tuple is one of an ordering.
CursorFits(c) ==
    /\ c.kind \in {"none", "malformed", "tuple"}
    /\ c.kind = "tuple" => Len(c.at) \in {2, 3}

IInv ==
    /\ query \in Query
    /\ CursorFits(cursor) /\ CursorFits(response.next)
    /\ RefusesForeignCursorsOnly

-----------------------------------------------------------------------------
(* The limits.                                                             *)

LEMMA PageSizeIsBounded ==
  ASSUME NEW requested \in Nat
  PROVE  ClampPageSize(requested) \in 1..MaxPageSize
  BY SizeAssumption, WindowAssumption DEF ClampPageSize, MinOf

\* A query that is not rejected asks for nothing beyond the window, by its
\* number or by its cursor.
LEMMA WindowIsKept ==
  ASSUME NEW q \in Query, NEW c, CursorFits(c), ~ Rejected(q, c)
  PROVE  Body(q, c).from + Body(q, c).size <= MaxWindow
<1> DEFINE size == ClampPageSize(q.pageSize)
           page == NormalizePage(q.page)
<1>1. size \in Nat /\ size <= MaxPageSize /\ MaxPageSize \in Nat
      /\ MaxWindow \in Nat /\ MaxPageSize <= MaxWindow
  BY PageSizeIsBounded, WindowAssumption DEF Query
<1>2. page \in Nat /\ page >= 1
  BY DEF NormalizePage, Query
<1>3. Body(q, c).size = size
  BY DEF Body
<1>4. CASE c.kind = "tuple"
  <2>1. Body(q, c).from = 0
    BY <1>4 DEF Body
  <2> QED
    BY <1>1, <1>3, <2>1
<1>5. CASE c.kind = "none"
  <2>1. Body(q, c).from = (page - 1) * size
    BY <1>5 DEF Body
  <2>2. page * size <= MaxWindow
    BY <1>1, <1>2, <1>5 DEF Rejected
  <2> HIDE DEF page, size
  <2>3. (page - 1) * size + size = page * size
    BY <1>1, <1>2
  <2> QED
    BY <1>3, <2>1, <2>2, <2>3
<1>6. CASE c.kind = "malformed"
  BY <1>6 DEF Rejected
<1> QED
  BY <1>4, <1>5, <1>6 DEF CursorFits

LEMMA SortValuesFit ==
  ASSUME NEW i, NEW sort
  PROVE  CursorFits(CursorAt(SortValues(i, sort)))
  BY DEF CursorFits, CursorAt, SortValues

LEMMA NextCursorFits ==
  ASSUME NEW page, NEW body
  PROVE  CursorFits(NextCursor(page, body))
<1>1. CursorFits(NoCursor)
  BY DEF CursorFits, NoCursor
<1> QED
  BY <1>1, SortValuesFit DEF NextCursor

-----------------------------------------------------------------------------

LEMMA InitIInv == Init => IInv
  BY QueriesAssumption
  DEF Init, IInv, CursorFits, NoCursor, NoResponse, RefusesForeignCursorsOnly

\* Elasticsearch refuses a query that was not rejected for its cursor only.
LEMMA RefusesKeeps ==
  ASSUME IInv, Refuses
  PROVE  IInv'
<1>1. /\ ~ Rejected(query, cursor) /\ ~ Accepts(Body(query, cursor))
      /\ query' = query /\ cursor' = cursor /\ response' = NoResponse
  BY DEF Refuses, AnswersNothing
<1>2. /\ cursor.kind = "tuple"
      /\ Len(cursor.at) # IF ResolveSort(query).field = "created_at" THEN 2 ELSE 3
  BY <1>1, WindowIsKept DEF IInv, Accepts, Body
<1>3. CursorFits(response.next)'
  BY <1>1 DEF CursorFits, NoResponse, NoCursor
<1>4. RefusesForeignCursorsOnly'
  <2>1. Len(cursor.at) \in {2, 3}
    BY <1>2 DEF IInv, CursorFits
  <2> QED
    BY <1>1, <1>2, <2>1 DEF RefusesForeignCursorsOnly, ResolveSort
<1> QED
  BY <1>1, <1>3, <1>4 DEF IInv, CursorFits

LEMMA RepliesKeep ==
  ASSUME IInv, Rejects \/ Answers \/ Fails
  PROVE  IInv'
<1>1. query' = query /\ cursor' = cursor /\ status' # "refused"
  BY DEF Rejects, Answers, Fails
<1>2. CursorFits(response.next)'
  <2>1. CASE Answers
    <3>1. PICK page : response' = Response(page, Body(query, cursor))
      BY <2>1 DEF Answers
    <3> QED
      BY <3>1, NextCursorFits DEF Response
  <2>2. CASE Rejects \/ Fails
    BY <2>2 DEF Rejects, Fails, AnswersNothing, NoResponse, NoCursor, CursorFits
  <2> QED
    BY <2>1, <2>2
<1> QED
  BY <1>1, <1>2 DEF IInv, CursorFits, RefusesForeignCursorsOnly

LEMMA AsksKeep ==
  ASSUME IInv, Asks \/ AsksAgain \/ Follows
  PROVE  IInv'
<1>1. pc' = "asked"
  BY DEF Asks, AsksAgain, Follows
<1>2. query' \in Query
  BY DEF IInv, Query, Asks, AsksAgain, Follows
<1>3. CursorFits(cursor)' /\ CursorFits(response.next)'
  BY DEF IInv, Asks, AsksAgain, Follows, AnswersNothing, NoResponse, NoCursor, CursorFits
<1> QED
  BY <1>1, <1>2, <1>3 DEF IInv, RefusesForeignCursorsOnly

LEMMA StraysKeeps ==
  ASSUME IInv, Strays
  PROVE  IInv'
<1>1. pc' = "asked" /\ response' = NoResponse
  BY DEF Strays, AnswersNothing
<1>2. NormalizePage(query.page) + 1 \in Nat
  BY DEF IInv, Query, NormalizePage
<1>3. query' \in Query
  BY <1>2 DEF IInv, Query, Strays, SortField
<1>4. CursorFits(cursor)' /\ CursorFits(response.next)'
  BY <1>1 DEF IInv, Strays, Malformed, NoResponse, NoCursor, CursorFits
<1> QED
  BY <1>1, <1>3, <1>4 DEF IInv, RefusesForeignCursorsOnly

LEMMA EndsKeeps ==
  ASSUME IInv, Ends
  PROVE  IInv'
<1>1. pc' = "idle" /\ query' \in Query /\ cursor' = NoCursor /\ response' = NoResponse
  BY QueriesAssumption DEF Ends, AnswersNothing
<1> QED
  BY <1>1 DEF IInv, RefusesForeignCursorsOnly, CursorFits, NoCursor, NoResponse

LEMMA NextIInv == IInv /\ [Next]_vars => IInv'
<1> SUFFICES ASSUME IInv, [Next]_vars
             PROVE  IInv'
  OBVIOUS
<1>1. ASSUME NEW i \in Id, NEW d \in Catalogue \union {Absent}, Changes(i, d)
      PROVE  IInv'
  BY <1>1 DEF Changes, client, IInv, CursorFits, RefusesForeignCursorsOnly, ResolveSort
<1>2. CASE UNCHANGED vars
  BY <1>2 DEF vars, client, IInv, CursorFits, RefusesForeignCursorsOnly, ResolveSort
<1> QED
  BY <1>1, <1>2, RefusesKeeps, RepliesKeep, AsksKeep, StraysKeeps, EndsKeeps
  DEF Next, Replies, GoesOn

\* Requests beyond the window are rejected up front: for any page size, any
\* number of pages and any cursor a client may come by, Elasticsearch refuses
\* only a cursor from an ordering with another number of keys.
THEOREM WindowIsRespected == Spec => []RefusesForeignCursorsOnly
<1>1. IInv => RefusesForeignCursorsOnly
  BY DEF IInv
<1>2. Spec => []IInv
  BY InitIInv, NextIInv, PTL DEF Spec
<1> QED
  BY <1>1, <1>2, PTL

-----------------------------------------------------------------------------

\* What the buckets of a facet promise of a value's count: a search that selects
\* just this value, and leaves the other filters as they are, finds as many.
THEOREM CountsAreKept ==
  ASSUME NEW q \in Query, NEW f \in Facet, NEW v
  PROVE  Bucket(f, v, Filters(q)) = Cardinality(Found([Filters(q) EXCEPT ![f] = {v}]))
<1> DEFINE filters == Filters(q)
           selected == [filters EXCEPT ![f] = {v}]
<1>1. /\ selected[f] = {v}
      /\ \A g \in Facet \ {f} : selected[g] = filters[g]
      /\ selected.min = filters.min /\ selected.max = filters.max
      /\ selected.radius = filters.radius
  BY DEF Filters, Facet
<1> HIDE DEF filters, selected
<1>2. ASSUME NEW d
      PROVE  PostFilter(d, selected) <=> Others(f, d, filters) /\ v \in d[f]
  <2>1. TermsClause(f, d, selected) <=> v \in d[f]
    BY <1>1 DEF TermsClause
  <2>2. \A g \in Facet \ {f} : TermsClause(g, d, selected) <=> TermsClause(g, d, filters)
    BY <1>1 DEF TermsClause
  <2>3. PriceClause(d, selected) <=> PriceClause(d, filters)
    BY <1>1 DEF PriceClause
  <2>4. GeoClause(d, selected) <=> GeoClause(d, filters)
    BY <1>1 DEF GeoClause
  <2>5. f # "price"
    BY DEF Facet
  <2> QED
    BY <2>1, <2>2, <2>3, <2>4, <2>5 DEF PostFilter, Others
<1>3. Found(selected) = {i \in Live : Others(f, doc[i], filters) /\ v \in doc[i][f]}
  BY <1>2 DEF Found
<1> QED
  BY <1>3 DEF Bucket, filters, selected

-----------------------------------------------------------------------------
(* The ordering of the hits.                                               *)

Sort == [field : SortField, direction : {"asc", "desc"}]

\* A tuple of this ordering.
TupleOf(t, sort) ==
    DOMAIN t = DOMAIN SortDirections(sort) /\ \A k \in DOMAIN t : t[k] \in Int

\* Key k of tuple s is before that of t.
Key(s, t, directions, k) == IF directions[k] = "asc" THEN s[k] < t[k] ELSE s[k] > t[k]

LEMMA KeysOf ==
  ASSUME NEW sort \in Sort
  PROVE  DOMAIN SortDirections(sort) \in {{1, 2}, {1, 2, 3}}
  BY DEF SortDirections, Sort, SortField

\* Before() is the lexicographic order of the keys.
LEMMA BeforeUnfolds ==
  ASSUME NEW directions, NEW s, NEW t
  PROVE  /\ DOMAIN directions = {1, 2} =>
              (Before(s, t, directions) <=>
                  \/ Key(s, t, directions, 1)
                  \/ s[1] = t[1] /\ Key(s, t, directions, 2))
         /\ DOMAIN directions = {1, 2, 3} =>
              (Before(s, t, directions) <=>
                  \/ Key(s, t, directions, 1)
                  \/ s[1] = t[1] /\ Key(s, t, directions, 2)
                  \/ s[1] = t[1] /\ s[2] = t[2] /\ Key(s, t, directions, 3))
<1>1. /\ \A j \in 1..(1 - 1) : s[j] = t[j]
      /\ (\A j \in 1..(2 - 1) : s[j] = t[j]) <=> s[1] = t[1]
      /\ (\A j \in 1..(3 - 1) : s[j] = t[j]) <=> s[1] = t[1] /\ s[2] = t[2]
  <2>1. 1..(1 - 1) = {} /\ 1..(2 - 1) = {1} /\ 1..(3 - 1) = {1, 2}
    OBVIOUS
  <2> QED
    BY <2>1
<1> QED
  BY <1>1 DEF Before, Key

LEMMA BeforeIsStrict ==
  ASSUME NEW sort \in Sort, NEW s, NEW t, NEW u,
         TupleOf(s, sort), TupleOf(t, sort), TupleOf(u, sort)
  PROVE  LET d == SortDirections(sort) IN
         /\ ~ (Before(s, t, d) /\ Before(t, s, d))
         /\ Before(s, t, d) /\ Before(t, u, d) => Before(s, u, d)
         /\ (\E k \in DOMAIN d : s[k] # t[k]) => Before(s, t, d) \/ Before(t, s, d)
<1> DEFINE d == SortDirections(sort)
<1>1. CASE DOMAIN d = {1, 2}
  <2>1. \A k \in {1, 2} : s[k] \in Int /\ t[k] \in Int /\ u[k] \in Int
    BY <1>1 DEF TupleOf
  <2> HIDE DEF d
  <2> QED
    BY <1>1, <2>1, BeforeUnfolds DEF Key, d
<1>2. CASE DOMAIN d = {1, 2, 3}
  <2>1. \A k \in {1, 2, 3} : s[k] \in Int /\ t[k] \in Int /\ u[k] \in Int
    BY <1>2 DEF TupleOf
  <2> HIDE DEF d
  <2> QED
    BY <1>2, <2>1, BeforeUnfolds DEF Key, d
<1> QED
  BY <1>1, <1>2, KeysOf

LEMMA BeforeIsIrreflexive ==
  ASSUME NEW sort \in Sort, NEW s, TupleOf(s, sort)
  PROVE  ~ Before(s, s, SortDirections(sort))
  BY BeforeIsStrict

Documents == doc \in [Id -> Catalogue \union {Absent}]

\* Product i comes before product j by its sort tuple.
Precedes(i, j, sort) == Before(SortValues(i, sort), SortValues(j, sort), SortDirections(sort))

LEMMA LiveTuples ==
  ASSUME Documents, NEW sort \in Sort, NEW i \in Live
  PROVE  TupleOf(SortValues(i, sort), sort)
<1>1. doc[i] \in Document /\ i \in Int
  BY CatalogueAssumption, SizeAssumption DEF Documents, Live, Id
<1>2. /\ doc[i].popularity \in Int /\ doc[i].score \in Int /\ doc[i].createdAt \in Int
      /\ doc[i].distance \in Int
  BY <1>1 DEF Document, Infinity
<1> QED
  BY <1>1, <1>2 DEF TupleOf, SortValues, SortDirections, Sort, SortField

\* The identifier is the last key: no two products are alike.
LEMMA LastKeyTells ==
  ASSUME NEW sort \in Sort, NEW i, NEW j, i # j
  PROVE  \E k \in DOMAIN SortDirections(sort) : SortValues(i, sort)[k] # SortValues(j, sort)[k]
<1>1. CASE sort.field = "created_at"
  <2>1. /\ 2 \in DOMAIN SortDirections(sort)
        /\ SortValues(i, sort)[2] = i /\ SortValues(j, sort)[2] = j
    BY <1>1 DEF SortValues, SortDirections
  <2> QED
    BY <2>1
<1>2. CASE sort.field # "created_at"
  <2>1. /\ 3 \in DOMAIN SortDirections(sort)
        /\ SortValues(i, sort)[3] = i /\ SortValues(j, sort)[3] = j
    BY <1>2 DEF SortValues, SortDirections, Sort, SortField
  <2> QED
    BY <2>1
<1> QED
  BY <1>1, <1>2

LEMMA ProductsAreOrdered ==
  ASSUME Documents, NEW sort \in Sort, NEW i \in Live, NEW j \in Live, NEW k \in Live
  PROVE  /\ ~ Precedes(i, i, sort)
         /\ ~ (Precedes(i, j, sort) /\ Precedes(j, i, sort))
         /\ Precedes(i, j, sort) /\ Precedes(j, k, sort) => Precedes(i, k, sort)
         /\ i # j => Precedes(i, j, sort) \/ Precedes(j, i, sort)
         /\ i # j => (Ahead(i, j, sort) <=> Precedes(i, j, sort))
<1>1. /\ TupleOf(SortValues(i, sort), sort) /\ TupleOf(SortValues(j, sort), sort)
      /\ TupleOf(SortValues(k, sort), sort)
  BY LiveTuples
<1>2. /\ ~ Precedes(i, i, sort)
      /\ ~ (Precedes(i, j, sort) /\ Precedes(j, i, sort))
      /\ Precedes(i, j, sort) /\ Precedes(j, k, sort) => Precedes(i, k, sort)
  BY <1>1, BeforeIsStrict, BeforeIsIrreflexive DEF Precedes
<1>3. i # j => Precedes(i, j, sort) \/ Precedes(j, i, sort)
  BY <1>1, BeforeIsStrict, LastKeyTells DEF Precedes
<1>4. i # j => (Ahead(i, j, sort) <=> Precedes(i, j, sort))
  BY <1>2, <1>3 DEF Ahead, Precedes
<1> QED
  BY <1>2, <1>3, <1>4

-----------------------------------------------------------------------------
(* Places in an order.  R is a set of pairs: it may order products or values. *)

StrictOrder(R, S) ==
    /\ \A i \in S : <<i, i>> \notin R
    /\ \A i, j, k \in S : <<i, j>> \in R /\ <<j, k>> \in R => <<i, k>> \in R
    /\ \A i, j \in S : i # j => <<i, j>> \in R \/ <<j, i>> \in R

\* How many members of S come before i.
Place(R, S, i) == Cardinality({j \in S \ {i} : <<j, i>> \in R})

LEMMA PlacesGrow ==
  ASSUME NEW S, IsFiniteSet(S), NEW R, StrictOrder(R, S),
         NEW i \in S, NEW j \in S, <<i, j>> \in R
  PROVE  Place(R, S, i) \in Nat /\ Place(R, S, j) \in Nat /\ Place(R, S, i) < Place(R, S, j)
<1> DEFINE Below(k) == {m \in S \ {k} : <<m, k>> \in R}
<1>1. \A k \in S : IsFiniteSet(Below(k)) /\ Cardinality(Below(k)) \in Nat
  <2>1. \A k \in S : Below(k) \in SUBSET S
    OBVIOUS
  <2> QED
    BY <2>1, FS_Subset, FS_CardinalityType
<1>2. Below(i) \subseteq Below(j) /\ i \in Below(j) /\ i \notin Below(i)
  BY DEF StrictOrder
<1> HIDE DEF Below
<1>3. Cardinality(Below(i)) <= Cardinality(Below(j)) /\ Cardinality(Below(i)) # Cardinality(Below(j))
  BY <1>1, <1>2, FS_Subset
<1> QED
  BY <1>1, <1>3 DEF Place, Below

LEMMA PlacesAreBounded ==
  ASSUME NEW S, IsFiniteSet(S), NEW R, NEW i \in S
  PROVE  Place(R, S, i) \in 0..(Cardinality(S) - 1) /\ Cardinality(S) \in Nat
<1>1. IsFiniteSet(S \ {i}) /\ Cardinality(S \ {i}) = Cardinality(S) - 1
  BY FS_RemoveElement
<1>2. {j \in S \ {i} : <<j, i>> \in R} \in SUBSET (S \ {i})
  OBVIOUS
<1>3. Cardinality({j \in S \ {i} : <<j, i>> \in R}) <= Cardinality(S \ {i})
  BY <1>1, <1>2, FS_Subset
<1>4. IsFiniteSet({j \in S \ {i} : <<j, i>> \in R})
  BY <1>1, <1>2, FS_Subset
<1> QED
  BY <1>1, <1>3, <1>4, FS_CardinalityType DEF Place

\* The places are 0, 1, 2 and so on, one for each member.
LEMMA PlacesAreTaken ==
  ASSUME NEW S, IsFiniteSet(S), NEW R, StrictOrder(R, S)
  PROVE  [i \in S |-> Place(R, S, i)] \in Bijection(S, 0..(Cardinality(S) - 1))
<1> DEFINE places == 0..(Cardinality(S) - 1)
           f == [i \in S |-> Place(R, S, i)]
<1>1. Cardinality(S) \in Nat
  BY FS_CardinalityType
<1>2. IsFiniteSet(places) /\ Cardinality(places) = Cardinality(S)
  BY <1>1, FS_Interval
<1>3. f \in [S -> places]
  BY PlacesAreBounded
<1>4. ASSUME NEW i \in S, NEW j \in S, f[i] = f[j], i # j
      PROVE  FALSE
  <2>1. <<i, j>> \in R \/ <<j, i>> \in R
    BY <1>4 DEF StrictOrder
  <2> QED
    BY <1>4, <2>1, PlacesGrow
<1> HIDE DEF f, places
<1>5. f \in Injection(S, places)
  BY <1>3, <1>4 DEF Injection, IsInjective
<1>6. f \in Surjection(S, places)
  BY <1>2, <1>5, FS_Injection
<1> QED
  BY <1>5, <1>6 DEF Bijection, f, places

\* As many members have their place within these bounds as fit in between.
LEMMA PlacesCount ==
  ASSUME NEW S, IsFiniteSet(S), NEW R, StrictOrder(R, S),
         NEW a \in Nat, NEW b \in Int, b < Cardinality(S)
  PROVE  LET T == {i \in S : Place(R, S, i) \in a..b} IN
         IsFiniteSet(T) /\ Cardinality(T) = IF a > b THEN 0 ELSE b - a + 1
<1> DEFINE f == [i \in S |-> Place(R, S, i)]
           T == {i \in S : Place(R, S, i) \in a..b}
           g == [i \in T |-> Place(R, S, i)]
<1>1. f \in Bijection(S, 0..(Cardinality(S) - 1))
  BY PlacesAreTaken
<1>2. Cardinality(S) \in Nat
  BY FS_CardinalityType
<1>3. g \in Injection(T, a..b)
  <2>1. \A i, j \in S : Place(R, S, i) = Place(R, S, j) => i = j
    BY <1>1 DEF Bijection, Injection, IsInjective
  <2> QED
    BY <2>1 DEF Injection, IsInjective
<1>4. g \in Surjection(T, a..b)
  <2>1. ASSUME NEW n \in a..b
        PROVE  \E i \in T : g[i] = n
    <3>1. n \in 0..(Cardinality(S) - 1)
      BY <1>2
    <3>2. PICK i \in S : f[i] = n
      BY <1>1, <3>1 DEF Bijection, Surjection
    <3> QED
      BY <3>2
  <2>2. g \in [T -> a..b]
    OBVIOUS
  <2> QED
    BY <2>1, <2>2 DEF Surjection
<1>5. IsFiniteSet(T)
  BY FS_Subset
<1>6. IsFiniteSet(a..b) /\ Cardinality(a..b) = IF a > b THEN 0 ELSE b - a + 1
  BY FS_Interval
<1> HIDE DEF g, T
<1>7. Cardinality(T) = Cardinality(a..b)
  BY <1>3, <1>4, <1>6, FS_Injection
<1> QED
  BY <1>5, <1>6, <1>7 DEF T
\* There is a first member and a last one.
LEMMA EndsExist ==
  ASSUME NEW S, IsFiniteSet(S), S # {}, NEW R, StrictOrder(R, S)
  PROVE  /\ \E i \in S : \A j \in S \ {i} : <<i, j>> \in R
         /\ \E i \in S : \A j \in S \ {i} : <<j, i>> \in R
<1> DEFINE n == Cardinality(S)
           f == [i \in S |-> Place(R, S, i)]
<1>1. n \in Nat /\ n > 0
  BY FS_CardinalityType, FS_EmptySet
<1>2. \A k \in 0..(n - 1) : \E i \in S : Place(R, S, i) = k
  <2>1. f \in Surjection(S, 0..(n - 1))
    BY PlacesAreTaken DEF Bijection
  <2>2. \A k \in 0..(n - 1) : \E i \in S : f[i] = k
    BY <2>1 DEF Surjection
  <2> QED
    BY <2>2
<1> HIDE DEF n
<1>3. \A i, j \in S : <<i, j>> \in R => Place(R, S, i) < Place(R, S, j)
  BY PlacesGrow
<1>4. \A i \in S : Place(R, S, i) \in 0..(n - 1)
  BY PlacesAreBounded DEF n
<1>5. \A i, j \in S : i # j => <<i, j>> \in R \/ <<j, i>> \in R
  BY DEF StrictOrder
<1>6. PICK first \in S : Place(R, S, first) = 0
  BY <1>1, <1>2
<1>7. PICK last \in S : Place(R, S, last) = n - 1
  BY <1>1, <1>2
<1>8. ASSUME NEW j \in S \ {first}
      PROVE  <<first, j>> \in R
  <2>1. ~ (Place(R, S, j) < 0)
    BY <1>4
  <2> QED
    BY <1>3, <1>5, <1>6, <2>1
<1>9. ASSUME NEW j \in S \ {last}
      PROVE  <<j, last>> \in R
  <2>1. ~ (n - 1 < Place(R, S, j))
    BY <1>1, <1>4
  <2> QED
    BY <1>3, <1>5, <1>7, <2>1
<1> QED
  BY <1>8, <1>9

-----------------------------------------------------------------------------
(* The hits of a page: a stretch of the products in this order.            *)

Forerunners(S, i, sort) == {j \in S \ {i} : Ahead(j, i, sort)}
Rank(S, i, sort) == Cardinality(Forerunners(S, i, sort))
First(S, n, sort) == {i \in S : Rank(S, i, sort) < n}

\* The order of S as a set of pairs.
Order(S, sort) == {p \in S \X S : Ahead(p[1], p[2], sort)}

LEMMA Finite ==
  ASSUME NEW S, S \subseteq Id
  PROVE  IsFiniteSet(S) /\ Cardinality(S) \in Nat
<1>1. IsFiniteSet(Id)
  BY SizeAssumption, FS_Interval DEF Id
<1> QED
  BY <1>1, FS_Subset, FS_CardinalityType

LEMMA ProductsHavePlaces ==
  ASSUME Documents, NEW sort \in Sort, NEW S, S \subseteq Live
  PROVE  /\ IsFiniteSet(S) /\ StrictOrder(Order(S, sort), S)
         /\ \A i \in S : Rank(S, i, sort) = Place(Order(S, sort), S, i)
<1>1. IsFiniteSet(S)
  BY Finite DEF Live
<1>2. \A i, j \in S : <<i, j>> \in Order(S, sort) <=> Ahead(i, j, sort)
  BY DEF Order
<1>3. StrictOrder(Order(S, sort), S)
  <2>1. \A i \in S : ~ Ahead(i, i, sort)
    <3>1. \A i \in S : i \in Int /\ ~ Precedes(i, i, sort)
      BY ProductsAreOrdered DEF Live, Id
    <3> QED
      BY <3>1 DEF Ahead, Precedes
  <2>2. ASSUME NEW i \in S, NEW j \in S, NEW k \in S, Ahead(i, j, sort), Ahead(j, k, sort)
        PROVE  Ahead(i, k, sort)
    <3>1. Precedes(i, j, sort) /\ Precedes(j, k, sort)
      BY <2>1, <2>2, ProductsAreOrdered
    <3>2. Precedes(i, k, sort)
      BY <3>1, ProductsAreOrdered
    <3> QED
      BY <3>2 DEF Ahead, Precedes
  <2>3. \A i, j \in S : i # j => Ahead(i, j, sort) \/ Ahead(j, i, sort)
    BY ProductsAreOrdered
  <2> QED
    BY <1>2, <2>1, <2>2, <2>3 DEF StrictOrder
<1>4. ASSUME NEW i \in S
      PROVE  Forerunners(S, i, sort) = {j \in S \ {i} : <<j, i>> \in Order(S, sort)}
  BY <1>2 DEF Forerunners
<1> QED
  BY <1>1, <1>3, <1>4 DEF Rank, Place

\* Who comes before another has a smaller rank.
LEMMA RanksFollow ==
  ASSUME Documents, NEW sort \in Sort, NEW S, S \subseteq Live,
         NEW i \in S, NEW j \in S, i # j, Ahead(i, j, sort)
  PROVE  /\ Rank(S, i, sort) \in Nat /\ Rank(S, j, sort) \in Nat
         /\ Rank(S, i, sort) < Rank(S, j, sort)
<1>1. <<i, j>> \in Order(S, sort)
  BY DEF Order
<1> QED
  BY <1>1, ProductsHavePlaces, PlacesGrow

LEMMA RanksAreNumbers ==
  ASSUME Documents, NEW sort \in Sort, NEW S, S \subseteq Live, NEW i \in S
  PROVE  Rank(S, i, sort) \in 0..(Cardinality(S) - 1) /\ Cardinality(S) \in Nat
<1>1. IsFiniteSet(S) /\ Rank(S, i, sort) = Place(Order(S, sort), S, i)
  BY ProductsHavePlaces
<1> QED
  BY <1>1, PlacesAreBounded

\* A stretch of the products has as many as there are from its beginning on, and
\* no more than its size.
LEMMA StretchCount ==
  ASSUME Documents, NEW sort \in Sort, NEW S, S \subseteq Live,
         NEW from \in Nat, NEW size \in Nat \ {0}
  PROVE  LET page == {i \in S : Rank(S, i, sort) \in from..(from + size - 1)}
             n == Cardinality(S)
         IN  /\ n \in Nat
             /\ Cardinality(page) = IF from >= n THEN 0
                                     ELSE IF from + size <= n THEN size ELSE n - from
<1> DEFINE R == Order(S, sort)
           n == Cardinality(S)
           Within(b) == {i \in S : Place(R, S, i) \in from..b}
           page == {i \in S : Rank(S, i, sort) \in from..(from + size - 1)}
<1>1. /\ IsFiniteSet(S) /\ StrictOrder(R, S) /\ n \in Nat
      /\ \A i \in S : Rank(S, i, sort) = Place(R, S, i)
  BY ProductsHavePlaces, FS_CardinalityType
<1>2. page = Within(from + size - 1)
  BY <1>1
<1>3. ASSUME NEW b \in Int, b < n
      PROVE  Cardinality(Within(b)) = IF from > b THEN 0 ELSE b - from + 1
  BY <1>1, <1>3, PlacesCount
<1>4. \A i \in S : Place(R, S, i) \in 0..(n - 1)
  BY <1>1, PlacesAreBounded
<1>5. from + size > n => Within(from + size - 1) = Within(n - 1)
  BY <1>1, <1>4
<1>6. page = Within(from + size - 1) /\ n \in Nat
  BY <1>1, <1>2
<1> HIDE DEF Within, page, R, n
<1>7. Cardinality(page) = IF from >= n THEN 0 ELSE IF from + size <= n THEN size ELSE n - from
  <2>1. CASE from + size <= n
    BY <1>3, <1>6, <2>1
  <2>2. CASE from + size > n
    BY <1>3, <1>5, <1>6, <2>2
  <2> QED
    BY <1>6, <2>1, <2>2
<1> QED
  BY <1>6, <1>7 DEF page, n

\* A page that leaves something out is full.
LEMMA FullPage ==
  ASSUME Documents, NEW sort \in Sort, NEW S, S \subseteq Live, NEW n \in Nat \ {0},
         First(S, n, sort) # S
  PROVE  Cardinality(First(S, n, sort)) >= n
<1> DEFINE page == {i \in S : Rank(S, i, sort) \in 0..(0 + n - 1)}
<1>1. First(S, n, sort) = page
  BY RanksAreNumbers DEF First
<1>2. /\ Cardinality(S) \in Nat
      /\ Cardinality(page) = IF 0 >= Cardinality(S) THEN 0
                              ELSE IF 0 + n <= Cardinality(S) THEN n ELSE Cardinality(S) - 0
  BY StretchCount
<1>3. page # S /\ page \in SUBSET S /\ IsFiniteSet(S)
  BY <1>1, ProductsHavePlaces
<1> HIDE DEF page
<1>4. Cardinality(page) # Cardinality(S)
  BY <1>3, FS_Subset
<1> QED
  BY <1>1, <1>2, <1>4

\* A page has a last hit.
LEMMA LastExists ==
  ASSUME Documents, NEW sort \in Sort, NEW page, page \subseteq Live, page # {}
  PROVE  \E i \in page : \A j \in page \ {i} : Ahead(j, i, sort)
<1>1. PICK i \in page : \A j \in page \ {i} : <<j, i>> \in Order(page, sort)
  BY ProductsHavePlaces, EndsExist
<1> QED
  BY <1>1 DEF Order

\* The page is what is not behind its last hit.
LEMMA PageEndsAtLast ==
  ASSUME Documents, NEW sort \in Sort, NEW S, S \subseteq Live, NEW n \in Nat,
         NEW page, page = First(S, n, sort), page # {}
  PROVE  /\ LastHit(page, sort) \in page
         /\ \A i \in S : i \in page <=> ~ Precedes(LastHit(page, sort), i, sort)
<1> DEFINE last == LastHit(page, sort)
<1>1. page \subseteq S
  BY DEF First
<1>2. last \in page /\ \A j \in page \ {last} : Ahead(j, last, sort)
  BY <1>1, LastExists DEF LastHit
<1> HIDE DEF last
<1>3. ASSUME NEW i \in page
      PROVE  ~ Precedes(last, i, sort)
  <2>1. CASE i = last
    BY <1>1, <1>2, <2>1, ProductsAreOrdered
  <2>2. CASE i # last
    <3>1. Precedes(i, last, sort)
      BY <1>1, <1>2, <2>2, ProductsAreOrdered
    <3> QED
      BY <1>1, <1>2, <3>1, ProductsAreOrdered
  <2> QED
    BY <2>1, <2>2
<1>4. ASSUME NEW i \in S, i \notin page
      PROVE  Precedes(last, i, sort)
  <2>1. ~ (Rank(S, i, sort) < n) /\ Rank(S, last, sort) < n
    BY <1>2, <1>4 DEF First
  <2>2. ~ Ahead(i, last, sort)
    BY <1>1, <1>2, <1>4, <2>1, RanksFollow, RanksAreNumbers
  <2> QED
    BY <1>1, <1>2, <1>4, <2>2, ProductsAreOrdered
<1> QED
  BY <1>2, <1>3, <1>4 DEF last

-----------------------------------------------------------------------------
(* The scan.                                                               *)

PassedBy(c, i) ==
    /\ c.kind = "tuple"
    /\ ~ Before(c.at, SortValues(i, ResolveSort(query)), SortDirections(ResolveSort(query)))

\* The product is on the pages received so far.
Passed(i) ==
    IF pc = "answered" /\ status = "ok"
    THEN response.next = NoCursor \/ PassedBy(response.next, i)
    ELSE PassedBy(cursor, i)

LeadsOn(c) == c.kind = "tuple" => TupleOf(c.at, ResolveSort(query))

\* Each product that stays has been seen once if it was passed, and not otherwise.
Scanning ==
    /\ query.page <= 1
    /\ LeadsOn(cursor)
    /\ pc = "answered" /\ status = "ok" => LeadsOn(response.next)
    /\ steady \subseteq Found(Filters(query))
    /\ \A i \in steady : seen[i] = IF Passed(i) THEN 1 ELSE 0

SInv ==
    /\ query \in Query /\ Documents
    /\ DOMAIN seen = Id
    /\ pc \in {"idle", "asked", "answered"}
    /\ pc = "idle" => ~ scan /\ \A i \in Id : seen[i] = 0
    /\ pc = "answered" /\ status # "ok" => response.next.kind = "none"
    /\ scan => Scanning

LEMMA QuerySorts ==
  ASSUME NEW q \in Query
  PROVE  ResolveSort(q) \in Sort
  BY DEF ResolveSort, Query, Sort, SortField

LEMMA InitSInv == Init => SInv
<1> SUFFICES ASSUME Init
             PROVE  SInv
  OBVIOUS
<1>1. query \in Query /\ Documents
  BY QueriesAssumption DEF Init, Documents
<1> QED
  BY <1>1 DEF Init, SInv

LEMMA AsksKeepsScan ==
  ASSUME SInv, Asks
  PROVE  SInv'
<1>1. /\ pc = "idle" /\ pc' = "asked" /\ cursor' = NoCursor
      /\ doc' = doc /\ query' = query /\ response' = response /\ seen' = seen
      /\ scan' => query.page <= 1 /\ steady' = Found(Filters(query))
  BY DEF Asks
<1>2. scan' => Scanning'
  <2>1. Found(Filters(query))' = Found(Filters(query))
    BY <1>1 DEF Found, Live
  <2>2. \A i : ~ Passed(i)'
    BY <1>1 DEF Passed, PassedBy, NoCursor
  <2>3. \A i \in Found(Filters(query)) : i \in Id
    BY DEF Found, Live
  <2> QED
    BY <1>1, <2>1, <2>2, <2>3 DEF Scanning, LeadsOn, NoCursor, SInv
<1> QED
  BY <1>1, <1>2 DEF SInv, Documents

\* The sort of the query stays, and so do the tuples of unchanged products.
LEMMA TuplesStay ==
  ASSUME ResolveSort(query)' = ResolveSort(query),
         NEW i, doc'[i] = doc[i]
  PROVE  SortValues(i, ResolveSort(query))' = SortValues(i, ResolveSort(query))
  BY DEF SortValues

\* The client asks for the next page, or gets none this time.
LEMMA AsksOnKeepsScan ==
  ASSUME SInv, Rejects \/ Refuses \/ Fails \/ AsksAgain \/ Follows
  PROVE  SInv'
<1>1. doc' = doc /\ seen' = seen /\ scan' = scan /\ steady' = steady
  BY DEF Rejects, Refuses, Fails, AsksAgain, Follows, observed
<1>2. /\ query' \in Query /\ (query.page <= 1 => query'.page <= 1)
      /\ ResolveSort(query)' = ResolveSort(query) /\ Filters(query)' = Filters(query)
  <2>1. CASE Follows
    BY <2>1 DEF Follows, SInv, Query, ResolveSort, Filters
  <2>2. CASE ~ Follows
    <3>1. query' = query
      BY <2>2 DEF Rejects, Refuses, Fails, AsksAgain
    <3> QED
      BY <3>1 DEF SInv, ResolveSort, Filters
  <2> QED
    BY <2>1, <2>2
<1>3. /\ pc' \in {"asked", "answered"} /\ pc # "idle"
      /\ pc' = "answered" => status' # "ok" /\ response'.next.kind = "none"
  BY DEF Rejects, Refuses, Fails, AsksAgain, Follows, AnswersNothing, NoResponse, NoCursor
<1>4. ASSUME scan
      PROVE  Scanning'
  <2>1. /\ query.page <= 1 /\ LeadsOn(cursor)
        /\ pc = "answered" /\ status = "ok" => LeadsOn(response.next)
        /\ steady \subseteq Found(Filters(query))
        /\ \A i \in steady : seen[i] = IF Passed(i) THEN 1 ELSE 0
    BY <1>4 DEF SInv, Scanning
  <2>2. Found(Filters(query))' = Found(Filters(query))
    BY <1>1, <1>2 DEF Found, Live
  <2>3. CASE Follows
    <3>1. /\ pc = "answered" /\ status = "ok" /\ response.next.kind = "tuple"
          /\ pc' = "asked" /\ cursor' = response.next
      BY <2>3 DEF Follows, SInv
    <3>2. LeadsOn(cursor)'
      BY <1>2, <2>1, <3>1 DEF LeadsOn
    <3>3. ASSUME NEW i \in steady
          PROVE  Passed(i)' <=> Passed(i)
      <4>1. SortValues(i, ResolveSort(query))' = SortValues(i, ResolveSort(query))
        BY <1>1, <1>2, TuplesStay
      <4> QED
        BY <1>2, <3>1, <4>1 DEF Passed, PassedBy, NoCursor
    <3> QED
      BY <1>1, <1>2, <2>1, <2>2, <3>1, <3>2, <3>3 DEF Scanning
  <2>4. CASE ~ Follows
    <3>1. /\ cursor' = cursor
          /\ ~ (pc = "answered" /\ status = "ok") /\ ~ (pc' = "answered" /\ status' = "ok")
      BY <2>4 DEF Rejects, Refuses, Fails, AsksAgain
    <3>2. LeadsOn(cursor)'
      BY <1>2, <2>1, <3>1 DEF LeadsOn
    <3>3. ASSUME NEW i \in steady
          PROVE  Passed(i)' <=> Passed(i)
      <4>1. SortValues(i, ResolveSort(query))' = SortValues(i, ResolveSort(query))
        BY <1>1, <1>2, TuplesStay
      <4> QED
        BY <1>2, <3>1, <4>1 DEF Passed, PassedBy
    <3> QED
      BY <1>1, <1>2, <2>1, <2>2, <3>1, <3>2, <3>3 DEF Scanning
  <2> QED
    BY <2>3, <2>4
<1> QED
  BY <1>1, <1>2, <1>3, <1>4 DEF SInv, Documents

\* A scan is left.
LEMMA LeavesKeepScan ==
  ASSUME SInv, Strays \/ Ends
  PROVE  SInv'
<1>1. /\ doc' = doc /\ ~ scan' /\ seen' = [i \in Id |-> 0]
      /\ pc' \in {"idle", "asked"}
  BY DEF Strays, Ends
<1>2. query' \in Query
  <2>1. CASE Strays
    <3>1. NormalizePage(query.page) + 1 \in Nat
      BY DEF SInv, Query, NormalizePage
    <3> QED
      BY <2>1, <3>1 DEF SInv, Query, Strays, SortField
  <2>2. CASE Ends
    BY <2>2, QueriesAssumption DEF Ends
  <2> QED
    BY <2>1, <2>2
<1> QED
  BY <1>1, <1>2 DEF SInv, Documents

\* The index changes: the product is not steady any more.
LEMMA ChangesKeepScan ==
  ASSUME SInv, NEW p \in Id, NEW d \in Catalogue \union {Absent}, Changes(p, d)
  PROVE  SInv'
<1>1. /\ doc' = [doc EXCEPT ![p] = d] /\ steady' = steady \ {p}
      /\ pc' = pc /\ query' = query /\ cursor' = cursor /\ response' = response
      /\ status' = status /\ scan' = scan /\ seen' = seen
  BY DEF Changes, client
<1>2. Documents' /\ \A i \in Id \ {p} : doc'[i] = doc[i]
  BY <1>1 DEF SInv, Documents
<1>3. ResolveSort(query)' = ResolveSort(query) /\ Filters(query)' = Filters(query)
  BY <1>1 DEF ResolveSort, Filters
<1>4. ASSUME scan
      PROVE  Scanning'
  <2>1. /\ query.page <= 1 /\ LeadsOn(cursor)
        /\ pc = "answered" /\ status = "ok" => LeadsOn(response.next)
        /\ steady \subseteq Found(Filters(query))
        /\ \A i \in steady : seen[i] = IF Passed(i) THEN 1 ELSE 0
    BY <1>4 DEF SInv, Scanning
  <2>2. steady' \subseteq Found(Filters(query))'
    BY <1>1, <1>2, <1>3, <2>1 DEF Found, Live
  <2>3. LeadsOn(cursor)' /\ (pc' = "answered" /\ status' = "ok" => LeadsOn(response.next)')
    BY <1>1, <1>3, <2>1 DEF LeadsOn
  <2>4. ASSUME NEW i \in steady'
        PROVE  Passed(i)' <=> Passed(i)
    <3>1. doc'[i] = doc[i]
      BY <1>1, <1>2, <2>1, <2>4 DEF Found, Live
    <3>2. SortValues(i, ResolveSort(query))' = SortValues(i, ResolveSort(query))
      BY <1>3, <3>1, TuplesStay
    <3> QED
      BY <1>1, <1>3, <3>2 DEF Passed, PassedBy
  <2> QED
    BY <1>1, <2>1, <2>2, <2>3, <2>4 DEF Scanning
<1> QED
  BY <1>1, <1>2, <1>4 DEF SInv

\* The products behind the cursor, in the order of the query.
Rest == {i \in Found(Filters(query)) : ~ PassedBy(cursor, i)}

\* A page of a scan begins right behind its cursor.
LEMMA ScanPages ==
  ASSUME SInv, scan
  PROVE  LET body == Body(query, cursor) IN
         /\ Hits(body) = First(Rest, body.size, ResolveSort(query))
         /\ body.size \in Nat \ {0} /\ body.sort = ResolveSort(query)
         /\ body.filters = Filters(query)
<1> DEFINE body == Body(query, cursor)
           sort == ResolveSort(query)
<1>1. NormalizePage(query.page) = 1
  BY DEF SInv, Scanning, Query, NormalizePage
<1>2. /\ body.size = ClampPageSize(query.pageSize) /\ body.size \in Nat \ {0}
      /\ body.sort = sort /\ body.filters = Filters(query) /\ body.after = cursor
  BY PageSizeIsBounded, WindowAssumption DEF SInv, Query, Body
<1>3. body.from = 0
  <2>1. body.from \in {0, (1 - 1) * ClampPageSize(query.pageSize)}
    BY <1>1 DEF Body
  <2> QED
    BY <1>2, <2>1
<1> HIDE DEF body
<1>4. Rest = {i \in Found(body.filters) : body.after.kind = "tuple" =>
                 Before(body.after.at, SortValues(i, body.sort), SortDirections(body.sort))}
  BY <1>2 DEF Rest, PassedBy
<1>5. Rest \subseteq Live
  BY DEF Rest, Found
<1>6. Hits(body) = {i \in Rest : Rank(Rest, i, sort) \in 0..(0 + body.size - 1)}
  BY <1>2, <1>3, <1>4 DEF Hits, Rank, Forerunners
<1>7. \A i \in Rest : Rank(Rest, i, sort) \in 0..(0 + body.size - 1) <=> Rank(Rest, i, sort) < body.size
  BY <1>2, <1>5, QuerySorts, RanksAreNumbers DEF SInv
<1>8. Hits(body) = First(Rest, body.size, sort)
  BY <1>6, <1>7 DEF First
<1> QED
  BY <1>2, <1>8 DEF body

\* The page is all that is left, and the last one; or it ends where the next begins.
LEMMA ScanGoesOn ==
  ASSUME SInv, scan,
         NEW page, page = Hits(Body(query, cursor)),
         NEW next, next = NextCursor(page, Body(query, cursor))
  PROVE  /\ page \subseteq Rest
         /\ LeadsOn(next)
         /\ next = NoCursor => page = Rest
         /\ next # NoCursor => next.kind = "tuple"
         /\ next # NoCursor =>
                \A i \in Found(Filters(query)) : PassedBy(next, i) <=> PassedBy(cursor, i) \/ i \in page
<1> DEFINE body == Body(query, cursor)
           sort == ResolveSort(query)
           size == body.size
<1>1. /\ page = First(Rest, size, sort) /\ size \in Nat \ {0} /\ body.sort = sort
      /\ next = NextCursor(page, body)
  BY ScanPages
<1>2. sort \in Sort /\ Documents
  BY QuerySorts DEF SInv
<1> HIDE DEF body, sort
<1>3. page \subseteq Rest /\ Rest \subseteq Live /\ Rest \subseteq Found(Filters(query))
  BY <1>1 DEF First, Rest, Found
<1>4. CASE page = {} \/ Cardinality(page) < size
  <2>1. next = NoCursor
    BY <1>1, <1>4 DEF NextCursor
  <2>2. Cardinality(page) \in Nat /\ Cardinality({}) = 0
    BY <1>3, Finite, FS_EmptySet DEF Live
  <2>3. Cardinality(page) < size
    BY <1>1, <1>4, <2>2
  <2>4. page = Rest
    <3>1. SUFFICES ASSUME page # Rest
                   PROVE  FALSE
      OBVIOUS
    <3>2. Cardinality(page) >= size
      BY <1>1, <1>2, <1>3, <3>1, FullPage
    <3> QED
      BY <1>1, <2>2, <2>3, <3>2
  <2> QED
    BY <1>3, <2>1, <2>4 DEF LeadsOn, NoCursor
<1>5. CASE ~ (page = {} \/ Cardinality(page) < size)
  <2> DEFINE last == LastHit(page, sort)
  <2>1. next = CursorAt(SortValues(last, sort))
    BY <1>1, <1>5 DEF NextCursor
  <2>2. last \in page /\ \A i \in Rest : i \in page <=> ~ Precedes(last, i, sort)
    BY <1>1, <1>2, <1>3, <1>5, PageEndsAtLast
  <2> HIDE DEF last
  <2>3. next.kind = "tuple" /\ next.at = SortValues(last, sort) /\ next # NoCursor
    BY <2>1 DEF CursorAt, NoCursor
  <2>4. TupleOf(SortValues(last, sort), sort)
    BY <1>2, <1>3, <2>2, LiveTuples
  <2>5. \A i : PassedBy(next, i) <=> ~ Precedes(last, i, sort)
    BY <2>3 DEF PassedBy, Precedes, sort
  <2>6. ASSUME NEW i \in Found(Filters(query)), PassedBy(cursor, i)
        PROVE  ~ Precedes(last, i, sort)
    <3>1. cursor.kind = "tuple" /\ ~ Before(cursor.at, SortValues(i, sort), SortDirections(sort))
      BY <2>6 DEF PassedBy, sort
    <3>2. Before(cursor.at, SortValues(last, sort), SortDirections(sort))
      BY <1>3, <2>2, <3>1 DEF Rest, PassedBy, sort
    <3>3. TupleOf(cursor.at, sort)
      BY <3>1 DEF SInv, Scanning, LeadsOn, sort
    <3>4. TupleOf(SortValues(i, sort), sort)
      BY <1>2, LiveTuples DEF Found
    <3> QED
      BY <1>2, <2>4, <3>1, <3>2, <3>3, <3>4, BeforeIsStrict DEF Precedes
  <2>7. \A i \in Found(Filters(query)) : PassedBy(next, i) <=> PassedBy(cursor, i) \/ i \in page
    BY <1>3, <2>2, <2>5, <2>6 DEF Rest
  <2>8. LeadsOn(next)
    BY <2>3, <2>4 DEF LeadsOn, sort
  <2> QED
    BY <1>3, <2>3, <2>7, <2>8
<1> QED
  BY <1>4, <1>5

LEMMA AnswersKeepsScan ==
  ASSUME SInv, Answers
  PROVE  SInv'
<1> DEFINE body == Body(query, cursor)
           page == Hits(body)
           next == NextCursor(page, body)
<1>1. /\ pc = "asked" /\ pc' = "answered" /\ status' = "ok"
      /\ response'.hits = page /\ response'.next = next
      /\ seen' = [i \in Id |-> IF scan /\ i \in page THEN MinOf(seen[i] + 1, 2) ELSE seen[i]]
      /\ doc' = doc /\ query' = query /\ cursor' = cursor /\ scan' = scan /\ steady' = steady
  BY DEF Answers, Response
<1> HIDE DEF body, page, next
<1>2. ResolveSort(query)' = ResolveSort(query) /\ Found(Filters(query))' = Found(Filters(query))
  BY <1>1 DEF ResolveSort, Found, Live, Filters
<1>3. ASSUME scan
      PROVE  Scanning'
  <2>1. /\ query.page <= 1 /\ LeadsOn(cursor)
        /\ steady \subseteq Found(Filters(query))
        /\ \A i \in steady : seen[i] = IF Passed(i) THEN 1 ELSE 0
    BY <1>3 DEF SInv, Scanning
  <2>2. /\ page \subseteq Rest /\ LeadsOn(next)
        /\ next = NoCursor => page = Rest
        /\ next # NoCursor =>
               \A i \in Found(Filters(query)) : PassedBy(next, i) <=> PassedBy(cursor, i) \/ i \in page
    BY <1>3, ScanGoesOn DEF page, next, body
  <2>3. LeadsOn(cursor)' /\ LeadsOn(response.next)'
    BY <1>1, <1>2, <2>1, <2>2 DEF LeadsOn
  <2>4. ASSUME NEW i \in steady
        PROVE  seen'[i] = IF Passed(i)' THEN 1 ELSE 0
    <3>1. i \in Found(Filters(query)) /\ i \in Id
      BY <2>1 DEF Found, Live
    <3>2. seen[i] = IF PassedBy(cursor, i) THEN 1 ELSE 0
      BY <1>1, <2>1 DEF Passed
    <3>3. i \in page => ~ PassedBy(cursor, i)
      BY <2>2 DEF Rest
    <3>4. Passed(i)' <=> PassedBy(cursor, i) \/ i \in page
      <4>1. SortValues(i, ResolveSort(query))' = SortValues(i, ResolveSort(query))
        BY <1>1, <1>2, TuplesStay
      <4>2. Passed(i)' <=> next = NoCursor \/ PassedBy(next, i)
        BY <1>1, <1>2, <4>1 DEF Passed, PassedBy
      <4>3. CASE next = NoCursor
        BY <2>2, <3>1, <4>2, <4>3 DEF Rest
      <4>4. CASE next # NoCursor
        BY <2>2, <3>1, <4>2, <4>4
      <4> QED
        BY <4>3, <4>4
    <3>5. seen'[i] = IF i \in page THEN MinOf(seen[i] + 1, 2) ELSE seen[i]
      BY <1>1, <1>3, <3>1
    <3> QED
      BY <3>2, <3>3, <3>4, <3>5 DEF MinOf
  <2> QED
    BY <1>1, <1>2, <2>1, <2>3, <2>4 DEF Scanning
<1> QED
  BY <1>1, <1>3 DEF SInv, Documents

LEMMA NextSInv == SInv /\ [Next]_vars => SInv'
<1> SUFFICES ASSUME SInv, [Next]_vars
             PROVE  SInv'
  OBVIOUS
<1>1. CASE UNCHANGED vars
  BY <1>1 DEF vars, client, observed, SInv, Documents, Scanning, LeadsOn, Passed, PassedBy,
              Found, Live, Filters, ResolveSort, SortValues
<1> QED
  BY <1>1, AsksKeepsScan, AsksOnKeepsScan, AnswersKeepsScan, LeavesKeepScan, ChangesKeepScan
  DEF Next, Replies, GoesOn

\* A client that begins at the first page and follows the cursors to the end gets
\* every product that did not change meanwhile exactly once: for any catalogue,
\* sort, page size and number of changes to other products, and any number of
\* requests that fail and are asked again.
THEOREM ScansAreExact == Spec => []ScanIsExact
<1>1. SInv => ScanIsExact
  BY DEF SInv, Scanning, ScanIsExact, Passed
<1>2. Spec => []SInv
  BY InitSInv, NextSInv, PTL DEF Spec
<1> QED
  BY <1>1, <1>2, PTL

-----------------------------------------------------------------------------
(* Pages by number, and the type of the state.                             *)

\* The products a request chooses its hits from.
Behind(body) ==
    {i \in Found(body.filters) : body.after.kind = "tuple" =>
        Before(body.after.at, SortValues(i, body.sort), SortDirections(body.sort))}

LEMMA HitsAreAStretch ==
  ASSUME Documents, NEW q \in Query, NEW c
  PROVE  LET body == Body(q, c)
             size == ClampPageSize(q.pageSize)
         IN  /\ body.size = size /\ body.size \in Nat \ {0} /\ body.size <= MaxPageSize
             /\ body.from \in Nat /\ body.sort \in Sort /\ body.filters = Filters(q)
             /\ Behind(body) \subseteq Live
             /\ Hits(body) = {i \in Behind(body) :
                    Rank(Behind(body), i, body.sort) \in body.from..(body.from + body.size - 1)}
             /\ c.kind # "tuple" =>
                    /\ Behind(body) = Found(Filters(q))
                    /\ body.from = (NormalizePage(q.page) - 1) * size
<1> DEFINE body == Body(q, c)
           size == ClampPageSize(q.pageSize)
           page == NormalizePage(q.page)
<1>1. /\ size \in Nat \ {0} /\ size <= MaxPageSize
  BY PageSizeIsBounded, WindowAssumption DEF Query
<1>2. page \in Nat /\ page >= 1
  BY DEF NormalizePage, Query
<1>3. (page - 1) * size \in Nat
  <2> HIDE DEF page, size
  <2> QED
    BY <1>1, <1>2
<1>4. /\ body.size = size /\ body.filters = Filters(q) /\ body.sort = ResolveSort(q)
      /\ body.after = c /\ body.from = IF c.kind = "tuple" THEN 0 ELSE (page - 1) * size
  BY DEF Body
<1>5. body.sort \in Sort
  BY <1>4, QuerySorts
<1>6. Behind(body) \subseteq Live
  BY DEF Behind, Found
<1>7. Hits(body) = {i \in Behind(body) :
          Rank(Behind(body), i, body.sort) \in body.from..(body.from + body.size - 1)}
  BY DEF Hits, Behind, Rank, Forerunners
<1>8. c.kind # "tuple" => Behind(body) = Found(Filters(q))
  BY <1>4 DEF Behind
<1> HIDE DEF body, page, size
<1> QED
  BY <1>1, <1>3, <1>4, <1>5, <1>6, <1>7, <1>8 DEF body, page, size

LEMMA Quotients ==
  ASSUME NEW n \in Nat, NEW size \in Nat \ {0}
  PROVE  LET pages == TotalPages(n, size) IN
         /\ pages \in Nat /\ pages <= n
         /\ n <= pages * size
         /\ pages > 0 => (pages - 1) * size < n
<1> DEFINE pages == (n + size - 1) \div size
<1>1. /\ n + size - 1 \in Nat /\ pages \in Nat
      /\ size * pages <= n + size - 1 /\ n + size - 1 < size * pages + size
  OBVIOUS
<1> HIDE DEF pages
<1>2. (pages - 1) * size + size = pages * size /\ size * pages = pages * size
  BY <1>1
<1>3. n <= pages * size /\ (pages - 1) * size < n
  BY <1>1, <1>2
<1>4. pages <= n
  <2>1. pages - 1 < n
    <3>1. CASE pages = 0
      BY <3>1
    <3>2. CASE pages # 0
      <4>1. pages - 1 \in Nat /\ pages - 1 <= (pages - 1) * size
        BY <1>1, <3>2
      <4> QED
        BY <1>1, <1>3, <4>1
    <3> QED
      BY <3>1, <3>2
  <2> QED
    BY <1>1, <2>1
<1> QED
  BY <1>1, <1>3, <1>4 DEF TotalPages, pages

\* Which part of n products is on page p of pages of this size.
LEMMA PageShare ==
  ASSUME NEW n \in Nat, NEW size \in Nat \ {0}, NEW p \in Nat \ {0},
         NEW pages \in Nat, n <= pages * size, pages > 0 => (pages - 1) * size < n,
         NEW found \in Nat,
         found = LET from == (p - 1) * size
                 IN  IF from >= n THEN 0 ELSE IF from + size <= n THEN size ELSE n - from
  PROVE  \/ p < pages /\ found = size
         \/ p = pages /\ found = n - (p - 1) * size /\ found > 0
         \/ p > pages /\ found = 0
<1> DEFINE from == (p - 1) * size
<1>1. from \in Nat /\ from + size = p * size
  OBVIOUS
<1>2. CASE p < pages
  <2>1. p * size <= (pages - 1) * size
    <3>1. p <= pages - 1 /\ pages - 1 \in Nat
      BY <1>2
    <3> QED
      BY <3>1
  <2>2. (pages - 1) * size \in Nat
    BY <1>2
  <2> HIDE DEF from
  <2>3. from + size <= n
    BY <1>1, <1>2, <2>1, <2>2
  <2> QED
    BY <1>1, <1>2, <2>3 DEF from
<1>3. CASE p = pages
  <2>1. from < n /\ n <= from + size
    BY <1>1, <1>3
  <2> HIDE DEF from
  <2>2. found = n - from
    BY <1>1, <2>1 DEF from
  <2> QED
    BY <1>1, <1>3, <2>1, <2>2 DEF from
<1>4. CASE p > pages
  <2>1. pages * size <= (p - 1) * size
    <3>1. pages <= p - 1 /\ p - 1 \in Nat
      BY <1>4
    <3> QED
      BY <3>1
  <2>2. pages * size \in Nat
    OBVIOUS
  <2> HIDE DEF from
  <2>3. from >= n
    BY <1>1, <2>1, <2>2 DEF from
  <2> QED
    BY <1>1, <1>4, <2>3 DEF from
<1> QED
  BY <1>2, <1>3, <1>4

\* What the page, the total and the number of pages of a response are.
LEMMA AnswersCount ==
  ASSUME Documents, query \in Query, Answers
  PROVE  LET size == ClampPageSize(query.pageSize)
             from == (NormalizePage(query.page) - 1) * size
             n == response'.total
             found == Cardinality(response'.hits)
         IN  /\ response'.hits \subseteq Id
             /\ found \in Nat /\ found <= size /\ size \in Nat \ {0} /\ size <= MaxPageSize
             /\ n \in 0..NumProducts /\ response'.pages = TotalPages(n, size)
             /\ cursor.kind # "tuple" =>
                    found = IF from >= n THEN 0 ELSE IF from + size <= n THEN size ELSE n - from
<1> DEFINE body == Body(query, cursor)
           size == ClampPageSize(query.pageSize)
           rest == Behind(body)
<1>1. /\ body.size = size /\ size \in Nat \ {0} /\ size <= MaxPageSize
      /\ body.from \in Nat /\ body.sort \in Sort /\ body.filters = Filters(query)
      /\ rest \subseteq Live
      /\ Hits(body) = {i \in rest : Rank(rest, i, body.sort) \in body.from..(body.from + size - 1)}
      /\ cursor.kind # "tuple" =>
             rest = Found(Filters(query)) /\ body.from = (NormalizePage(query.page) - 1) * size
  BY HitsAreAStretch
<1>2. /\ response'.hits = Hits(body)
      /\ response'.total = Cardinality(Found(body.filters))
      /\ response'.pages = TotalPages(response'.total, body.size)
  BY DEF Answers, Response
<1> HIDE DEF body, size, rest
<1>3. Cardinality(rest) \in Nat
      /\ Cardinality(Hits(body)) = IF body.from >= Cardinality(rest) THEN 0
             ELSE IF body.from + size <= Cardinality(rest) THEN size ELSE Cardinality(rest) - body.from
  <2> DEFINE from == body.from
             sort == body.sort
             page == {i \in rest : Rank(rest, i, sort) \in from..(from + size - 1)}
  <2>1. from \in Nat /\ sort \in Sort /\ Hits(body) = page
    BY <1>1
  <2> HIDE DEF from, sort
  <2>2. /\ Cardinality(rest) \in Nat
        /\ Cardinality(page) = IF from >= Cardinality(rest) THEN 0
               ELSE IF from + size <= Cardinality(rest) THEN size ELSE Cardinality(rest) - from
    BY <1>1, <2>1, StretchCount
  <2> QED
    BY <2>1, <2>2 DEF from
<1>4. Cardinality(Hits(body)) \in Nat /\ Cardinality(Hits(body)) <= size /\ Hits(body) \subseteq Id
  BY <1>1, <1>3 DEF Live
<1>5. response'.total \in 0..NumProducts
  <2>1. Found(body.filters) \in SUBSET Id /\ Cardinality(Id) = NumProducts /\ IsFiniteSet(Id)
    BY SizeAssumption, FS_Interval DEF Found, Live, Id
  <2> QED
    BY <1>2, <2>1, FS_Subset, FS_CardinalityType, SizeAssumption
<1>6. cursor.kind # "tuple" => Cardinality(rest) = response'.total
  BY <1>1, <1>2
<1> QED
  BY <1>1, <1>2, <1>3, <1>4, <1>5, <1>6 DEF size

LEMMA AnswersAddUp ==
  ASSUME Documents, query \in Query, Answers
  PROVE  NumberedPagesAddUp'
<1> DEFINE size == ClampPageSize(query.pageSize)
           page == NormalizePage(query.page)
<1>1. SUFFICES ASSUME cursor = NoCursor
               PROVE  LET found == Cardinality(response'.hits)
                      IN  \/ page < response'.pages /\ found = size
                          \/ /\ page = response'.pages /\ found > 0
                             /\ found = response'.total - (page - 1) * size
                          \/ page > response'.pages /\ found = 0
  BY DEF Answers, NumberedPagesAddUp
<1>2. page \in Nat \ {0}
  BY DEF NormalizePage, Query
<1>3. cursor.kind # "tuple"
  BY <1>1 DEF NoCursor
<1>4. /\ response'.total \in Nat /\ size \in Nat \ {0}
      /\ response'.pages = TotalPages(response'.total, size)
      /\ Cardinality(response'.hits) \in Nat
      /\ Cardinality(response'.hits) =
             LET from == (page - 1) * size
             IN  IF from >= response'.total THEN 0
                 ELSE IF from + size <= response'.total THEN size ELSE response'.total - from
  BY <1>3, AnswersCount
<1> HIDE DEF size, page
<1>5. /\ response'.pages \in Nat /\ response'.total <= response'.pages * size
      /\ response'.pages > 0 => (response'.pages - 1) * size < response'.total
  BY <1>4, Quotients
<1> QED
  BY <1>2, <1>4, <1>5, PageShare

\* Both together are inductive, with what IInv knows of the cursors.
PInv == TypeOK /\ NumberedPagesAddUp

LEMMA NoResponseFits ==
  /\ NoResponse.hits = {} /\ NoResponse.next.kind = "none"
  /\ NoResponse.total \in 0..NumProducts /\ NoResponse.pages \in 0..NumProducts
  /\ Cardinality({}) <= MaxPageSize
  BY SizeAssumption, WindowAssumption, FS_EmptySet DEF NoResponse, NoCursor

LEMMA InitPInv == Init => PInv
<1> SUFFICES ASSUME Init
             PROVE  PInv
  OBVIOUS
<1>1. response.hits \subseteq Id /\ Cardinality(response.hits) <= MaxPageSize
      /\ response.total \in 0..NumProducts /\ response.pages \in 0..NumProducts
  BY NoResponseFits DEF Init
<1>2. \A c \in {cursor, response.next} : c.kind \in {"none", "malformed", "tuple"}
  BY NoResponseFits DEF Init, NoCursor
<1>3. /\ changes \in 0..MaxChanges /\ faults \in 0..MaxFaults
      /\ seen \in [Id -> 0..2] /\ scan \in BOOLEAN /\ steady \subseteq Id
  <2>1. scan \in BOOLEAN
    BY Zenon DEF Init
  <2> QED
    BY <2>1, SizeAssumption DEF Init
<1>4. TypeOK
  BY <1>1, <1>2, <1>3, QueriesAssumption DEF Init, TypeOK
<1> QED
  BY <1>4 DEF PInv, Init, NumberedPagesAddUp

LEMMA AnswersKeepPInv ==
  ASSUME IInv', PInv, Answers
  PROVE  PInv'
<1> DEFINE size == ClampPageSize(query.pageSize)
<1>1. Documents /\ query \in Query
  BY DEF PInv, TypeOK, Documents
<1>2. /\ response'.hits \subseteq Id
      /\ Cardinality(response'.hits) \in Nat /\ Cardinality(response'.hits) <= size
      /\ size \in Nat \ {0} /\ size <= MaxPageSize
      /\ response'.total \in 0..NumProducts /\ response'.pages = TotalPages(response'.total, size)
  BY <1>1, AnswersCount
<1> HIDE DEF size
<1>3. Cardinality(response'.hits) <= MaxPageSize
  BY <1>2, WindowAssumption
<1>4. response'.pages \in 0..NumProducts
  BY <1>2, Quotients, SizeAssumption
<1>5. seen' \in [Id -> 0..2]
  <2>1. \A i \in Id : MinOf(seen[i] + 1, 2) \in 0..2
    BY DEF PInv, TypeOK, MinOf
  <2> QED
    BY <2>1 DEF Answers, PInv, TypeOK
<1>6. \A c \in {cursor', response'.next} : c.kind \in {"none", "malformed", "tuple"}
  BY DEF IInv, CursorFits
<1>7. TypeOK'
  BY <1>2, <1>3, <1>4, <1>5, <1>6 DEF Answers, PInv, TypeOK
<1> QED
  BY <1>1, <1>7, AnswersAddUp DEF PInv

LEMMA OthersKeepPInv ==
  ASSUME IInv', PInv, Asks \/ Rejects \/ Refuses \/ Fails \/ GoesOn
  PROVE  PInv'
<1>1. response' = response \/ response' = NoResponse
  BY DEF Asks, Rejects, Refuses, Fails, GoesOn, AsksAgain, Follows, Strays, Ends, AnswersNothing
<1>2. /\ response'.hits \subseteq Id /\ Cardinality(response'.hits) <= MaxPageSize
      /\ response'.total \in 0..NumProducts /\ response'.pages \in 0..NumProducts
  BY <1>1, NoResponseFits DEF PInv, TypeOK
<1>3. query' \in Query /\ \A c \in {cursor', response'.next} : c.kind \in {"none", "malformed", "tuple"}
  BY DEF IInv, CursorFits
<1>4. pc' \in {"idle", "asked", "answered"} /\ status' \in {"ok", "rejected", "refused", "unavailable"}
  BY DEF Asks, Rejects, Refuses, Fails, GoesOn, AsksAgain, Follows, Strays, Ends, PInv, TypeOK
<1>5. ~ (pc' = "answered" /\ status' = "ok")
  BY DEF Asks, Rejects, Refuses, Fails, GoesOn, AsksAgain, Follows, Strays, Ends
<1>6. scan' \in BOOLEAN /\ steady' \subseteq Id /\ seen' \in [Id -> 0..2]
  <2>1. CASE Asks
    <3>1. Found(Filters(query)) \subseteq Id
      BY DEF Found, Live
    <3>2. scan' \in BOOLEAN
      <4>1. scan' = (query.page <= 1)
        BY <2>1, Zenon DEF Asks
      <4>2. (query.page <= 1) \in BOOLEAN
        OBVIOUS
      <4> QED
        BY <4>1, <4>2
    <3> QED
      BY <2>1, <3>1, <3>2 DEF Asks, PInv, TypeOK
  <2>2. CASE Strays \/ Ends
    <3>1. scan' = FALSE /\ steady' = {} /\ seen' = [i \in Id |-> 0]
      BY <2>2 DEF Strays, Ends
    <3>2. scan' \in BOOLEAN
      BY <3>1, Zenon
    <3> QED
      BY <3>1, <3>2
  <2>3. CASE Rejects \/ Refuses \/ Fails \/ AsksAgain \/ Follows
    BY <2>3 DEF Rejects, Refuses, Fails, AsksAgain, Follows, observed, PInv, TypeOK
  <2> QED
    BY <2>1, <2>2, <2>3 DEF GoesOn
<1>7. doc' = doc /\ changes' = changes /\ faults' \in 0..MaxFaults
  BY SizeAssumption
  DEF Asks, Rejects, Refuses, Fails, GoesOn, AsksAgain, Follows, Strays, Ends, PInv, TypeOK
<1>8. TypeOK'
  BY <1>2, <1>3, <1>4, <1>6, <1>7 DEF PInv, TypeOK
<1> QED
  BY <1>5, <1>8 DEF PInv, NumberedPagesAddUp

LEMMA ChangesKeepPInv ==
  ASSUME PInv, (\E p \in Id, d \in Catalogue \union {Absent} : Changes(p, d)) \/ UNCHANGED vars
  PROVE  PInv'
<1>1. UNCHANGED <<client, faults, scan, seen>>
  BY DEF Changes, vars, observed
<1>2. doc' \in [Id -> Catalogue \union {Absent}] /\ steady' \subseteq Id
      /\ changes' \in 0..MaxChanges
  BY SizeAssumption DEF Changes, vars, observed, PInv, TypeOK
<1>3. TypeOK'
  BY <1>1, <1>2 DEF PInv, TypeOK, client
<1>4. NumberedPagesAddUp'
  BY <1>1 DEF PInv, NumberedPagesAddUp, client
<1> QED
  BY <1>3, <1>4 DEF PInv

LEMMA PInvHolds == Spec => []PInv
<1>1. IInv' /\ PInv /\ [Next]_vars => PInv'
  BY AnswersKeepPInv, OthersKeepPInv, ChangesKeepPInv DEF Next, Replies
<1>2. Spec => []IInv
  BY InitIInv, NextIInv, PTL DEF Spec
<1> QED
  BY <1>1, <1>2, InitPInv, PTL DEF Spec

\* The state of the search is of its type; in particular no page is longer than
\* the maximum, and no total or number of pages exceeds the products there are.
THEOREM SearchTypeCorrect == Spec => []TypeOK
<1>1. PInv => TypeOK
  BY DEF PInv
<1> QED
  BY <1>1, PInvHolds, PTL

\* A client that goes by page numbers can trust meta.total and meta.totalPages,
\* for any number of products, any page size and any page.
THEOREM PagesAddUp == Spec => []NumberedPagesAddUp
<1>1. PInv => NumberedPagesAddUp
  BY DEF PInv
<1> QED
  BY <1>1, PInvHolds, PTL

\* Each cursor leads beyond the one that was followed to it, whatever has changed in
\* between: a client that follows meta.nextCursor never goes in circles, and a
\* catalogue has only so many tuples.
THEOREM CursorsAdvance ==
  Spec => [][Answers /\ cursor.kind = "tuple" /\ response'.next.kind = "tuple" =>
                Before(cursor.at, response'.next.at, SortDirections(ResolveSort(query)))]_vars
<1>1. ASSUME SInv, Answers, cursor.kind = "tuple", response'.next.kind = "tuple"
      PROVE  Before(cursor.at, response'.next.at, SortDirections(ResolveSort(query)))
  <2> DEFINE body == Body(query, cursor)
             page == Hits(body)
             last == LastHit(page, body.sort)
  <2>1. /\ Documents /\ query \in Query
        /\ response'.next = NextCursor(page, body)
        /\ body.after = cursor /\ body.sort = ResolveSort(query)
    BY <1>1 DEF SInv, Answers, Response, Body
  <2>2. page \subseteq Behind(body) /\ page \subseteq Live /\ body.sort \in Sort
    BY <2>1, HitsAreAStretch
  <2>3. NextCursor(page, body) # NoCursor
    BY <1>1, <2>1 DEF NoCursor
  <2>4. page # {} /\ NextCursor(page, body) = CursorAt(SortValues(last, body.sort))
    BY <2>3 DEF NextCursor
  <2>5. last \in page
    BY <2>1, <2>2, <2>4, LastExists DEF LastHit
  <2>6. response'.next.at = SortValues(last, body.sort)
    BY <2>1, <2>4 DEF CursorAt
  <2> HIDE DEF page, last
  <2> QED
    BY <1>1, <2>1, <2>2, <2>5, <2>6 DEF Behind
<1>2. SInv => [Answers /\ cursor.kind = "tuple" /\ response'.next.kind = "tuple" =>
                  Before(cursor.at, response'.next.at, SortDirections(ResolveSort(query)))]_vars
  BY <1>1
<1> QED
  BY <1>2, InitSInv, NextSInv, PTL DEF Spec

-----------------------------------------------------------------------------
(* The facets.                                                             *)

\* The values that the terms aggregation of a facet meets, and their order.
Values(f, filters) == UNION {doc[i][f] : i \in {j \in Live : Others(f, doc[j], filters)}}

Larger(f, filters, u, v) ==
    \/ Bucket(f, u, filters) > Bucket(f, v, filters)
    \/ Bucket(f, u, filters) = Bucket(f, v, filters) /\ u < v

ByCount(f, filters) ==
    {p \in Values(f, filters) \X Values(f, filters) : Larger(f, filters, p[1], p[2])}

LEMMA CountsAreNumbers ==
  ASSUME NEW f, NEW v, NEW filters
  PROVE  Bucket(f, v, filters) \in Nat
<1>1. {i \in Live : Others(f, doc[i], filters) /\ v \in doc[i][f]} \subseteq Id
  BY DEF Live
<1> QED
  BY <1>1, Finite DEF Bucket

LEMMA ValuesAreFew ==
  ASSUME Documents, NEW f \in Facet, NEW filters
  PROVE  IsFiniteSet(Values(f, filters)) /\ Values(f, filters) \subseteq Nat
<1> DEFINE S == {j \in Live : Others(f, doc[j], filters)}
           T == {doc[i][f] : i \in S}
           g == [i \in S |-> doc[i][f]]
<1>1. IsFiniteSet(S)
  BY Finite DEF Live
<1>2. g \in Surjection(S, T)
  BY DEF Surjection
<1>3. IsFiniteSet(T)
  <2> HIDE DEF S, T, g
  <2> QED
    BY <1>1, <1>2, FS_Surjection
<1>4. \A i \in S : IsFiniteSet(doc[i][f]) /\ doc[i][f] \subseteq Nat
  <2>1. \A i \in S : doc[i] \in Catalogue
    BY DEF Documents, Live
  <2>2. \A d \in Document : d[f] \subseteq Nat
    BY DEF Document, Facet
  <2> QED
    BY <2>1, <2>2, CatalogueAssumption
<1>5. IsFiniteSet(UNION T)
  BY <1>3, <1>4, FS_UNION
<1> QED
  BY <1>4, <1>5 DEF Values

LEMMA ValuesAreOrdered ==
  ASSUME Documents, NEW f \in Facet, NEW filters
  PROVE  /\ StrictOrder(ByCount(f, filters), Values(f, filters))
         /\ Buckets(f, filters) =
               {v \in Values(f, filters) : Place(ByCount(f, filters), Values(f, filters), v) < FacetSize}
<1> DEFINE values == Values(f, filters)
           R == ByCount(f, filters)
<1>1. \A u, v \in values : <<u, v>> \in R <=> Larger(f, filters, u, v)
  BY DEF ByCount
<1>2. \A v \in values : v \in Nat /\ Bucket(f, v, filters) \in Nat
  BY ValuesAreFew, CountsAreNumbers
<1> HIDE DEF values, R
<1>3. /\ \A u \in values : ~ Larger(f, filters, u, u)
      /\ \A u, v, w \in values :
             Larger(f, filters, u, v) /\ Larger(f, filters, v, w) => Larger(f, filters, u, w)
      /\ \A u, v \in values : u # v => Larger(f, filters, u, v) \/ Larger(f, filters, v, u)
  BY <1>2 DEF Larger
<1>4. StrictOrder(R, values)
  BY <1>1, <1>3 DEF StrictOrder
<1>5. Buckets(f, filters) =
        {v \in values : Cardinality({u \in values : Larger(f, filters, u, v)}) < FacetSize}
  BY DEF Buckets, Larger, Values, values
<1>6. ASSUME NEW v \in values
      PROVE  {u \in values : Larger(f, filters, u, v)} = {u \in values \ {v} : <<u, v>> \in R}
  BY <1>1, <1>3
<1>7. Buckets(f, filters) = {v \in values : Place(R, values, v) < FacetSize}
  BY <1>5, <1>6 DEF Place
<1> QED
  BY <1>4, <1>7 DEF R, values

\* A list of buckets that leaves a value out is full.
LEMMA ListIsFull ==
  ASSUME Documents, NEW f \in Facet, NEW filters,
         NEW v \in Values(f, filters), v \notin Buckets(f, filters)
  PROVE  Cardinality(Buckets(f, filters)) = FacetSize
<1> DEFINE values == Values(f, filters)
           R == ByCount(f, filters)
           listed == {u \in values : Place(R, values, u) \in 0..(FacetSize - 1)}
<1>1. /\ StrictOrder(R, values) /\ IsFiniteSet(values) /\ v \in values /\ FacetSize \in Nat
      /\ Buckets(f, filters) = {u \in values : Place(R, values, u) < FacetSize}
  BY ValuesAreFew, ValuesAreOrdered, SizeAssumption
<1> HIDE DEF values, R
<1>2. \A u \in values : Place(R, values, u) \in 0..(Cardinality(values) - 1)
      /\ Cardinality(values) \in Nat
  BY <1>1, PlacesAreBounded
<1>3. Buckets(f, filters) = listed
  BY <1>1, <1>2
<1>4. FacetSize - 1 \in Int /\ FacetSize - 1 < Cardinality(values)
  BY <1>1, <1>2
<1>5. Cardinality(listed) = IF 0 > FacetSize - 1 THEN 0 ELSE FacetSize - 1 - 0 + 1
  BY <1>1, <1>4, PlacesCount
<1> HIDE DEF listed
<1> QED
  BY <1>1, <1>3, <1>5

\* A value that is not met would find nothing.
LEMMA UnmetIsEmpty ==
  ASSUME NEW f, NEW filters, NEW v, v \notin Values(f, filters)
  PROVE  Bucket(f, v, filters) = 0
<1>1. {i \in Live : Others(f, doc[i], filters) /\ v \in doc[i][f]} = {}
  BY DEF Values
<1> QED
  BY <1>1, FS_EmptySet DEF Bucket

\* The prices at which something is found are those that price_stats sees.
LEMMA PricesFound ==
  ASSUME Documents, NEW q \in Query
  PROVE  LET filters == Filters(q)
             found == {p \in {doc[i].price : i \in Live} :
                          Found([filters EXCEPT !.min = p, !.max = p]) # {}}
         IN  found = PricesSeen(filters)
<1> DEFINE filters == Filters(q)
           At(p) == [filters EXCEPT !.min = p, !.max = p]
<1>1. \A i \in Live : doc[i].price \in Nat
  BY CatalogueAssumption DEF Documents, Live, Document
<1>2. ASSUME NEW p \in Nat
      PROVE  Found(At(p)) = {i \in Live : Others("price", doc[i], filters) /\ doc[i].price = p}
  <2>1. /\ \A f \in Facet : At(p)[f] = filters[f]
        /\ At(p).min = p /\ At(p).max = p /\ At(p).radius = filters.radius
    BY DEF Filters, Facet
  <2> HIDE DEF At, filters
  <2>2. ASSUME NEW i \in Live
        PROVE  PostFilter(doc[i], At(p)) <=> Others("price", doc[i], filters) /\ doc[i].price = p
    <3>1. PriceClause(doc[i], At(p)) <=> doc[i].price = p
      BY <1>1, <2>1 DEF PriceClause
    <3>2. GeoClause(doc[i], At(p)) <=> GeoClause(doc[i], filters)
      BY <2>1 DEF GeoClause
    <3>3. /\ \A f \in Facet : TermsClause(f, doc[i], At(p)) <=> TermsClause(f, doc[i], filters)
          /\ Facet \ {"price"} = Facet
      BY <2>1 DEF TermsClause, Facet
    <3> QED
      BY <3>1, <3>2, <3>3 DEF PostFilter, Others
  <2> QED
    BY <2>2 DEF Found
<1> DEFINE found == {p \in {doc[i].price : i \in Live} : Found(At(p)) # {}}
<1>3. ASSUME NEW p
      PROVE  p \in found <=> p \in PricesSeen(filters)
  <2>1. p \in PricesSeen(filters) <=> \E i \in Live : Others("price", doc[i], filters) /\ doc[i].price = p
    BY DEF PricesSeen
  <2> HIDE DEF filters
  <2>2. p \in PricesSeen(filters) => p \in {doc[i].price : i \in Live}
    BY <2>1
  <2>3. p \in {doc[i].price : i \in Live} => p \in Nat
    BY <1>1
  <2> HIDE DEF At
  <2>4. p \in Nat => (Found(At(p)) # {} <=> \E i \in Live : Others("price", doc[i], filters) /\ doc[i].price = p)
    BY <1>2
  <2> QED
    BY <2>1, <2>2, <2>3, <2>4
<1>4. found = PricesSeen(filters)
  <2> HIDE DEF found, filters
  <2> QED
    BY <1>3
<1> QED
  BY <1>4

\* readPriceStats() gives their bounds.
LEMMA PricesAreWithin ==
  ASSUME Documents, NEW filters
  PROVE  /\ PriceRange(filters) \subseteq PricesSeen(filters)
         /\ \A p \in PricesSeen(filters) : \E a, b \in PriceRange(filters) : a <= p /\ p <= b
<1> DEFINE prices == PricesSeen(filters)
           S == {j \in Live : Others("price", doc[j], filters)}
           g == [i \in S |-> doc[i].price]
           R == {p \in prices \X prices : p[1] < p[2]}
<1>1. \A p \in prices : p \in Nat
  BY CatalogueAssumption DEF Documents, Live, Document, PricesSeen
<1>2. IsFiniteSet(prices)
  <2>1. IsFiniteSet(S)
    BY Finite DEF Live
  <2>2. g \in Surjection(S, prices)
    BY DEF Surjection, PricesSeen
  <2> HIDE DEF S, g, prices
  <2> QED
    BY <2>1, <2>2, FS_Surjection
<1>3. PriceRange(filters) =
        {p \in prices : (\A r \in prices : p <= r) \/ (\A r \in prices : p >= r)}
  BY DEF PriceRange
<1> HIDE DEF prices
<1>4. \A p, r \in prices : <<p, r>> \in R <=> p < r
  OBVIOUS
<1> HIDE DEF R
<1>5. StrictOrder(R, prices)
  BY <1>1, <1>4 DEF StrictOrder
<1>6. ASSUME NEW p \in prices
      PROVE  \E a, b \in PriceRange(filters) : a <= p /\ p <= b
  <2>1. PICK a \in prices : \A r \in prices \ {a} : <<a, r>> \in R
    BY <1>2, <1>5, <1>6, EndsExist
  <2>2. PICK b \in prices : \A r \in prices \ {b} : <<r, b>> \in R
    BY <1>2, <1>5, <1>6, EndsExist
  <2>3. ASSUME NEW r \in prices
        PROVE  a <= r /\ r <= b
    <3>1. r = a \/ a < r
      BY <1>4, <2>1
    <3>2. r = b \/ r < b
      BY <1>4, <2>2
    <3> QED
      BY <1>1, <3>1, <3>2
  <2>4. a \in PriceRange(filters) /\ b \in PriceRange(filters)
    BY <1>1, <1>3, <2>3
  <2> QED
    BY <2>3, <2>4
<1> QED
  BY <1>3, <1>6 DEF prices

LEMMA PromisesAreKept ==
  ASSUME Documents, query \in Query
  PROVE  FacetsKeepTheirPromise
<1> DEFINE filters == Filters(query)
           Selecting(f, v) == Cardinality(Found([filters EXCEPT ![f] = {v}]))
<1>1. ASSUME NEW f \in Facet, NEW v
      PROVE  IF v \in Buckets(f, filters)
             THEN Bucket(f, v, filters) = Selecting(f, v)
             ELSE Selecting(f, v) = 0 \/ Cardinality(Buckets(f, filters)) = FacetSize
  <2>1. Bucket(f, v, filters) = Selecting(f, v)
    BY CountsAreKept
  <2> HIDE DEF filters, Selecting
  <2>2. v \notin Values(f, filters) => Bucket(f, v, filters) = 0
    BY UnmetIsEmpty
  <2>3. v \in Values(f, filters) /\ v \notin Buckets(f, filters) => Cardinality(Buckets(f, filters)) = FacetSize
    BY ListIsFull
  <2> QED
    BY <2>1, <2>2, <2>3
<1> DEFINE found == {p \in {doc[i].price : i \in Live} :
                        Found([filters EXCEPT !.min = p, !.max = p]) # {}}
<1>2. found = PricesSeen(filters)
  BY PricesFound
<1>3. /\ PriceRange(filters) \subseteq found
      /\ \A p \in found : \E a, b \in PriceRange(filters) : a <= p /\ p <= b
  <2> HIDE DEF found, filters
  <2> QED
    BY <1>2, PricesAreWithin
<1> QED
  BY <1>1, <1>3 DEF FacetsKeepTheirPromise

\* The counts, the lists and the price range of the facets are promises of what a
\* search would find, for any index, any query and lists of any length.
THEOREM PromisesHold == Spec => []FacetsKeepTheirPromise
<1>1. TypeOK => FacetsKeepTheirPromise
  BY PromisesAreKept DEF TypeOK, Documents
<1> QED
  BY <1>1, SearchTypeCorrect, PTL

=============================================================================
