--------------------------- MODULE MCProductSearch ---------------------------
(* Model checking of ProductSearch.                                        *)
EXTENDS ProductSearch

MCDoc(c, s, l, price, popularity, distance) ==
    [categories |-> {c}, subcategories |-> s, locations |-> {l}, price |-> price,
     popularity |-> popularity, createdAt |-> 1, score |-> 1, distance |-> distance]

\* Ties in every ordering, two values in each facet, one product without
\* coordinates.
MCCatalogue ==
    {MCDoc(1, {1, 2}, 1, 1, 1, 1), MCDoc(2, {1}, 1, 2, 1, 1),
     MCDoc(1, {}, 2, 2, 2, Infinity)}

MCQuery ==
    [categories |-> {}, subcategories |-> {}, locations |-> {}, min |-> -1, max |-> -1,
     lat |-> FALSE, lon |-> FALSE, radius |-> 0, sort |-> "none", order |-> "none",
     page |-> 0, pageSize |-> 1]

MCQueries ==
    {MCQuery,
     [MCQuery EXCEPT !.sort = "popularity", !.order = "asc", !.categories = {1}],
     [MCQuery EXCEPT !.sort = "created_at", !.pageSize = 0, !.subcategories = {1}],
     [MCQuery EXCEPT !.sort = "created_at", !.pageSize = 9, !.min = 1],
     [MCQuery EXCEPT !.sort = "distance", !.lat = TRUE, !.lon = TRUE, !.locations = {1, 2}],
     [MCQuery EXCEPT !.lat = TRUE, !.lon = TRUE, !.radius = 2, !.max = 1, !.categories = {2}],
     [MCQuery EXCEPT !.sort = "distance"],
     [MCQuery EXCEPT !.page = 3, !.pageSize = 2],
     [MCQuery EXCEPT !.page = 2, !.pageSize = 2],
     [MCQuery EXCEPT !.lat = TRUE], [MCQuery EXCEPT !.radius = 1]}
=============================================================================
