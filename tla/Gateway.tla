------------------------------- MODULE Gateway -------------------------------
(***************************************************************************)
(* A request on its way through the API: the throttler and its Redis       *)
(* counters, the API key guard, validation, the handler with its use case, *)
(* and the exception filters that turn whatever was thrown into a status.  *)
(* Requests of all replicas share the counters and the products table.     *)
(*                                                                         *)
(* An input is chosen when the code first looks at it.  A price is a       *)
(* number of tenths of a cent; of a body's other fields only what some     *)
(* check tells apart is kept.                                              *)
(***************************************************************************)
EXTENDS Integers, Sequences, FiniteSets

CONSTANTS
    Request,           \* requests served at the same time
    Client,            \* what the throttler tracks
    Product,           \* identifiers
    ApiKeys,           \* the pairs of API_KEYS in their order, [key, role]
    DefaultLimit,      \* THROTTLE_LIMIT
    AutocompleteLimit, \* THROTTLE_AUTOCOMPLETE_LIMIT
    MaxSuggestions,    \* AUTOCOMPLETE_MAX_SUGGESTIONS
    MaxAskable,        \* the largest limit a query may ask for
    Names,             \* names in the index that begin with what a user types
    MaxCents,          \* the largest price that a row can hold
    MaxViews,          \* the largest popularity that a row can hold
    Price,             \* prices that bodies carry
    MaxArrivals,       \* bound: requests in all
    MaxFaults          \* bound: failed calls and dropped requests in all

ASSUME LimitAssumption == DefaultLimit \in Nat /\ AutocompleteLimit \in Nat
ASSUME SuggestionAssumption == MaxSuggestions \in Nat \ {0} /\ MaxAskable \in Nat \ {0}
ASSUME NamesAssumption == Names \in Nat
ASSUME ViewsAssumption == MaxViews \in Nat
ASSUME PriceAssumption == MaxCents \in Nat /\ Price \subseteq Int
ASSUME KeysAssumption == ApiKeys \in Seq([key : STRING, role : STRING])
ASSUME BudgetAssumption == MaxArrivals \in Nat /\ MaxFaults \in Nat

Route == {"search", "autocomplete", "create", "update", "remove", "view",
          "metrics", "readiness", "liveness"}
Writes == {"create", "update", "remove", "view"}
Bucket == Route \X Client

NoKey == ""
Role == {"admin", "ingest"}

\* text: the name is blank, or every text is there, and a row can hold them or not
\* (characters that Postgres refuses, a category too long for its index).
Content == [text : {"named", "blank", "unfit"}, place : {"nowhere", "somewhere", "null"},
            cents : Int, views : Nat]
Absent == [text |-> "none", place |-> "nowhere", cents |-> 0, views |-> 0]

\* What a request that waits knows: where it goes, who asks, the role of its key,
\* the product it is about, what it would write or answer, the suggestions it
\* asks for, and (observed) whether it has committed.
NoRequest == [route |-> "none", client |-> "none", role |-> "none", product |-> "none",
              content |-> Absent, limit |-> 0, committed |-> FALSE]

NoAnswer == <<>>

\* No list is cached.  An empty one is a list, too.
NoList == -1

VARIABLES
    failOpen,      \* THROTTLE_FAIL_OPEN
    hits,          \* Redis: requests counted in the bucket's window
    blocked,       \* Redis: buckets whose block has not expired
    lists,         \* Redis: per key the length of the suggestions cached, or NoList
    row,           \* the products table
    used,          \* identifiers already handed out
    pc,            \* where each request stands
    req,           \* what it knows
    answered,      \* the request that the last step answered, and the status
    passed,        \* observed: requests the throttler let into the bucket's window
    arrivals, faults

redis == <<hits, blocked, lists>>
database == <<row, used>>
bounds == <<arrivals, faults>>
vars == <<failOpen, redis, database, pc, req, answered, passed, bounds>>

Limits == 1..MaxSuggestions

Init ==
    /\ failOpen \in BOOLEAN
    /\ hits = [b \in Bucket |-> 0]
    /\ blocked = {}
    /\ lists = [n \in Limits |-> NoList]
    /\ row = [p \in Product |-> Absent]
    /\ used = {}
    /\ pc = [r \in Request |-> "idle"]
    /\ req = [r \in Request |-> NoRequest]
    /\ answered = NoAnswer
    /\ passed = [b \in Bucket |-> 0]
    /\ arrivals = 0
    /\ faults = 0

Present(p) == row[p] # Absent

SpendFault == faults < MaxFaults /\ faults' = faults + 1 /\ UNCHANGED arrivals

\* The request goes on, knowing this.
Goto(r, label, known) ==
    /\ pc' = [pc EXCEPT ![r] = label]
    /\ req' = [req EXCEPT ![r] = known]
    /\ answered' = NoAnswer

\* The response is sent and the request is over.
Answer(r, status) ==
    /\ pc' = [pc EXCEPT ![r] = "idle"]
    /\ req' = [req EXCEPT ![r] = NoRequest]
    /\ answered' = <<r, status>>

\* The filters: errors of the domain have a status each, and Nest makes a 400 of a
\* body that does not parse.  All others are a 500.
StatusOf(error) ==
    CASE error = "ProductNotFound" -> 404
      [] error = "SearchUnavailable" -> 503
      [] error \in {"InvalidProduct", "InvalidSearchQuery", "Syntax"} -> 400
      [] OTHER -> 500

Throws(r, error) == Answer(r, StatusOf(error))

-----------------------------------------------------------------------------
(* Arrival, throttling and authentication.                                 *)

Comes(r) ==
    /\ pc[r] = "idle"
    /\ arrivals < MaxArrivals /\ arrivals' = arrivals + 1

\* The body is parsed before any guard runs, whatever the route.  Errors of the
\* parser, of a body beyond its limit for one, are no HttpException.
ParserRefuses(r) ==
    /\ Comes(r)
    /\ \E error \in {"Syntax", "Parser"} : Throws(r, error)
    /\ UNCHANGED <<failOpen, redis, database, passed, faults>>

\* Where a request goes first: the health routes and /metrics skip the throttler,
\* and the health routes need no key.
FirstStop(to) ==
    CASE to \in {"readiness", "liveness"} -> "probe"
      [] to = "metrics" -> "auth"
      [] OTHER -> "throttle"

Arrive(r) ==
    /\ Comes(r)
    /\ \E to \in Route, by \in Client :
           Goto(r, FirstStop(to), [NoRequest EXCEPT !.route = to, !.client = by])
    /\ UNCHANGED <<failOpen, redis, database, passed, faults>>

\* Mutant: autocomplete has no budget of its own.
LimitOfAll(to) == DefaultLimit

LimitOf(to) == IF to = "autocomplete" THEN AutocompleteLimit ELSE DefaultLimit

\* The counters: a window per route and client; one request too many blocks.
Counts(b) ==
    /\ hits' = [hits EXCEPT ![b] = @ + 1]
    /\ blocked' = IF hits[b] + 1 > LimitOf(b[1]) THEN blocked \union {b} ELSE blocked
    /\ UNCHANGED lists

BucketOf(r) == <<req[r].route, req[r].client>>

Admits(r) ==
    /\ passed' = [passed EXCEPT ![BucketOf(r)] = @ + 1]
    /\ Goto(r, "auth", req[r])

Refuses(r, status) == Answer(r, status) /\ UNCHANGED passed

\* The storage has counted the request and says whether its bucket is blocked.
Throttle(r) ==
    /\ pc[r] = "throttle"
    /\ Counts(BucketOf(r))
    /\ \/ BucketOf(r) \notin blocked' /\ Admits(r)
       \/ BucketOf(r) \in blocked' /\ Refuses(r, 429)
    /\ UNCHANGED <<failOpen, database, bounds>>

\* Mutant: the limiter fails open whatever was configured.
ThrottleFailsOpen(r) ==
    /\ pc[r] = "throttle"
    /\ SpendFault
    /\ Counts(BucketOf(r)) \/ UNCHANGED redis
    /\ Admits(r)
    /\ UNCHANGED <<failOpen, database>>

\* Redis fails, perhaps after it has counted the request: fail open or closed.
ThrottleFails(r) ==
    /\ pc[r] = "throttle"
    /\ SpendFault
    /\ Counts(BucketOf(r)) \/ UNCHANGED redis
    /\ IF failOpen THEN Admits(r) ELSE Refuses(r, 503)
    /\ UNCHANGED <<failOpen, database>>

\* The counter's time to live is over, or the block's.
WindowEnds(b) ==
    /\ hits[b] > 0
    /\ hits' = [hits EXCEPT ![b] = 0]
    /\ passed' = [passed EXCEPT ![b] = 0]
    /\ answered' = NoAnswer
    /\ UNCHANGED <<failOpen, blocked, lists, database, pc, req, bounds>>

BlockEnds(b) ==
    /\ b \in blocked
    /\ blocked' = blocked \ {b}
    /\ answered' = NoAnswer
    /\ UNCHANGED <<failOpen, hits, lists, database, pc, req, passed, bounds>>

\* Mutant: every key may use every route that needs one.
RolesOfAnyKey(to) == IF to \in Writes THEN Role ELSE {}

\* The decorators: a route without roles is public.
RolesOf(to) ==
    CASE to \in {"create", "update", "remove", "metrics"} -> {"admin"}
      [] to = "view" -> {"admin", "ingest"}
      [] OTHER -> {}

\* The role of a key, "none" for none.  Pairs without a key or of an unknown role
\* are ignored, and of several pairs with the key the last one counts.
RoleFor(key) ==
    LET known == {i \in DOMAIN ApiKeys :
                     key # NoKey /\ ApiKeys[i].key = key /\ ApiKeys[i].role \in Role}
    IN  IF known = {} THEN "none"
        ELSE ApiKeys[CHOOSE i \in known : \A j \in known : j <= i].role

Key == {ApiKeys[i].key : i \in DOMAIN ApiKeys} \union {NoKey, "unknown"}

Authenticate(r) ==
    /\ pc[r] = "auth"
    /\ LET required == RolesOf(req[r].route) IN
       \/ required = {} /\ Goto(r, "input", req[r])
       \/ required # {} /\ \E key \in Key :
              \/ RoleFor(key) = "none" /\ Answer(r, 401)
              \/ RoleFor(key) \in Role \ required /\ Answer(r, 403)
              \/ RoleFor(key) \in required /\ Goto(r, "input", [req[r] EXCEPT !.role = RoleFor(key)])
    /\ UNCHANGED <<failOpen, redis, database, passed, bounds>>

-----------------------------------------------------------------------------
(* Bodies: the DTO, the controller's check, and the aggregate's own.       *)

\* A coordinate of a body: left out, null, in its range or not.
Degrees == {"none", "null", "in", "out"}

\* text: that of Content, or the name is missing or empty; good: every other field
\* passes.
Body == [text : {"empty", "blank", "named", "unfit"}, good : BOOLEAN,
         lat : Degrees, lon : Degrees, price : Price]

\* CreateProductDto, which UpdateProductDto extends.  IsOptional() lets null pass.
DtoAccepts(b) ==
    /\ b.good /\ b.text # "empty"
    /\ b.lat # "out" /\ b.lon # "out"
    /\ b.price >= 0

\* Both coordinates or neither.
Paired(b) == (b.lat = "none") = (b.lon = "none")

\* No coordinates, or two that are numbers in their range.
ValidPlace(place) == place # "null"

\* Mutant: a name of blanks will do.
ProductAcceptsBlank(content) == ValidPlace(content.place) /\ content.cents >= 0

\* Product.create(): what the DTO lets pass may be a blank or a null.
ProductAccepts(content) ==
    /\ content.text \in {"named", "unfit"} /\ ValidPlace(content.place)
    /\ content.cents >= 0

\* The mapper builds the aggregate from the row by Product.create(), too.
ReadsBack(content) == ProductAccepts(content)

\* Money.fromDecimal() rounds to the nearest cent; half a cent may fall to
\* either side, the product being one of binary fractions.
Cents(price) == {c \in -1..(MaxCents + 1) : 10 * c - price \in -5..5}

ContentOf(b, cents) ==
    [text |-> b.text, cents |-> cents, views |-> 0,
     place |-> IF b.lat = "none" THEN "nowhere"
               ELSE IF "null" \in {b.lat, b.lon} THEN "null" ELSE "somewhere"]

-----------------------------------------------------------------------------
(* The handlers receive their input.                                       *)

\* What no step of a handler touches.
Elsewhere == UNCHANGED <<failOpen, redis, passed>>

\* ValidationPipe, ParseUUIDPipe, the controller or the criteria's mapper refuses.
\* What a body has for a number may not even convert: that is a TypeError.
RejectsInput(r) ==
    /\ pc[r] = "input" /\ req[r].route # "metrics"
    /\ \/ Answer(r, 400)
       \/ req[r].route \in {"create", "update"} /\ Throws(r, "TypeError")
    /\ Elsewhere /\ UNCHANGED <<database, bounds>>

\* POST /products: every check comes before the first call to a store.
CreateReceives(r) ==
    /\ pc[r] = "input" /\ req[r].route = "create"
    /\ \E p \in Product \ used, b \in Body : \E cents \in Cents(b.price) :
           /\ DtoAccepts(b) /\ Paired(b) /\ ProductAccepts(ContentOf(b, cents))
           /\ used' = used \union {p}
           /\ Goto(r, "save", [req[r] EXCEPT !.product = p, !.content = ContentOf(b, cents)])
    /\ Elsewhere /\ UNCHANGED <<row, bounds>>

\* PUT /products/:id: the aggregate's checks are yet to come.
UpdateReceives(r) ==
    /\ pc[r] = "input" /\ req[r].route = "update"
    /\ \E p \in Product, b \in Body : \E cents \in Cents(b.price) :
           /\ DtoAccepts(b) /\ Paired(b)
           /\ Goto(r, "read", [req[r] EXCEPT !.product = p, !.content = ContentOf(b, cents)])
    /\ Elsewhere /\ UNCHANGED <<database, bounds>>

\* DELETE /products/:id and POST /products/:id/view.
IdReceives(r) ==
    /\ pc[r] = "input" /\ req[r].route \in {"remove", "view"}
    /\ \E p \in Product :
           Goto(r, IF req[r].route = "view" THEN "find" ELSE "remove",
                [req[r] EXCEPT !.product = p])
    /\ Elsewhere /\ UNCHANGED <<database, bounds>>

-----------------------------------------------------------------------------
(* The write use cases.                                                    *)

\* A transaction on the request's product commits this.
Commits(r, content) ==
    /\ row' = [row EXCEPT ![req[r].product] = content]
    /\ UNCHANGED used

\* Its reply has come, too.
Confirmed(r, content) ==
    /\ Commits(r, content)
    /\ Goto(r, "project", [req[r] EXCEPT !.content = content, !.committed = TRUE])

\* PUT reads the product first, and judges the new data only then.
UpdateReads(r) ==
    /\ pc[r] = "read"
    /\ LET old == row[req[r].product]  new == req[r].content IN
       \/ old = Absent /\ Throws(r, "ProductNotFound")
       \/ old # Absent /\ ~ (ReadsBack(old) /\ ProductAccepts(new)) /\ Throws(r, "InvalidProduct")
       \/ old # Absent /\ ReadsBack(old) /\ ProductAccepts(new)
             /\ Goto(r, "save", [req[r] EXCEPT !.content.views = old.views])
    /\ Elsewhere /\ UNCHANGED <<database, bounds>>

\* A row can hold it: no check before the database asks for that.  The price is a
\* numeric(12, 2).
RowHolds(content) == content.text # "unfit" /\ content.cents <= MaxCents

\* save(): the upsert and its outbox entry.
Save(r) ==
    /\ pc[r] = "save"
    /\ \/ RowHolds(req[r].content) /\ Confirmed(r, req[r].content)
       \/ ~ RowHolds(req[r].content) /\ Throws(r, "Prisma") /\ UNCHANGED database
    /\ Elsewhere /\ UNCHANGED bounds

\* Mutant: the number of deleted rows is not looked at.
RemoveAnyway(r) ==
    /\ pc[r] = "remove"
    /\ Commits(r, Absent)
    /\ Goto(r, "project", [req[r] EXCEPT !.committed = Present(req[r].product)])
    /\ Elsewhere /\ UNCHANGED bounds

\* delete(): nothing deleted is a 404.
Remove(r) ==
    /\ pc[r] = "remove"
    /\ \/ Present(req[r].product) /\ Confirmed(r, Absent)
       \/ ~ Present(req[r].product) /\ Throws(r, "ProductNotFound") /\ UNCHANGED database
    /\ Elsewhere /\ UNCHANGED bounds

\* incrementPopularity() looks for the row,
ViewFinds(r) ==
    /\ pc[r] = "find"
    /\ \/ Present(req[r].product) /\ Goto(r, "increment", req[r])
       \/ ~ Present(req[r].product) /\ Throws(r, "ProductNotFound")
    /\ Elsewhere /\ UNCHANGED <<database, bounds>>

Viewed(p) == [row[p] EXCEPT !.views = @ + 1]

\* The row is still there, and its counter has room for one more.
CountsOn(p) == Present(p) /\ row[p].views < MaxViews

\* and updates it; a row deleted in between or a counter at its end makes it fail.
ViewIncrements(r) ==
    /\ pc[r] = "increment"
    /\ \/ CountsOn(req[r].product) /\ Confirmed(r, Viewed(req[r].product))
       \/ ~ CountsOn(req[r].product) /\ Throws(r, "Prisma") /\ UNCHANGED database
    /\ Elsewhere /\ UNCHANGED bounds

\* Postgres fails in a read or a transaction.
PostgresFails(r) ==
    /\ pc[r] \in {"read", "find", "save", "remove", "increment"}
    /\ SpendFault
    /\ Throws(r, "Prisma")
    /\ Elsewhere /\ UNCHANGED database

\* The transaction commits, and its reply is lost.
CommitUnconfirmed(r) ==
    /\ SpendFault
    /\ LET p == req[r].product IN
       \/ pc[r] = "save" /\ RowHolds(req[r].content) /\ Commits(r, req[r].content)
       \/ pc[r] = "remove" /\ Present(p) /\ Commits(r, Absent)
       \/ pc[r] = "increment" /\ CountsOn(p) /\ Commits(r, Viewed(p))
    /\ Throws(r, "Prisma")
    /\ Elsewhere

\* A POST is a 201 unless it says otherwise, and a view does not.
SuccessOf(to) == CASE to \in {"create", "view"} -> 201 [] to = "remove" -> 204 [] OTHER -> 200

\* Mutant: the answer shows the row as it is now, which may be gone.
ProjectReadsAgain(r) ==
    /\ pc[r] = "project"
    /\ \/ Answer(r, SuccessOf(req[r].route))
       \/ req[r].route # "remove" /\ ~ Present(req[r].product) /\ Throws(r, "TypeError")
    /\ UNCHANGED bounds
    /\ Elsewhere /\ UNCHANGED database

\* Mutant: an index that is out turns the write into a 503.
ProjectOrFail(r) ==
    /\ pc[r] = "project"
    /\ \/ Answer(r, SuccessOf(req[r].route)) /\ UNCHANGED bounds
       \/ Answer(r, 503) /\ SpendFault
    /\ Elsewhere /\ UNCHANGED database

\* The generation is bumped and the index called; what fails there is logged.
Project(r) ==
    /\ pc[r] = "project"
    /\ Answer(r, SuccessOf(req[r].route))
    /\ SpendFault \/ UNCHANGED bounds
    /\ Elsewhere /\ UNCHANGED database

-----------------------------------------------------------------------------
(* The reads, and the probes.                                              *)

\* GET /products/search, from the cache or the index; modules SearchCache and
\* ProductSearch say what it answers.  The index may refuse the query, too.
Search(r) ==
    /\ pc[r] = "input" /\ req[r].route = "search"
    /\ \/ (Answer(r, 200) \/ Throws(r, "InvalidSearchQuery")) /\ UNCHANGED bounds
       \/ Throws(r, "SearchUnavailable") /\ SpendFault
    /\ Elsewhere /\ UNCHANGED database

\* Mutant: the configured maximum is only a default.
AskedLimitAsGiven(given) == IF given = 0 THEN MaxSuggestions ELSE given

\* The limit of a query, 0 when it gives none.
AskedLimit(given) ==
    IF given = 0 \/ given > MaxSuggestions THEN MaxSuggestions ELSE given

\* GET /products/autocomplete: a blank prefix has no suggestions.
SuggestReceives(r) ==
    /\ pc[r] = "input" /\ req[r].route = "autocomplete"
    /\ \/ Answer(r, 200)
       \/ \E given \in 0..MaxAskable :
              Goto(r, "suggest", [req[r] EXCEPT !.limit = AskedLimit(given)])
    /\ Elsewhere /\ UNCHANGED <<database, bounds>>

\* Mutant: all limits share one list.
SuggestKeyOfAll(limit) == MaxSuggestions

\* One prefix is enough: lists of different prefixes never meet.
SuggestKey(limit) == limit

SuggestHits(r) ==
    /\ pc[r] = "suggest"
    /\ lists[SuggestKey(req[r].limit)] # NoList
    /\ Answer(r, 200)
    /\ Elsewhere /\ UNCHANGED <<database, bounds>>

\* What the index has for a limit: each name once, the first so many.
Suggested(limit) == IF limit < Names THEN limit ELSE Names

\* A miss, or Redis fails.  The list is stored, or not.
Misses(r) ==
    /\ pc[r] = "suggest"
    /\ \/ lists[SuggestKey(req[r].limit)] = NoList /\ UNCHANGED bounds
       \/ SpendFault

SuggestAsks(r) ==
    /\ Misses(r)
    /\ lists' \in {lists, [lists EXCEPT ![SuggestKey(req[r].limit)] = Suggested(req[r].limit)]}
    /\ Answer(r, 200)
    /\ UNCHANGED <<failOpen, hits, blocked, database, passed>>

\* The index is out, or refuses the query.
SuggestFails(r) ==
    /\ \/ pc[r] = "suggest" /\ SpendFault /\ Throws(r, "SearchUnavailable")
       \/ Misses(r) /\ Throws(r, "InvalidSearchQuery")
    /\ Elsewhere /\ UNCHANGED database

\* A cached list expires, or a write puts it out of reach.
ListExpires(n) ==
    /\ lists[n] # NoList
    /\ lists' = [lists EXCEPT ![n] = NoList]
    /\ answered' = NoAnswer
    /\ UNCHANGED <<failOpen, hits, blocked, database, pc, req, passed, bounds>>

\* Readiness pings Postgres, Elasticsearch and Redis, liveness nothing.
Probe(r) ==
    /\ pc[r] = "probe"
    /\ \/ Answer(r, 200) /\ UNCHANGED bounds
       \/ req[r].route = "readiness" /\ Answer(r, 503) /\ SpendFault
    /\ Elsewhere /\ UNCHANGED database

\* GET /metrics: what the process has counted.
Scrape(r) ==
    /\ pc[r] = "input" /\ req[r].route = "metrics"
    /\ Answer(r, 200)
    /\ Elsewhere /\ UNCHANGED <<database, bounds>>

\* The process stops, and the connection with it.
Drop(r) ==
    /\ pc[r] # "idle"
    /\ SpendFault
    /\ Goto(r, "idle", NoRequest)
    /\ Elsewhere /\ UNCHANGED database

-----------------------------------------------------------------------------

RequestStep(r) ==
    \/ Throttle(r) \/ ThrottleFails(r) \/ Authenticate(r) \/ RejectsInput(r)
    \/ CreateReceives(r) \/ UpdateReceives(r) \/ IdReceives(r)
    \/ UpdateReads(r) \/ Save(r) \/ Remove(r) \/ ViewFinds(r) \/ ViewIncrements(r)
    \/ PostgresFails(r) \/ CommitUnconfirmed(r) \/ Project(r)
    \/ Search(r) \/ SuggestReceives(r) \/ SuggestHits(r) \/ SuggestAsks(r) \/ SuggestFails(r)
    \/ Probe(r) \/ Scrape(r) \/ Drop(r)

Next ==
    \/ \E r \in Request : Arrive(r) \/ ParserRefuses(r) \/ RequestStep(r)
    \/ \E b \in Bucket : WindowEnds(b) \/ BlockEnds(b)
    \/ \E n \in Limits : ListExpires(n)

Spec == Init /\ [][Next]_vars

-----------------------------------------------------------------------------
(* Properties.                                                             *)

\* The type invariant.
TypeOK ==
    /\ failOpen \in BOOLEAN
    /\ hits \in [Bucket -> Nat] /\ passed \in [Bucket -> Nat]
    /\ blocked \subseteq Bucket
    /\ lists \in [Limits -> {NoList} \union 0..MaxSuggestions]
    /\ row \in [Product -> Content \union {Absent}]
    /\ used \subseteq Product
    /\ pc \in [Request -> {"idle", "throttle", "auth", "input", "read", "save", "remove",
                            "find", "increment", "project", "suggest", "probe"}]
    /\ req \in [Request -> [route : Route \union {"none"}, client : Client \union {"none"},
                             role : Role \union {"none"}, product : Product \union {"none"},
                             content : Content \union {Absent}, limit : 0..MaxSuggestions,
                             committed : BOOLEAN]]
    /\ answered \in {NoAnswer} \union
           (Request \X {200, 201, 204, 400, 401, 403, 404, 429, 500, 503})
    /\ arrivals \in Nat /\ faults \in Nat

\* "Limits hold across replicas" (AppModule): however requests of all replicas
\* interleave, no window of a route and client lets in more than its budget, one
\* more for each failure of the limiter that was told to fail open, and none for
\* one that fails closed, although a failed call may have been counted.
BudgetHolds ==
    \A b \in Bucket :
        passed[b] <= (IF b[1] = "autocomplete" THEN AutocompleteLimit ELSE DefaultLimit)
                         + (IF failOpen THEN faults ELSE 0)

\* Every row can be read back.  The mapper builds the aggregate anew, checks and
\* all, so one bad row would fail each update of it, each replay of its entries
\* and every reindex.
RowsReadBack ==
    \A p \in Product :
        Present(p) =>
            /\ row[p].text = "named" /\ row[p].place # "null"
            /\ row[p].cents \in 0..MaxCents

\* A success answers what the request itself has committed, and not what another
\* request, deleting or viewing the product at the same time, has.
SuccessIsCommitted ==
    [][\A r \in Request :
        /\ answered' \in {<<r, s>> : s \in {200, 201, 204}}
        /\ req[r].route \in Writes
        => req[r].committed]_vars

\* A refusal is final: what is answered with a 4xx or a 503 has changed nothing,
\* so that the client may ask again; only a 500 leaves it in doubt.
RefusalsChangeNothing ==
    [][\A r \in Request :
        answered' \in {<<r, s>> : s \in {400, 401, 403, 404, 429, 503}}
        => ~ req[r].committed /\ row' = row]_vars

\* A 500 is a write in doubt only if a store has failed: all other errors that no
\* filter knows (AllExceptionsFilter) come before anything is committed, or undo it,
\* whatever other requests do to the product meanwhile.
DoubtNeedsFault ==
    [][\A r \in Request :
        answered' = <<r, 500>> /\ (req[r].committed \/ row' # row) => faults' > faults]_vars

\* A row changes only by a request whose key may: an admin's, or an ingest key's
\* that counts a view.
OnlyKeysWrite ==
    [][\A p \in Product : row'[p] # row[p] =>
        \E r \in Request :
            /\ pc'[r] # pc[r] /\ req[r].product = p
            /\ \/ req[r].role = "admin"
               \/ req[r].role = "ingest" /\ row'[p] = Viewed(p)]_vars

\* A cached list is what the index has for the limit asked: no list cached for
\* another limit, longer or shorter, is served.
SuggestionsFit ==
    [][\A r \in Request :
        SuggestHits(r) => lists[SuggestKey(req[r].limit)] = Suggested(req[r].limit)]_vars
=============================================================================
