---------------------------- MODULE GatewayProofs ----------------------------
(***************************************************************************)
(* For any number of requests, clients, products, keys and limits: budgets *)
(* hold, statuses say what has happened, only keys write, and every row    *)
(* can be read back.                                                       *)
(***************************************************************************)
EXTENDS Gateway, TLAPS

Label == {"idle", "throttle", "auth", "input", "read", "save", "remove",
          "find", "increment", "project", "suggest", "probe"}

Known == [route : Route \union {"none"}, client : Client \union {"none"},
          role : Role \union {"none"}, product : Product \union {"none"},
          content : Content \union {Absent}, limit : 0..MaxSuggestions,
          committed : BOOLEAN]

\* What a request that stands there may know.
Fits(label, known) ==
    /\ label \in Label /\ known \in Known
    /\ known.committed <=> label = "project"
    /\ label # "idle" => known.route \in Route /\ known.client \in Client
    /\ label = "input" /\ known.route \in Writes => known.role \in RolesOf(known.route)
    /\ label \in {"read", "save", "remove"} => known.role = "admin"
    /\ label \in {"find", "increment"} => known.role \in Role /\ known.route = "view"
    /\ label \in {"read", "save", "remove", "find", "increment", "project"} =>
           known.product \in Product
    /\ label = "save" => ProductAccepts(known.content)
    /\ label = "suggest" => known.route = "autocomplete" /\ known.limit \in Limits
    /\ label = "probe" => known.route \in {"readiness", "liveness"}

RequestsFit ==
    /\ pc \in [Request -> Label] /\ req \in [Request -> Known]
    /\ \A r \in Request : Fits(pc[r], req[r])

AnswersAreTyped ==
    answered \in {NoAnswer} \union
        (Request \X {200, 201, 204, 400, 401, 403, 404, 429, 500, 503})

\* Calls of the limiter that failed open, at most.
Excess == IF failOpen THEN faults ELSE 0

\* Whoever is let in was counted, or the limiter failed open.
PassedAreCounted ==
    /\ failOpen \in BOOLEAN /\ faults \in Nat
    /\ hits \in [Bucket -> Nat] /\ passed \in [Bucket -> Nat] /\ blocked \subseteq Bucket
    /\ \A b \in Bucket : passed[b] <= hits[b] + Excess /\ passed[b] <= LimitOf(b[1]) + Excess

TableIsSound ==
    /\ row \in [Product -> Content \union {Absent}] /\ used \subseteq Product
    /\ RowsReadBack

\* The list cached for a limit is what the index has for it.
ListsFit ==
    /\ lists \in [Limits -> {NoList} \union 0..MaxSuggestions]
    /\ \A n \in Limits : lists[n] \in {NoList, Suggested(n)}

IInv ==
    /\ RequestsFit /\ AnswersAreTyped
    /\ PassedAreCounted
    /\ TableIsSound
    /\ ListsFit
    /\ arrivals \in Nat

-----------------------------------------------------------------------------
(* Helpers.                                                                *)

LEMMA GotoFits ==
  ASSUME RequestsFit, NEW r \in Request, NEW label, NEW known,
         Fits(label, known), Goto(r, label, known)
  PROVE  RequestsFit' /\ AnswersAreTyped' /\ answered' = NoAnswer
  BY DEF RequestsFit, AnswersAreTyped, Goto, Fits

LEMMA NothingFits == Fits("idle", NoRequest)
  BY SuggestionAssumption DEF Fits, Label, Known, NoRequest

LEMMA AnswerFits ==
  ASSUME RequestsFit, NEW r \in Request,
         NEW status \in {200, 201, 204, 400, 401, 403, 404, 429, 500, 503},
         Answer(r, status)
  PROVE  RequestsFit' /\ AnswersAreTyped' /\ answered' = <<r, status>>
<1>1. RequestsFit'
  BY NothingFits DEF RequestsFit, Answer, Fits
<1> QED
  BY <1>1 DEF AnswersAreTyped, Answer

LEMMA ThrowsFits ==
  ASSUME RequestsFit, NEW r \in Request, NEW error, Throws(r, error)
  PROVE  RequestsFit' /\ AnswersAreTyped' /\ answered' = <<r, StatusOf(error)>>
<1>1. StatusOf(error) \in {400, 404, 500, 503}
  BY DEF StatusOf
<1> QED
  BY <1>1, AnswerFits DEF Throws

\* No product looks like none.
LEMMA AbsentIsNoContent == Absent \notin Content
  BY DEF Absent, Content

LEMMA LimitsAreNaturals ==
  ASSUME NEW to
  PROVE  LimitOf(to) \in Nat
  BY LimitAssumption DEF LimitOf

\* A failure elsewhere leaves the limiter more than its due.
LEMMA BoundsKeepCounts ==
  ASSUME PassedAreCounted, arrivals \in Nat,
         UNCHANGED <<failOpen, hits, blocked, passed>>, UNCHANGED bounds \/ SpendFault
  PROVE  PassedAreCounted' /\ arrivals' \in Nat
  BY LimitsAreNaturals DEF PassedAreCounted, Excess, bounds, SpendFault

LEMMA ElsewhereKeeps ==
  ASSUME PassedAreCounted, ListsFit, arrivals \in Nat,
         Elsewhere, UNCHANGED bounds \/ SpendFault
  PROVE  PassedAreCounted' /\ ListsFit' /\ arrivals' \in Nat
<1>1. ListsFit'
  BY DEF ListsFit, Elsewhere, redis
<1> QED
  BY <1>1, BoundsKeepCounts DEF Elsewhere, redis

LEMMA DatabaseKeeps ==
  ASSUME TableIsSound, UNCHANGED database
  PROVE  TableIsSound'
  BY DEF TableIsSound, database, RowsReadBack, Present

\* What a transaction may store.
Storable(content) ==
    \/ content = Absent
    \/ content \in Content /\ ProductAccepts(content) /\ RowHolds(content)

LEMMA CommitKeeps ==
  ASSUME TableIsSound, NEW r \in Request, req[r].product \in Product,
         NEW content, Storable(content), Commits(r, content)
  PROVE  TableIsSound'
<1>1. row' \in [Product -> Content \union {Absent}] /\ used' \subseteq Product
  BY DEF TableIsSound, Commits, Storable
<1>2. content # Absent =>
        content.text = "named" /\ content.place # "null" /\ content.cents \in 0..MaxCents
  BY PriceAssumption DEF Storable, RowHolds, ProductAccepts, ValidPlace, Content
<1>3. RowsReadBack'
  BY <1>2 DEF TableIsSound, Commits, RowsReadBack, Present
<1> QED
  BY <1>1, <1>3 DEF TableIsSound

-----------------------------------------------------------------------------
(* Initially.                                                              *)

LEMMA InitIInv == Init => IInv
<1> SUFFICES ASSUME Init
             PROVE  IInv
  OBVIOUS
<1>1. RequestsFit
  BY NothingFits DEF Init, RequestsFit, Fits
<1>2. PassedAreCounted
  BY LimitsAreNaturals DEF Init, PassedAreCounted, Excess
<1>3. TableIsSound
  BY DEF Init, TableIsSound, RowsReadBack, Present
<1>4. ListsFit
  BY SuggestionAssumption DEF Init, ListsFit, Limits
<1> QED
  BY <1>1, <1>2, <1>3, <1>4 DEF Init, IInv, AnswersAreTyped

-----------------------------------------------------------------------------
(* What a step says and does is right.                                     *)

\* What the properties below ask of an answer.
Right(r, status) ==
    /\ status \in {200, 201, 204} /\ req[r].route \in Writes => req[r].committed
    /\ status \in {400, 401, 403, 404, 429, 503} => ~ req[r].committed /\ row' = row
    /\ status = 500 /\ (req[r].committed \/ row' # row) => faults' > faults

AnswersAreRight ==
    \A r \in Request : \A status \in Int : answered' = <<r, status>> => Right(r, status)

\* The body of OnlyKeysWrite.
KeysWrite ==
    \A p \in Product : row'[p] # row[p] =>
        \E r \in Request :
            /\ pc'[r] # pc[r] /\ req[r].product = p
            /\ \/ req[r].role = "admin"
               \/ req[r].role = "ingest" /\ row'[p] = Viewed(p)

StepIsRight == AnswersAreRight /\ KeysWrite

LEMMA NobodyAnswered ==
  ASSUME answered' = NoAnswer
  PROVE  AnswersAreRight
<1>1. ASSUME NEW r, NEW status
      PROVE  NoAnswer # <<r, status>>
  BY DEF NoAnswer
<1> QED
  BY <1>1 DEF AnswersAreRight

LEMMA OneAnswered ==
  ASSUME NEW r \in Request, NEW status, answered' = <<r, status>>, Right(r, status)
  PROVE  AnswersAreRight
<1>1. ASSUME NEW q, NEW other, answered' = <<q, other>>
      PROVE  q = r /\ other = status
  BY <1>1
<1> QED
  BY <1>1 DEF AnswersAreRight

LEMMA NothingWritten ==
  ASSUME UNCHANGED row
  PROVE  KeysWrite
  BY DEF KeysWrite

\* A transaction writes one row, that of the request.
LEMMA CommitByKey ==
  ASSUME TableIsSound, NEW r \in Request, NEW content, Commits(r, content), pc'[r] # pc[r],
         \/ req[r].role = "admin"
         \/ req[r].role = "ingest" /\ content = Viewed(req[r].product)
  PROVE  KeysWrite
<1> SUFFICES ASSUME NEW p \in Product, row'[p] # row[p]
             PROVE  /\ pc'[r] # pc[r] /\ req[r].product = p
                    /\ \/ req[r].role = "admin"
                       \/ req[r].role = "ingest" /\ row'[p] = Viewed(p)
  BY DEF KeysWrite
<1>1. req[r].product = p /\ row'[p] = content
  BY DEF Commits, TableIsSound
<1> QED
  BY <1>1

\* A step that answers, and changes no row.
LEMMA AnswerKeeps ==
  ASSUME IInv, NEW r \in Request,
         NEW status \in {200, 201, 204, 400, 401, 403, 404, 429, 500, 503},
         Answer(r, status), UNCHANGED database, Right(r, status)
  PROVE  RequestsFit' /\ AnswersAreTyped' /\ TableIsSound' /\ StepIsRight
<1>1. RequestsFit' /\ AnswersAreTyped' /\ answered' = <<r, status>>
  BY AnswerFits DEF IInv
<1>2. TableIsSound' /\ KeysWrite
  BY DatabaseKeeps, NothingWritten DEF IInv, database
<1> QED
  BY <1>1, <1>2, OneAnswered DEF StepIsRight

LEMMA ThrowsKeeps ==
  ASSUME IInv, NEW r \in Request, NEW error,
         Throws(r, error), UNCHANGED database, Right(r, StatusOf(error))
  PROVE  RequestsFit' /\ AnswersAreTyped' /\ TableIsSound' /\ StepIsRight
<1>1. StatusOf(error) \in {400, 404, 500, 503}
  BY DEF StatusOf
<1> QED
  BY <1>1, AnswerKeeps DEF Throws

\* A step that goes on, and changes no row.
LEMMA GotoKeeps ==
  ASSUME IInv, NEW r \in Request, NEW label, NEW known,
         Goto(r, label, known), Fits(label, known), UNCHANGED row,
         used' \subseteq Product
  PROVE  RequestsFit' /\ AnswersAreTyped' /\ TableIsSound' /\ StepIsRight
<1>1. RequestsFit' /\ AnswersAreTyped' /\ answered' = NoAnswer
  BY GotoFits DEF IInv
<1>2. TableIsSound' /\ KeysWrite
  BY NothingWritten DEF IInv, TableIsSound, RowsReadBack, Present
<1> QED
  BY <1>1, <1>2, NobodyAnswered DEF StepIsRight

-----------------------------------------------------------------------------
(* Throttling and authentication.                                          *)

LEMMA ArriveIsRight ==
  ASSUME IInv, NEW r \in Request, Arrive(r)
  PROVE  IInv' /\ StepIsRight
<1>1. PICK to \in Route, by \in Client :
          Goto(r, FirstStop(to), [NoRequest EXCEPT !.route = to, !.client = by])
  BY DEF Arrive
<1>2. Fits(FirstStop(to), [NoRequest EXCEPT !.route = to, !.client = by])
  BY NothingFits DEF Fits, FirstStop, Label, Known, NoRequest
<1>3. RequestsFit' /\ AnswersAreTyped' /\ TableIsSound' /\ StepIsRight
  BY <1>1, <1>2, GotoKeeps DEF IInv, TableIsSound, Arrive, database
<1>4. PassedAreCounted' /\ ListsFit' /\ arrivals' \in Nat
  BY DEF Arrive, Comes, IInv, PassedAreCounted, Excess, ListsFit, redis
<1> QED
  BY <1>3, <1>4 DEF IInv

LEMMA ParserRefusesIsRight ==
  ASSUME IInv, NEW r \in Request, ParserRefuses(r)
  PROVE  IInv' /\ StepIsRight
<1>1. PICK error \in {"Syntax", "Parser"} : Throws(r, error)
  BY DEF ParserRefuses
<1>2. ~ req[r].committed
  BY DEF ParserRefuses, Comes, IInv, RequestsFit, Fits
<1>3. Right(r, StatusOf(error)) /\ UNCHANGED database
  BY <1>2 DEF ParserRefuses, Right, StatusOf, database
<1>4. RequestsFit' /\ AnswersAreTyped' /\ TableIsSound' /\ StepIsRight
  BY <1>1, <1>3, ThrowsKeeps
<1>5. PassedAreCounted' /\ ListsFit' /\ arrivals' \in Nat
  BY DEF ParserRefuses, Comes, IInv, PassedAreCounted, Excess, ListsFit, redis
<1> QED
  BY <1>4, <1>5 DEF IInv

\* The limiter's own steps, which count and admit or refuse.
LEMMA LimiterKeeps ==
  ASSUME IInv, NEW r \in Request, pc[r] = "throttle", UNCHANGED database,
         Admits(r) \/ Refuses(r, 429) \/ Refuses(r, 503)
  PROVE  RequestsFit' /\ AnswersAreTyped' /\ TableIsSound' /\ StepIsRight
<1>1. Fits("throttle", req[r])
  BY DEF IInv, RequestsFit
<1>2. CASE Admits(r)
  <2>1. Fits("auth", req[r])
    BY <1>1 DEF Fits, Label
  <2> QED
    BY <1>2, <2>1, GotoKeeps DEF Admits, IInv, TableIsSound, database
<1>3. ASSUME NEW status \in {429, 503}, Refuses(r, status)
      PROVE  RequestsFit' /\ AnswersAreTyped' /\ TableIsSound' /\ StepIsRight
  <2>1. Right(r, status)
    BY <1>1 DEF Right, Fits, database
  <2> QED
    BY <1>3, <2>1, AnswerKeeps DEF Refuses
<1> QED
  BY <1>2, <1>3

LEMMA BucketIsKnown ==
  ASSUME IInv, NEW r \in Request, pc[r] = "throttle"
  PROVE  BucketOf(r) \in Bucket /\ req[r].route = BucketOf(r)[1]
  BY DEF IInv, RequestsFit, Fits, BucketOf, Bucket

LEMMA ThrottleIsRight ==
  ASSUME IInv, NEW r \in Request, Throttle(r)
  PROVE  IInv' /\ StepIsRight
<1> DEFINE b == BucketOf(r)
<1>1. b \in Bucket
  BY BucketIsKnown DEF Throttle
<1>2. RequestsFit' /\ AnswersAreTyped' /\ TableIsSound' /\ StepIsRight
  BY LimiterKeeps DEF Throttle
<1>3. PassedAreCounted'
  <2>1. CASE b \notin blocked' /\ Admits(r)
    <3>1. hits[b] + 1 <= LimitOf(b[1])
      BY <1>1, <2>1, LimitsAreNaturals DEF Throttle, Counts, IInv, PassedAreCounted
    <3> QED
      BY <1>1, <2>1, <3>1, LimitsAreNaturals
      DEF Throttle, Counts, Admits, IInv, PassedAreCounted, Excess, bounds
  <2>2. CASE b \in blocked' /\ Refuses(r, 429)
    BY <1>1, <2>2, LimitsAreNaturals
    DEF Throttle, Counts, Refuses, IInv, PassedAreCounted, Excess, bounds
  <2> QED
    BY <2>1, <2>2 DEF Throttle
<1>4. ListsFit' /\ arrivals' \in Nat
  BY DEF Throttle, Counts, IInv, ListsFit, bounds
<1> QED
  BY <1>2, <1>3, <1>4 DEF IInv

LEMMA ThrottleFailsIsRight ==
  ASSUME IInv, NEW r \in Request, ThrottleFails(r)
  PROVE  IInv' /\ StepIsRight
<1> DEFINE b == BucketOf(r)
<1>1. b \in Bucket
  BY BucketIsKnown DEF ThrottleFails
<1>2. RequestsFit' /\ AnswersAreTyped' /\ TableIsSound' /\ StepIsRight
  BY LimiterKeeps DEF ThrottleFails
<1>3. /\ hits' \in [Bucket -> Nat] /\ blocked' \subseteq Bucket
      /\ \A d \in Bucket : hits'[d] >= hits[d]
      /\ ListsFit' /\ faults' = faults + 1 /\ arrivals' = arrivals
  BY <1>1 DEF ThrottleFails, Counts, SpendFault, redis, IInv, PassedAreCounted, ListsFit
<1>4. PassedAreCounted'
  <2>1. CASE failOpen
    <3>1. /\ passed' = [passed EXCEPT ![b] = @ + 1]
          /\ Excess \in Nat /\ Excess' = Excess + 1 /\ failOpen' = failOpen
      BY <1>3, <2>1 DEF ThrottleFails, Admits, IInv, PassedAreCounted, Excess
    <3>2. passed' \in [Bucket -> Nat]
      BY <1>1, <3>1 DEF IInv, PassedAreCounted
    <3>3. ASSUME NEW d \in Bucket
          PROVE  /\ passed'[d] <= hits'[d] + Excess'
                 /\ passed'[d] <= LimitOf(d[1]) + Excess'
      <4>1. passed'[d] <= passed[d] + 1
        BY <1>1, <3>1 DEF IInv, PassedAreCounted
      <4> QED
        BY <1>3, <3>1, <3>2, <4>1, LimitsAreNaturals DEF IInv, PassedAreCounted
    <3> QED
      BY <1>3, <3>1, <3>2, <3>3 DEF IInv, PassedAreCounted
  <2>2. CASE ~ failOpen
    BY <1>3, <2>2, LimitsAreNaturals
    DEF ThrottleFails, Refuses, IInv, PassedAreCounted, Excess
  <2> QED
    BY <2>1, <2>2
<1> QED
  BY <1>2, <1>3, <1>4 DEF IInv

LEMMA WindowEndsIsRight ==
  ASSUME IInv, NEW b \in Bucket, WindowEnds(b) \/ BlockEnds(b)
  PROVE  IInv' /\ StepIsRight
<1>1. PassedAreCounted'
  BY LimitsAreNaturals DEF WindowEnds, BlockEnds, IInv, PassedAreCounted, Excess, bounds
<1>2. RequestsFit' /\ AnswersAreTyped' /\ TableIsSound' /\ ListsFit' /\ arrivals' \in Nat
  BY DatabaseKeeps
  DEF WindowEnds, BlockEnds, IInv, RequestsFit, AnswersAreTyped, ListsFit, bounds
<1>3. StepIsRight
  BY NobodyAnswered, NothingWritten DEF WindowEnds, BlockEnds, StepIsRight, database
<1> QED
  BY <1>1, <1>2, <1>3 DEF IInv

LEMMA AuthenticateIsRight ==
  ASSUME IInv, NEW r \in Request, Authenticate(r)
  PROVE  IInv' /\ StepIsRight
<1> DEFINE required == RolesOf(req[r].route)
<1>1. Fits("auth", req[r]) /\ UNCHANGED database
  BY DEF Authenticate, IInv, RequestsFit
<1>2. PassedAreCounted' /\ ListsFit' /\ arrivals' \in Nat
  BY ElsewhereKeeps DEF Authenticate, Elsewhere, IInv
<1>3. CASE required = {} /\ Goto(r, "input", req[r])
  <2>1. Fits("input", req[r])
    BY <1>1, <1>3 DEF Fits, Label, RolesOf, Writes
  <2> QED
    BY <1>1, <1>2, <1>3, <2>1, GotoKeeps DEF IInv, TableIsSound, database
<1>4. ASSUME NEW key \in Key, RoleFor(key) \in required,
             Goto(r, "input", [req[r] EXCEPT !.role = RoleFor(key)])
      PROVE  IInv' /\ StepIsRight
  <2>1. RoleFor(key) \in Role
    BY <1>4 DEF RolesOf, Role
  <2>2. Fits("input", [req[r] EXCEPT !.role = RoleFor(key)])
    BY <1>1, <1>4, <2>1 DEF Fits, Label, Known
  <2> QED
    BY <1>1, <1>2, <1>4, <2>2, GotoKeeps DEF IInv, TableIsSound, database
<1>5. ASSUME NEW status \in {401, 403}, Answer(r, status)
      PROVE  IInv' /\ StepIsRight
  <2>1. Right(r, status)
    BY <1>1 DEF Right, Fits, database
  <2> QED
    BY <1>1, <1>2, <1>5, <2>1, AnswerKeeps DEF IInv
<1> QED
  BY <1>3, <1>4, <1>5 DEF Authenticate

-----------------------------------------------------------------------------
(* Input.                                                                  *)

LEMMA WhereItStands ==
  ASSUME IInv, NEW r \in Request
  PROVE  Fits(pc[r], req[r])
  BY DEF IInv, RequestsFit

LEMMA BodyIsContent ==
  ASSUME NEW b \in Body, NEW cents \in Cents(b.price), DtoAccepts(b)
  PROVE  ContentOf(b, cents) \in Content
<1>1. cents \in Int
  BY PriceAssumption DEF Cents
<1>2. b.text \in {"named", "blank", "unfit"}
  BY DEF Body, DtoAccepts
<1> QED
  BY <1>1, <1>2 DEF ContentOf, Content

LEMMA RejectsInputIsRight ==
  ASSUME IInv, NEW r \in Request, RejectsInput(r)
  PROVE  IInv' /\ StepIsRight
<1>1. Right(r, 400) /\ Right(r, 500)
  BY WhereItStands DEF RejectsInput, Fits, Right, database
<1>2. Answer(r, 400) \/ Answer(r, 500)
  BY DEF RejectsInput, Throws, StatusOf
<1>3. RequestsFit' /\ AnswersAreTyped' /\ TableIsSound' /\ StepIsRight
  BY <1>1, <1>2, AnswerKeeps DEF RejectsInput
<1> QED
  BY <1>3, ElsewhereKeeps DEF RejectsInput, IInv

LEMMA CreateReceivesIsRight ==
  ASSUME IInv, NEW r \in Request, CreateReceives(r)
  PROVE  IInv' /\ StepIsRight
<1>1. PICK p \in Product \ used, b \in Body : \E cents \in Cents(b.price) :
          /\ DtoAccepts(b) /\ Paired(b) /\ ProductAccepts(ContentOf(b, cents))
          /\ used' = used \union {p}
          /\ Goto(r, "save", [req[r] EXCEPT !.product = p, !.content = ContentOf(b, cents)])
  BY DEF CreateReceives
<1>2. PICK cents \in Cents(b.price) :
          /\ DtoAccepts(b) /\ ProductAccepts(ContentOf(b, cents))
          /\ used' = used \union {p}
          /\ Goto(r, "save", [req[r] EXCEPT !.product = p, !.content = ContentOf(b, cents)])
  BY <1>1
<1> DEFINE content == ContentOf(b, cents)
<1> DEFINE known == [req[r] EXCEPT !.product = p, !.content = content]
<1>3. content \in Content
  BY <1>2, BodyIsContent
<1> HIDE DEF content
<1>4. Fits("input", req[r]) /\ req[r].role = "admin"
  BY WhereItStands DEF CreateReceives, Fits, Writes, RolesOf
<1>5. known \in Known /\ known.role = "admin" /\ known.product = p /\ known.content = content
      /\ known.route = req[r].route /\ known.client = req[r].client
      /\ known.committed = req[r].committed
  BY <1>3, <1>4 DEF Fits, Known
<1>6. Fits("save", known)
  BY <1>2, <1>4, <1>5 DEF Fits, Label, content
<1>7. RequestsFit' /\ AnswersAreTyped' /\ TableIsSound' /\ StepIsRight
  BY <1>2, <1>6, GotoKeeps DEF CreateReceives, IInv, TableIsSound, content
<1> QED
  BY <1>7, ElsewhereKeeps DEF CreateReceives, IInv

LEMMA UpdateReceivesIsRight ==
  ASSUME IInv, NEW r \in Request, UpdateReceives(r)
  PROVE  IInv' /\ StepIsRight
<1>1. PICK p \in Product, b \in Body : \E cents \in Cents(b.price) :
          /\ DtoAccepts(b) /\ Paired(b)
          /\ Goto(r, "read", [req[r] EXCEPT !.product = p, !.content = ContentOf(b, cents)])
  BY DEF UpdateReceives
<1>2. PICK cents \in Cents(b.price) :
          /\ DtoAccepts(b)
          /\ Goto(r, "read", [req[r] EXCEPT !.product = p, !.content = ContentOf(b, cents)])
  BY <1>1
<1> DEFINE content == ContentOf(b, cents)
<1> DEFINE known == [req[r] EXCEPT !.product = p, !.content = content]
<1>3. content \in Content
  BY <1>2, BodyIsContent
<1> HIDE DEF content
<1>4. Fits("input", req[r]) /\ req[r].role = "admin"
  BY WhereItStands DEF UpdateReceives, Fits, Writes, RolesOf
<1>5. known \in Known /\ known.role = "admin" /\ known.product = p
      /\ known.route = req[r].route /\ known.client = req[r].client
      /\ known.committed = req[r].committed
  BY <1>3, <1>4 DEF Fits, Known
<1>6. Fits("read", known)
  BY <1>4, <1>5 DEF Fits, Label
<1>7. RequestsFit' /\ AnswersAreTyped' /\ TableIsSound' /\ StepIsRight
  BY <1>2, <1>6, GotoKeeps DEF UpdateReceives, IInv, TableIsSound, content, database
<1> QED
  BY <1>7, ElsewhereKeeps DEF UpdateReceives, IInv

LEMMA IdReceivesIsRight ==
  ASSUME IInv, NEW r \in Request, IdReceives(r)
  PROVE  IInv' /\ StepIsRight
<1> DEFINE label == IF req[r].route = "view" THEN "find" ELSE "remove"
<1>1. PICK p \in Product : Goto(r, label, [req[r] EXCEPT !.product = p])
  BY DEF IdReceives
<1>2. Fits("input", req[r]) /\ req[r].role \in RolesOf(req[r].route)
  BY WhereItStands DEF IdReceives, Fits, Writes
<1>3. Fits(label, [req[r] EXCEPT !.product = p])
  BY <1>2 DEF IdReceives, Fits, Label, Known, RolesOf, Role
<1>4. RequestsFit' /\ AnswersAreTyped' /\ TableIsSound' /\ StepIsRight
  BY <1>1, <1>3, GotoKeeps DEF IdReceives, IInv, TableIsSound, database
<1> QED
  BY <1>4, ElsewhereKeeps DEF IdReceives, IInv

-----------------------------------------------------------------------------
(* The write use cases.                                                    *)

\* The steps of a use case that leave the table alone and throw.
LEMMA ThrowsIsRight ==
  ASSUME IInv, NEW r \in Request, NEW error, Throws(r, error), pc[r] # "project",
         Elsewhere, UNCHANGED database, UNCHANGED bounds \/ SpendFault
  PROVE  IInv' /\ StepIsRight
<1>1. ~ req[r].committed
  BY WhereItStands DEF Fits
<1>2. Right(r, StatusOf(error))
  BY <1>1 DEF Right, StatusOf, database
<1>3. RequestsFit' /\ AnswersAreTyped' /\ TableIsSound' /\ StepIsRight
  BY <1>2, ThrowsKeeps
<1> QED
  BY <1>3, ElsewhereKeeps DEF IInv

LEMMA ConfirmedIsRight ==
  ASSUME IInv, NEW r \in Request, pc[r] \in {"save", "remove", "increment"},
         NEW content, Storable(content), Confirmed(r, content),
         \/ req[r].role = "admin"
         \/ req[r].role = "ingest" /\ content = Viewed(req[r].product),
         Elsewhere, UNCHANGED bounds
  PROVE  IInv' /\ StepIsRight
<1> DEFINE known == [req[r] EXCEPT !.content = content, !.committed = TRUE]
<1>1. Fits(pc[r], req[r]) /\ req[r].product \in Product
  BY WhereItStands DEF Fits
<1>2. content \in Content \union {Absent}
  BY DEF Storable
<1>3. Fits("project", known)
  BY <1>1, <1>2 DEF Fits, Label, Known
<1>4. RequestsFit' /\ AnswersAreTyped' /\ answered' = NoAnswer
  BY <1>3, GotoFits DEF Confirmed, IInv
<1>5. pc'[r] # pc[r]
  BY DEF Confirmed, Goto, IInv, RequestsFit
<1>6. TableIsSound' /\ KeysWrite
  BY <1>1, <1>5, CommitKeeps, CommitByKey DEF Confirmed, IInv
<1>7. StepIsRight
  BY <1>4, <1>6, NobodyAnswered DEF StepIsRight
<1> QED
  BY <1>4, <1>6, <1>7, ElsewhereKeeps DEF IInv

\* A view makes of a row one that can be stored.
LEMMA ViewedIsStorable ==
  ASSUME IInv, NEW p \in Product, CountsOn(p)
  PROVE  Storable(Viewed(p))
<1>1. row[p] \in Content /\ Present(p)
  BY DEF IInv, TableIsSound, Present, CountsOn
<1>2. row[p].text = "named" /\ row[p].place # "null" /\ row[p].cents \in 0..MaxCents
  BY <1>1 DEF IInv, TableIsSound, RowsReadBack
<1>3. Viewed(p) \in Content
  BY <1>1 DEF Viewed, Content
<1>4. /\ Viewed(p).text = row[p].text /\ Viewed(p).place = row[p].place
      /\ Viewed(p).cents = row[p].cents
  BY <1>1 DEF Viewed, Content
<1> QED
  BY <1>2, <1>3, <1>4, PriceAssumption DEF Storable, RowHolds, ProductAccepts, ValidPlace

\* What waits to be saved can be stored, if a row can hold it.
LEMMA SavedIsStorable ==
  ASSUME IInv, NEW r \in Request, pc[r] = "save", RowHolds(req[r].content)
  PROVE  Storable(req[r].content)
<1>1. ProductAccepts(req[r].content) /\ req[r].content \in Content \union {Absent}
  BY WhereItStands DEF Fits, Known
<1> QED
  BY <1>1 DEF Storable

LEMMA UpdateReadsIsRight ==
  ASSUME IInv, NEW r \in Request, UpdateReads(r)
  PROVE  IInv' /\ StepIsRight
<1> DEFINE old == row[req[r].product]
           new == req[r].content
           known == [req[r] EXCEPT !.content.views = old.views]
<1>1. CASE Throws(r, "ProductNotFound") \/ Throws(r, "InvalidProduct")
  BY <1>1, ThrowsIsRight DEF UpdateReads
<1>2. CASE old # Absent /\ ProductAccepts(new) /\ Goto(r, "save", known)
  <2>1. Fits("read", req[r]) /\ req[r].product \in Product
    BY WhereItStands DEF UpdateReads, Fits
  <2>2. old \in Content /\ old.views \in Nat
    BY <1>2, <2>1 DEF IInv, TableIsSound, Content
  <2>3. new \in Content
    BY <1>2, <2>1 DEF Fits, Known, ProductAccepts, Absent
  <2> DEFINE content == [new EXCEPT !.views = old.views]
  <2>4. content \in Content /\ ProductAccepts(content)
    BY <1>2, <2>2, <2>3 DEF Content, ProductAccepts, ValidPlace
  <2>5. known = [req[r] EXCEPT !.content = content]
    OBVIOUS
  <2> HIDE DEF content, known
  <2>6. Fits("save", known)
    BY <2>1, <2>4, <2>5 DEF Fits, Label, Known
  <2>7. RequestsFit' /\ AnswersAreTyped' /\ TableIsSound' /\ StepIsRight
    BY <1>2, <2>6, GotoKeeps DEF UpdateReads, IInv, TableIsSound, database
  <2> QED
    BY <2>7, ElsewhereKeeps DEF UpdateReads, IInv
<1> QED
  BY <1>1, <1>2 DEF UpdateReads

LEMMA SaveIsRight ==
  ASSUME IInv, NEW r \in Request, Save(r)
  PROVE  IInv' /\ StepIsRight
<1>1. CASE RowHolds(req[r].content) /\ Confirmed(r, req[r].content)
  <2>1. req[r].role = "admin"
    BY WhereItStands DEF Save, Fits
  <2> QED
    BY <1>1, <2>1, SavedIsStorable, ConfirmedIsRight DEF Save
<1>2. CASE ~ RowHolds(req[r].content) /\ Throws(r, "Prisma") /\ UNCHANGED database
  BY <1>2, ThrowsIsRight DEF Save
<1> QED
  BY <1>1, <1>2 DEF Save

LEMMA RemoveIsRight ==
  ASSUME IInv, NEW r \in Request, Remove(r)
  PROVE  IInv' /\ StepIsRight
<1>1. CASE Confirmed(r, Absent)
  <2>1. req[r].role = "admin"
    BY WhereItStands DEF Remove, Fits
  <2> QED
    BY <1>1, <2>1, ConfirmedIsRight DEF Remove, Storable
<1>2. CASE Throws(r, "ProductNotFound") /\ UNCHANGED database
  BY <1>2, ThrowsIsRight DEF Remove
<1> QED
  BY <1>1, <1>2 DEF Remove

LEMMA ViewFindsIsRight ==
  ASSUME IInv, NEW r \in Request, ViewFinds(r)
  PROVE  IInv' /\ StepIsRight
<1>1. CASE Goto(r, "increment", req[r])
  <2>1. Fits("increment", req[r])
    BY WhereItStands DEF ViewFinds, Fits, Label
  <2>2. RequestsFit' /\ AnswersAreTyped' /\ TableIsSound' /\ StepIsRight
    BY <1>1, <2>1, GotoKeeps DEF ViewFinds, IInv, TableIsSound, database
  <2> QED
    BY <2>2, ElsewhereKeeps DEF ViewFinds, IInv
<1>2. CASE Throws(r, "ProductNotFound")
  BY <1>2, ThrowsIsRight DEF ViewFinds
<1> QED
  BY <1>1, <1>2 DEF ViewFinds

LEMMA ViewIncrementsIsRight ==
  ASSUME IInv, NEW r \in Request, ViewIncrements(r)
  PROVE  IInv' /\ StepIsRight
<1>1. req[r].product \in Product /\ req[r].role \in Role /\ req[r].route = "view"
  BY WhereItStands DEF ViewIncrements, Fits
<1>2. CASE CountsOn(req[r].product) /\ Confirmed(r, Viewed(req[r].product))
  BY <1>1, <1>2, ViewedIsStorable, ConfirmedIsRight DEF ViewIncrements, Role
<1>3. CASE ~ CountsOn(req[r].product) /\ Throws(r, "Prisma") /\ UNCHANGED database
  BY <1>1, <1>3, ThrowsIsRight DEF ViewIncrements
<1> QED
  BY <1>2, <1>3 DEF ViewIncrements

LEMMA PostgresFailsIsRight ==
  ASSUME IInv, NEW r \in Request, PostgresFails(r)
  PROVE  IInv' /\ StepIsRight
<1>1. faults' > faults
  BY DEF PostgresFails, SpendFault, IInv, PassedAreCounted
<1> QED
  BY <1>1, ThrowsIsRight DEF PostgresFails

LEMMA CommitUnconfirmedIsRight ==
  ASSUME IInv, NEW r \in Request, CommitUnconfirmed(r)
  PROVE  IInv' /\ StepIsRight
<1>1. /\ faults' > faults /\ Throws(r, "Prisma")
      /\ PassedAreCounted' /\ ListsFit' /\ arrivals' \in Nat
  BY ElsewhereKeeps DEF CommitUnconfirmed, SpendFault, IInv, PassedAreCounted
<1>2. RequestsFit' /\ AnswersAreTyped' /\ answered' = <<r, 500>>
  BY <1>1, ThrowsFits DEF IInv, StatusOf
<1>3. AnswersAreRight
  BY <1>1, <1>2, OneAnswered DEF Right
<1>4. pc[r] \in {"save", "remove", "increment"} /\ pc'[r] # pc[r]
  BY <1>1 DEF CommitUnconfirmed, Throws, Answer, IInv, RequestsFit
<1>5. req[r].product \in Product
  BY <1>4, WhereItStands DEF Fits
<1>6. ASSUME NEW content, Storable(content), Commits(r, content),
             \/ req[r].role = "admin"
             \/ req[r].role = "ingest" /\ content = Viewed(req[r].product)
      PROVE  TableIsSound' /\ KeysWrite
  BY <1>4, <1>5, <1>6, CommitKeeps, CommitByKey DEF IInv
<1>7. TableIsSound' /\ KeysWrite
  <2>1. CASE pc[r] = "save" /\ RowHolds(req[r].content) /\ Commits(r, req[r].content)
    BY <1>6, <2>1, SavedIsStorable, WhereItStands DEF Fits
  <2>2. CASE pc[r] = "remove" /\ Commits(r, Absent)
    BY <1>6, <2>2, WhereItStands DEF Fits, Storable
  <2>3. CASE /\ pc[r] = "increment" /\ CountsOn(req[r].product)
             /\ Commits(r, Viewed(req[r].product))
    BY <1>5, <1>6, <2>3, ViewedIsStorable, WhereItStands DEF Fits, Role
  <2> QED
    BY <2>1, <2>2, <2>3 DEF CommitUnconfirmed
<1> QED
  BY <1>1, <1>2, <1>3, <1>7 DEF IInv, StepIsRight

\* An answer that depends on nothing that other requests touch.
LEMMA AnswerIsRight ==
  ASSUME IInv, NEW r \in Request, NEW status \in {200, 201, 204, 503},
         Answer(r, status), Right(r, status),
         Elsewhere, UNCHANGED database, UNCHANGED bounds \/ SpendFault
  PROVE  IInv' /\ StepIsRight
<1>1. RequestsFit' /\ AnswersAreTyped' /\ TableIsSound' /\ StepIsRight
  BY AnswerKeeps
<1> QED
  BY <1>1, ElsewhereKeeps DEF IInv

LEMMA ProjectIsRight ==
  ASSUME IInv, NEW r \in Request, Project(r)
  PROVE  IInv' /\ StepIsRight
<1>1. SuccessOf(req[r].route) \in {200, 201, 204}
  BY DEF SuccessOf
<1>2. req[r].committed
  BY WhereItStands DEF Project, Fits
<1> QED
  BY <1>1, <1>2, AnswerIsRight DEF Project, Right

-----------------------------------------------------------------------------
(* The reads, and the probes.                                              *)

LEMMA SearchIsRight ==
  ASSUME IInv, NEW r \in Request, Search(r)
  PROVE  IInv' /\ StepIsRight
<1>1. CASE Answer(r, 200) /\ UNCHANGED bounds
  BY <1>1, AnswerIsRight DEF Search, Right, Writes
<1>2. CASE \/ Throws(r, "SearchUnavailable") /\ SpendFault
           \/ Throws(r, "InvalidSearchQuery") /\ UNCHANGED bounds
  BY <1>2, ThrowsIsRight DEF Search
<1> QED
  BY <1>1, <1>2 DEF Search

LEMMA AskedLimitFits ==
  ASSUME NEW given \in 0..MaxAskable
  PROVE  AskedLimit(given) \in Limits
  BY SuggestionAssumption DEF AskedLimit, Limits

LEMMA SuggestReceivesIsRight ==
  ASSUME IInv, NEW r \in Request, SuggestReceives(r)
  PROVE  IInv' /\ StepIsRight
<1>1. CASE Answer(r, 200)
  BY <1>1, AnswerIsRight DEF SuggestReceives, Right, Writes
<1>2. ASSUME NEW given \in 0..MaxAskable,
             Goto(r, "suggest", [req[r] EXCEPT !.limit = AskedLimit(given)])
      PROVE  IInv' /\ StepIsRight
  <2>1. AskedLimit(given) \in Limits /\ AskedLimit(given) \in 0..MaxSuggestions
    BY AskedLimitFits, SuggestionAssumption DEF Limits
  <2>2. Fits("suggest", [req[r] EXCEPT !.limit = AskedLimit(given)])
    BY <2>1, WhereItStands DEF SuggestReceives, Fits, Label, Known
  <2>3. RequestsFit' /\ AnswersAreTyped' /\ TableIsSound' /\ StepIsRight
    BY <1>2, <2>2, GotoKeeps DEF SuggestReceives, IInv, TableIsSound, database
  <2> QED
    BY <2>3, ElsewhereKeeps DEF SuggestReceives, IInv
<1> QED
  BY <1>1, <1>2 DEF SuggestReceives

LEMMA SuggestsForNoWrite ==
  ASSUME IInv, NEW r \in Request, pc[r] = "suggest"
  PROVE  Right(r, 200) /\ req[r].limit \in Limits
  BY WhereItStands DEF Fits, Right, Writes

LEMMA SuggestHitsIsRight ==
  ASSUME IInv, NEW r \in Request, SuggestHits(r)
  PROVE  IInv' /\ StepIsRight
  BY SuggestsForNoWrite, AnswerIsRight DEF SuggestHits

LEMMA SuggestAsksIsRight ==
  ASSUME IInv, NEW r \in Request, SuggestAsks(r)
  PROVE  IInv' /\ StepIsRight
<1>1. RequestsFit' /\ AnswersAreTyped' /\ TableIsSound' /\ StepIsRight
  BY SuggestsForNoWrite, AnswerKeeps DEF SuggestAsks, Misses
<1>2. PassedAreCounted' /\ arrivals' \in Nat
  BY BoundsKeepCounts DEF SuggestAsks, Misses, IInv
<1> DEFINE limit == req[r].limit
<1>3. limit \in Limits /\ lists' \in {lists, [lists EXCEPT ![limit] = Suggested(limit)]}
  BY SuggestsForNoWrite DEF SuggestAsks, Misses, SuggestKey
<1>4. Suggested(limit) \in 0..MaxSuggestions
  BY <1>3, SuggestionAssumption, NamesAssumption DEF Suggested, Limits
<1>5. ListsFit'
  BY <1>3, <1>4 DEF IInv, ListsFit
<1> QED
  BY <1>1, <1>2, <1>5 DEF IInv

LEMMA SuggestFailsIsRight ==
  ASSUME IInv, NEW r \in Request, SuggestFails(r)
  PROVE  IInv' /\ StepIsRight
<1>1. PICK error \in {"SearchUnavailable", "InvalidSearchQuery"} : Throws(r, error)
  BY DEF SuggestFails
<1>2. pc[r] # "project" /\ (UNCHANGED bounds \/ SpendFault)
  BY DEF SuggestFails, Misses
<1> QED
  BY <1>1, <1>2, ThrowsIsRight DEF SuggestFails

LEMMA ListExpiresIsRight ==
  ASSUME IInv, NEW n \in Limits, ListExpires(n)
  PROVE  IInv' /\ StepIsRight
<1>1. ListsFit'
  BY SuggestionAssumption DEF ListExpires, IInv, ListsFit, Limits
<1>2. RequestsFit' /\ AnswersAreTyped' /\ TableIsSound' /\ StepIsRight
  BY DatabaseKeeps, NobodyAnswered, NothingWritten
  DEF ListExpires, IInv, RequestsFit, AnswersAreTyped, StepIsRight, database
<1>3. PassedAreCounted' /\ arrivals' \in Nat
  BY BoundsKeepCounts DEF ListExpires, IInv
<1> QED
  BY <1>1, <1>2, <1>3 DEF IInv

LEMMA ProbeIsRight ==
  ASSUME IInv, NEW r \in Request, Probe(r)
  PROVE  IInv' /\ StepIsRight
<1>1. req[r].route \notin Writes /\ ~ req[r].committed
  BY WhereItStands DEF Probe, Fits, Writes
<1>2. Right(r, 200) /\ Right(r, 503)
  BY <1>1 DEF Right, Probe, database
<1> QED
  BY <1>2, AnswerIsRight DEF Probe

LEMMA ScrapeIsRight ==
  ASSUME IInv, NEW r \in Request, Scrape(r)
  PROVE  IInv' /\ StepIsRight
<1>1. Right(r, 200)
  BY DEF Scrape, Right, Writes
<1> QED
  BY <1>1, AnswerIsRight DEF Scrape

LEMMA DropIsRight ==
  ASSUME IInv, NEW r \in Request, Drop(r)
  PROVE  IInv' /\ StepIsRight
<1>1. RequestsFit' /\ AnswersAreTyped' /\ TableIsSound' /\ StepIsRight
  BY NothingFits, GotoKeeps DEF Drop, IInv, TableIsSound, database
<1> QED
  BY <1>1, ElsewhereKeeps DEF Drop, IInv

-----------------------------------------------------------------------------
(* Together.                                                               *)

LEMMA NextIsRight ==
  ASSUME IInv, Next
  PROVE  IInv' /\ StepIsRight
<1>1. ASSUME NEW r \in Request, RequestStep(r)
      PROVE  IInv' /\ StepIsRight
  BY <1>1, ThrottleIsRight, ThrottleFailsIsRight, AuthenticateIsRight, RejectsInputIsRight,
     CreateReceivesIsRight, UpdateReceivesIsRight, IdReceivesIsRight, UpdateReadsIsRight,
     SaveIsRight, RemoveIsRight, ViewFindsIsRight, ViewIncrementsIsRight,
     PostgresFailsIsRight, CommitUnconfirmedIsRight, ProjectIsRight, SearchIsRight,
     SuggestReceivesIsRight, SuggestHitsIsRight, SuggestAsksIsRight, SuggestFailsIsRight,
     ProbeIsRight, ScrapeIsRight, DropIsRight
  DEF RequestStep
<1> QED
  BY <1>1, ArriveIsRight, ParserRefusesIsRight, WindowEndsIsRight, ListExpiresIsRight DEF Next

LEMMA StutterIInv ==
  ASSUME IInv, UNCHANGED vars
  PROVE  IInv'
<1>1. RequestsFit' /\ AnswersAreTyped' /\ TableIsSound'
  BY DatabaseKeeps DEF vars, IInv, RequestsFit, AnswersAreTyped
<1> QED
  BY <1>1, ElsewhereKeeps DEF vars, Elsewhere, IInv

LEMMA InductiveInvariant == Spec => []IInv
<1>1. IInv /\ [Next]_vars => IInv'
  BY NextIsRight, StutterIInv
<1> QED
  BY <1>1, InitIInv, PTL DEF Spec

\* The variables keep their types.
THEOREM GatewayTypeCorrect == Spec => []TypeOK
<1>1. IInv => TypeOK
  BY DEF IInv, TypeOK, RequestsFit, Label, Known, AnswersAreTyped, PassedAreCounted,
         TableIsSound, ListsFit
<1> QED
  BY <1>1, InductiveInvariant, PTL

\* No window lets in more than its budget, but for failures of a limiter that
\* fails open: ResilientThrottlerStorage over the shared Redis counters.
THEOREM LimitsHold == Spec => []BudgetHolds
<1>1. IInv => BudgetHolds
  BY DEF IInv, PassedAreCounted, BudgetHolds, Excess, LimitOf
<1> QED
  BY <1>1, InductiveInvariant, PTL

\* Whatever was stored, the mapper can build the aggregate from it again.
THEOREM RowsAreSound == Spec => []RowsReadBack
<1>1. IInv => RowsReadBack
  BY DEF IInv, TableIsSound
<1> QED
  BY <1>1, InductiveInvariant, PTL

\* A write that succeeds has committed itself.
THEOREM SuccessesAreOwn == Spec => SuccessIsCommitted
<1>1. IInv /\ [Next]_vars => [\A r \in Request :
          /\ answered' \in {<<r, s>> : s \in {200, 201, 204}}
          /\ req[r].route \in Writes
          => req[r].committed]_vars
  BY NextIsRight DEF StepIsRight, AnswersAreRight, Right
<1> QED
  BY <1>1, InductiveInvariant, PTL DEF Spec, SuccessIsCommitted

\* What is refused with a 4xx or a 503 has changed nothing.
THEOREM RefusalsAreFinal == Spec => RefusalsChangeNothing
<1>1. IInv /\ [Next]_vars => [\A r \in Request :
          answered' \in {<<r, s>> : s \in {400, 401, 403, 404, 429, 503}}
          => ~ req[r].committed /\ row' = row]_vars
  BY NextIsRight DEF StepIsRight, AnswersAreRight, Right
<1> QED
  BY <1>1, InductiveInvariant, PTL DEF Spec, RefusalsChangeNothing

\* What no filter knows leaves no write in doubt but for a store that failed: the
\* write routes and AllExceptionsFilter.
THEOREM DoubtsAreFaults == Spec => DoubtNeedsFault
<1>1. IInv /\ [Next]_vars => [\A r \in Request :
          answered' = <<r, 500>> /\ (req[r].committed \/ row' # row) => faults' > faults]_vars
  BY NextIsRight DEF StepIsRight, AnswersAreRight, Right
<1> QED
  BY <1>1, InductiveInvariant, PTL DEF Spec, DoubtNeedsFault

\* Rows change only by requests whose key may: ApiKeyGuard before every write.
THEOREM WritesNeedKeys == Spec => OnlyKeysWrite
<1>1. IInv /\ [Next]_vars => [KeysWrite]_vars
  BY NextIsRight DEF StepIsRight
<1> QED
  BY <1>1, InductiveInvariant, PTL DEF Spec, OnlyKeysWrite, KeysWrite

\* A cached list is what the index has for the limit it is served for, neither
\* longer nor shorter: the key of AutocompleteUseCase.
THEOREM SuggestionsAreCut == Spec => SuggestionsFit
<1>1. IInv /\ [Next]_vars => [\A r \in Request :
          SuggestHits(r) => lists[SuggestKey(req[r].limit)] = Suggested(req[r].limit)]_vars
  BY SuggestsForNoWrite DEF SuggestHits, SuggestKey, IInv, ListsFit
<1> QED
  BY <1>1, InductiveInvariant, PTL DEF Spec, SuggestionsFit

=============================================================================
