--------------------------- MODULE ProjectionProofs ---------------------------
(***************************************************************************)
(* For any number of products, requests, workers, commits, failures and    *)
(* stray calls: wherever the index differs from Postgres there is a reason *)
(* on record, and only stale updates undo what others committed.           *)
(***************************************************************************)
EXTENDS Projection, TLAPS

Label == {"idle", "save", "apply", "call", "ok", "failed"}

Entries == pending \union done \union dead

\* A row that is not live holds nothing else, and its last commit has an entry.
RowsHaveEntries ==
    \A p \in Product :
        /\ row[p].ver = 0 => row[p] = Absent
        /\ ~ row[p].live => row[p].views = 0
        /\ row[p].ver > 0 => LatestEntry(p) \in Entries

\* No entry is newer than its row, and one as new is that of the last commit.
EntriesAreOld ==
    \A e \in Entries :
        /\ e.ver > 0 /\ e.ver <= row[e.product].ver
        /\ e.ver = row[e.product].ver => e = LatestEntry(e.product)

\* Content of this product that is no newer than its row, and the row if as new.
AsOld(p, content) ==
    content.ver <= row[p].ver /\ (content.ver = row[p].ver => content = row[p])

\* Documents, calls and what updates have read.
CopiesAreOld ==
    /\ \A p \in Product : AsOld(p, doc[p])
    /\ \A call \in strays : AsOld(call.product, call.content)
    /\ \A c \in Process :
           pc[c] \in {"save", "call"} => AsOld(work[c].product, work[c].content)

\* An update has read a product that was there.
ReadersReadLive == \A r \in Request : pc[r] = "save" => work[r].content.live

\* The call of a worker is for its entry, and no older.
CallsReach(w) ==
    work[w].product = entry[w].product /\ entry[w].ver <= work[w].content.ver

WorkersKnow ==
    \A w \in Worker :
        /\ pc[w] # "idle" => entry[w] \in Entries
        /\ pc[w] = "call" => CallsReach(w)

\* What the entry stands for has been overtaken by a commit, is shown, or was
\* overwritten by an older call.
Settled(e) ==
    \/ e.ver < row[e.product].ver
    \/ doc[e.product].ver = row[e.product].ver
    \/ e.product \in overtaken

VerdictsAreTrue ==
    /\ \A e \in done : Settled(e)
    /\ \A w \in Worker : pc[w] = "ok" => Settled(entry[w])

IInv ==
    /\ TypeOK
    /\ RowsHaveEntries /\ EntriesAreOld
    /\ CopiesAreOld /\ ReadersReadLive
    /\ WorkersKnow
    /\ VerdictsAreTrue

-----------------------------------------------------------------------------
(* Helpers.                                                                *)

LEMMA AbsentIsContent == Absent \in Content /\ Absent.ver = 0 /\ Absent.views = 0
  BY DEF Absent, Content

LEMMA NothingIsTyped == NoCall \in Call /\ NoEntry \in OutboxEntry
  BY AbsentIsContent, ProductAssumption DEF NoCall, NoEntry, Call, OutboxEntry, Operation

LEMMA ProcessKinds ==
  /\ Request \subseteq Process /\ Worker \subseteq Process
  /\ \A c \in Process : c \in Worker <=> c \notin Request
  BY DisjointAssumption DEF Process

LEMMA InitIInv == Init => IInv
<1> SUFFICES ASSUME Init
             PROVE  IInv
  OBVIOUS
<1>1. TypeOK
  BY AbsentIsContent, NothingIsTyped, ProcessKinds DEF Init, TypeOK
<1>2. RowsHaveEntries /\ EntriesAreOld /\ CopiesAreOld
  BY AbsentIsContent DEF Init, RowsHaveEntries, EntriesAreOld, CopiesAreOld, AsOld, Entries
<1>3. ReadersReadLive /\ WorkersKnow /\ VerdictsAreTrue
  BY ProcessKinds DEF Init, ReadersReadLive, WorkersKnow, VerdictsAreTrue
<1> QED
  BY <1>1, <1>2, <1>3 DEF IInv

-----------------------------------------------------------------------------
(* Commits.                                                                *)

\* What a commit may store.
Follows(p, content, operation) ==
    /\ content \in Content /\ operation \in Operation
    /\ content.ver = row[p].ver + 1
    /\ content.live <=> operation = "upsert"
    /\ ~ content.live => content.views = 0

\* A commit makes every copy and every other entry old.
LEMMA CommitOutdates ==
  ASSUME IInv, NEW p \in Product, NEW content, NEW operation,
         Follows(p, content, operation), Commit(p, content, operation)
  PROVE  /\ row' \in [Product -> Content] /\ pending' \subseteq OutboxEntry
         /\ RowsHaveEntries' /\ EntriesAreOld'
         /\ row'[p] = content /\ \A q \in Product \ {p} : row'[q] = row[q]
         /\ Entries \subseteq Entries'
<1> DEFINE new == [product |-> p, ver |-> content.ver, operation |-> operation]
<1>1. /\ row' = [row EXCEPT ![p] = content]
      /\ pending' = pending \union {new} /\ done' = done /\ dead' = dead
  BY DEF Commit
<1>2. /\ row' \in [Product -> Content]
      /\ row'[p] = content /\ \A q \in Product \ {p} : row'[q] = row[q]
  BY <1>1 DEF IInv, TypeOK, Follows
<1>3. /\ new \in OutboxEntry /\ new.product = p /\ new.ver = content.ver
      /\ content.ver \in Nat /\ row[p].ver \in Nat /\ content.ver = row[p].ver + 1
  BY DEF OutboxEntry, Follows, Content, IInv, TypeOK
<1>4. Entries' = Entries \union {new} /\ Entries \subseteq OutboxEntry
  BY <1>1 DEF Entries, IInv, TypeOK
<1>5. LatestEntry(p)' = new /\ \A q \in Product \ {p} : LatestEntry(q)' = LatestEntry(q)
  BY <1>2 DEF LatestEntry, Follows, Operation
<1>6. RowsHaveEntries'
  BY <1>2, <1>3, <1>4, <1>5 DEF RowsHaveEntries, IInv, Follows
<1>7. EntriesAreOld'
  <2>1. ASSUME NEW e \in Entries
        PROVE  /\ e.ver > 0 /\ e.ver <= row'[e.product].ver
               /\ e.ver = row'[e.product].ver => e = LatestEntry(e.product)'
    <3>1. /\ e.product \in Product /\ e.ver \in Nat
          /\ e.ver > 0 /\ e.ver <= row[e.product].ver
          /\ e.ver = row[e.product].ver => e = LatestEntry(e.product)
      BY <1>4 DEF IInv, EntriesAreOld, OutboxEntry
    <3>2. CASE e.product = p
      BY <1>2, <1>3, <3>1, <3>2
    <3>3. CASE e.product # p
      BY <1>2, <1>5, <3>1, <3>3
    <3> QED
      BY <3>2, <3>3
  <2>2. new.ver > 0 /\ new.ver = row'[p].ver
    BY <1>2, <1>3
  <2> HIDE DEF new
  <2> QED
    BY <1>3, <1>4, <1>5, <2>1, <2>2 DEF EntriesAreOld
<1> QED
  BY <1>1, <1>2, <1>3, <1>4, <1>6, <1>7 DEF IInv, TypeOK

LEMMA ContentTypes ==
  ASSUME IInv
  PROVE  /\ \A p \in Product : row[p] \in Content /\ doc[p] \in Content
         /\ \A c \in Process : /\ work[c] \in Call
                               /\ work[c].product \in Product /\ work[c].content \in Content
         /\ \A e \in Entries : e \in OutboxEntry /\ e.product \in Product /\ e.ver \in Nat
  BY DEF IInv, TypeOK, Call, OutboxEntry, Entries

\* A request that commits leaves every part of the invariant true.
LEMMA CommitKeeps ==
  ASSUME IInv, NEW r \in Request, pc[r] \in {"idle", "save"},
         NEW p \in Product, NEW content, NEW operation,
         Follows(p, content, operation), Commit(p, content, operation), Project(r, p)
  PROVE  IInv'
<1>1. /\ row' \in [Product -> Content] /\ pending' \subseteq OutboxEntry
      /\ RowsHaveEntries' /\ EntriesAreOld'
      /\ row'[p] = content /\ \A q \in Product \ {p} : row'[q] = row[q]
      /\ Entries \subseteq Entries'
  BY CommitOutdates
<1>2. content \in Content /\ content.ver \in Nat /\ row[p].ver \in Nat
      /\ content.ver = row[p].ver + 1 /\ done' = done /\ dead' = dead
  BY ContentTypes DEF Follows, Commit, Content
<1>3. /\ doc' = doc /\ overtaken' = overtaken /\ entry' = entry /\ strays' = strays
      /\ faults' = faults /\ lost' = lost
  BY DEF Project, index
<1>4. /\ r \in Process /\ r \notin Worker
      /\ work' \in [Process -> Call] /\ pc' \in [Process -> Label]
      /\ work'[r] = [product |-> p, content |-> content] /\ pc'[r] = "call"
      /\ \A c \in Process \ {r} : work'[c] = work[c] /\ pc'[c] = pc[c]
  BY <1>1, <1>2, ProcessKinds DEF Project, IInv, TypeOK, Call, Label
<1>5. \A w \in Worker : pc'[w] = pc[w] /\ work'[w] = work[w] /\ w # r /\ w \in Process
  BY <1>4, ProcessKinds
<1>6. TypeOK'
  <2>1. \A q \in Request : pc'[q] \in {"idle", "save", "call"}
    BY <1>4, ProcessKinds DEF IInv, TypeOK
  <2>2. \A w \in Worker : pc'[w] # "save"
    BY <1>5 DEF IInv, TypeOK
  <2> QED
    BY <1>1, <1>2, <1>3, <1>4, <2>1, <2>2 DEF IInv, TypeOK, Label
<1>7. ASSUME NEW q \in Product, NEW old \in Content, AsOld(q, old)
      PROVE  AsOld(q, old)'
  <2>1. old.ver \in Nat /\ old.ver <= row[q].ver /\ row[q].ver \in Nat
    BY <1>7, ContentTypes DEF AsOld, Content
  <2>2. CASE q = p
    BY <1>1, <1>2, <2>1, <2>2 DEF AsOld
  <2>3. CASE q # p
    BY <1>1, <1>7, <2>3 DEF AsOld
  <2> QED
    BY <2>2, <2>3
<1>8. AsOld(p, content)'
  BY <1>1, <1>2 DEF AsOld
<1>9. CopiesAreOld'
  <2>1. \A q \in Product : AsOld(q, doc[q])'
    BY <1>3, <1>7, ContentTypes DEF IInv, CopiesAreOld
  <2>2. \A call \in strays : AsOld(call.product, call.content)'
    BY <1>7 DEF IInv, TypeOK, CopiesAreOld, Call
  <2>3. ASSUME NEW c \in Process, pc'[c] \in {"save", "call"}
        PROVE  AsOld(work[c].product, work[c].content)'
    <3>1. CASE c = r
      BY <1>4, <1>8, <3>1
    <3>2. CASE c # r
      BY <1>4, <1>7, <2>3, <3>2, ContentTypes DEF IInv, CopiesAreOld
    <3> QED
      BY <3>1, <3>2
  <2> QED
    BY <1>3, <2>1, <2>2, <2>3 DEF CopiesAreOld
<1>10. ReadersReadLive' /\ WorkersKnow'
  BY <1>1, <1>3, <1>4, <1>5, ProcessKinds DEF IInv, ReadersReadLive, WorkersKnow, CallsReach
<1>11. ASSUME NEW e \in Entries, Settled(e)
       PROVE  Settled(e)'
  <2>1. e.product \in Product /\ e.ver \in Nat /\ e.ver <= row[e.product].ver
    BY ContentTypes DEF IInv, EntriesAreOld
  <2>2. CASE e.product = p
    BY <1>1, <1>2, <2>1, <2>2 DEF Settled
  <2>3. CASE e.product # p
    BY <1>1, <1>3, <1>11, <2>1, <2>3 DEF Settled
  <2> QED
    BY <2>2, <2>3
<1>12. VerdictsAreTrue'
  <2>1. \A e \in done' : Settled(e)'
    BY <1>2, <1>11 DEF IInv, VerdictsAreTrue, Entries
  <2>2. ASSUME NEW w \in Worker, pc'[w] = "ok"
        PROVE  Settled(entry[w])'
    BY <1>3, <1>5, <1>11, <2>2 DEF IInv, VerdictsAreTrue, WorkersKnow
  <2> QED
    BY <2>1, <2>2 DEF VerdictsAreTrue
<1> QED
  BY <1>1, <1>6, <1>9, <1>10, <1>12 DEF IInv

LEMMA CreateKeeps ==
  ASSUME IInv, NEW r \in Request, NEW p \in Product, Create(r, p)
  PROVE  IInv'
<1> DEFINE content == [live |-> TRUE, ver |-> row[p].ver + 1, views |-> 0]
<1>1. Follows(p, content, "upsert")
  BY ContentTypes DEF Follows, Content, Operation
<1>2. Commit(p, content, "upsert") /\ Project(r, p) /\ pc[r] = "idle"
  BY DEF Create, Save
<1> HIDE DEF content
<1> QED
  BY <1>1, <1>2, CommitKeeps

LEMMA UpdateSavesKeeps ==
  ASSUME IInv, NEW r \in Request, UpdateSaves(r)
  PROVE  IInv'
<1> DEFINE p == work[r].product
           content == [live |-> TRUE, ver |-> row[p].ver + 1, views |-> work[r].content.views]
<1>1. p \in Product /\ work[r].content \in Content
  BY ContentTypes, ProcessKinds
<1>2. Follows(p, content, "upsert")
  BY <1>1, ContentTypes DEF Follows, Content, Operation
<1>3. Commit(p, content, "upsert") /\ Project(r, p) /\ pc[r] = "save"
  BY DEF UpdateSaves, Save
<1> HIDE DEF content, p
<1> QED
  BY <1>1, <1>2, <1>3, CommitKeeps

LEMMA DeleteKeeps ==
  ASSUME IInv, NEW r \in Request, NEW p \in Product, Delete(r, p)
  PROVE  IInv'
<1> DEFINE content == [live |-> FALSE, ver |-> row[p].ver + 1, views |-> 0]
<1>1. Follows(p, content, "delete")
  BY ContentTypes DEF Follows, Content, Operation
<1>2. Commit(p, content, "delete") /\ Project(r, p) /\ pc[r] = "idle"
  BY DEF Delete, Remove
<1> HIDE DEF content
<1> QED
  BY <1>1, <1>2, CommitKeeps

LEMMA RecordViewKeeps ==
  ASSUME IInv, NEW r \in Request, NEW p \in Product, RecordView(r, p)
  PROVE  IInv'
<1> DEFINE content == [live |-> TRUE, ver |-> row[p].ver + 1, views |-> row[p].views + 1]
<1>1. Follows(p, content, "upsert")
  BY ContentTypes DEF Follows, Content, Operation
<1>2. Commit(p, content, "upsert") /\ Project(r, p) /\ pc[r] = "idle"
  BY DEF RecordView, Increment
<1> HIDE DEF content
<1> QED
  BY <1>1, <1>2, CommitKeeps

-----------------------------------------------------------------------------
(* The steps that commit nothing.                                          *)

\* What the invariant says of one process.
ProcessTrue(c) ==
    /\ pc[c] \in {"save", "call"} => AsOld(work[c].product, work[c].content)
    /\ c \in Request /\ pc[c] = "save" => work[c].content.live
    /\ c \in Worker /\ pc[c] # "idle" => entry[c] \in Entries
    /\ c \in Worker /\ pc[c] = "call" => CallsReach(c)
    /\ c \in Worker /\ pc[c] = "ok" => Settled(entry[c])

OthersStay(c) ==
    /\ \A d \in Process \ {c} : pc'[d] = pc[d] /\ work'[d] = work[d]
    /\ \A w \in Worker \ {c} : entry'[w] = entry[w]

\* Nothing that was settled is unsettled, and documents are still old.
IndexStays ==
    /\ \A p \in Product : AsOld(p, doc[p])'
    /\ \A e \in OutboxEntry : Settled(e) => Settled(e)'

LEMMA PartsKeep ==
  ASSUME IInv, TypeOK', row' = row, Entries' = Entries, IndexStays,
         \A call \in strays' : AsOld(call.product, call.content),
         \A e \in done' : Settled(e)',
         \A c \in Process : ProcessTrue(c)'
  PROVE  IInv'
<1>1. \A p \in Product : LatestEntry(p)' = LatestEntry(p)
  BY DEF LatestEntry
<1>2. RowsHaveEntries' /\ EntriesAreOld'
  BY <1>1, ContentTypes DEF IInv, RowsHaveEntries, EntriesAreOld
<1>3. CopiesAreOld'
  BY DEF CopiesAreOld, IndexStays, AsOld, ProcessTrue
<1>4. ReadersReadLive' /\ WorkersKnow' /\ VerdictsAreTrue'
  BY ProcessKinds DEF ReadersReadLive, WorkersKnow, VerdictsAreTrue, ProcessTrue
<1> QED
  BY <1>2, <1>3, <1>4 DEF IInv

\* What was true of a process that stays where it is.
LEMMA StayingKeeps ==
  ASSUME IInv, row' = row, Entries' = Entries, IndexStays,
         NEW d \in Process, pc'[d] = pc[d], work'[d] = work[d],
         d \in Worker => entry'[d] = entry[d]
  PROVE  ProcessTrue(d)'
<1>1. pc[d] \in {"save", "call"} => AsOld(work[d].product, work[d].content)'
  BY DEF IInv, CopiesAreOld, AsOld
<1>2. d \in Worker /\ pc[d] = "ok" => Settled(entry[d])'
  BY DEF IInv, TypeOK, VerdictsAreTrue, IndexStays
<1>3. d \in Worker /\ pc[d] = "call" => CallsReach(d)'
  BY DEF IInv, WorkersKnow, CallsReach
<1> QED
  BY <1>1, <1>2, <1>3 DEF IInv, ReadersReadLive, WorkersKnow, ProcessTrue

LEMMA StepKeeps ==
  ASSUME IInv, TypeOK', row' = row, Entries' = Entries, IndexStays,
         \A call \in strays' : AsOld(call.product, call.content),
         \A e \in done' : Settled(e)',
         NEW c \in Process, OthersStay(c), ProcessTrue(c)'
  PROVE  IInv'
<1>1. \A d \in Process \ {c} : ProcessTrue(d)'
  BY StayingKeeps DEF OthersStay
<1> QED
  BY <1>1, PartsKeep

\* An index that is left alone.
LEMMA IndexLeft ==
  ASSUME IInv, row' = row, UNCHANGED index
  PROVE  IndexStays
<1>1. doc' = doc /\ overtaken' = overtaken
  BY DEF index
<1> QED
  BY <1>1 DEF IndexStays, IInv, CopiesAreOld, AsOld, Settled

\* A call that takes effect settles the entries it is not older than.
LEMMA CallSettles ==
  ASSUME IInv, row' = row, NEW call \in Call, AsOld(call.product, call.content), Takes(call)
  PROVE  /\ IndexStays
         /\ doc' \in [Product -> Content] /\ overtaken' \subseteq Product
         /\ \A e \in OutboxEntry :
               e.product = call.product /\ e.ver <= call.content.ver => Settled(e)'
<1> DEFINE p == call.product
           new == call.content
<1>1. p \in Product /\ new \in Content /\ new.ver \in Nat
      /\ row[p].ver \in Nat /\ doc[p].ver \in Nat
  BY ContentTypes DEF Call, Content
<1>2. /\ doc' \in [Product -> Content] /\ doc'[p] = new
      /\ \A q \in Product \ {p} : doc'[q] = doc[q]
  BY <1>1 DEF Takes, IInv, TypeOK
<1>3. overtaken' \subseteq Product /\ \A q \in Product \ {p} : q \in overtaken => q \in overtaken'
  BY <1>1 DEF Takes, IInv, TypeOK
<1>4. /\ new.ver < doc[p].ver => p \in overtaken'
      /\ new.ver # row[p].ver /\ p \in overtaken => p \in overtaken'
  BY <1>1 DEF Takes
<1>5. new.ver <= row[p].ver /\ doc[p].ver <= row[p].ver
  BY <1>1 DEF AsOld, IInv, CopiesAreOld
<1>6. \A q \in Product : AsOld(q, doc[q])'
  BY <1>1, <1>2 DEF IInv, CopiesAreOld, AsOld
<1> HIDE DEF p, new
<1>7. ASSUME NEW e \in OutboxEntry, Settled(e)
      PROVE  Settled(e)'
  <2>1. e.product \in Product /\ e.ver \in Nat
    BY DEF OutboxEntry
  <2>2. CASE e.product # p
    BY <1>2, <1>3, <1>7, <2>1, <2>2 DEF Settled
  <2>3. CASE e.product = p /\ new.ver = row[p].ver
    BY <1>2, <2>3 DEF Settled
  <2>4. CASE e.product = p /\ new.ver # row[p].ver
    <3>1. CASE e.ver < row[p].ver
      BY <2>4, <3>1 DEF Settled
    <3>2. CASE doc[p].ver = row[p].ver
      BY <1>1, <1>4, <1>5, <2>4, <3>2 DEF Settled
    <3>3. CASE p \in overtaken
      BY <1>4, <2>4, <3>3 DEF Settled
    <3> QED
      BY <1>7, <2>4, <3>1, <3>2, <3>3 DEF Settled
  <2> QED
    BY <2>2, <2>3, <2>4
<1>8. ASSUME NEW e \in OutboxEntry, e.product = p, e.ver <= new.ver
      PROVE  Settled(e)'
  <2>1. e.ver \in Nat
    BY DEF OutboxEntry
  <2>2. CASE new.ver = row[p].ver
    BY <1>2, <1>8, <2>2 DEF Settled
  <2>3. CASE new.ver # row[p].ver
    <3>1. e.ver < row[p].ver
      BY <1>1, <1>5, <1>8, <2>1, <2>3
    <3> QED
      BY <1>8, <3>1 DEF Settled
  <2> QED
    BY <2>2, <2>3
<1> QED
  BY <1>2, <1>3, <1>6, <1>7, <1>8 DEF IndexStays, p, new

-----------------------------------------------------------------------------
(* One lemma per action.                                                   *)

LEMMA ProcessTruths == ASSUME IInv PROVE \A c \in Process : ProcessTrue(c)
  BY ProcessKinds
  DEF IInv, CopiesAreOld, ReadersReadLive, WorkersKnow, VerdictsAreTrue, ProcessTrue

\* Rows, index, entries and strays are left alone.
LEMMA AloneKeeps ==
  ASSUME IInv, TypeOK', UNCHANGED <<row, pending, done, dead, index>>,
         strays' \subseteq strays,
         NEW c \in Process, OthersStay(c), ProcessTrue(c)'
  PROVE  IInv'
<1>1. Entries' = Entries /\ IndexStays
  BY IndexLeft DEF Entries
<1>2. \A call \in strays' : AsOld(call.product, call.content)
  BY DEF IInv, CopiesAreOld
<1>3. \A e \in done' : Settled(e)'
  BY <1>1 DEF IInv, VerdictsAreTrue, TypeOK, IndexStays
<1> QED
  BY <1>1, <1>2, <1>3, StepKeeps

LEMMA UpdateReadsKeeps ==
  ASSUME IInv, NEW r \in Request, NEW p \in Product, UpdateReads(r, p)
  PROVE  IInv'
<1>1. r \in Process /\ r \notin Worker /\ row[p].live /\ row[p] \in Content
  BY ProcessKinds, ContentTypes DEF UpdateReads
<1>2. /\ work' = [work EXCEPT ![r] = [product |-> p, content |-> row[p]]]
      /\ pc' = [pc EXCEPT ![r] = "save"]
      /\ UNCHANGED <<row, pending, done, dead, index>> /\ entry' = entry
      /\ strays' = strays /\ faults' = faults /\ lost' = lost
  BY DEF UpdateReads, database
<1>3. TypeOK'
  BY <1>1, <1>2, ProcessKinds DEF IInv, TypeOK, index, Call
<1>4. OthersStay(r)
  BY <1>2 DEF OthersStay
<1>5. pc'[r] = "save" /\ work'[r] = [product |-> p, content |-> row[p]]
  BY <1>1, <1>2 DEF IInv, TypeOK
<1>6. ProcessTrue(r)'
  BY <1>1, <1>2, <1>5, ContentTypes DEF ProcessTrue, AsOld, Content
<1> QED
  BY <1>1, <1>2, <1>3, <1>4, <1>6, AloneKeeps

LEMMA UpdateEndsKeeps ==
  ASSUME IInv, NEW r \in Request, UpdateEnds(r)
  PROVE  IInv'
<1>1. r \in Process /\ r \notin Worker
  BY ProcessKinds
<1>2. /\ work' = [work EXCEPT ![r] = NoCall]
      /\ pc' = [pc EXCEPT ![r] = "idle"]
      /\ UNCHANGED <<row, pending, done, dead, index>> /\ entry' = entry
      /\ strays' = strays /\ faults' = faults /\ lost' = lost
  BY DEF UpdateEnds, database
<1>3. TypeOK'
  BY <1>1, <1>2, ProcessKinds, NothingIsTyped DEF IInv, TypeOK, index
<1>4. OthersStay(r)
  BY <1>2 DEF OthersStay
<1>5. ProcessTrue(r)'
  BY <1>1, <1>2 DEF ProcessTrue, IInv, TypeOK
<1> QED
  BY <1>1, <1>2, <1>3, <1>4, <1>5, AloneKeeps

LEMMA ClaimKeeps ==
  ASSUME IInv, NEW w \in Worker, NEW e \in pending, Claim(w, e)
  PROVE  IInv'
<1>1. w \in Process /\ w \notin Request /\ e \in OutboxEntry /\ e \in Entries
  BY ProcessKinds DEF IInv, TypeOK, Entries
<1>2. /\ entry' = [entry EXCEPT ![w] = e]
      /\ pc' = [pc EXCEPT ![w] = "apply"]
      /\ UNCHANGED <<row, pending, done, dead, index>> /\ work' = work
      /\ strays' = strays /\ faults' = faults /\ lost' = lost
  BY DEF Claim, database
<1>3. TypeOK'
  BY <1>1, <1>2, ProcessKinds DEF IInv, TypeOK, index
<1>4. OthersStay(w)
  BY <1>2 DEF OthersStay, IInv, TypeOK
<1>5. pc'[w] = "apply" /\ entry'[w] = e
  BY <1>1, <1>2 DEF IInv, TypeOK
<1>6. ProcessTrue(w)'
  BY <1>1, <1>2, <1>5 DEF ProcessTrue, Entries
<1> QED
  BY <1>1, <1>2, <1>3, <1>4, <1>6, AloneKeeps

\* What apply() reads and writes before its call.
LEMMA ApplyFacts ==
  ASSUME IInv, NEW w \in Worker, pc[w] = "apply"
  PROVE  /\ w \in Process /\ w \notin Request
         /\ entry[w] \in Entries /\ entry[w] \in OutboxEntry
         /\ entry[w].product \in Product /\ entry[w].ver \in Nat
         /\ row[entry[w].product] \in Content
         /\ entry[w].ver > 0 /\ entry[w].ver <= row[entry[w].product].ver
         /\ entry[w].ver = row[entry[w].product].ver
               => entry[w] = LatestEntry(entry[w].product)
<1>1. w \in Process /\ w \notin Request
  BY ProcessKinds
<1>2. entry[w] \in Entries
  BY DEF IInv, WorkersKnow
<1> QED
  BY <1>1, <1>2, ContentTypes DEF IInv, EntriesAreOld

LEMMA ApplyDeleteKeeps ==
  ASSUME IInv, NEW w \in Worker, ApplyDelete(w)
  PROVE  IInv'
<1> DEFINE gone == [live |-> FALSE, ver |-> entry[w].ver, views |-> 0]
           p == entry[w].product
<1>1. pc[w] = "apply" /\ entry[w].operation = "delete"
  BY DEF ApplyDelete
<1>2. gone \in Content /\ gone.ver = entry[w].ver
  BY <1>1, ApplyFacts DEF Content
<1>3. AsOld(p, gone)
  <2>1. CASE entry[w].ver = row[p].ver
    <3>1. LatestEntry(p).operation = "delete" /\ p \in Product
      BY <1>1, <2>1, ApplyFacts
    <3>2. ~ row[p].live
      BY <3>1 DEF LatestEntry
    <3>3. row[p].views = 0 /\ row[p] \in Content
      BY <3>1, <3>2, ContentTypes DEF IInv, RowsHaveEntries
    <3>4. gone = row[p]
      BY <2>1, <3>2, <3>3 DEF Content
    <3> QED
      BY <1>1, <1>2, <3>4, ApplyFacts DEF AsOld
  <2>2. CASE entry[w].ver # row[p].ver
    BY <1>1, <1>2, <2>2, ApplyFacts DEF AsOld
  <2> QED
    BY <2>1, <2>2
<1> HIDE DEF gone
<1>4. /\ work' = [work EXCEPT ![w] = [product |-> p, content |-> gone]]
      /\ pc' = [pc EXCEPT ![w] = "call"]
      /\ UNCHANGED <<row, pending, done, dead, index>> /\ entry' = entry
      /\ strays' = strays /\ faults' = faults /\ lost' = lost
  BY DEF ApplyDelete, database, gone
<1>5. TypeOK'
  BY <1>1, <1>2, <1>4, ApplyFacts DEF IInv, TypeOK, index, Call
<1>6. OthersStay(w)
  BY <1>4 DEF OthersStay, IInv, TypeOK
<1>7. pc'[w] = "call" /\ work'[w] = [product |-> p, content |-> gone]
  BY <1>1, <1>4, ApplyFacts DEF IInv, TypeOK
<1>8. CallsReach(w)'
  BY <1>1, <1>2, <1>4, <1>7, ApplyFacts DEF CallsReach
<1>9. ProcessTrue(w)'
  BY <1>1, <1>3, <1>4, <1>7, <1>8, ApplyFacts DEF ProcessTrue, AsOld, Entries
<1> QED
  BY <1>1, <1>4, <1>5, <1>6, <1>9, ApplyFacts, AloneKeeps

LEMMA ApplyUpsertKeeps ==
  ASSUME IInv, NEW w \in Worker, ApplyUpsert(w)
  PROVE  IInv'
<1> DEFINE p == entry[w].product
<1>1. pc[w] = "apply" /\ p \in Product /\ row[p] \in Content /\ row[p].ver \in Nat
  BY ApplyFacts DEF ApplyUpsert, Content
<1>2. /\ work' = [work EXCEPT ![w] = [product |-> p, content |-> row[p]]]
      /\ pc' = [pc EXCEPT ![w] = "call"]
      /\ UNCHANGED <<row, pending, done, dead, index>> /\ entry' = entry
      /\ strays' = strays /\ faults' = faults /\ lost' = lost
  BY DEF ApplyUpsert, database
<1>3. TypeOK'
  BY <1>1, <1>2, ApplyFacts DEF IInv, TypeOK, index, Call
<1>4. OthersStay(w)
  BY <1>2 DEF OthersStay, IInv, TypeOK
<1>5. pc'[w] = "call" /\ work'[w] = [product |-> p, content |-> row[p]]
  BY <1>1, <1>2, ApplyFacts DEF IInv, TypeOK
<1>6. CallsReach(w)'
  BY <1>1, <1>2, <1>5, ApplyFacts DEF CallsReach
<1>7. AsOld(work[w].product, work[w].content)'
  BY <1>1, <1>2, <1>5 DEF AsOld
<1>8. ProcessTrue(w)'
  BY <1>1, <1>2, <1>5, <1>6, <1>7, ApplyFacts DEF ProcessTrue, Entries
<1> QED
  BY <1>1, <1>2, <1>3, <1>4, <1>8, ApplyFacts, AloneKeeps

\* The upsert of a product that is gone is not its last entry.
LEMMA ApplySkipsKeeps ==
  ASSUME IInv, NEW w \in Worker, ApplySkips(w)
  PROVE  IInv'
<1> DEFINE p == entry[w].product
<1>1. pc[w] = "apply" /\ entry[w].operation = "upsert" /\ ~ row[p].live
  BY DEF ApplySkips
<1>2. p \in Product /\ entry[w].ver \in Nat /\ row[p].ver \in Nat
  BY <1>1, ApplyFacts DEF Content
<1>3. entry[w].ver < row[p].ver
  <2>1. entry[w] # LatestEntry(p)
    BY <1>1 DEF LatestEntry
  <2> QED
    BY <1>1, <1>2, <2>1, ApplyFacts
<1>4. /\ pc' = [pc EXCEPT ![w] = "ok"]
      /\ UNCHANGED <<row, pending, done, dead, index>> /\ entry' = entry /\ work' = work
      /\ strays' = strays /\ faults' = faults /\ lost' = lost
  BY DEF ApplySkips, database
<1>5. TypeOK'
  BY <1>1, <1>4, ApplyFacts DEF IInv, TypeOK, index
<1>6. OthersStay(w)
  BY <1>4 DEF OthersStay, IInv, TypeOK
<1>7. pc'[w] = "ok"
  BY <1>1, <1>4, ApplyFacts DEF IInv, TypeOK
<1>8. Settled(entry[w])'
  BY <1>3, <1>4 DEF Settled
<1>9. ProcessTrue(w)'
  BY <1>1, <1>4, <1>7, <1>8, ApplyFacts DEF ProcessTrue, Entries
<1> QED
  BY <1>1, <1>4, <1>5, <1>6, <1>9, ApplyFacts, AloneKeeps

\* A worker that turns to its next entry has nothing left to be true.
LEMMA ReleaseFacts ==
  ASSUME IInv, NEW w \in Worker, Release(w), work' = work
  PROVE  /\ w \in Process /\ OthersStay(w) /\ ProcessTrue(w)'
         /\ pc' \in [Process -> Label] /\ entry' \in [Worker -> OutboxEntry]
         /\ \A r \in Request : pc'[r] = pc[r]
         /\ \A v \in Worker : pc'[v] # "save"
<1>1. w \in Process /\ w \notin Request
  BY ProcessKinds
<1>2. pc' = [pc EXCEPT ![w] = "idle"] /\ entry' = [entry EXCEPT ![w] = NoEntry]
  BY DEF Release
<1>3. pc' \in [Process -> Label] /\ entry' \in [Worker -> OutboxEntry] /\ pc'[w] = "idle"
  BY <1>1, <1>2, NothingIsTyped DEF IInv, TypeOK, Label
<1>4. OthersStay(w)
  BY <1>2 DEF OthersStay, IInv, TypeOK
<1>5. /\ \A r \in Request : pc'[r] = pc[r]
      /\ \A v \in Worker : pc'[v] # "save"
  BY <1>1, <1>2, ProcessKinds DEF IInv, TypeOK
<1> QED
  BY <1>1, <1>3, <1>4, <1>5 DEF ProcessTrue

LEMMA MarkProcessedKeeps ==
  ASSUME IInv, NEW w \in Worker, MarkProcessed(w)
  PROVE  IInv'
<1>1. /\ pc[w] = "ok" /\ Release(w) /\ work' = work
      /\ pending' = pending \ {entry[w]} /\ done' = done \union {entry[w]} /\ dead' = dead
      /\ row' = row /\ UNCHANGED index
      /\ strays' = strays /\ faults' = faults /\ lost' = lost
  BY DEF MarkProcessed
<1>2. entry[w] \in Entries /\ Settled(entry[w]) /\ entry[w] \in OutboxEntry
  BY <1>1 DEF IInv, TypeOK, WorkersKnow, VerdictsAreTrue
<1>3. Entries' = Entries /\ IndexStays
  BY <1>1, <1>2, IndexLeft DEF Entries
<1>4. TypeOK'
  BY <1>1, <1>2, ReleaseFacts DEF IInv, TypeOK, index, Label
<1>5. \A e \in done' : Settled(e)'
  BY <1>1, <1>2, <1>3 DEF IInv, VerdictsAreTrue, TypeOK, IndexStays
<1>6. \A call \in strays' : AsOld(call.product, call.content)
  BY <1>1 DEF IInv, CopiesAreOld
<1> QED
  BY <1>1, <1>3, <1>4, <1>5, <1>6, ReleaseFacts, StepKeeps

LEMMA DeadLetterKeeps ==
  ASSUME IInv, NEW w \in Worker, DeadLetter(w)
  PROVE  IInv'
<1>1. /\ pc[w] = "failed" /\ Release(w) /\ work' = work
      /\ pending' = pending \ {entry[w]} /\ dead' = dead \union {entry[w]} /\ done' = done
      /\ row' = row /\ UNCHANGED index
      /\ strays' = strays /\ faults' = faults + 1 /\ lost' = lost
  BY DEF DeadLetter, SpendFault
<1>2. entry[w] \in Entries /\ entry[w] \in OutboxEntry
  BY <1>1 DEF IInv, TypeOK, WorkersKnow
<1>3. Entries' = Entries /\ IndexStays
  BY <1>1, <1>2, IndexLeft DEF Entries
<1>4. TypeOK'
  BY <1>1, <1>2, ReleaseFacts DEF IInv, TypeOK, index, Label
<1>5. \A e \in done' : Settled(e)'
  BY <1>1, <1>3 DEF IInv, VerdictsAreTrue, TypeOK, IndexStays
<1>6. \A call \in strays' : AsOld(call.product, call.content)
  BY <1>1 DEF IInv, CopiesAreOld
<1> QED
  BY <1>1, <1>3, <1>4, <1>5, <1>6, ReleaseFacts, StepKeeps

LEMMA ReleaseKeeps ==
  ASSUME IInv, NEW w \in Worker, Retry(w) \/ Crash(w)
  PROVE  IInv'
<1>1. /\ Release(w) /\ work' = work
      /\ UNCHANGED <<row, pending, done, dead, index>>
      /\ strays' = strays /\ faults' \in {faults, faults + 1} /\ lost' = lost
  BY DEF Retry, Crash, SpendFault, database
<1>2. TypeOK'
  BY <1>1, ReleaseFacts DEF IInv, TypeOK, index, Label
<1> QED
  BY <1>1, <1>2, ReleaseFacts, AloneKeeps

\* A process whose call is over; a worker has its verdict to record.
LEMMA ReturnFacts ==
  ASSUME IInv, NEW c \in Process, pc[c] = "call", NEW verdict \in {"ok", "failed"},
         Returns(c, verdict), entry' = entry, row' = row, Entries' = Entries,
         c \in Worker /\ verdict = "ok" => Settled(entry[c])'
  PROVE  /\ OthersStay(c) /\ ProcessTrue(c)'
         /\ pc' \in [Process -> Label] /\ work' \in [Process -> Call]
         /\ \A r \in Request : pc'[r] \in {"idle", "save", "call"}
         /\ \A w \in Worker : pc'[w] # "save"
<1>1. /\ pc' = [pc EXCEPT ![c] = IF c \in Request THEN "idle" ELSE verdict]
      /\ work' = [work EXCEPT ![c] = NoCall]
  BY DEF Returns
<1>2. pc' \in [Process -> Label] /\ work' \in [Process -> Call]
  BY <1>1, NothingIsTyped DEF IInv, TypeOK, Label
<1>3. pc'[c] = IF c \in Request THEN "idle" ELSE verdict
  BY <1>1 DEF IInv, TypeOK
<1>4. OthersStay(c)
  BY <1>1 DEF OthersStay, IInv, TypeOK
<1>5. /\ \A r \in Request : pc'[r] \in {"idle", "save", "call"}
      /\ \A w \in Worker : pc'[w] # "save"
  BY <1>1, ProcessKinds DEF IInv, TypeOK
<1>6. ProcessTrue(c)'
  <2>1. CASE c \in Request
    BY <1>3, <2>1, ProcessKinds DEF ProcessTrue
  <2>2. CASE c \in Worker
    BY <1>3, <2>2, ProcessKinds DEF ProcessTrue, IInv, WorkersKnow
  <2> QED
    BY <2>1, <2>2 DEF Process
<1> QED
  BY <1>2, <1>4, <1>5, <1>6

LEMMA LandsKeeps ==
  ASSUME IInv, NEW c \in Process, Lands(c)
  PROVE  IInv'
<1>1. /\ pc[c] = "call" /\ Takes(work[c]) /\ Returns(c, "ok")
      /\ UNCHANGED <<row, pending, done, dead>> /\ entry' = entry
      /\ strays' = strays /\ faults' = faults /\ lost' = lost
  BY DEF Lands, database
<1>2. work[c] \in Call /\ AsOld(work[c].product, work[c].content)
  BY <1>1, ContentTypes DEF IInv, CopiesAreOld
<1>3. /\ IndexStays
      /\ doc' \in [Product -> Content] /\ overtaken' \subseteq Product
      /\ \A e \in OutboxEntry :
            e.product = work[c].product /\ e.ver <= work[c].content.ver => Settled(e)'
  BY <1>1, <1>2, CallSettles
<1>4. Entries' = Entries
  BY <1>1 DEF Entries
<1>5. c \in Worker => Settled(entry[c])'
  BY <1>1, <1>3 DEF IInv, TypeOK, WorkersKnow, CallsReach, Settled
<1>6. /\ OthersStay(c) /\ ProcessTrue(c)'
      /\ pc' \in [Process -> Label] /\ work' \in [Process -> Call]
      /\ \A r \in Request : pc'[r] \in {"idle", "save", "call"}
      /\ \A w \in Worker : pc'[w] # "save"
  BY <1>1, <1>4, <1>5, ReturnFacts
<1>7. TypeOK'
  BY <1>1, <1>3, <1>6 DEF IInv, TypeOK, Label
<1>8. \A e \in done' : Settled(e)'
  BY <1>1, <1>3 DEF IInv, VerdictsAreTrue, TypeOK, IndexStays
<1>9. \A call \in strays' : AsOld(call.product, call.content)
  BY <1>1 DEF IInv, CopiesAreOld
<1> QED
  BY <1>1, <1>3, <1>4, <1>6, <1>7, <1>8, <1>9, StepKeeps

LEMMA RefusedKeeps ==
  ASSUME IInv, NEW c \in Process, Refused(c)
  PROVE  IInv'
<1>1. /\ pc[c] = "call" /\ Returns(c, "failed")
      /\ UNCHANGED <<row, pending, done, dead, index>> /\ entry' = entry
      /\ strays' = strays /\ faults' = faults + 1 /\ lost' = lost
  BY DEF Refused, SpendFault, database
<1>2. Entries' = Entries
  BY <1>1 DEF Entries
<1>3. /\ OthersStay(c) /\ ProcessTrue(c)'
      /\ pc' \in [Process -> Label] /\ work' \in [Process -> Call]
      /\ \A r \in Request : pc'[r] \in {"idle", "save", "call"}
      /\ \A w \in Worker : pc'[w] # "save"
  BY <1>1, <1>2, ReturnFacts
<1>4. TypeOK'
  BY <1>1, <1>3 DEF IInv, TypeOK, Label, index
<1> QED
  BY <1>1, <1>3, <1>4, AloneKeeps

LEMMA TimesOutKeeps ==
  ASSUME IInv, NEW c \in Process, TimesOut(c)
  PROVE  IInv'
<1>1. /\ pc[c] = "call" /\ Returns(c, "failed") /\ UNCHANGED index
      /\ UNCHANGED <<row, pending, done, dead>> /\ entry' = entry
      /\ strays' = strays \union {work[c]} /\ faults' = faults /\ lost' = lost + 1
  BY DEF TimesOut, SpendStray, database
<1>2. Entries' = Entries /\ IndexStays
  BY <1>1, IndexLeft DEF Entries
<1>3. /\ OthersStay(c) /\ ProcessTrue(c)'
      /\ pc' \in [Process -> Label] /\ work' \in [Process -> Call]
      /\ \A r \in Request : pc'[r] \in {"idle", "save", "call"}
      /\ \A w \in Worker : pc'[w] # "save"
  BY <1>1, <1>2, ReturnFacts
<1>4. work[c] \in Call /\ AsOld(work[c].product, work[c].content)
  BY <1>1, ContentTypes DEF IInv, CopiesAreOld
<1>5. TypeOK'
  BY <1>1, <1>3, <1>4 DEF IInv, TypeOK, Label, index
<1>6. \A call \in strays' : AsOld(call.product, call.content)
  BY <1>1, <1>4 DEF IInv, CopiesAreOld
<1>7. \A e \in done' : Settled(e)'
  BY <1>1, <1>2 DEF IInv, VerdictsAreTrue, TypeOK, IndexStays
<1> QED
  BY <1>1, <1>2, <1>3, <1>5, <1>6, <1>7, StepKeeps

LEMMA ResentKeeps ==
  ASSUME IInv, NEW c \in Process, Resent(c)
  PROVE  IInv'
<1>1. /\ pc[c] = "call" /\ pc' = pc /\ work' = work /\ UNCHANGED index
      /\ UNCHANGED <<row, pending, done, dead>> /\ entry' = entry
      /\ strays' = strays \union {work[c]} /\ faults' = faults /\ lost' = lost + 1
  BY DEF Resent, SpendStray, database
<1>2. Entries' = Entries /\ IndexStays
  BY <1>1, IndexLeft DEF Entries
<1>3. work[c] \in Call /\ AsOld(work[c].product, work[c].content)
  BY <1>1, ContentTypes DEF IInv, CopiesAreOld
<1>4. TypeOK'
  BY <1>1, <1>3 DEF IInv, TypeOK, index
<1>5. OthersStay(c)
  BY <1>1 DEF OthersStay
<1>6. ProcessTrue(c)'
  BY <1>1, <1>2, ProcessTruths DEF ProcessTrue, AsOld, CallsReach
<1>7. \A call \in strays' : AsOld(call.product, call.content)
  BY <1>1, <1>3 DEF IInv, CopiesAreOld
<1>8. \A e \in done' : Settled(e)'
  BY <1>1, <1>2 DEF IInv, VerdictsAreTrue, TypeOK, IndexStays
<1> QED
  BY <1>2, <1>1, <1>4, <1>5, <1>6, <1>7, <1>8, StepKeeps

LEMMA StrayLandsKeeps ==
  ASSUME IInv, NEW call \in strays, StrayLands(call)
  PROVE  IInv'
<1>1. /\ Takes(call) /\ pc' = pc /\ work' = work /\ entry' = entry
      /\ UNCHANGED <<row, pending, done, dead>>
      /\ strays' = strays \ {call} /\ faults' = faults /\ lost' = lost
  BY DEF StrayLands, database
<1>2. call \in Call /\ AsOld(call.product, call.content)
  BY DEF IInv, TypeOK, CopiesAreOld
<1>3. IndexStays /\ doc' \in [Product -> Content] /\ overtaken' \subseteq Product
  BY <1>1, <1>2, CallSettles
<1>4. Entries' = Entries
  BY <1>1 DEF Entries
<1>5. TypeOK'
  BY <1>1, <1>3 DEF IInv, TypeOK
<1>6. \A d \in Process : ProcessTrue(d)'
  BY <1>1, <1>3, <1>4, StayingKeeps
<1>7. \A other \in strays' : AsOld(other.product, other.content)
  BY <1>1 DEF IInv, CopiesAreOld
<1>8. \A e \in done' : Settled(e)'
  BY <1>1, <1>3 DEF IInv, VerdictsAreTrue, TypeOK, IndexStays
<1> QED
  BY <1>1, <1>3, <1>4, <1>5, <1>6, <1>7, <1>8, PartsKeep

LEMMA StrayVanishesKeeps ==
  ASSUME IInv, NEW call \in strays, StrayVanishes(call)
  PROVE  IInv'
<1>1. /\ UNCHANGED index /\ pc' = pc /\ work' = work /\ entry' = entry
      /\ UNCHANGED <<row, pending, done, dead>>
      /\ strays' = strays \ {call} /\ faults' = faults /\ lost' = lost
  BY DEF StrayVanishes, database
<1>2. Entries' = Entries /\ IndexStays
  BY <1>1, IndexLeft DEF Entries
<1>3. TypeOK'
  BY <1>1 DEF IInv, TypeOK, index
<1>4. \A d \in Process : ProcessTrue(d)'
  BY <1>1, <1>2, StayingKeeps
<1>5. \A other \in strays' : AsOld(other.product, other.content)
  BY <1>1 DEF IInv, CopiesAreOld
<1>6. \A e \in done' : Settled(e)'
  BY <1>1, <1>2 DEF IInv, VerdictsAreTrue, TypeOK, IndexStays
<1> QED
  BY <1>1, <1>2, <1>3, <1>4, <1>5, <1>6, PartsKeep

LEMMA StutterKeeps ==
  ASSUME IInv, UNCHANGED vars
  PROVE  IInv'
<1>1. /\ UNCHANGED index /\ pc' = pc /\ work' = work /\ entry' = entry
      /\ UNCHANGED <<row, pending, done, dead>>
      /\ strays' = strays /\ faults' = faults /\ lost' = lost
  BY DEF vars, database
<1>2. Entries' = Entries /\ IndexStays
  BY <1>1, IndexLeft DEF Entries
<1>3. TypeOK'
  BY <1>1 DEF IInv, TypeOK, index
<1>4. \A d \in Process : ProcessTrue(d)'
  BY <1>1, <1>2, StayingKeeps
<1>5. \A e \in done' : Settled(e)'
  BY <1>1, <1>2 DEF IInv, VerdictsAreTrue, TypeOK, IndexStays
<1> QED
  BY <1>1, <1>2, <1>3, <1>4, <1>5, PartsKeep DEF IInv, CopiesAreOld

-----------------------------------------------------------------------------
(* The theorems.                                                           *)

LEMMA NextIInv == IInv /\ [Next]_vars => IInv'
<1> SUFFICES ASSUME IInv, [Next]_vars
             PROVE  IInv'
  OBVIOUS
<1>1. ASSUME NEW r \in Request, RequestStep(r)
      PROVE  IInv'
  BY <1>1, CreateKeeps, UpdateReadsKeeps, UpdateSavesKeeps, UpdateEndsKeeps,
     DeleteKeeps, RecordViewKeeps DEF RequestStep
<1>2. ASSUME NEW w \in Worker, WorkerStep(w)
      PROVE  IInv'
  BY <1>2, ClaimKeeps, ApplyDeleteKeeps, ApplyUpsertKeeps, ApplySkipsKeeps,
     MarkProcessedKeeps, DeadLetterKeeps, ReleaseKeeps DEF WorkerStep
<1>3. ASSUME NEW c \in Process, CallStep(c)
      PROVE  IInv'
  BY <1>3, LandsKeeps, RefusedKeeps, TimesOutKeeps, ResentKeeps DEF CallStep
<1>4. ASSUME NEW call \in strays, StrayLands(call) \/ StrayVanishes(call)
      PROVE  IInv'
  BY <1>4, StrayLandsKeeps, StrayVanishesKeeps
<1> QED
  BY <1>1, <1>2, <1>3, <1>4, StutterKeeps DEF Next

LEMMA InductiveInvariant == Spec => []IInv
  BY InitIInv, NextIInv, PTL DEF Spec

\* Every variable keeps its type.
THEOREM ProjectionTypeCorrect == Spec => []TypeOK
<1>1. IInv => TypeOK
  BY DEF IInv
<1> QED
  BY <1>1, InductiveInvariant, PTL

\* However requests, workers and calls interleave, fail and are delayed, a
\* product the index shows wrongly has its last entry waiting or given up, or
\* was overwritten by an older call that nothing has repaired since.
THEOREM DriftIsOnRecord == Spec => []DriftIsAccounted
<1>1. ASSUME IInv, NEW p \in Product, LatestEntry(p) \notin pending \union dead,
             p \notin overtaken
      PROVE  Synced(p)
  <2>1. row[p] \in Content /\ doc[p] \in Content /\ AsOld(p, doc[p])
    BY <1>1, ContentTypes DEF IInv, CopiesAreOld
  <2>2. row[p].ver \in Nat /\ doc[p].ver \in Nat
    BY <2>1 DEF Content
  <2>3. doc[p].ver = row[p].ver
    <3>1. CASE row[p].ver = 0
      BY <2>1, <2>2, <3>1 DEF AsOld
    <3>2. CASE row[p].ver > 0
      <4>1. LatestEntry(p) \in done
        BY <1>1, <3>2 DEF IInv, RowsHaveEntries, Entries
      <4>2. Settled(LatestEntry(p))
        BY <1>1, <4>1 DEF IInv, VerdictsAreTrue
      <4> QED
        BY <1>1, <2>2, <4>2 DEF Settled, LatestEntry
    <3> QED
      BY <2>2, <3>1, <3>2
  <2> QED
    BY <2>1, <2>3 DEF AsOld, Synced
<1>2. IInv => DriftIsAccounted
  BY <1>1 DEF DriftIsAccounted
<1> QED
  BY <1>2, InductiveInvariant, PTL

\* Whatever else goes on: a view is lost, and a deleted product comes back,
\* only by an update that read the product before another commit to it.
THEOREM UndoNeedsStaleUpdate == Spec => OnlyStaleUpdatesUndo
<1> DEFINE Undone(p) ==
             \/ row[p].live /\ row'[p].live /\ row'[p].views < row[p].views
             \/ row[p].ver > 0 /\ ~ row[p].live /\ row'[p].live
           Stale(p) ==
             \E r \in Request :
                 /\ pc[r] = "save" /\ pc'[r] = "call"
                 /\ work[r].product = p /\ work[r].content.ver < row[p].ver
<1>1. ASSUME IInv, Next, NEW p \in Product, Undone(p)
      PROVE  Stale(p)
  <2>1. row[p] \in Content /\ row' # row
    BY <1>1, ContentTypes DEF Content
  <2>2. PICK r \in Request : RequestStep(r)
    BY <1>1, <2>1 DEF Next, WorkerStep, CallStep, database,
       Claim, ApplyDelete, ApplyUpsert, ApplySkips, MarkProcessed, Retry, DeadLetter, Crash,
       Lands, Refused, TimesOut, Resent, StrayLands, StrayVanishes
  <2>3. ASSUME NEW q \in Product, Create(r, q)
        PROVE  FALSE
    <3>1. row' = [row EXCEPT ![q] = [live |-> TRUE, ver |-> row[q].ver + 1, views |-> 0]]
          /\ row[q].ver = 0 /\ row[q] = Absent
      BY <1>1, <2>3 DEF Create, Save, Commit, IInv, RowsHaveEntries
    <3> QED
      BY <1>1, <3>1, <2>1 DEF Absent, IInv, TypeOK, Content
  <2>4. ASSUME NEW q \in Product, Delete(r, q)
        PROVE  FALSE
    <3>1. row' = [row EXCEPT ![q] = [live |-> FALSE, ver |-> row[q].ver + 1, views |-> 0]]
      BY <2>4 DEF Delete, Remove, Commit
    <3> QED
      BY <1>1, <3>1, <2>1 DEF IInv, TypeOK, Content
  <2>5. ASSUME NEW q \in Product, RecordView(r, q)
        PROVE  FALSE
    <3>1. row' = [row EXCEPT ![q] = [live |-> TRUE, ver |-> row[q].ver + 1,
                                     views |-> row[q].views + 1]]
          /\ row[q].live
      BY <2>5 DEF RecordView, Increment, Commit
    <3> QED
      BY <1>1, <3>1, <2>1 DEF IInv, TypeOK, Content
  <2>6. UpdateSaves(r)
    BY <2>1, <2>2, <2>3, <2>4, <2>5 DEF RequestStep, UpdateReads, UpdateEnds, database
  <2>7. /\ pc[r] = "save" /\ pc'[r] = "call" /\ r \in Process
        /\ work[r].content.live /\ AsOld(work[r].product, work[r].content)
        /\ work[r].product \in Product /\ work[r].content \in Content
    BY <1>1, <2>6, ProcessKinds, ContentTypes
    DEF UpdateSaves, Project, IInv, TypeOK, ReadersReadLive, CopiesAreOld
  <2>8. row' = [row EXCEPT ![work[r].product] =
                   [live |-> TRUE, ver |-> row[work[r].product].ver + 1,
                    views |-> work[r].content.views]]
    BY <2>6 DEF UpdateSaves, Save, Commit
  <2>9. work[r].product = p /\ row'[p].views = work[r].content.views
    BY <1>1, <2>1, <2>7, <2>8 DEF IInv, TypeOK, Content
  <2>10. work[r].content # row[p]
    BY <1>1, <2>1, <2>7, <2>9 DEF Content
  <2>11. work[r].content.ver < row[p].ver
    BY <2>1, <2>7, <2>9, <2>10 DEF AsOld, Content
  <2> QED
    BY <2>7, <2>9, <2>11
<1>2. IInv /\ [Next]_vars => [\A p \in Product : Undone(p) => Stale(p)]_vars
  BY <1>1
<1>3. Spec => [][\A p \in Product : Undone(p) => Stale(p)]_vars
  BY <1>2, InductiveInvariant, PTL DEF Spec
<1> QED
  BY <1>3 DEF OnlyStaleUpdatesUndo

=============================================================================
