------------------------ MODULE IndexLifecycleProofs ------------------------
(***************************************************************************)
(* One search:reindex at a time, any number of containers beside it: the   *)
(* alias leads to indices with the product mapping, is never missing, and  *)
(* where it was there from the start it leads to one index.                *)
(***************************************************************************)
EXTENDS IndexLifecycle, FiniteSetTheorems, TLAPS

Stage == {"off", "boot", "ensureDrop", "ensureCreate", "ensureAlias",
          "serving", "count", "sum", "decide", "read", "write", "stamp",
          "check", "drop", "swap", "abort", "list", "clean", "exit"}

Rebuilding == {"read", "write", "stamp", "check", "drop", "swap"}

\* The commands of the containers' starts do not overlap.
OneCli == \A c, d \in Cli : c = d

Shapes ==
    /\ pc \in [Process -> Stage]
    /\ staging \in [Process -> Int] /\ current \in [Process -> Int]
    /\ target \in [Process -> Int]
    /\ stale \in [Process -> SUBSET Int]
    /\ indices \subseteq Int /\ next \in Nat \ {0}
    /\ lost \in Nat /\ lost <= MaxLost

\* A new name is one that nobody has heard of.
NamesAreOld ==
    /\ \A i \in indices : i <= next
    /\ \A c \in Process : staging[c] <= next /\ current[c] <= next /\ target[c] <= next

MappedAreThere == mapped \subseteq indices /\ alias \subseteq mapped /\ Bare \notin mapped

\* What is being rebuilt has its mapping and is behind no alias yet.
StagingIsMapped ==
    \A c \in Cli :
        /\ pc[c] \in Rebuilding => staging[c] \in mapped \ alias
        /\ pc[c] = "abort" /\ lost = 0 => staging[c] \notin alias

\* Nobody writes to the index that a boot is about to put behind the alias: if it
\* is gone, it stays gone.
BootIsFresh ==
    \A c \in Process : pc[c] = "ensureAlias" =>
        /\ current[c] > 0
        /\ current[c] \in indices => current[c] \in mapped
        /\ \A d \in Process : current[c] # staging[d] /\ current[c] # target[d]

\* The clean-up spares an index behind the alias.
CurrentIsLive ==
    \A c \in Cli :
        /\ pc[c] \in {"list", "clean"} => current[c] \in alias
        /\ pc[c] = "clean" => current[c] \notin stale[c]

IInv ==
    /\ Shapes /\ NamesAreOld
    /\ MappedAreThere
    /\ StagingIsMapped /\ BootIsFresh
    /\ CurrentIsLive

\* The body of AliasNeverMissing.
AliasStays == alias # {} => alias' # {}

-----------------------------------------------------------------------------

LEMMA CliIsProcess == Cli \subseteq Process
  BY DEF Process

LEMMA InitIInv == Init => IInv
<1> SUFFICES ASSUME Init
             PROVE  IInv
  OBVIOUS
<1>1. PICK start \in Starts :
        LET first == CASE start = "cold" -> {} [] start = "bare" -> {Bare}
                       [] start = "old" -> {0} [] start = "current" -> {1}
        IN  indices = first /\ mapped = first \ {Bare} /\ alias = first \ {Bare}
  BY DEF Init
<1>2. indices \subseteq {-1, 0, 1} /\ mapped = indices \ {Bare} /\ alias = mapped
  BY <1>1, StartsAssumption DEF Bare
<1>3. /\ next = 1 /\ lost = 0
      /\ pc = [c \in Process |-> IF c \in Api THEN "boot" ELSE "off"]
      /\ staging = [c \in Process |-> None] /\ current = [c \in Process |-> None]
      /\ target = [c \in Process |-> None] /\ stale = [c \in Process |-> {}]
  BY DEF Init
<1>4. Shapes /\ NamesAreOld /\ MappedAreThere
  BY <1>2, <1>3, BoundsAssumption DEF Shapes, NamesAreOld, MappedAreThere, Stage, None
<1>5. StagingIsMapped /\ BootIsFresh /\ CurrentIsLive
  BY <1>3, CliIsProcess DEF StagingIsMapped, BootIsFresh, CurrentIsLive, Rebuilding
<1> QED
  BY <1>4, <1>5 DEF IInv

-----------------------------------------------------------------------------
(* Steps that create, delete and alias nothing.                            *)

names == <<indices, mapped, alias, next>>

\* At most c's entry is dropped.
Drops(c, old, new) ==
    /\ new \in [Process -> Int]
    /\ \A d \in Process : new[d] = old[d] \/ (d = c /\ new[d] = None)

LEMMA KeepsOrDrops ==
  ASSUME NEW c \in Process, NEW f \in [Process -> Int]
  PROVE  Drops(c, f, f) /\ Drops(c, f, [f EXCEPT ![c] = None])
  BY DEF Drops, None

\* Where a step of this kind may lead.
Leads(from, to) ==
    /\ to \in Stage \ {"ensureAlias", "list", "clean"}
    /\ to \in Rebuilding \union {"abort"} => from \in Rebuilding

LEMMA MovesKeep ==
  ASSUME IInv, NEW c \in Process, NEW label, Leads(pc[c], label), Goto(c, label),
         Drops(c, current, current'),
         UNCHANGED <<names, staging, target, stale, lost>>
  PROVE  IInv' /\ AliasStays
<1> USE DEF IInv, names, Goto, Leads, Drops
<1>0. /\ current' \in [Process -> Int]
      /\ \A d \in Process : current'[d] = current[d] \/ (d = c /\ current'[d] = None)
  OBVIOUS
<1>1. Shapes' /\ NamesAreOld' /\ MappedAreThere' /\ AliasStays
  <2>1. Shapes'
    BY <1>0 DEF Shapes
  <2>2. NamesAreOld'
    BY <1>0 DEF Shapes, NamesAreOld, None
  <2>3. MappedAreThere' /\ AliasStays
    BY DEF MappedAreThere, AliasStays
  <2> QED
    BY <2>1, <2>2, <2>3
<1>2. \A d \in Process : pc'[d] = pc[d] \/ (d = c /\ pc'[d] = label)
  BY DEF Shapes
<1>3. StagingIsMapped'
  BY <1>2, CliIsProcess DEF StagingIsMapped, Rebuilding
<1>4. BootIsFresh'
  <2>1. \A d \in Process : pc'[d] = "ensureAlias" => pc[d] = "ensureAlias" /\ d # c
    BY <1>2 DEF Shapes
  <2> QED
    BY <1>0, <2>1 DEF BootIsFresh
<1>5. CurrentIsLive'
  <2>1. \A d \in Process : pc'[d] \in {"list", "clean"} => pc'[d] = pc[d] /\ d # c
    BY <1>2 DEF Shapes
  <2> QED
    BY <1>0, <2>1, CliIsProcess DEF CurrentIsLive
<1> QED
  BY <1>1, <1>3, <1>4, <1>5

\* A projection knows the staging index at most.
LEMMA TasksKeep ==
  ASSUME IInv, NEW c \in Process,
         target' \in {target, [target EXCEPT ![c] = None], [target EXCEPT ![c] = staging[c]]},
         UNCHANGED <<names, pc, staging, current, stale, lost>>
  PROVE  IInv' /\ AliasStays
<1> USE DEF IInv, names
<1>1. /\ target' \in [Process -> Int]
      /\ \A d \in Process : target'[d] \in {target[d], None, staging[d]}
  BY DEF Shapes, None
<1>2. Shapes' /\ NamesAreOld' /\ MappedAreThere' /\ AliasStays
  BY <1>1 DEF Shapes, NamesAreOld, MappedAreThere, AliasStays, None
<1>3. StagingIsMapped' /\ CurrentIsLive'
  BY DEF StagingIsMapped, CurrentIsLive
<1>4. BootIsFresh'
  BY <1>1 DEF BootIsFresh, None
<1> QED
  BY <1>2, <1>3, <1>4

\* A write brings to life only what the projection of a command that has ended
\* its rebuild still writes to, or an index with the name of the alias.
LEMMA WritesKeep ==
  ASSUME IInv, NEW c \in Process, NEW i \in indices \union {Bare, target[c]},
         indices' = indices \union {i},
         target' \in {target, [target EXCEPT ![c] = None]},
         UNCHANGED <<mapped, alias, next, pc, staging, current, stale, lost>>
  PROVE  IInv' /\ AliasStays
<1> USE DEF IInv
<1>1. i \in Int /\ i <= next
  BY DEF Shapes, NamesAreOld, Bare
<1>2. /\ target' \in [Process -> Int]
      /\ \A d \in Process : target'[d] \in {target[d], None}
  BY DEF Shapes, None
<1>3. Shapes' /\ NamesAreOld' /\ MappedAreThere' /\ AliasStays
  BY <1>1, <1>2 DEF Shapes, NamesAreOld, MappedAreThere, AliasStays, None
<1>4. StagingIsMapped' /\ CurrentIsLive'
  BY DEF StagingIsMapped, CurrentIsLive
<1>5. BootIsFresh'
  BY <1>2 DEF BootIsFresh, Bare, None
<1> QED
  BY <1>3, <1>4, <1>5

\* A deletion spares whatever is being rebuilt, and what is live if it should.
LEMMA DeletesKeep ==
  ASSUME IInv, NEW c \in Process, NEW i, DeletesIndex(i),
         NEW label, Goto(c, label), Leads(pc[c], label) \/ UNCHANGED pc,
         \A d \in Cli : pc'[d] \in Rebuilding => staging[d] # i,
         \A d \in Cli : pc'[d] \in Rebuilding \union {"abort"} => staging'[d] = staging[d],
         \A d \in Cli : pc'[d] \in {"list", "clean"} => current[d] # i,
         staging' \in {staging, [staging EXCEPT ![c] = None]},
         stale' \in [Process -> SUBSET Int], \A d \in Process : stale'[d] \subseteq stale[d],
         UNCHANGED <<target, current, lost>>
  PROVE  IInv'
<1> USE DEF IInv, DeletesIndex
<1>1. /\ staging' \in [Process -> Int]
      /\ \A d \in Process : staging'[d] = staging[d] \/ (d = c /\ staging'[d] = None)
  BY DEF Shapes, None
<1>2. /\ pc' \in [Process -> Stage]
      /\ \A d \in Process : pc'[d] = pc[d] \/ (d = c /\ pc'[d] = label /\ Leads(pc[c], label))
  BY DEF Shapes, Goto, Leads
<1>3. Shapes' /\ NamesAreOld' /\ MappedAreThere'
  <2>1. Shapes'
    BY <1>1, <1>2 DEF Shapes
  <2>2. NamesAreOld'
    BY <1>1 DEF Shapes, NamesAreOld, None
  <2>3. MappedAreThere'
    BY DEF MappedAreThere
  <2> QED
    BY <2>1, <2>2, <2>3
<1>4. StagingIsMapped'
  <2>1. ASSUME NEW d \in Cli, pc'[d] \in Rebuilding \union {"abort"}
        PROVE  /\ pc[d] \in Rebuilding \/ (pc[d] = "abort" /\ pc'[d] = "abort")
               /\ staging'[d] = staging[d]
    BY <1>2, <2>1, CliIsProcess DEF Leads, Rebuilding
  <2> QED
    BY <2>1 DEF StagingIsMapped, Rebuilding
<1>5. BootIsFresh'
  <2>1. \A d \in Process : pc'[d] = "ensureAlias" => pc[d] = "ensureAlias"
    BY <1>2 DEF Leads
  <2>2. \A d, e \in Process : pc[d] = "ensureAlias" => current[d] # staging'[e]
    BY <1>1 DEF BootIsFresh, None
  <2> QED
    BY <2>1, <2>2 DEF BootIsFresh
<1>6. CurrentIsLive'
  BY <1>2, CliIsProcess DEF CurrentIsLive, Leads
<1> QED
  BY <1>3, <1>4, <1>5, <1>6

-----------------------------------------------------------------------------
(* Boot.                                                                   *)

LEMMA LaunchKeeps ==
  ASSUME IInv, NEW c \in Cli, Launch(c)
  PROVE  IInv' /\ AliasStays
<1>1. Leads(pc[c], "boot") /\ c \in Process
  BY CliIsProcess DEF Leads, Stage, Rebuilding
<1>2. Drops(c, current, current')
  BY <1>1, KeepsOrDrops DEF Launch, IInv, Shapes
<1> QED
  BY <1>1, <1>2, MovesKeep DEF Launch, names, cluster, manager, tasks

LEMMA EnsureChecksKeeps ==
  ASSUME IInv, NEW c \in Process, EnsureChecks(c)
  PROVE  IInv' /\ AliasStays
<1>1. /\ Leads(pc[c], IF c \in Api THEN "serving" ELSE "count")
      /\ Leads(pc[c], "ensureDrop")
  BY DEF Leads, Stage, Rebuilding
<1>2. Drops(c, current, current')
  BY KeepsOrDrops DEF EnsureChecks, IInv, Shapes
<1> QED
  BY <1>1, <1>2, MovesKeep DEF EnsureChecks, Booted, names, cluster, manager, tasks, bounds

LEMMA EnsureDropsKeeps ==
  ASSUME IInv, NEW c \in Process, EnsureDrops(c)
  PROVE  IInv' /\ AliasStays
<1>1. CASE alias # {}
  <2>1. Leads(pc[c], IF c \in Api THEN "serving" ELSE "count")
    BY DEF Leads, Stage, Rebuilding
  <2>2. Drops(c, current, current')
    BY KeepsOrDrops DEF EnsureDrops, IInv, Shapes
  <2> QED
    BY <1>1, <2>1, <2>2, MovesKeep DEF EnsureDrops, Booted, names, cluster, manager, tasks, bounds
<1>2. CASE alias = {} /\ DeletesIndex(Bare) /\ Goto(c, "ensureCreate")
  <2>1. Leads(pc[c], "ensureCreate")
    BY DEF Leads, Stage, Rebuilding
  <2>2. \A d \in Cli : /\ pc'[d] \in Rebuilding \union {"list", "clean"} => pc'[d] = pc[d]
                       /\ pc[d] \in Rebuilding => staging[d] # Bare
                       /\ pc[d] \in {"list", "clean"} => current[d] # Bare
    BY <1>2, CliIsProcess
    DEF Goto, Rebuilding, IInv, Shapes, StagingIsMapped, CurrentIsLive, MappedAreThere
  <2>3. IInv'
    BY <1>2, <2>1, <2>2, DeletesKeep DEF EnsureDrops, manager, tasks, bounds, IInv, Shapes
  <2> QED
    BY <1>2, <2>3 DEF AliasStays
<1> QED
  BY <1>1, <1>2 DEF EnsureDrops

LEMMA EnsureCreatesKeeps ==
  ASSUME IInv, NEW c \in Process, EnsureCreates(c)
  PROVE  IInv' /\ AliasStays
<1> USE DEF IInv, EnsureCreates, CreatesIndex, Goto, manager, tasks, bounds
<1>1. /\ current' \in [Process -> Int] /\ current'[c] = next + 1
      /\ \A d \in Process \ {c} : current'[d] = current[d] /\ pc'[d] = pc[d]
      /\ pc' \in [Process -> Stage] /\ pc'[c] = "ensureAlias"
  BY DEF Shapes, Stage
<1>2. Shapes' /\ NamesAreOld' /\ MappedAreThere' /\ AliasStays
  BY <1>1 DEF Shapes, NamesAreOld, MappedAreThere, AliasStays, Bare
<1>3. StagingIsMapped'
  BY <1>1, CliIsProcess DEF StagingIsMapped, Rebuilding
<1>4. BootIsFresh'
  <2>1. ASSUME NEW d \in Process, d # c, pc'[d] = "ensureAlias"
        PROVE  /\ current[d] > 0 /\ current[d] <= next
               /\ current[d] \in indices => current[d] \in mapped
               /\ \A e \in Process : current[d] # staging[e] /\ current[d] # target[e]
    BY <1>1, <2>1 DEF BootIsFresh, NamesAreOld
  <2>2. \A e \in Process : next + 1 # staging[e] /\ next + 1 # target[e]
    BY DEF Shapes, NamesAreOld
  <2> QED
    BY <1>1, <2>1, <2>2 DEF BootIsFresh, Shapes
<1>5. CurrentIsLive'
  BY <1>1, CliIsProcess DEF CurrentIsLive
<1> QED
  BY <1>2, <1>3, <1>4, <1>5

LEMMA EnsureAliasesKeeps ==
  ASSUME IInv, NEW c \in Process, EnsureAliases(c)
  PROVE  IInv' /\ AliasStays
<1> DEFINE label == IF c \in Api THEN "serving" ELSE "count"
<1> USE DEF IInv, EnsureAliases, Booted, Goto, manager, tasks, bounds
<1>1. /\ current' \in [Process -> Int] /\ current'[c] = None
      /\ \A d \in Process \ {c} : current'[d] = current[d] /\ pc'[d] = pc[d]
      /\ pc' \in [Process -> Stage] /\ pc'[c] = label
  BY DEF Shapes, Stage, None
<1>2. /\ alias \subseteq alias'
      /\ alias' \subseteq alias \union {current[c]}
      /\ current[c] \in alias' => current[c] \in mapped
  BY DEF BootIsFresh, MappedAreThere
<1>3. Shapes' /\ NamesAreOld' /\ AliasStays
  BY <1>1, <1>2 DEF Shapes, NamesAreOld, AliasStays, None
<1>4. MappedAreThere'
  BY <1>2 DEF MappedAreThere
<1>5. StagingIsMapped'
  <2>1. \A d \in Process : staging[d] # current[c]
    BY DEF BootIsFresh
  <2> QED
    BY <1>1, <1>2, <2>1, CliIsProcess DEF StagingIsMapped, Rebuilding
<1>6. BootIsFresh'
  BY <1>1 DEF BootIsFresh
<1>7. CurrentIsLive'
  BY <1>1, <1>2, CliIsProcess DEF CurrentIsLive
<1> QED
  BY <1>3, <1>4, <1>5, <1>6, <1>7

LEMMA EnsureFailsKeeps ==
  ASSUME IInv, NEW c \in Process, EnsureFails(c)
  PROVE  IInv' /\ AliasStays
<1>1. Leads(pc[c], IF c \in Api THEN "serving" ELSE "count")
  BY DEF Leads, Stage, Rebuilding
<1>2. Drops(c, current, current')
  BY KeepsOrDrops DEF EnsureFails, IInv, Shapes
<1> QED
  BY <1>1, <1>2, MovesKeep DEF EnsureFails, SpendFault, Booted, names, cluster, manager, tasks

LEMMA BootKeeps ==
  ASSUME IInv, NEW c \in Process, Boot(c)
  PROVE  IInv' /\ AliasStays
  BY EnsureChecksKeeps, EnsureDropsKeeps, EnsureCreatesKeeps, EnsureAliasesKeeps,
     EnsureFailsKeeps DEF Boot

-----------------------------------------------------------------------------
(* The reindex.                                                            *)

\* Its steps that change no name.
Proceeds(c) ==
    \/ CountsRows(c) \/ SumsRows(c) \/ Skip(c) \/ ReadPage(c) \/ StampStaging(c)
    \/ CheckAlias(c) \/ RebuildFails(c) \/ EndClean(c)

LEMMA ProceedsKeeps ==
  ASSUME IInv, NEW c \in Cli, Proceeds(c)
  PROVE  IInv' /\ AliasStays
<1>1. \E label : Leads(pc[c], label) /\ Goto(c, label)
  BY DEF Proceeds, CountsRows, SumsRows, Skip, ReadPage, StampStaging, CheckAlias,
         RebuildFails, EndClean, Leads, Stage, Rebuilding
<1>2. UNCHANGED <<indices, mapped, alias, next, staging, current, target, stale, lost>>
  BY DEF Proceeds, CountsRows, SumsRows, Skip, ReadPage, StampStaging, CheckAlias,
         RebuildFails, EndClean, SpendFault, cluster, manager, tasks, bounds
<1>3. Drops(c, current, current') /\ c \in Process
  BY <1>2, CliIsProcess, KeepsOrDrops DEF IInv, Shapes
<1> QED
  BY <1>1, <1>2, <1>3, MovesKeep DEF names

LEMMA StartRebuildKeeps ==
  ASSUME OneCli, IInv, NEW c \in Cli, StartRebuild(c) \/ StartRebuildFails(c)
  PROVE  IInv' /\ AliasStays
<1> USE DEF IInv
<1>1. /\ next' = next + 1 /\ staging' = [staging EXCEPT ![c] = next + 1]
      /\ \/ indices' = indices \union {next + 1} /\ mapped' = mapped \union {next + 1}
               /\ Goto(c, "read")
         \/ UNCHANGED <<indices, mapped>> /\ Goto(c, "exit")
      /\ UNCHANGED <<alias, current, target, stale, lost>>
  BY DEF StartRebuild, StartRebuildFails, CreatesIndex, SpendFault, tasks, bounds
<1>2. /\ staging' \in [Process -> Int] /\ staging'[c] = next + 1
      /\ \A d \in Process \ {c} : staging'[d] = staging[d] /\ pc'[d] = pc[d]
      /\ pc' \in [Process -> Stage] /\ pc'[c] \in {"read", "exit"}
  BY <1>1, CliIsProcess DEF Shapes, Stage, Goto
<1>3. indices' \subseteq Int /\ next' \in Nat \ {0} /\ \A i \in indices' : i <= next'
  <2>1. CASE indices' = indices \union {next + 1}
    BY <1>1, <2>1 DEF Shapes, NamesAreOld
  <2>2. CASE indices' = indices
    BY <1>1, <2>2 DEF Shapes, NamesAreOld
  <2> QED
    BY <1>1, <2>1, <2>2
<1>4. Shapes' /\ NamesAreOld' /\ MappedAreThere' /\ AliasStays
  <2>1. Shapes'
    BY <1>1, <1>2, <1>3 DEF Shapes
  <2>2. NamesAreOld'
    BY <1>1, <1>2, <1>3 DEF Shapes, NamesAreOld
  <2>3. MappedAreThere'
    <3>1. Bare # next + 1
      BY DEF Shapes, Bare
    <3> QED
      BY <1>1, <3>1 DEF MappedAreThere
  <2> QED
    BY <1>1, <2>1, <2>2, <2>3 DEF AliasStays
<1>5. StagingIsMapped'
  <2>1. next + 1 \notin alias
    BY DEF Shapes, NamesAreOld, MappedAreThere
  <2>2. pc'[c] = "read" => next + 1 \in mapped'
    BY <1>1, CliIsProcess DEF Goto, Shapes
  <2>3. \A d \in Cli : d = c
    BY DEF OneCli
  <2> QED
    BY <1>1, <1>2, <2>1, <2>2, <2>3 DEF StagingIsMapped, Rebuilding
<1>6. BootIsFresh'
  <2>1. ASSUME NEW d \in Process, pc'[d] = "ensureAlias"
        PROVE  d # c /\ pc[d] = "ensureAlias" /\ current[d] # next + 1
    BY <1>2, <2>1 DEF Shapes, NamesAreOld
  <2>2. ASSUME NEW d \in Process, pc'[d] = "ensureAlias", current'[d] \in indices'
        PROVE  current'[d] \in mapped'
    BY <1>1, <2>1, <2>2 DEF BootIsFresh
  <2>3. ASSUME NEW d \in Process, pc'[d] = "ensureAlias", NEW e \in Process
        PROVE  current'[d] > 0 /\ current'[d] # staging'[e] /\ current'[d] # target'[e]
    BY <1>1, <1>2, <2>1, <2>3 DEF BootIsFresh
  <2>4. \A d \in Process : pc'[d] = "ensureAlias" => current'[d] > 0
    BY <2>3
  <2> QED
    BY <2>2, <2>3, <2>4 DEF BootIsFresh
<1>7. CurrentIsLive'
  <2>1. \A d \in Cli : pc'[d] \notin {"list", "clean"}
    BY <1>2 DEF OneCli
  <2> QED
    BY <2>1 DEF CurrentIsLive
<1> QED
  BY <1>4, <1>5, <1>6, <1>7

\* The page goes to the staging index, which is there.
LEMMA WritePageKeeps ==
  ASSUME IInv, NEW c \in Cli, WritePage(c)
  PROVE  IInv' /\ AliasStays
<1>1. staging[c] \in indices
  BY DEF WritePage, IInv, StagingIsMapped, MappedAreThere, Rebuilding
<1>2. UNCHANGED <<indices, mapped, alias, next, staging, current, target, stale, lost>>
  BY <1>1 DEF WritePage, WritesDocs, cluster, tasks, bounds
<1>3. Drops(c, current, current') /\ c \in Process
  BY <1>2, CliIsProcess, KeepsOrDrops DEF IInv, Shapes
<1>4. Leads(pc[c], IF cursor[c] > NumProducts THEN "stamp" ELSE "read")
  BY DEF WritePage, Leads, Stage, Rebuilding
<1> QED
  BY <1>2, <1>3, <1>4, MovesKeep DEF WritePage, names

LEMMA DropBareKeeps ==
  ASSUME IInv, NEW c \in Cli, DropBare(c)
  PROVE  IInv' /\ AliasStays
<1>1. Leads(pc[c], "swap") /\ c \in Process
  BY CliIsProcess DEF DropBare, Leads, Stage, Rebuilding
<1>2. /\ DeletesIndex(Bare) /\ Goto(c, "swap") /\ alias = {}
      /\ UNCHANGED <<staging, stale, target, current, lost>>
  BY DEF DropBare, manager, tasks, bounds
<1>3. \A d \in Cli : /\ pc'[d] \in Rebuilding => pc[d] \in Rebuilding
                     /\ pc'[d] \in {"list", "clean"} => pc[d] \in {"list", "clean"}
  BY <1>1, <1>2, CliIsProcess DEF Goto, Leads, Rebuilding, IInv, Shapes
<1>4. \A d \in Cli : /\ pc[d] \in Rebuilding => staging[d] # Bare
                     /\ pc[d] \in {"list", "clean"} => current[d] # Bare
  BY DEF IInv, StagingIsMapped, CurrentIsLive, MappedAreThere
<1>5. IInv'
  BY <1>1, <1>2, <1>3, <1>4, DeletesKeep DEF IInv, Shapes
<1> QED
  BY <1>2, <1>5 DEF AliasStays

\* The alias moves, whether or not the reply comes back.
LEMMA SwapKeeps ==
  ASSUME OneCli, IInv, NEW c \in Cli, Swap(c) \/ SwapReplyLost(c)
  PROVE  IInv' /\ AliasStays
<1> USE DEF IInv
<1>1. /\ alias' \subseteq alias \union {staging[c]} /\ staging[c] \in alias'
      /\ UNCHANGED <<indices, mapped, next, target, stale>>
      /\ \/ /\ Goto(c, "list") /\ UNCHANGED lost
            /\ current' = [current EXCEPT ![c] = staging[c]]
            /\ staging' = [staging EXCEPT ![c] = None]
         \/ /\ Goto(c, "abort") /\ UNCHANGED <<staging, current>>
            /\ lost < MaxLost /\ lost' = lost + 1
  BY DEF Swap, SwapReplyLost, MovesAlias, tasks, bounds
<1>2. staging[c] \in mapped
  BY DEF Swap, SwapReplyLost, MovesAlias, StagingIsMapped, Rebuilding
<1>3. c \in Process /\ \A d \in Cli : d = c
  BY CliIsProcess DEF OneCli
<1>4. /\ pc' \in [Process -> Stage] /\ pc'[c] \in {"list", "abort"}
      /\ \A d \in Process \ {c} :
            pc'[d] = pc[d] /\ staging'[d] = staging[d] /\ current'[d] = current[d]
      /\ staging' \in [Process -> Int] /\ staging'[c] \in {None, staging[c]}
      /\ current' \in [Process -> Int] /\ current'[c] \in {staging[c], current[c]}
  BY <1>1, <1>3 DEF Shapes, Stage, Goto, None
<1>5. Shapes'
  <2>1. lost' \in Nat /\ lost' <= MaxLost
    BY <1>1, BoundsAssumption DEF Shapes
  <2> QED
    BY <1>1, <1>4, <2>1 DEF Shapes
<1>6. NamesAreOld' /\ MappedAreThere' /\ AliasStays
  BY <1>1, <1>2, <1>3, <1>4 DEF Shapes, NamesAreOld, MappedAreThere, AliasStays, None
<1>7. StagingIsMapped'
  <2>1. pc'[c] = "abort" => lost' # 0
    BY <1>1, <1>3 DEF Goto, Shapes
  <2> QED
    BY <1>3, <1>4, <2>1 DEF StagingIsMapped, Rebuilding
<1>8. BootIsFresh'
  <2>1. ASSUME NEW d \in Process, pc'[d] = "ensureAlias"
        PROVE  /\ d # c /\ pc[d] = "ensureAlias" /\ current'[d] = current[d]
               /\ current[d] # None
    BY <1>4, <2>1 DEF BootIsFresh, None
  <2> QED
    BY <1>1, <1>4, <2>1 DEF BootIsFresh
<1>9. CurrentIsLive'
  <2>1. pc'[c] = "list" => current'[c] = staging[c]
    BY <1>1, <1>3 DEF Goto, Shapes
  <2> QED
    BY <1>1, <1>3, <1>4, <2>1 DEF CurrentIsLive
<1> QED
  BY <1>5, <1>6, <1>7, <1>8, <1>9

\* Only the abort after a lost reply takes what is live.
LEMMA AbortRebuildKeeps ==
  ASSUME OneCli, IInv, NEW c \in Cli, AbortRebuild(c)
  PROVE  IInv' /\ (lost = 0 => AliasStays)
<1>1. /\ pc[c] = "abort" /\ Goto(c, "exit") /\ staging' = [staging EXCEPT ![c] = None]
      /\ UNCHANGED <<target, current, stale, lost>>
      /\ DeletesIndex(staging[c]) \/ UNCHANGED <<indices, mapped, alias, next>>
  BY DEF AbortRebuild, SpendFault, cluster, tasks, bounds
<1>2. Leads(pc[c], "exit") /\ c \in Process /\ \A d \in Cli : d = c
  BY CliIsProcess DEF Leads, Stage, Rebuilding, OneCli
<1>3. \A d \in Cli : pc'[d] = "exit"
  BY <1>1, <1>2 DEF Goto, IInv, Shapes
<1>4. CASE DeletesIndex(staging[c])
  <2>1. IInv'
    BY <1>1, <1>2, <1>3, <1>4, DeletesKeep DEF IInv, Shapes, Rebuilding
  <2>2. lost = 0 => alias' = alias
    BY <1>1, <1>4 DEF DeletesIndex, IInv, StagingIsMapped
  <2> QED
    BY <2>1, <2>2 DEF AliasStays
<1>5. CASE UNCHANGED <<indices, mapped, alias, next>>
  <2>1. /\ staging' \in [Process -> Int] /\ pc' \in [Process -> Stage]
        /\ \A d \in Process : staging'[d] \in {staging[d], None}
        /\ \A d \in Process : pc'[d] = "ensureAlias" => pc[d] = "ensureAlias"
    BY <1>1, <1>2 DEF IInv, Shapes, Goto, Stage, None
  <2>2. Shapes' /\ NamesAreOld' /\ MappedAreThere' /\ AliasStays
    BY <1>1, <1>5, <2>1 DEF IInv, Shapes, NamesAreOld, MappedAreThere, AliasStays, None
  <2>3. StagingIsMapped' /\ CurrentIsLive'
    BY <1>3 DEF StagingIsMapped, CurrentIsLive, Rebuilding
  <2>4. BootIsFresh'
    BY <1>1, <1>5, <2>1 DEF IInv, BootIsFresh, None
  <2> QED
    BY <2>2, <2>3, <2>4 DEF IInv
<1> QED
  BY <1>1, <1>4, <1>5

LEMMA ListStaleKeeps ==
  ASSUME OneCli, IInv, NEW c \in Cli, ListStale(c)
  PROVE  IInv' /\ AliasStays
<1> USE DEF IInv
<1>1. /\ UNCHANGED <<indices, mapped, alias, next, staging, current, target, lost>>
      /\ stale' = [stale EXCEPT ![c] = (indices \intersect Physical) \ {current[c]}]
      /\ pc[c] = "list" /\ Goto(c, "clean")
  BY DEF ListStale, cluster, tasks, bounds
<1>2. c \in Process /\ \A d \in Cli : d = c
  BY CliIsProcess DEF OneCli
<1>3. /\ stale' \in [Process -> SUBSET Int] /\ current[c] \notin stale'[c]
      /\ pc' \in [Process -> Stage] /\ pc'[c] = "clean"
      /\ \A d \in Process \ {c} : pc'[d] = pc[d]
  BY <1>1, <1>2 DEF Shapes, Goto, Stage
<1>4. Shapes'
  BY <1>1, <1>3 DEF Shapes
<1>5. NamesAreOld' /\ MappedAreThere' /\ AliasStays
  BY <1>1 DEF NamesAreOld, MappedAreThere, AliasStays
<1>6. StagingIsMapped' /\ CurrentIsLive'
  BY <1>1, <1>2, <1>3 DEF StagingIsMapped, CurrentIsLive, Rebuilding
<1>7. BootIsFresh'
  BY <1>1, <1>3 DEF BootIsFresh
<1> QED
  BY <1>4, <1>5, <1>6, <1>7

LEMMA DeleteStaleKeeps ==
  ASSUME OneCli, IInv, NEW c \in Cli, DeleteStale(c)
  PROVE  IInv' /\ AliasStays
<1>1. PICK i \in stale[c] : DeletesIndex(i) /\ stale' = [stale EXCEPT ![c] = @ \ {i}]
  BY DEF DeleteStale
<1>2. c \in Process /\ \A d \in Cli : d = c
  BY CliIsProcess DEF OneCli
<1>3. /\ pc[c] = "clean" /\ Goto(c, "clean")
      /\ UNCHANGED <<pc, staging, current, target, lost>>
  BY <1>2 DEF DeleteStale, tasks, bounds, Goto, IInv, Shapes
<1>4. current[c] \in alias /\ current[c] # i
  BY <1>1, <1>3 DEF IInv, CurrentIsLive
<1>5. stale' \in [Process -> SUBSET Int] /\ \A d \in Process : stale'[d] \subseteq stale[d]
  BY <1>1, <1>2 DEF IInv, Shapes
<1>6. IInv'
  BY <1>1, <1>2, <1>3, <1>4, <1>5, DeletesKeep DEF Rebuilding
<1> QED
  BY <1>1, <1>4, <1>6 DEF AliasStays, DeletesIndex

\* A process that is gone holds nothing up.
LEMMA ForgetsKeeps ==
  ASSUME IInv, NEW c \in Process, NEW label \in {"off", "boot"}, Forgets(c, label),
         UNCHANGED lost
  PROVE  IInv' /\ AliasStays
<1> USE DEF IInv
<1>1. /\ UNCHANGED <<indices, mapped, alias, next>>
      /\ pc' \in [Process -> Stage] /\ pc'[c] = label
      /\ staging' \in [Process -> Int] /\ staging'[c] = None
      /\ current' \in [Process -> Int] /\ current'[c] = None
      /\ target' \in [Process -> Int] /\ target'[c] = None
      /\ stale' \in [Process -> SUBSET Int]
      /\ \A d \in Process \ {c} :
            /\ pc'[d] = pc[d] /\ staging'[d] = staging[d] /\ current'[d] = current[d]
            /\ target'[d] = target[d] /\ stale'[d] = stale[d]
  BY DEF Forgets, Goto, cluster, Shapes, Stage, None
<1>2. Shapes'
  BY <1>1 DEF Shapes
<1>3. NamesAreOld' /\ MappedAreThere' /\ AliasStays
  BY <1>1 DEF Shapes, NamesAreOld, MappedAreThere, AliasStays, None
<1>4. StagingIsMapped' /\ CurrentIsLive'
  BY <1>1, CliIsProcess DEF StagingIsMapped, CurrentIsLive, Rebuilding
<1>5. BootIsFresh'
  <2>1. \A d \in Process : pc'[d] = "ensureAlias" => d # c /\ current'[d] # None
    BY <1>1 DEF BootIsFresh, None
  <2> QED
    BY <1>1, <2>1 DEF BootIsFresh
<1> QED
  BY <1>2, <1>3, <1>4, <1>5

LEMMA ExitKeeps ==
  ASSUME IInv, NEW c \in Process, Exit(c) \/ Crash(c)
  PROVE  IInv' /\ AliasStays
  BY ForgetsKeeps DEF Exit, Crash, SpendFault, bounds

LEMMA ReindexKeeps ==
  ASSUME OneCli, IInv, NEW c \in Cli, Reindex(c)
  PROVE  IInv' /\ (lost = 0 => AliasStays)
  BY CliIsProcess, ProceedsKeeps, StartRebuildKeeps, WritePageKeeps, DropBareKeeps,
     SwapKeeps, AbortRebuildKeeps, ListStaleKeeps, DeleteStaleKeeps, ExitKeeps
  DEF Reindex, Proceeds

-----------------------------------------------------------------------------
(* Projections.                                                            *)

LEMMA SendKeeps ==
  ASSUME IInv, NEW c \in Process, Send(c)
  PROVE  IInv' /\ AliasStays
<1>1. UNCHANGED <<pc, staging, current, target, stale, lost>>
  BY DEF Send, rebuild, bounds
<1>2. CASE UNCHANGED <<cluster, tainted>>
  BY <1>1, <1>2, TasksKeep DEF cluster, names
<1>3. ASSUME NEW i \in Resolved \union {Bare}, NEW puts, WritesDocs(i, puts)
      PROVE  IInv' /\ AliasStays
  <2>1. i \in indices \union {Bare, target[c]}
    BY DEF Resolved, IInv, MappedAreThere
  <2> QED
    BY <1>1, <1>3, <2>1, WritesKeep DEF WritesDocs
<1>4. Resolved # {} => (CHOOSE i \in Resolved : TRUE) \in Resolved
  OBVIOUS
<1>5. CASE WritesDocs(IF Resolved = {} THEN Bare ELSE CHOOSE i \in Resolved : TRUE,
                      [p \in {task[c].product} |-> task[c].put])
  <2>1. (IF Resolved = {} THEN Bare ELSE CHOOSE i \in Resolved : TRUE) \in Resolved \union {Bare}
    BY <1>4
  <2> QED
    BY <1>3, <1>5, <2>1
<1> QED
  BY <1>2, <1>5 DEF Send

LEMMA MirrorKeeps ==
  ASSUME IInv, NEW c \in Process, Mirror(c)
  PROVE  IInv' /\ AliasStays
<1>1. /\ indices' = indices \union {target[c]}
      /\ target' = [target EXCEPT ![c] = None]
      /\ UNCHANGED <<mapped, alias, next, pc, staging, current, stale, lost>>
  BY DEF Mirror, WritesDocs, Ends, rebuild, bounds
<1> QED
  BY <1>1, WritesKeep

LEMMA ProjectionKeeps ==
  ASSUME IInv, NEW c \in Process, Projection(c)
  PROVE  IInv' /\ AliasStays
<1> USE TasksKeep DEF cluster, rebuild, tasks, bounds, names
<1>1. ASSUME NEW p \in Product, RequestCommits(c, p)
      PROVE  IInv' /\ AliasStays
  BY <1>1 DEF RequestCommits
<1>2. ASSUME NEW e \in pending, WorkerTakes(c, e) \/ WorkerSkips(c, e)
      PROVE  IInv' /\ AliasStays
  BY <1>2 DEF WorkerTakes, WorkerSkips
<1>3. CASE SendFails(c)
  BY <1>3 DEF SendFails, Ends, SpendFault
<1>4. CASE MirrorStarts(c)
  BY <1>4 DEF MirrorStarts
<1>5. CASE NoMirror(c)
  BY <1>5 DEF NoMirror, Ends
<1> QED
  BY <1>1, <1>2, <1>3, <1>4, <1>5, SendKeeps, MirrorKeeps DEF Projection

-----------------------------------------------------------------------------
(* Together.                                                               *)

LEMMA NextKeeps ==
  ASSUME OneCli, IInv, [Next]_vars
  PROVE  IInv' /\ (lost = 0 => AliasStays)
<1>1. CASE UNCHANGED vars
  <2>1. UNCHANGED <<indices, mapped, alias, next, pc, staging, current, target, stale, lost>>
    BY <1>1 DEF vars, cluster, rebuild, tasks, bounds
  <2> QED
    BY <2>1 DEF IInv, Shapes, NamesAreOld, MappedAreThere, StagingIsMapped, BootIsFresh,
                CurrentIsLive, AliasStays
<1>2. CASE \E c \in Cli : Launch(c) \/ Reindex(c)
  BY <1>2, LaunchKeeps, ReindexKeeps
<1>3. CASE \E c \in Process : Boot(c) \/ Projection(c) \/ Crash(c)
  BY <1>3, BootKeeps, ProjectionKeeps, ExitKeeps
<1> QED
  BY <1>1, <1>2, <1>3 DEF Next

LEMMA InductiveInvariant ==
  ASSUME OneCli
  PROVE  Spec => []IInv
<1>1. IInv /\ [Next]_vars => IInv'
  BY NextKeeps
<1> QED
  BY <1>1, InitIInv, PTL DEF Spec

\* No index that a stray write has brought to life gets behind the alias:
\* startRebuild() and ensureReadWriteAlias() create with the mapping what they
\* put there.
THEOREM LiveKeepsMapping ==
  ASSUME OneCli
  PROVE  Spec => []LiveIsMapped
<1>1. IInv => LiveIsMapped
  BY DEF IInv, MappedAreThere, LiveIsMapped
<1> QED
  BY <1>1, InductiveInvariant, PTL

\* Readers never observe a missing alias, unless the reply to a swap is lost:
\* finishRebuild(), abortRebuild() and deleteStalePhysicals().
THEOREM AliasIsKept ==
  ASSUME OneCli, MaxLost = 0
  PROVE  Spec => AliasNeverMissing
<1>1. IInv => lost = 0
  BY DEF IInv, Shapes
<1>2. IInv /\ [Next]_vars => [alias # {} => alias' # {}]_vars
  BY <1>1, NextKeeps DEF AliasStays
<1> QED
  BY <1>2, InductiveInvariant, PTL DEF Spec, AliasNeverMissing

-----------------------------------------------------------------------------
(* A cluster that starts with an alias.                                    *)

\* No boot ever misses the alias, and so nothing is added to it.
Warm ==
    /\ alias # {} /\ \E i \in Int : alias \subseteq {i}
    /\ aliasSeen \in [Process -> BOOLEAN]
    /\ \A c \in Process : pc[c] \notin {"ensureDrop", "ensureCreate", "ensureAlias"}
    /\ \A c \in Cli : pc[c] # "drop" /\ (pc[c] = "swap" => aliasSeen[c])

LEMMA InitWarm ==
  ASSUME Starts \subseteq {"old", "current"}, Init
  PROVE  Warm
<1>1. PICK start \in Starts :
        LET first == CASE start = "cold" -> {} [] start = "bare" -> {Bare}
                       [] start = "old" -> {0} [] start = "current" -> {1}
        IN  alias = first \ {Bare}
  BY DEF Init
<1>2. alias = {0} \/ alias = {1}
  BY <1>1 DEF Bare
<1>3. /\ pc = [c \in Process |-> IF c \in Api THEN "boot" ELSE "off"]
      /\ aliasSeen = [c \in Process |-> FALSE]
  BY DEF Init
<1> QED
  BY <1>2, <1>3, CliIsProcess DEF Warm

\* The steps that may be taken then, and where they lead.
LEMMA WarmSteps ==
  ASSUME Warm, IInv, NEW c \in Process, NEW label,
         Goto(c, label), label \in Stage \ {"ensureDrop", "ensureCreate", "ensureAlias", "drop"},
         UNCHANGED aliasSeen, label # "swap",
         \E i \in Int : alias' \subseteq {i}, alias' # {}
  PROVE  Warm'
<1>1. \A d \in Process : pc'[d] = pc[d] \/ pc'[d] = label
  BY DEF Goto, IInv, Shapes
<1> QED
  BY <1>1, CliIsProcess DEF Warm

LEMMA WarmBoot ==
  ASSUME Warm, IInv, IInv', AliasStays, NEW c \in Process, Boot(c) \/ Exit(c) \/ Crash(c)
  PROVE  Warm'
<1>1. UNCHANGED alias
  BY DEF Warm, Boot, EnsureChecks, EnsureDrops, EnsureCreates, EnsureAliases, EnsureFails,
         Exit, Crash, Forgets, cluster
<1>2. CASE EnsureChecks(c) \/ EnsureFails(c)
  <2>1. /\ Goto(c, IF c \in Api THEN "serving" ELSE "count") /\ UNCHANGED aliasSeen
    BY <1>2 DEF Warm, EnsureChecks, EnsureFails, Booted, manager
  <2> QED
    BY <1>1, <2>1, WarmSteps DEF Warm, Stage
<1>3. CASE Exit(c) \/ Crash(c)
  <2>1. /\ pc' \in {[pc EXCEPT ![c] = "off"], [pc EXCEPT ![c] = "boot"]}
        /\ aliasSeen' = [aliasSeen EXCEPT ![c] = FALSE]
    BY <1>3 DEF Exit, Crash, Forgets, Goto
  <2>2. \A d \in Process : \/ pc'[d] = pc[d] /\ aliasSeen'[d] = aliasSeen[d]
                           \/ pc'[d] \in {"off", "boot"}
    BY <2>1 DEF IInv, Shapes, Warm
  <2>3. aliasSeen' \in [Process -> BOOLEAN]
    BY <2>1 DEF Warm
  <2> QED
    BY <1>1, <2>2, <2>3, CliIsProcess DEF Warm
<1> QED
  BY <1>2, <1>3 DEF Warm, Boot, EnsureDrops, EnsureCreates, EnsureAliases

LEMMA WarmProjection ==
  ASSUME Warm, NEW c \in Process, Projection(c)
  PROVE  Warm'
<1>1. UNCHANGED <<alias, pc, aliasSeen>>
  BY DEF Projection, RequestCommits, WorkerTakes, WorkerSkips, Send, SendFails, MirrorStarts,
         NoMirror, Mirror, WritesDocs, cluster, rebuild
<1> QED
  BY <1>1 DEF Warm

LEMMA WarmReindex ==
  ASSUME Warm, IInv, AliasStays, NEW c \in Cli, Launch(c) \/ (Reindex(c) /\ ~ Exit(c))
  PROVE  Warm'
<1>1. alias' # {} /\ c \in Process
  BY CliIsProcess DEF Warm, AliasStays
<1>2. CASE CheckAlias(c)
  <2>1. pc' = [pc EXCEPT ![c] = "swap"] /\ aliasSeen' = [aliasSeen EXCEPT ![c] = TRUE]
    BY <1>2 DEF CheckAlias, Goto, Warm
  <2>2. \A d \in Process : \/ pc'[d] = pc[d] /\ aliasSeen'[d] = aliasSeen[d]
                           \/ pc'[d] = "swap" /\ aliasSeen'[d]
    BY <2>1 DEF IInv, Shapes, Warm
  <2>3. aliasSeen' \in [Process -> BOOLEAN] /\ UNCHANGED alias
    BY <1>2, <2>1 DEF Warm, CheckAlias, cluster
  <2> QED
    BY <2>2, <2>3, CliIsProcess DEF Warm
<1>3. CASE Swap(c) \/ SwapReplyLost(c)
  <2>1. alias' = {staging[c]} /\ UNCHANGED aliasSeen
    BY <1>3 DEF Swap, SwapReplyLost, MovesAlias, Warm
  <2>2. staging[c] \in Int
    BY <1>1 DEF IInv, Shapes
  <2>3. Goto(c, "list") \/ Goto(c, "abort")
    BY <1>3 DEF Swap, SwapReplyLost
  <2>4. \E i \in Int : alias' \subseteq {i}
    BY <2>1, <2>2
  <2> QED
    BY <1>1, <2>1, <2>3, <2>4, WarmSteps DEF Stage
<1>4. CASE \/ Launch(c) \/ CountsRows(c) \/ SumsRows(c) \/ Skip(c) \/ StartRebuild(c)
           \/ StartRebuildFails(c) \/ ReadPage(c) \/ WritePage(c) \/ StampStaging(c)
           \/ RebuildFails(c) \/ AbortRebuild(c) \/ ListStale(c) \/ EndClean(c)
  <2>1. /\ alias' \subseteq alias /\ UNCHANGED aliasSeen
    BY <1>4 DEF Launch, CountsRows, SumsRows, Skip, StartRebuild, StartRebuildFails, ReadPage,
       WritePage, WritesDocs, StampStaging, RebuildFails, AbortRebuild, DeletesIndex,
       ListStale, EndClean, CreatesIndex, cluster, manager
  <2>2. \E label \in {"boot", "sum", "decide", "exit", "read", "write", "stamp", "check",
                      "abort", "clean"} : Goto(c, label)
    BY <1>4 DEF Launch, CountsRows, SumsRows, Skip, StartRebuild, StartRebuildFails, ReadPage,
       WritePage, StampStaging, RebuildFails, AbortRebuild, ListStale, EndClean
  <2>3. \E i \in Int : alias' \subseteq {i}
    BY <2>1 DEF Warm
  <2> QED
    BY <1>1, <2>1, <2>2, <2>3, WarmSteps DEF Stage
<1>5. CASE DeleteStale(c)
  <2>1. alias' \subseteq alias /\ UNCHANGED <<pc, aliasSeen>>
    BY <1>5 DEF DeleteStale, DeletesIndex
  <2>2. \E i \in Int : alias' \subseteq {i}
    BY <2>1 DEF Warm
  <2> QED
    BY <1>1, <2>1, <2>2 DEF Warm
<1>6. ~ DropBare(c)
  BY DEF DropBare, Warm
<1> QED
  BY <1>2, <1>3, <1>4, <1>5, <1>6 DEF Reindex

LEMMA NextWarm ==
  ASSUME OneCli, MaxLost = 0, IInv, Warm, [Next]_vars
  PROVE  Warm'
<1>1. IInv' /\ AliasStays
  BY NextKeeps DEF IInv, Shapes
<1>2. CASE UNCHANGED vars
  BY <1>2 DEF vars, cluster, rebuild, Warm
<1> QED
  BY <1>1, <1>2, CliIsProcess, WarmBoot, WarmProjection, WarmReindex DEF Next

\* Once there is an alias, a reindex at a time and any number of containers keep
\* it on one index: a swap moves it, and no boot adds to it.
THEOREM WarmAliasIsSingle ==
  ASSUME OneCli, MaxLost = 0, Starts \subseteq {"old", "current"}
  PROVE  Spec => []OneLiveIndex
<1>1. Warm => OneLiveIndex
  <2> SUFFICES ASSUME Warm
               PROVE  OneLiveIndex
    OBVIOUS
  <2>1. PICK i \in Int : alias = {i}
    BY DEF Warm
  <2> QED
    BY <2>1, FS_Singleton DEF OneLiveIndex
<1>2. Init => Warm
  BY InitWarm
<1>3. IInv /\ Warm /\ [Next]_vars => Warm'
  BY NextWarm
<1> QED
  BY <1>1, <1>2, <1>3, InductiveInvariant, PTL DEF Spec

=============================================================================
