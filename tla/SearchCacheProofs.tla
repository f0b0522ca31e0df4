-------------------------- MODULE SearchCacheProofs --------------------------
(***************************************************************************)
(* For any number of writes, views, searches and generations: bumping the  *)
(* generation fences off older pages.                                      *)
(***************************************************************************)
EXTENDS SearchCache, TLAPS

\* A generation that has not begun has no page, and no search has its key.
KeysHaveBegun ==
    /\ \A g \in cached : g <= generation
    /\ \A r \in Reader : key[r] <= generation

\* What was indexed when a generation began shows in the index, in its page and
\* in every answer on its way to that page or from it.
PagesAreFenced ==
    /\ \A g \in Generation : atBump[g] \subseteq indexed
    /\ \A g \in cached : atBump[g] \subseteq page[g]
    /\ \A r \in Reader : rpc[r] \in {"set", "answered"} => atBump[key[r]] \subseteq answer[r]

\* A search is held to the generation of its key, or to nothing.
FencesAreKeys == \A r \in Reader : fence[r] \subseteq atBump[key[r]]

\* Losing Redis's data starts the generations anew, so that nothing but types
\* outlives it.
Fenced == flushes = 0 => KeysHaveBegun /\ PagesAreFenced /\ FencesAreKeys

IInv == TypeOK /\ Fenced

LEMMA InitIInv == Init => IInv
  BY BoundAssumption
  DEF Init, IInv, TypeOK, Fenced, KeysHaveBegun, PagesAreFenced, FencesAreKeys, Generation

-----------------------------------------------------------------------------
(* Every step preserves the types.                                         *)

LEMMA WriteStepType ==
  ASSUME TypeOK, NEW w \in Commit, WriteStep(w)
  PROVE  TypeOK'
<1> USE BoundAssumption DEF TypeOK, Generation, redis, readers, bounds, SpendFault
<1>1. CASE Commits(w)
  BY <1>1 DEF Commits
<1>2. CASE Bump(w)
  BY <1>2 DEF Bump
<1>3. CASE BumpFails(w)
  BY <1>3 DEF BumpFails
<1>4. CASE Indexes(w)
  BY <1>4 DEF Indexes
<1>5. CASE IndexFails(w)
  BY <1>5 DEF IndexFails
<1>6. CASE OutboxIndexes(w)
  BY <1>6 DEF OutboxIndexes
<1> QED
  BY <1>1, <1>2, <1>3, <1>4, <1>5, <1>6 DEF WriteStep

LEMMA ReadStepType ==
  ASSUME TypeOK, NEW r \in Reader, ReadGeneration(r) \/ ReadStep(r)
  PROVE  TypeOK'
<1> USE BoundAssumption DEF TypeOK, Generation, redis, readers, bounds, SpendFault
<1>1. CASE ReadGeneration(r)
  <2>1. CASE key' = [key EXCEPT ![r] = generation]
             /\ fence' = [fence EXCEPT ![r] = atBump[generation]] /\ UNCHANGED bounds
    BY <1>1, <2>1 DEF ReadGeneration
  <2>2. CASE SpendFault /\ UNCHANGED <<key, fence>>
    BY <1>1, <2>2 DEF ReadGeneration
  <2> QED
    BY <1>1, <2>1, <2>2 DEF ReadGeneration
<1>2. CASE GetHits(r)
  BY <1>2 DEF GetHits
<1>3. CASE GetMisses(r)
  BY <1>3 DEF GetMisses
<1>4. CASE Search(r)
  BY <1>4 DEF Search
<1>5. CASE Stores(r)
  BY <1>5 DEF Stores
<1>6. CASE StoreFails(r)
  BY <1>6 DEF StoreFails
<1>7. CASE Ends(r)
  BY <1>7 DEF Ends
<1> QED
  BY <1>1, <1>2, <1>3, <1>4, <1>5, <1>6, <1>7 DEF ReadStep

LEMMA RedisStepType ==
  ASSUME TypeOK, (\E g \in Generation : Expire(g)) \/ Flush
  PROVE  TypeOK'
<1> USE BoundAssumption DEF TypeOK, Generation, redis, readers, bounds
<1>1. ASSUME NEW g \in Generation, Expire(g)
      PROVE  TypeOK'
  BY <1>1 DEF Expire
<1>2. CASE Flush
  BY <1>2 DEF Flush
<1> QED
  BY <1>1, <1>2

-----------------------------------------------------------------------------
(* Every step preserves the fence.                                         *)

LEMMA WriteStepFenced ==
  ASSUME IInv, NEW w \in Commit, WriteStep(w)
  PROVE  Fenced'
<1> SUFFICES ASSUME flushes' = 0
             PROVE  KeysHaveBegun' /\ PagesAreFenced' /\ FencesAreKeys'
  BY DEF Fenced
<1> USE BoundAssumption DEF IInv, Fenced, TypeOK, Generation, redis, readers, bounds, SpendFault,
        KeysHaveBegun, PagesAreFenced, FencesAreKeys
<1>1. CASE Commits(w)
  BY <1>1 DEF Commits
<1>2. CASE Bump(w)
  <2>1. flushes = 0 /\ generation + 1 \in Generation
    BY <1>2 DEF Bump
  \* The generation that begins is nobody's yet.
  <2>2. /\ generation + 1 \notin cached
        /\ \A r \in Reader : key[r] # generation + 1
    BY <2>1
  <2>3. /\ atBump'[generation + 1] = indexed
        /\ \A g \in Generation : g # generation + 1 => atBump'[g] = atBump[g]
    BY <1>2, <2>1 DEF Bump
  <2> QED
    BY <1>2, <2>1, <2>2, <2>3 DEF Bump
<1>3. CASE BumpFails(w)
  BY <1>3 DEF BumpFails
<1>4. CASE Indexes(w)
  BY <1>4 DEF Indexes
<1>5. CASE IndexFails(w)
  BY <1>5 DEF IndexFails
<1>6. CASE OutboxIndexes(w)
  BY <1>6 DEF OutboxIndexes
<1> QED
  BY <1>1, <1>2, <1>3, <1>4, <1>5, <1>6 DEF WriteStep

LEMMA ReadStepFenced ==
  ASSUME IInv, NEW r \in Reader, ReadGeneration(r) \/ ReadStep(r)
  PROVE  Fenced'
<1> SUFFICES ASSUME flushes' = 0
             PROVE  KeysHaveBegun' /\ PagesAreFenced' /\ FencesAreKeys'
  BY DEF Fenced
<1> USE BoundAssumption DEF IInv, Fenced, TypeOK, Generation, redis, readers, bounds, SpendFault,
        KeysHaveBegun, PagesAreFenced, FencesAreKeys
<1>1. CASE ReadGeneration(r)
  <2>1. CASE key' = [key EXCEPT ![r] = generation]
             /\ fence' = [fence EXCEPT ![r] = atBump[generation]] /\ UNCHANGED bounds
    BY <1>1, <2>1 DEF ReadGeneration
  <2>2. CASE SpendFault /\ UNCHANGED <<key, fence>>
    BY <1>1, <2>2 DEF ReadGeneration
  <2> QED
    BY <1>1, <2>1, <2>2 DEF ReadGeneration
<1>2. CASE GetHits(r)
  BY <1>2 DEF GetHits
<1>3. CASE GetMisses(r)
  BY <1>3 DEF GetMisses
<1>4. CASE Search(r)
  BY <1>4 DEF Search
<1>5. CASE Stores(r)
  BY <1>5 DEF Stores
<1>6. CASE StoreFails(r)
  BY <1>6 DEF StoreFails
<1>7. CASE Ends(r)
  BY <1>7 DEF Ends
<1> QED
  BY <1>1, <1>2, <1>3, <1>4, <1>5, <1>6, <1>7 DEF ReadStep

LEMMA RedisStepFenced ==
  ASSUME IInv, (\E g \in Generation : Expire(g)) \/ Flush
  PROVE  Fenced'
<1> USE BoundAssumption DEF IInv, Fenced, TypeOK, Generation, redis, readers, bounds,
        KeysHaveBegun, PagesAreFenced, FencesAreKeys
<1>1. ASSUME NEW g \in Generation, Expire(g)
      PROVE  Fenced'
  BY <1>1 DEF Expire
<1>2. CASE Flush
  BY <1>2 DEF Flush
<1> QED
  BY <1>1, <1>2

-----------------------------------------------------------------------------

LEMMA NextIInv == IInv /\ [Next]_vars => IInv'
<1> SUFFICES ASSUME IInv, [Next]_vars
             PROVE  IInv'
  OBVIOUS
<1>1. CASE \E w \in Commit : WriteStep(w)
  BY <1>1, WriteStepType, WriteStepFenced DEF IInv
<1>2. CASE \E r \in Reader : ReadGeneration(r) \/ ReadStep(r)
  BY <1>2, ReadStepType, ReadStepFenced DEF IInv
<1>3. CASE (\E g \in Generation : Expire(g)) \/ Flush
  BY <1>3, RedisStepType, RedisStepFenced DEF IInv
<1>4. CASE UNCHANGED vars
  BY <1>4 DEF IInv, TypeOK, Fenced, KeysHaveBegun, PagesAreFenced, FencesAreKeys,
              vars, redis, readers, bounds
<1> QED
  BY <1>1, <1>2, <1>3, <1>4 DEF Next

LEMMA InductiveInvariant == Spec => []IInv
  BY InitIInv, NextIInv, PTL DEF Spec

\* The variables keep their types.
THEOREM CacheTypeCorrect == Spec => []TypeOK
<1>1. IInv => TypeOK
  BY DEF IInv
<1> QED
  BY <1>1, InductiveInvariant, PTL

\* A search that has read a generation answers with everything that was indexed
\* when that generation began, as long as Redis keeps its data: what
\* SearchProductsUseCase relies on when it lets a write bump the generation
\* instead of deleting pages.
THEOREM GenerationsFence == Spec => []AnswersAreFenced
<1>1. IInv => AnswersAreFenced
  BY DEF IInv, TypeOK, Fenced, PagesAreFenced, FencesAreKeys, AnswersAreFenced
<1> QED
  BY <1>1, InductiveInvariant, PTL
=============================================================================
