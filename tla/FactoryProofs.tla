--------------------------- MODULE FactoryProofs ----------------------------
(***************************************************************************)
(* Proofs about Factory: its types, that a prefix has one living instance  *)
(* at most, and that the timeout of the cache does not close an instance   *)
(* in use, for any cache time that leaves room above RefreshDiff.          *)
(***************************************************************************)
EXTENDS Factory, TLAPS

\* get() leaves a cached instance cached; unless its time starts anew, it is not
\* prolonged.
LEMMA ProlongEffect ==
  ASSUME NEW i, cached = i, updated \in BOOLEAN, ProlongCachetime(i)
  PROVE  /\ cached' = i
         /\ updated' \in BOOLEAN
         /\ updated => updated'
         /\ age' = 0 \/ (age' = age /\ (updated => ~(age >= RefreshDiff)))
BY Zenon DEF ProlongCachetime, StoreInstance

\* The type invariant: every action keeps the state in its types.
THEOREM TypeCorrect == Spec => []TypeOK
<1>1. Init => TypeOK
  <2> SUFFICES ASSUME Init PROVE TypeOK
    OBVIOUS
  <2>1. updated \in BOOLEAN /\ tampered \in BOOLEAN
    BY DEF Init
  <2> QED
    BY <2>1, FactoryAssumption DEF Init, TypeOK
<1>2. TypeOK /\ [Next]_vars => TypeOK'
  <2> SUFFICES ASSUME TypeOK, [Next]_vars PROVE TypeOK'
    OBVIOUS
  <2> USE FactoryAssumption DEF TypeOK
  <2>1. ASSUME NEW q \in Requests, GetBlocked(q) PROVE TypeOK'
    BY <2>1 DEF GetBlocked, Goes, pool
  <2>2. ASSUME NEW q \in Requests, GetCached(q) PROVE TypeOK'
    <3>1. cached' = cached /\ updated' \in BOOLEAN /\ (age' = 0 \/ age' = age)
      BY <2>2, ProlongEffect DEF GetCached
    <3> QED
      BY <2>2, <3>1 DEF GetCached, Goes
  <2>3. ASSUME NEW q \in Requests, NEW i \in Instances, GetNew(q, i) PROVE TypeOK'
    BY <2>3 DEF GetNew, Goes
  <2>4. ASSUME NEW q \in Requests, Resume(q) PROVE TypeOK'
    BY <2>4 DEF Resume, Goes
  <2>5. ASSUME NEW q \in Requests, Release(q) PROVE TypeOK'
    BY <2>5 DEF Release, Goes, pool
  <2>6. ASSUME NEW q \in Requests, ResetTables(q) PROVE TypeOK'
    BY <2>6 DEF ResetTables, requests
  <2>7. ASSUME NEW i \in Instances, InitSettles(i) PROVE TypeOK'
    <3>1. CASE InitDone(i)
      BY <3>1 DEF InitDone, StoreInstance, requests
    <3>2. CASE InitFail(i)
      BY <3>2 DEF InitFail, requests
    <3> QED
      BY <2>7, <3>1, <3>2 DEF InitSettles
  <2>8. CASE Timeout
    BY <2>8 DEF Timeout, requests
  <2>9. CASE CloseAll
    BY <2>9 DEF CloseAll, requests
  <2>10. CASE ClearCache
    BY <2>10 DEF ClearCache, requests
  <2>11. CASE Tick
    BY <2>11 DEF Tick
  <2>12. CASE UNCHANGED vars
    BY <2>12 DEF vars, pool, requests
  <2> QED
    BY <2>1, <2>2, <2>3, <2>4, <2>5, <2>6, <2>7, <2>8, <2>9, <2>10, <2>11, <2>12 DEF Next
<1> QED
  BY <1>1, <1>2, PTL DEF Spec

-----------------------------------------------------------------------------
(* The pool before closeAll().                                             *)

\* What init() works on is the blocked instance, with nothing cached; what is
\* open is cached.
Known ==
  \A i \in Instances :
    /\ instance[i] = "init" => i = blocked /\ cached = None
    /\ instance[i] = "open" => i = cached

\* There is one creator at most, and blocked is its instance.
OneCreator ==
  /\ \A q \in Requests : at[q] # "idle" => of[q] \in Instances
  /\ \A q \in Requests : at[q] = "creating" => of[q] = blocked
  /\ \A q, r \in Requests : at[q] = "creating" /\ at[r] = "creating" => q = r

PoolKnown == Known /\ OneCreator /\ (cached # None => updated)

\* Every step keeps what the pool knows of its instances.
LEMMA PoolStep ==
  ASSUME TypeOK, PoolKnown, [Next]_vars, shutting' = "no"
  PROVE  PoolKnown'
<1> USE FactoryAssumption DEF TypeOK, PoolKnown, Known, OneCreator
<1>1. ASSUME NEW q \in Requests, GetBlocked(q) PROVE PoolKnown'
  BY <1>1 DEF GetBlocked, Goes, pool
<1>2. ASSUME NEW q \in Requests, GetCached(q) PROVE PoolKnown'
  <2>1. cached' = cached /\ (updated => updated')
    BY <1>2, ProlongEffect DEF GetCached
  <2> QED
    BY <1>2, <2>1 DEF GetCached, Goes
<1>3. ASSUME NEW q \in Requests, NEW i \in Instances, GetNew(q, i) PROVE PoolKnown'
  BY <1>3 DEF GetNew, Goes, Fresh
<1>4. ASSUME NEW q \in Requests, Resume(q) PROVE PoolKnown'
  BY <1>4 DEF Resume, Goes, Settled
<1>5. ASSUME NEW q \in Requests, Release(q) PROVE PoolKnown'
  BY <1>5 DEF Release, Goes, pool
<1>6. ASSUME NEW q \in Requests, ResetTables(q) PROVE PoolKnown'
  BY <1>6 DEF ResetTables, requests
<1>7. ASSUME NEW i \in Instances, InitDone(i) PROVE PoolKnown'
  BY <1>7 DEF InitDone, StoreInstance, requests
<1>8. ASSUME NEW i \in Instances, InitFail(i) PROVE PoolKnown'
  BY <1>8 DEF InitFail, requests
<1>9. CASE Timeout
  BY <1>9 DEF Timeout, requests
<1>10. CASE CloseAll \/ ClearCache
  BY <1>10 DEF CloseAll, ClearCache
<1>11. CASE Tick
  BY <1>11 DEF Tick
<1>12. CASE UNCHANGED vars
  BY <1>12 DEF vars, pool, requests
<1> QED
  BY <1>1, <1>2, <1>3, <1>4, <1>5, <1>6, <1>7, <1>8, <1>9, <1>10, <1>11, <1>12
  DEF Next, InitSettles

\* closeAll() is never taken back.
LEMMA ShuttingStep ==
  ASSUME TypeOK, [Next]_vars, shutting' = "no"
  PROVE  shutting = "no"
BY DEF TypeOK, Next, GetBlocked, GetCached, GetNew, Resume, Release, ResetTables, InitSettles,
   InitDone, InitFail, Timeout, CloseAll, ClearCache, Tick, Goes, vars

\* A reset is never taken back either.
LEMMA TamperedStep ==
  ASSUME TypeOK, [Next]_vars, ~tampered'
  PROVE  ~tampered
BY DEF TypeOK, Next, GetBlocked, GetCached, GetNew, Resume, Release, ResetTables, InitSettles,
   InitDone, InitFail, Timeout, CloseAll, ClearCache, Tick, Goes, vars

\* Until closeAll() a prefix has one instance at most that is alive, and it is the
\* one under way behind `blocked` or the one in the cache.
THEOREM OneInstanceAlive == Spec => []OneInstance
<1> DEFINE IInv == shutting = "no" => PoolKnown
<1>1. Init => IInv
  BY DEF Init, PoolKnown, Known, OneCreator
<1>2. TypeOK /\ IInv /\ [Next]_vars => IInv'
  BY PoolStep, ShuttingStep
<1>3. IInv => OneInstance
  BY DEF PoolKnown, Known, OneInstance
<1> QED
  BY <1>1, <1>2, <1>3, TypeCorrect, PTL DEF Spec

-----------------------------------------------------------------------------
(* Timeouts, before the first reset and before closeAll().                 *)

\* The cache time leaves room above RefreshDiff for a whole request.
RoomForARequest == RefreshDiff > 0 /\ Patience <= CacheTime - RefreshDiff

Pending(q) == at[q] \in {"creating", "waiting"}

\* i is under way, has failed, or has just been stored.
JustSettled(i) == instance[i] \in {"init", "failed"} \/ (i = cached /\ age = 0)

\* Who uses an instance has found it cached, at an age below RefreshDiff, and has
\* used it ever since.
Served(q) ==
  /\ of[q] = cached
  /\ held[q] <= Patience
  /\ age <= held[q] \/ age < RefreshDiff + held[q]

Punctual ==
  /\ cached # None => instance[cached] = "open"
  /\ \A q \in Requests : at[q] = "using" => Served(q)
  /\ \A q \in Requests : Pending(q) => JustSettled(of[q])
  /\ blocked # None => JustSettled(blocked)
  /\ (blocked # None /\ instance[blocked] # "failed")
       => \E q \in Requests : at[q] = "creating"

\* Every step keeps ages and timeouts in order.
LEMMA PunctualStep ==
  ASSUME RoomForARequest, ~tampered', TypeOK, PoolKnown, Punctual, [Next]_vars, shutting' = "no"
  PROVE  Punctual'
<1> USE FactoryAssumption, RoomForARequest DEF RoomForARequest, TypeOK, PoolKnown, Known, OneCreator,
    Pending, JustSettled, Served, Punctual
<1>1. ASSUME NEW q \in Requests, GetBlocked(q) PROVE Punctual'
  BY <1>1 DEF GetBlocked, Goes, pool
<1>2. ASSUME NEW q \in Requests, GetCached(q) PROVE Punctual'
  <2>1. /\ cached' = cached
        /\ age' = 0 \/ (age' = age /\ ~(age >= RefreshDiff))
    BY <1>2, ProlongEffect DEF GetCached
  <2> HIDE DEF TypeOK, PoolKnown
  <2>2. age \in Nat /\ age' \in Nat /\ held \in [Requests -> Nat]
    BY <2>1 DEF TypeOK
  <2>3. held' = [held EXCEPT ![q] = 0] /\ of' = [of EXCEPT ![q] = cached] /\ at' = [at EXCEPT ![q] = "using"]
    BY <1>2 DEF GetCached, Goes
  <2>4. UNCHANGED <<instance, blocked>> /\ blocked = None /\ cached # None
    BY <1>2 DEF GetCached
  <2> QED
    BY <1>2, <2>1, <2>2, <2>3, <2>4 DEF TypeOK
<1>3. ASSUME NEW q \in Requests, NEW i \in Instances, GetNew(q, i) PROVE Punctual'
  BY <1>3 DEF GetNew, Goes, Fresh, Unreferenced
<1>4. ASSUME NEW q \in Requests, Resume(q) PROVE Punctual'
  BY <1>4 DEF Resume, Goes, Settled
<1>5. ASSUME NEW q \in Requests, Release(q) PROVE Punctual'
  BY <1>5 DEF Release, Goes, pool
<1>6. ASSUME NEW q \in Requests, ResetTables(q) PROVE Punctual'
  BY <1>6 DEF ResetTables
<1>7. ASSUME NEW i \in Instances, InitDone(i) PROVE Punctual'
  <2>1. i = blocked /\ cached = None
    BY <1>7 DEF InitDone
  <2>2. /\ instance' = [instance EXCEPT ![i] = "open"]
        /\ cached' = i /\ age' = 0
        /\ UNCHANGED <<blocked, at, of, held>>
    BY <1>7 DEF InitDone, StoreInstance, requests
  <2>3. \A q \in Requests : at[q] # "using"
    BY <2>1
  <2>4. \E q \in Requests : at[q] = "creating"
    BY <1>7, <2>1 DEF InitDone
  <2> QED
    BY <2>1, <2>2, <2>3, <2>4
<1>8. ASSUME NEW i \in Instances, InitFail(i) PROVE Punctual'
  BY <1>8 DEF InitFail, requests
<1>9. CASE Timeout
  BY <1>9 DEF Timeout, requests
<1>10. CASE CloseAll \/ ClearCache
  BY <1>10 DEF CloseAll, ClearCache
<1>11. CASE Tick
  BY <1>11 DEF Tick, Settled
<1>12. CASE UNCHANGED vars
  BY <1>12 DEF vars, pool, requests
<1> QED
  BY <1>1, <1>2, <1>3, <1>4, <1>5, <1>6, <1>7, <1>8, <1>9, <1>10, <1>11, <1>12
  DEF Next, InitSettles

\* The timeout of the cache never closes an instance that a request is using, if
\* the cache time leaves room above RefreshDiff for a whole request.
THEOREM NotClosedInUse ==
  ASSUME RoomForARequest
  PROVE  Spec => []UsedIsOpen
<1> DEFINE IInv == shutting = "no" => PoolKnown /\ (~tampered => Punctual)
<1>1. Init => IInv
  BY DEF Init, PoolKnown, Known, OneCreator, Punctual, Pending
<1>2. TypeOK /\ IInv /\ [Next]_vars => IInv'
  BY RoomForARequest, PoolStep, PunctualStep, ShuttingStep, TamperedStep
<1>3. IInv => UsedIsOpen
  BY FactoryAssumption DEF PoolKnown, OneCreator, Punctual, Served, UsedIsOpen
<1> QED
  BY <1>1, <1>2, <1>3, TypeCorrect, PTL DEF Spec

-----------------------------------------------------------------------------
(* The factory implements Pool.                                            *)

\* The state of Pool has its types, before and after the promise is void.
LEMMA AbstractTypes ==
  TypeOK => TheAlive \in Instances \cup {None} /\ IsReady \in BOOLEAN /\ Users \in SUBSET Requests
<1>1. Living = {} \/ \E i \in Instances : i \in Living
  BY DEF Living
<1>2. CASE \E i \in Instances : i \in Living
  <2>1. (CHOOSE i \in Living : TRUE) \in Living
    BY <1>2
  <2> QED
    BY <1>2, <2>1 DEF Living, TheAlive, IsReady, Users
<1> QED
  BY <1>1, <1>2 DEF TheAlive, IsReady, Users

\* Which instance is alive, in terms of the factory's own variables.
AliveFacts ==
  /\ cached # None => TheAlive = cached /\ IsReady
  /\ cached = None => ~IsReady
  /\ \A i \in Instances : instance[i] = "init" => TheAlive = i
  /\ (cached = None /\ \A i \in Instances : instance[i] # "init") => TheAlive = None

\* What the invariants say of the living instance.
LEMMA AliveIs == TypeOK /\ PoolKnown /\ Punctual => AliveFacts
<1> SUFFICES ASSUME TypeOK, PoolKnown, Punctual PROVE AliveFacts
  OBVIOUS
<1> USE FactoryAssumption DEF TypeOK, PoolKnown, Known
<1>1. ASSUME NEW x \in Instances, Living = {x} PROVE TheAlive = x
  BY <1>1 DEF TheAlive
<1>2. CASE cached # None
  <2>1. Living = {cached}
    BY <1>2 DEF Living, Punctual
  <2>2. TheAlive = cached
    BY <1>1, <1>2, <2>1
  <2> QED
    BY <1>2, <2>2 DEF AliveFacts, IsReady, Punctual
<1>3. CASE cached = None
  <2>1. ~IsReady
    BY <1>3 DEF IsReady
  <2>2. ASSUME NEW i \in Instances, instance[i] = "init" PROVE TheAlive = i
    <3>1. Living = {i}
      BY <1>3, <2>2 DEF Living
    <3> QED
      BY <1>1, <3>1
  <2>3. ASSUME \A i \in Instances : instance[i] # "init" PROVE TheAlive = None
    <3>1. Living = {}
      BY <1>3, <2>3 DEF Living
    <3> QED
      BY <3>1 DEF TheAlive
  <2> QED
    BY <1>3, <2>1, <2>2, <2>3 DEF AliveFacts
<1> QED
  BY <1>2, <1>3

\* The same after a step.
LEMMA AliveIsNext == TypeOK' /\ PoolKnown' /\ Punctual' => AliveFacts'
BY AliveIs, PTL

Stays == UNCHANGED <<TheAlive, IsReady, Users, IsVoid>>

\* Every step of the factory is a step of Pool, or none, while the promise holds.
LEMMA PromiseStep ==
  ASSUME RoomForARequest, TypeOK, TypeOK', PoolKnown, PoolKnown', Punctual, Punctual',
         ~IsVoid, ~IsVoid', [Next]_vars
  PROVE  Promise!Next \/ Stays
<1> USE FactoryAssumption
<1>a. AliveFacts /\ AliveFacts'
  BY AliveIs, AliveIsNext
<1>b. IsVoid' = IsVoid
  BY DEF IsVoid
<1>c. ASSUME UNCHANGED instance PROVE TheAlive' = TheAlive /\ IsReady' = IsReady
  <2>1. Living' = Living
    BY <1>c DEF Living
  <2>2. TheAlive' = TheAlive
    BY <2>1 DEF TheAlive
  <2> QED
    BY <1>c, <2>2 DEF IsReady
<1>1. ASSUME NEW q \in Requests, GetBlocked(q) PROVE Stays
  <2>1. Users' = Users /\ UNCHANGED instance
    BY <1>1 DEF GetBlocked, Goes, pool, Users, TypeOK
  <2> QED
    BY <1>b, <1>c, <2>1 DEF Stays
<1>2. ASSUME NEW q \in Requests, GetCached(q) PROVE Promise!Serve(q)
  <2>1. Users' = Users \cup {q} /\ q \notin Users /\ UNCHANGED instance
    BY <1>2 DEF GetCached, Goes, Users, TypeOK
  <2>2. IsReady
    BY <1>a, <1>2 DEF GetCached, AliveFacts
  <2> QED
    BY <1>b, <1>c, <2>1, <2>2 DEF Promise!Serve
<1>3. ASSUME NEW q \in Requests, NEW i \in Instances, GetNew(q, i) PROVE Promise!Create(i)
  <2>1. Users = {}
    BY <1>3 DEF GetNew, Users, TypeOK, PoolKnown, OneCreator, Punctual, Served
  <2>2. Users' = Users
    BY <1>3 DEF GetNew, Goes, Users, TypeOK
  <2>3. TheAlive = None /\ ~IsReady
    BY <1>a, <1>3 DEF GetNew, PoolKnown, Known, AliveFacts
  <2>4. TheAlive' = i /\ ~IsReady'
    <3>1. instance'[i] = "init" /\ cached' = None
      BY <1>3 DEF GetNew, TypeOK
    <3> QED
      BY <1>a, <3>1 DEF AliveFacts
  <2>5. IsReady' = IsReady
    BY <2>3, <2>4 DEF IsReady
  <2> QED
    BY <1>b, <2>1, <2>2, <2>3, <2>4, <2>5 DEF Promise!Create
<1>4. ASSUME NEW q \in Requests, Resume(q) PROVE Promise!Serve(q) \/ Stays
  <2>1. UNCHANGED instance
    BY <1>4 DEF Resume
  <2>2. CASE instance[of[q]] = "failed"
    <3>1. Users' = Users
      BY <1>4, <2>2 DEF Resume, Goes, Users, TypeOK, Settled
    <3> QED
      BY <1>b, <1>c, <2>1, <3>1 DEF Stays
  <2>3. CASE instance[of[q]] # "failed"
    <3>1. Users' = Users \cup {q} /\ q \notin Users
      BY <1>4, <2>3 DEF Resume, Goes, Users, TypeOK, Settled
    <3>2. cached # None
      BY <1>4, <2>3 DEF Resume, Settled, Punctual, Pending, JustSettled, PoolKnown, OneCreator
    <3>3. IsReady
      BY <1>a, <3>2 DEF AliveFacts
    <3> QED
      BY <1>b, <1>c, <2>1, <3>1, <3>3 DEF Promise!Serve
  <2> QED
    BY <2>2, <2>3
<1>5. ASSUME NEW q \in Requests, Release(q) PROVE Promise!Release(q)
  <2>1. Users' = Users \ {q} /\ UNCHANGED instance
    BY <1>5 DEF Release, Goes, pool, Users, TypeOK
  <2> QED
    BY <1>b, <1>c, <2>1 DEF Promise!Release
<1>6. ASSUME NEW i \in Instances, InitSettles(i) PROVE Promise!Settle
  <2>1. Users' = Users
    BY <1>6 DEF InitSettles, InitDone, InitFail, requests, Users
  <2>2. TheAlive = i /\ TheAlive # None /\ ~IsReady
    BY <1>a, <1>6 DEF InitSettles, InitDone, InitFail, AliveFacts, PoolKnown, Known
  <2>3. CASE InitDone(i)
    <3>1. cached' = i /\ cached' # None
      BY <2>3 DEF InitDone, StoreInstance
    <3>2. TheAlive' = i /\ IsReady'
      BY <1>a, <3>1 DEF AliveFacts
    <3>3. IsReady' = TRUE
      BY <3>2 DEF IsReady
    <3> QED
      BY <1>b, <2>1, <2>2, <3>2, <3>3 DEF Promise!Settle
  <2>4. CASE InitFail(i)
    <3>1. cached' = None /\ \A j \in Instances : instance'[j] # "init"
      BY <2>4 DEF InitFail, PoolKnown, Known, TypeOK
    <3>2. TheAlive' = None /\ ~IsReady'
      BY <1>a, <3>1 DEF AliveFacts
    <3>3. IsReady' = IsReady
      BY <2>2, <3>2 DEF IsReady
    <3> QED
      BY <1>b, <2>1, <2>2, <3>2, <3>3 DEF Promise!Settle
  <2> QED
    BY <1>6, <2>3, <2>4 DEF InitSettles
<1>7. CASE Timeout
  <2>1. Users' = Users
    BY <1>7 DEF Timeout, requests, Users
  <2>2. Users = {}
    BY <1>7 DEF Timeout, RoomForARequest, Users, Punctual, Served, TypeOK
  <2>3. IsReady
    BY <1>a, <1>7 DEF Timeout, AliveFacts
  <2>4. cached' = None /\ \A i \in Instances : instance'[i] # "init"
    BY <1>7 DEF Timeout, PoolKnown, Known, TypeOK
  <2>5. TheAlive' = None /\ ~IsReady'
    BY <1>a, <2>4 DEF AliveFacts
  <2>6. IsReady' = FALSE
    BY <2>5 DEF IsReady
  <2> QED
    BY <1>b, <2>1, <2>2, <2>3, <2>5, <2>6 DEF Promise!Close, Promise!Next
<1>8. ASSUME (\E q \in Requests : ResetTables(q)) \/ CloseAll \/ ClearCache PROVE FALSE
  BY <1>8 DEF ResetTables, CloseAll, ClearCache, IsVoid
<1>9. CASE Tick
  <2>1. Users' = Users /\ UNCHANGED instance
    BY <1>9 DEF Tick, Users
  <2> QED
    BY <1>b, <1>c, <2>1 DEF Stays
<1>10. CASE UNCHANGED vars
  <2>1. Users' = Users /\ UNCHANGED instance
    BY <1>10 DEF vars, pool, requests, Users
  <2> QED
    BY <1>b, <1>c, <2>1 DEF Stays
<1> QED
  BY <1>1, <1>2, <1>3, <1>4, <1>5, <1>6, <1>7, <1>8, <1>9, <1>10 DEF Next, Promise!Next

\* A step that ends the promise, or is taken after it, is a step of Pool too.
LEMMA VoidStep ==
  ASSUME TypeOK', IsVoid'
  PROVE  Promise!Void
<1>1. TypeOK' => (TheAlive \in Instances \cup {None} /\ IsReady \in BOOLEAN /\ Users \in SUBSET Requests)'
  BY AbstractTypes, PTL
<1> QED
  BY <1>1 DEF Promise!Void

\* The factory implements Pool, if the cache time leaves room above RefreshDiff for
\* a whole request: one instance at a time, created when none is alive, serving
\* only when it is open, closed only when nobody uses it, until resetTables() or
\* closeAll().
THEOREM FactoryImplementsPool ==
  ASSUME RoomForARequest
  PROVE  Spec => Implements
<1> DEFINE IInv == shutting = "no" => PoolKnown /\ (~tampered => Punctual)
<1>1. Init => IInv
  BY DEF Init, PoolKnown, Known, OneCreator, Punctual, Pending
<1>2. TypeOK /\ IInv /\ [Next]_vars => IInv'
  BY RoomForARequest, PoolStep, PunctualStep, ShuttingStep, TamperedStep
<1>3. Init => Promise!Init
  <2> SUFFICES ASSUME Init PROVE Promise!Init
    OBVIOUS
  <2>1. Living = {}
    BY DEF Init, Living
  <2> QED
    BY <2>1 DEF Init, Promise!Init, TheAlive, IsReady, Users, IsVoid, Living
<1>4. TypeOK /\ TypeOK' /\ IInv /\ IInv' /\ [Next]_vars => [Promise!Next]_(Promise!vars)
  <2> SUFFICES ASSUME TypeOK, TypeOK', IInv, IInv', [Next]_vars
               PROVE  Promise!Next \/ UNCHANGED Promise!vars
    OBVIOUS
  <2>1. CASE IsVoid'
    BY <2>1, VoidStep DEF Promise!Next
  <2>2. CASE ~IsVoid'
    <3>1. shutting' = "no" /\ ~tampered'
      BY <2>2 DEF IsVoid, TypeOK
    <3>2. shutting = "no" /\ ~tampered
      BY <3>1, ShuttingStep, TamperedStep
    <3>3. ~IsVoid
      BY <3>2 DEF IsVoid
    <3>4. Promise!Next \/ Stays
      BY <2>2, <3>1, <3>2, <3>3, RoomForARequest, PromiseStep
    <3> QED
      BY <3>4 DEF Stays, Promise!vars
  <2> QED
    BY <2>1, <2>2
<1> QED
  BY <1>1, <1>2, <1>3, <1>4, TypeCorrect, PTL DEF Spec, Implements, Promise!Spec
=============================================================================
