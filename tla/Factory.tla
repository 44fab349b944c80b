------------------------------ MODULE Factory ------------------------------
(***************************************************************************)
(* The pool of Yildiz instances of lib/bigtable/YildizFactory.ts, for one  *)
(* prefix: get() creates the instance on first use, shares the promise of  *)
(* an instance under way, and prolongs the time in the cache of one in     *)
(* use; when that time is over the instance is closed.  resetTables()      *)
(* closes an instance behind the factory's back, closeAll() on shutdown.   *)
(* The entries of different prefixes do not touch each other.              *)
(***************************************************************************)
EXTENDS Integers

CONSTANTS Requests,    \* HTTP requests, each uses one instance at a time
          Instances,   \* Yildiz objects; one that nobody refers to is reused
          None,        \* no instance
          CacheTime,   \* instanceTimeoutInSec or CACHE_TIME_MS, in ticks
          RefreshDiff, \* REFRESH_DIFF_MS, 0.9 of CACHE_TIME_MS in any case
          Patience     \* a request uses its instance for at most this long

ASSUME FactoryAssumption ==
  /\ None \notin Instances
  /\ CacheTime \in Nat /\ RefreshDiff \in Nat /\ Patience \in Nat

VARIABLES
  instance,  \* instance -> "init", "open", "closed", or "failed" if init() rejected
  cached,    \* cache.get(prefix)
  blocked,   \* blocked[prefix]: the instance that promise is about
  updated,   \* whether updated[prefix] is set
  age,       \* time since storeInstance set it, up to CacheTime
  at,        \* request -> "idle", "creating", "waiting" or "using"
  of,        \* request -> the instance it awaits or uses
  held,      \* request -> for how long it has been using it
  shutting,  \* closeAll(): "no", "closing" or "done"
  tampered   \* history: whether resetTables() has closed an instance

pool == <<instance, cached, blocked, updated, age>>
requests == <<at, of, held>>
vars == <<pool, requests, shutting, tampered>>

Unreferenced(i) == i # cached /\ i # blocked /\ \A q \in Requests : of[q] # i
Fresh(i) == instance[i] \in {"closed", "failed"} /\ Unreferenced(i)

Init ==
  /\ instance = [i \in Instances |-> "closed"]
  /\ cached = None
  /\ blocked = None
  /\ updated = FALSE
  /\ age = 0
  /\ at = [q \in Requests |-> "idle"]
  /\ of = [q \in Requests |-> None]
  /\ held = [q \in Requests |-> 0]
  /\ shutting = "no"
  /\ tampered = FALSE

-----------------------------------------------------------------------------
(* get()                                                                   *)

Goes(q, where, i) ==
  /\ at' = [at EXCEPT ![q] = where]
  /\ of' = [of EXCEPT ![q] = i]
  /\ held' = [held EXCEPT ![q] = 0]
  /\ UNCHANGED <<shutting, tampered>>

\* An instance is being created: its promise is awaited.
GetBlocked(q) ==
  /\ at[q] = "idle"
  /\ blocked # None
  /\ Goes(q, "waiting", blocked)
  /\ UNCHANGED pool

\* Broken on purpose: the timestamp lies before the call.
StoreInstanceEarly(i) ==
  /\ cached' = i
  /\ updated' = TRUE
  /\ age' = -1

\* storeInstance: a new entry, or a new timeout for the old one.
StoreInstance(i) ==
  /\ cached' = i
  /\ updated' = TRUE
  /\ age' = 0

\* Broken on purpose: off by one, the instance is stored again a tick later.
ProlongCachetimeLate(i) ==
  IF updated /\ age > RefreshDiff
  THEN StoreInstance(i)
  ELSE UNCHANGED <<cached, updated, age>>

ProlongCachetime(i) ==
  IF updated /\ age >= RefreshDiff
  THEN StoreInstance(i)
  ELSE UNCHANGED <<cached, updated, age>>

GetCached(q) ==
  /\ at[q] = "idle"
  /\ blocked = None /\ cached # None
  /\ ProlongCachetime(cached)
  /\ Goes(q, "using", cached)
  /\ UNCHANGED <<instance, blocked>>

\* Broken on purpose: nothing blocks a second creation.
GetNewUnblocked(q, i) ==
  /\ at[q] = "idle"
  /\ cached = None
  /\ Fresh(i)
  /\ instance' = [instance EXCEPT ![i] = "init"]
  /\ blocked' = i
  /\ Goes(q, "creating", i)
  /\ UNCHANGED <<cached, updated, age>>

GetNew(q, i) ==
  /\ at[q] = "idle"
  /\ blocked = None /\ cached = None
  /\ Fresh(i)
  /\ instance' = [instance EXCEPT ![i] = "init"]
  /\ blocked' = i
  /\ Goes(q, "creating", i)
  /\ UNCHANGED <<cached, updated, age>>

\* Yildiz.init() resolves, also after an error of metadata or redis.
InitDone(i) ==
  /\ instance[i] = "init"
  /\ instance' = [instance EXCEPT ![i] = "open"]
  /\ StoreInstance(i)
  /\ UNCHANGED <<blocked, requests, shutting, tampered>>

\* Yildiz.init(lastUpdated) rejects; it makes the calls that may reject it only
\* without a lastUpdated.
InitFail(i) ==
  /\ instance[i] = "init" /\ ~updated
  /\ instance' = [instance EXCEPT ![i] = "failed"]
  /\ UNCHANGED <<cached, blocked, updated, age, requests, shutting, tampered>>

Settled(q) == at[q] \in {"creating", "waiting"} /\ instance[of[q]] # "init"

\* Broken on purpose: the rejection of init() reaches nobody.
ResumeResolved(q) ==
  /\ Settled(q) /\ instance[of[q]] # "failed"
  /\ Goes(q, "using", of[q])
  /\ blocked' = IF at[q] = "creating" THEN None ELSE blocked
  /\ UNCHANGED <<instance, cached, updated, age>>

\* The promise is settled: the request that created it removes it, unless it
\* was rejected.
Resume(q) ==
  /\ Settled(q)
  /\ IF instance[of[q]] = "failed"
     THEN Goes(q, "idle", None) /\ UNCHANGED blocked
     ELSE /\ Goes(q, "using", of[q])
          /\ blocked' = IF at[q] = "creating" THEN None ELSE blocked
  /\ UNCHANGED <<instance, cached, updated, age>>

Release(q) ==
  /\ at[q] = "using"
  /\ Goes(q, "idle", None)
  /\ UNCHANGED pool

-----------------------------------------------------------------------------
(* How instances are closed.                                               *)

\* The end of resetTables(): the instance is closed, the factory not told.
ResetTables(q) ==
  /\ at[q] = "using"
  /\ instance' = [instance EXCEPT ![of[q]] = "closed"]
  /\ tampered' = TRUE
  /\ UNCHANGED <<cached, blocked, updated, age, requests, shutting>>

\* Broken on purpose: the instance is dropped, not closed.
TimeoutForgets ==
  /\ cached # None /\ age = CacheTime
  /\ cached' = None
  /\ updated' = FALSE
  /\ UNCHANGED <<instance, blocked, age, requests, shutting, tampered>>

\* The cache entry times out.
Timeout ==
  /\ cached # None /\ age = CacheTime
  /\ instance' = [instance EXCEPT ![cached] = "closed"]
  /\ cached' = None
  /\ updated' = FALSE
  /\ UNCHANGED <<blocked, age, requests, shutting, tampered>>

\* closeAll() closes what is cached, and clears the cache once that is awaited.
CloseAll ==
  /\ shutting = "no"
  /\ shutting' = "closing"
  /\ instance' = [i \in Instances |-> IF i = cached THEN "closed" ELSE instance[i]]
  /\ UNCHANGED <<cached, blocked, updated, age, requests, tampered>>

ClearCache ==
  /\ shutting = "closing"
  /\ shutting' = "done"
  /\ cached' = None
  /\ UNCHANGED <<instance, blocked, updated, age, requests, tampered>>

\* Timers are punctual, a settled promise is resumed at once, and no request
\* outlives its patience.
Tick ==
  /\ cached # None => age < CacheTime
  /\ \A q \in Requests : ~Settled(q) /\ (at[q] = "using" => held[q] < Patience)
  /\ age' = IF age < CacheTime THEN age + 1 ELSE age
  /\ held' = [q \in Requests |-> IF at[q] = "using" THEN held[q] + 1 ELSE 0]
  /\ UNCHANGED <<instance, cached, blocked, updated, at, of, shutting, tampered>>

-----------------------------------------------------------------------------
InitSettles(i) == InitDone(i) \/ InitFail(i)

Next ==
  \/ \E q \in Requests :
       \/ GetBlocked(q) \/ GetCached(q) \/ \E i \in Instances : GetNew(q, i)
       \/ Resume(q) \/ Release(q) \/ ResetTables(q)
  \/ \E i \in Instances : InitSettles(i)
  \/ Timeout \/ CloseAll \/ ClearCache \/ Tick

Spec == Init /\ [][Next]_vars

\* Bigtable answers, promises are resumed, time passes and timers fire; requests
\* need not come.
Fairness ==
  /\ \A i \in Instances : WF_vars(InitSettles(i))
  /\ \A q \in Requests : WF_vars(Resume(q))
  /\ WF_vars(Tick) /\ WF_vars(Timeout) /\ WF_vars(ClearCache)

FairSpec == Spec /\ Fairness

-----------------------------------------------------------------------------
(* Properties                                                              *)

\* The type of the state.
TypeOK ==
  /\ instance \in [Instances -> {"init", "open", "closed", "failed"}]
  /\ cached \in Instances \cup {None} /\ blocked \in Instances \cup {None}
  /\ updated \in BOOLEAN
  /\ age \in 0..CacheTime
  /\ at \in [Requests -> {"idle", "creating", "waiting", "using"}]
  /\ of \in [Requests -> Instances \cup {None}]
  /\ held \in [Requests -> Nat]
  /\ shutting \in {"no", "closing", "done"}
  /\ tampered \in BOOLEAN

\* Until closeAll() there is one instance of a prefix at most that is alive (its
\* timers run, its deltas are in memory), and the factory knows it: it is under
\* way behind `blocked` with nothing cached, or it is the one that is cached, and
\* so will be closed.  Requests that come while it is created, resets and
\* timeouts do not change that.
OneInstance ==
  shutting = "no" =>
    \A i \in Instances :
      /\ instance[i] = "init" => i = blocked /\ cached = None
      /\ instance[i] = "open" => i = cached

\* A request never has its instance closed under it by the cache's timeout, as
\* long as it is done within what RefreshDiff leaves of the cache time and nobody
\* has reset the tables or shut the server down.
UsedIsOpen ==
  (~tampered /\ shutting = "no") =>
    \A q \in Requests : at[q] = "using" => instance[of[q]] = "open"

\* What Pool's variables are here.
Living == {i \in Instances : instance[i] \in {"init", "open"}}
TheAlive == IF Living = {} THEN None ELSE CHOOSE i \in Living : TRUE
IsReady == \E i \in Instances : instance[i] = "open"
Users == {q \in Requests : at[q] = "using"}
IsVoid == tampered \/ shutting # "no"

Promise == INSTANCE Pool WITH alive <- TheAlive, ready <- IsReady, served <- Users, void <- IsVoid

\* The factory implements Pool: whatever get(), failing creations and timeouts of
\* the cache do to each other, an instance is created when none is alive, serves
\* only when it is open, and is closed only when nobody uses it.
Implements == Promise!Spec

\* Every get() is answered, with an instance or an error.
Answered == \A q \in Requests : at[q] # "idle" ~> at[q] \in {"idle", "using"}

\* When no requests come any more, every instance is closed in the end, unless
\* closeAll() has come between: it forgets what is stored while it awaits.
IdleCloses ==
  (<>[](shutting = "no" /\ \A q \in Requests : at[q] = "idle"))
    => <>[](\A i \in Instances : instance[i] # "open")

\* The comment of get(): it will "create blocking promise for future requests
\* during init", and then "Init, set cache and clean-up afterwards".
CleansUp == blocked # None ~> blocked = None
=============================================================================
