# Verification of YildizDB

TLA+ models of YildizDB (a graph store on Google Bigtable, with Redis and an
in-memory cache beside it), the TLC runs that check them and the theorems that
TLAPS proves about them. Paths are relative to the root of the repository;
`src/` stands for that root in `PROJECT.json`.

## The system

An HTTP server (`lib/http`) turns requests into calls of a `Yildiz` instance, one
per *prefix* (tenant). `YildizFactory` creates the instances, keeps them in a
cache and closes them when they time out. An instance owns six Bigtable tables
and a set of timers. Nothing is a transaction: the handlers issue Bigtable calls,
often several in parallel (`Bluebird.all`), and await them, so any other handler,
timer or server process may run in between.

| Part | State | Operations | What is hard | What makes it correct |
|---|---|---|---|---|
| Metadata counters `lib/bigtable/db/Metadata.ts` | a delta per counter in memory, one row of increments, a save timer | increaseCount, decreaseCount, save, getCount, getAllCount, close | the delta is read before and reset after an await; saves overlap; answers get lost | changes are counted once; failed flushes are repeated; a closing instance loses nothing; reads are exact when nothing is under way |
| TTL index `NodeHandler.setTTL`, job `lib/bigtable/db/Lifetime.ts` | ttlTable: row per expiry time, cell per item; ttlReferenceTable: row per item | setTTL, checkReferenceAndDeleteTTL, job (scan, delete items, delete index) | renewals race each other and the jobs of several processes; limits; failures halfway | what has a TTL disappears; nothing disappears early; the index stays exact |
| Upsert `GraphAccess.runUpsertRelationWithRetry` | node rows, edge cells, popnode rows, existence keys in the cache | check nodes, create nodes, check edge, create or increase, retry | races on the same nodes and edge; retries over half-done attempts; stale cache | one upsert counts once; no edge without its nodes; bounded retries; an answer means the edge is there |
| Instance pool `lib/bigtable/YildizFactory.ts` | cache of instances with timeouts, promises of instances under way, timestamps | get, storeInstance, prolongCachetime, timeout, closeAll, resetTables | concurrent first uses; failing init; timeout against use | one living instance per prefix; none closed in use; idle ones closed |
| Node and edge store `NodeHandler.ts` | nodes and popnodes tables | create, remove, increase, decrease, read | cells on two rows without a transaction; cache invalidation | both ends of an edge agree; reads do not stay stale |
| In-memory cache `cache/InMemory.ts` | entries with a time to live, extended on every hit | get, set, del, clear | filled by readers after writers have dropped the entry | stale at most for its time |
| Redis and lookup cache `cache/RedisClient.ts`, `cache/LookupCache.ts` | existence keys, right nodes, two sorted sets | classifyExistence, setExistence, getSize | existence outlives the cached row; connection states | what is said to be cached can be read |
| Fetch job `cache/FetchJob.ts` | the sorted sets of last access and last refresh | getKeysToBeCached, jobAction | marks before it works; limits | keys in use are refreshed |
| Edge info `GraphAccess.ts` | cacheTable rows | edgeInfoForNodesRelatingToTranslateValues, fullDataResolver, bumpCacheIfExists | three stores that disagree | answers are complete |
| Life cycle `lib/bigtable/Yildiz.ts` | the instance's timers | init, resetTables, close | timers that arm themselves again after close | nothing runs on after close |
| Access control `lib/http/AccessHandler.ts` | the configured tokens | isPrefixWithTokenAllowed | wildcards against exact entries | the table in `docs/access.md` |
| Routes, schemas, metrics, translator, command line | none, or none that is read back | | | |

The parts meet in these places: an upsert calls `setTTL` for what it creates and
`increaseCount` for what it counts; the TTL job calls `decreaseCount`;
`getCacheByIdentifier` renews a TTL on every read; the factory's timeout and
`resetTables` call `Yildiz.close`, which flushes the counters.

## Modules

| Module | Models | Runs |
|---|---|---|
| `Metadata` (`MetadataProofs`) | `Metadata.ts` | Metadata |
| `TtlIndex` (`MCTtlIndex`, `TtlIndexProofs`) | `setTTL`, its callers, `Lifetime.ts` | TtlIndex, TtlRows |
| `Upsert` (`MCUpsert`, `UpsertProofs`) | `GraphAccess.ts:437-578` and what it calls in `NodeHandler.ts` | UpsertRace, UpsertFaults, UpsertStale |
| `Store` (`MCStore`, `StoreProofs`, `StorePairProofs`) | the operations of `NodeHandler.ts` behind `/node`, `/edge` and `DELETE /access`, with `InMemory.ts` | Store |
| `EdgeInfo` (`MCEdgeInfo`, `EdgeInfoProofs`) | `GraphAccess.ts:44-434` and what it calls in `NodeHandler.ts`, `LookupCache.ts`, `RedisClient.ts` | EdgeInfo, EdgeInfoBump |
| `FetchJob` (`FetchJobProofs`) | `FetchJob.ts` and the sorted sets of `RedisClient.ts` | FetchJob |
| `Pool` | abstract: what the factory promises for a prefix | by way of Factory |
| `Factory` (`FactoryProofs`) | `YildizFactory.ts`, `Yildiz.ts` as far as the pool sees it; implements `Pool` | Factory, FactoryPoison |

In all of them an await is a point between two actions, and a call that is under
way is part of the state. An action is everything the code does between two
awaits, or one call taking effect on Bigtable. Operators that begin with "Broken
on purpose" are faulty variants of the definition after them; they show that a
property notices such a fault, and no specification uses them.

**Metadata.** `counts` is `this.counts`, `stored` the row. A call of `save()` is an
element of `Calls`; `flight[c][k]` follows its increment of key `k` from "sent" over
"applied" (it is in the row) to the answer, which sets the delta to 0. `Reject`
is a failed increment, before or after it was applied; it also ends the awaiting
`save()`, as the rejection of `Bluebird.map` does, and leaves its other increments
under way. A read is two steps, the row and then the delta.

**TtlIndex.** One resource type (the four types share the code and no rows).
`entries` and `ref` are the two tables; a writer's `todo` is the set of its
unanswered calls, so that the parallel calls of a request take effect in any
order. The kinds of requests are: creation with a TTL, renewal of a cached row
(`getCacheByIdentifier`, `bumpCacheByIdentifier`) and creation without a TTL. Jobs
are the TTL jobs of several server processes.

**Upsert.** The requests of one server process (one cache). A request goes through
the stages of the source: the two existence checks, the creations and the reading
back, the edge check in depth mode, and creating or increasing. `Fail` has one
disjunct for each way a failure is treated: `createNode` returns it, `edgeExistsId`
takes it for a missing edge, `increaseEdgeDepthById` swallows it, and everything else
rejects the attempt, which starts over while its other calls are still under way
(`late`). A row exists as soon as it has any cell, as in Bigtable.

**EdgeInfo.** `node` is the node table, `memory` the in-memory cache, `rows` the cache
table, `exist` and `rightNodes` the keys in Redis, `ready` the state of its client.
A request is a body of the route ("info") or a batch of the fetch job ("bump", or
"resolve" with `resolveNodes`). `calls` holds the promises of its `Bluebird.map`, each
with the step it awaits: "get" and "bump" read the cache row, "touch" renews the
existence key of a row that was there, "renew" awaits its `setTTL` (only if
`ttl.alwaysAwaiting`), "node" reads the node, "right" and "other" its right node, "save" is
the row that `createCache` writes. A command to Redis takes effect in the step that
sends it: `setExistence` is never awaited, also with `alwaysAwaiting`, and the client
sends the commands of a process in order. Once the route has heard
that a row is missing, the id moves to `missing`, as it does to `nocache` in the code,
and `Build` starts over with the node table. A rejection settles the request
(`Rejected`), and the calls beside it go on and still write caches. Other handlers,
expiry and evictions change the stores at any moment (`Event`).

**Store.** `row` is the node table, a row being data, edge cells and depths; `pop`
the popnode table; `memory` and `known` are the two kinds of cache keys, copies of
whole rows (`gnbpf:identifier:x`) and the cells an edge was found with
(`gnbpf:identifier:x:y:r`). An operation makes its first calls in `Begin`, with the
cache entries it drops at that moment; each of its `calls` is then answered on its
own (`Goes`), takes effect on the tables (`Effect`) and may be followed by others,
as in `removeNode` ("ask", "drop"), `removeNodeComplete` ("check", "look", perhaps "read"
and "fill", then "drop" beside a removal for each popnode row) or `removeEdgeByIds`
("find" on both rows, "named", "cut" on both). Reading a row and filling the cache
are two steps. `FailWrite` and `FailRead` let any call fail, a write done or not.

**FetchJob.** `access` and `mark` are the two sorted sets, with ages in place of
scores. `at[p]` is the call of `getKeysToBeCached`, `jobAction` or the timer that the job
of process `p` awaits, and `accessed`, `refresh` and `keys` are its lists, so that the jobs
of several processes interleave between any two calls. What a batch does to the
other stores is `EdgeInfo`; here it serves its keys, or clears those without a node. A batch that
fails may have cleared some before (`FailServe`), and `NoNode` is a key that a request,
or a call left behind by a failed batch, finds without a node. A run takes no time in
the model; see Fairness.

**Factory and Pool.** One prefix. `blocked`, `cached` and `updated` are the factory's entries;
`age` is the time since `storeInstance`, relative, so that no bound on the clock is
needed. The end of an initialisation and the continuation of the requests that
await it are separate steps, with no time passing between them. `Pool` knows none of
this: it has one living instance, whether it is ready, and whom it serves. The
refinement mapping (`TheAlive`, `IsReady`, `Users`) reads them off the instances'
states and the requests; the promise is over (`IsVoid`) once `resetTables` has closed an
instance behind the factory's back or `closeAll` has begun.

## Runs

All passing runs finish with `No error has been found`; a violation run has one
property, which TLC refutes, and stands for a disagreement between the code and
its own text (`findings` in `PROJECT.json`).

| Run | Shows |
|---|---|
| Metadata | `CleanExact`, `ReadExact`, `CloseFlushes`, `EventuallyFlushed` with 2 counters, 2 saves, 2 changes, 1 failure |
| TtlIndex | `NoImmortal`, `Expires` with 2 overlapping requests and a job on one item, 1 failure |
| TtlRows | `NoImmortal` with 2 items, scans of 1 row, saves without a TTL; `SerialExact`, `SerialOnTime` while nothing overlaps |
| UpsertRace | `DepthTotals`, `NoHeadless` with 3 racing depth upserts, both directions, a popular right node, cache evictions |
| UpsertFaults | `AtMostThrice`, `RelationWritten`, `Answered` with 3 failures, late arrivals and removed nodes |
| UpsertStale | violated: an upsert trusts the cached existence of a node that was removed while nothing was under way |
| Store | `Fresh`, `EdgeSound`, `EndsAgree`, `PopOwned` with three operations of any kind on 2 nodes, evictions and failing calls |
| EdgeInfo | `Complete`, `KeyHasRow` with a request and a resolving job on 2 nodes, 2 events, `setTTL` awaited |
| EdgeInfoBump | `Answered` with a request and the bumping job, 2 events, `setTTL` not awaited, as by default |
| FetchJob | `Kept`, `Cleaned`, `QuickRunEnds`, `GoesOn` with the jobs of 2 processes and a crash, close or failing call |
| Factory | `OneInstance`, `UsedIsOpen`, `Implements` (of `Pool`), `Answered`, `IdleCloses` with failing initialisations, resets, timeouts and shutdown |
| FactoryPoison | violated: a rejected init stays in `blocked` |

`UpsertStale` has three upserts of one edge: the first creates its nodes, the second
finds them in the table and caches that they exist, and the third begins after
`removeNode`. A removal in the midst of an upsert counts as disturbing every upsert of
that node, so that the violation is due to the cached existence alone
(`NodeHandler.ts:846`): if `removeNode` dropped that entry, the property would hold on the
same instance.

Besides the findings, the code does things that no text of the repository excludes.
The properties name each of them as an exception, and hold for everything else:

- Two concurrent renewals leave two entries in ttlTable, of which the earlier
  expires the item early (`SerialExact`); the job deletes an item that was renewed
  after its scan (`SerialOnTime`).
- `save()` drops a change that falls into its await, and one that runs while
  `close()` saves flushes a delta twice (`CleanExact`).
- A depth upsert whose increment failed is answered without an edge id
  (`NodeHandler.ts:540`); a retry can raise a depth by more than one (`AtMostThrice`
  bounds it).
- A copy in the cache stays behind a `createNode` over an older row, on the right row
  of a depth, and on both rows of `removeEdgeByIds`; a cached edge stays in the name of
  the reversed edge (`Fresh`, `EdgeSound`). A hit gives such an entry its whole time
  again. `removeNode` leaves the other ends of its edges (`EndsAgree`) and their
  popnode rows (`PopOwned`).
- `PUT /edge/depth` hands its relation over as `isPopularRightNode` (`routes/edge.ts:114`).
- Keys behind the `limit` oldest of LASTACCESS_SET starve, since a batch does not
  change that order (`Kept` speaks of the first `limit`).
- A run computes its bounds anew for every batch (`FetchJob.ts:121-132`): one whose keys
  fall due as fast as it works them need never end (`QuickRunEnds` is about a run in
  which no time passes).
- An existence key outlives its row, is set before the row is saved, and is renewed
  some time after the row was read (`KeyHasRow` names these causes and excludes any
  other).
- A run or an `init()` under way arms its timer after `close()` has cleared it: the
  jobs go on (`GoesOn` says nothing against it).
- An `instanceTimeoutInSec` below 13.5 minutes is over before `prolongCachetime` can act,
  so that an instance is closed in use (`YildizFactory.ts:98`; the cfg's `CacheTime` set
  to 8 shows it).

**Bounds.** Metadata: `MaxAmount` 1 is enough because amounts are only added;
`MaxChanges` 2 lets a change fall before and into a flush; 2 calls of `save()` are as
many as can be awaited at once (the timer's and `close()`'s).
TtlIndex: `Lifetime` 3 against `Patience` 1 keeps the order of the real values (minutes
against seconds); `MaxTime` 5 or 6 allows a creation, a renewal and its expiry; two
requests, or a request and a job, are the pairs that race. Two items are what it
takes to share a row. Upsert: two nodes in both directions, as nodes only interact
through common edges; three failures exhaust the retries; one request is enough
for what retries do, as the property is about the calls of each request; a creator, a
reader that fills the cache and a victim are what `UpsertStale` takes. EdgeInfo: two
nodes that are each other's right node, so that a request touches both as either
end; 2 events are what it takes to have a row lost and a memory entry stale at
once, and requests follow each other without bound. Store: two nodes are one
edge, in both directions; three operations are a writer, a reader and one that
comes between or after, and `MaxEvents` 3 lets a failing call take the place of one.
FetchJob: two keys and a `Limit` of 1 make one key wait for the other, on either
list; two processes share the sets; `Expire` 3 is more than `Refresh` + `Interval`, as by
default. Factory:
`CacheTime` 10 and `RefreshDiff` 9 are the default's proportion; four instances are
one more than can be referred to at once. The proofs have none of these bounds.

Requests (`UpsertRace`, `UpsertStale`), items (`TtlRows`), nodes and requests (`Store`) and nodes
(`EdgeInfo`) are interchangeable in runs without temporal properties (SYMMETRY); the liveness runs use none. Deadlock is checked for `EdgeInfo`, where
requests never run out; elsewhere it is not, as a server without requests may stop,
and does at the bounds.

History variables carry what a property depends on and the code does not store:
`net`, `dirty`, `torn` and `late` in `Metadata`; `mortal`, `cut`, `deadline` and `serial` in
`TtlIndex`; `applied` and `disturbed` in `Upsert`; `gone`, `lost` and `outrun` in `EdgeInfo`; `stale`, `staleEdge`, `torn` and `orphan`
(what an exception of a property has touched) in `Store`; `waited` in `FetchJob`;
`tampered` in `Factory`.

**Fairness.** Timers fire, Bigtable and Redis answer (perhaps with an error) and a
continuation whose promise is settled runs: these are promises of Node.js and of
the client library, which has deadlines. The timers' handlers arm them again in
every case. In `FetchJob` timers are punctual and no time passes during a run. The
code promises neither: its interval is 3 s by default and 10 s in the shipped
configuration, `fetchLastAccess` 180 s and 40 s, and a run over many keys may well take
longer. So `QuickRunEnds` says only that a run comes to its end as long as no key falls
due during it, whatever the other process does to the lists; and the bound of `Kept`
grows by the length of the runs of the processes that it spans. No fairness is assumed of requests, removals, `close()` or failures.
`WF` per call or per process suffices, since nothing disables another's step
except by taking it.

## Proofs

| Theorem | Says |
|---|---|
| `MetadataProofs!TypeCorrect`, `AccountsExact`, `ReadsExact`, `CloseLosesNothing` | `TypeOK`, `CleanExact`, `ReadExact`, `CloseFlushes` |
| `TtlIndexProofs!TypeCorrect`, `NothingImmortal`, `SerialIndexExact`, `SerialInTime` | `TypeOK`, `NoImmortal`, `SerialExact`, `SerialOnTime` |
| `UpsertProofs!TypeCorrect`, `WrittenThrice`, `AcknowledgedIsWritten`, `NodesBeforeEdges`, `DepthsExact` | `TypeOK`, `AtMostThrice`, `RelationWritten`, `NoHeadless`, `DepthTotals` |
| `StoreProofs!TypeCorrect`, `CopiesFresh`, `EdgesSound` | `TypeOK`, `Fresh`, `EdgeSound` |
| `StorePairProofs!PopnodesOwned`, `EndsAlike` | `PopOwned`, `EndsAgree` |
| `EdgeInfoProofs!TypeCorrect`, `CompleteAnswers`, `KeysHaveRows` | `TypeOK`, `Complete`, `KeyHasRow` |
| `FetchJobProofs!TypeCorrect`, `KeysKept` | `TypeOK`, `Kept` |
| `FactoryProofs!TypeCorrect`, `OneInstanceAlive`, `NotClosedInUse`, `FactoryImplementsPool` | `TypeOK`, `OneInstance`, `UsedIsOpen`, `Implements` |

They hold for all values of the constants that satisfy the named assumptions of
the modules; TLC evaluates these in every run. `NotClosedInUse` and `FactoryImplementsPool` need in addition
`RoomForARequest`: the cache time leaves room above `RefreshDiff` for a request. That
is the condition a short `instanceTimeoutInSec` breaks.

*Metadata.* `CleanExact` is not inductive alone: two increments of one key could be
under way. The invariant adds that a key which nothing has disturbed has one
increment under way at most, and that it carries the delta of the key. Then an
acknowledgement drops exactly what the row has gained. `ReadExact` adds what the
reader's cell is worth as long as no increment has landed; `CloseFlushes` adds
which keys the `save()` of `close()` still has to answer for, and that a key it found
at 0 stays so unless disturbed.

*TtlIndex.* `NoImmortal` is not inductive: an item can be saved after the whole of its
`setTTL` is over, when other requests and jobs have been at its entry. The
invariant adds `PatienceInv` (no request outlives its patience), `RowsInv` (the rows a
job deletes were due when it scanned) and `SaveInv` (a request that has still to save
its item can rely on a time in the index, or on its way there, after the last
moment at which it can save). Such a time is not due, so no job has its row, and
whoever replaces it enters a later one, because `2 * Patience < Lifetime`.
`SerialExact` and `SerialOnTime` rest on `SerialInv`: there is one actor at a time
(`OneActor`), and what it has still to do to an item tells what the item's entry and
reference are (`WriterExact` for a request, `JobExact` for a job, `Exact` for all others);
`InTime` says that the reference is no earlier than any promise made.

*Upsert.* `CountInv` bounds how often a write of a request was carried out or is under
way by the attempts it has begun. `RelationInv` follows the writes of an attempt from
"create" on: what is not awaited any more is applied. Without failures, `CalmInv`
says of each stage which of its nodes a request knows to be created, and `TotalInv`
that no write is done twice, so that a depth is the number of requests that have
counted on it; that number needs finitely many requests (`UpsertAssumption`).

*Store.* The types need `FitsInv`: what a request awaits fits its operation. `Fresh` is
kept by `FreshInv`: for a node that is not stale, its copy and whatever a request has
read of it are the row, and while a write to it is under way there is neither.
`EdgeSound` is kept the same way by `Sound`, with the cells a lookup has found.
`PopOwned` rests on `Owned`: of a popnode row that nothing has orphaned, the edge is on
a left row that is not about to go, or the edge is being written, or the popnode row
is being removed. No edge is being written to a row that goes, and the left cell of one
that is being written is there unless it is awaited. `FreshInv` is needed again: what
`removeNodeComplete` removes are the edges on its copy, and that is the row.

`EndsAgree` speaks of pairs of which nothing is under way, and any number of depths,
creations and removals may have passed in any order. Its invariant `Even` therefore
speaks of what each end will have when all that is under way is done: its cells with
those still to be written and without those still to be cut (`WillHave`), and its
depth with a count of the increments and decrements it still awaits, or 0 if it is to
be cut (`WillCount`). These are the same at both ends (`Level`). That holds because a
pair which is not torn has writes, lookups or cuts under way, but never two of these
at once (`Apiece`), and because a removal cuts the same cells off both rows: it has
their names from lookups that saw no write between them, or from a cached entry that
is alike on both sides (`Matched`). A write that is sent moves both ends by as much
(`LinkBegins`), one that is done moves none (`WriteDone`), and so do cuts (`CutBegins`,
`CutDone`). The counts need that finitely many writes are under way, which is part of the
invariant and not an assumption: `Requests` may be infinite. TLC checked `EvenInv` on the
instance of `Store.cfg` before it was proved.

*EdgeInfo.* `Complete` speaks of answered requests only. `CoverInv` says of one under way
that each of its ids is found, missing, gone or has a call, and that no call can
end in silence: a request of the route has no "bump" call, and no "get" call once it
builds. `GoneInv` makes a node that is read as missing one that is known to be gone.
`Keeps` is what all calls, and their failures, have in common, so that the cover is
proved once. In `KeyHasRow`, `lost` has a key only while it is set and
its row has expired or was not saved, and `outrun` the rows that expired between a
reading and the renewal. The invariant adds that a "touch" follows a row that is
still there or was outrun (`TouchInv`) and that a request which has just arrived has no save to lose (`FreshInv`).

*FetchJob.* `Kept` bounds how long a key waits, which is about all runs so far and not
about one state. `KeptInv` reads it off the state: the scores tell how long a key has
waited since the last fault (`ScoreTells`), a key that has waited stays among the oldest of
its list (`StaysAtHead`), and some job that has not yet found it due is armed or running
and will come by in time (`Watched`). What a run has read of it holds until it is used,
whatever other processes unmark meanwhile (`RunFinds`). A batch is the first elements of
a set in an order, by rank; that each rank has its element (`RanksAre`) needs finite
sets, hence `IsFiniteSet(Keys)` in `FetchJobAssumption`. A Redis set is finite.

*Factory.* `OneInstance` rests on one creator at most, whose instance is the blocked
one. `UsedIsOpen` adds that a request which has used the instance for `h` ticks
found it no older than `RefreshDiff`, so the age is below `RefreshDiff + h` or the
entry was stored again during its use; and that a request that still awaits an
initialised instance finds it at age 0. `Implements` takes each step of the factory to one
of `Pool`: a `get()` of a new instance to `Create`, the end of `init` to `Settle`, the timeout
to `Close`, which `UsedIsOpen` allows; after `IsVoid` every step is `Void`.

Every safety property the runs check, and the refinement of `Pool`, is proved. Only
model-checked are the liveness properties: `EventuallyFlushed`, `Expires`, `Answered` of
three modules, `Cleaned`, `QuickRunEnds`, `GoesOn` and `IdleCloses`. Liveness under fairness
and ENABLED are out of this prover's reach, as is induction over data; the modules
with theorems therefore have no recursive operators. The history variables and
exceptions of the properties (see above) are part of what is proved: outside of them
the theorems say nothing. `WillBeCreated` and `CleansUp` are refuted by their runs.

## What the models leave out

- Counters that are not among the default keys. `typeof x === undefined` is never
  true, so a change of such a key makes its delta NaN, which `save` skips.
- Other server processes in `Metadata`: they add to the same row with increments,
  which commute. In `Upsert`, one process and its cache.
- Redis in `TtlIndex`: existence keys have a time of their own there.
- `getAnyTypeOfEdges` reads two rows in parallel; `EdgeInTable` reads them at once.
  Cells only appear unless a node is removed, so the answer is one of a read
  that happened somewhat earlier or later.
- The TTL of an upsert's edge is a call beside its writes; a failure of it is a
  write whose answer is lost.
- In `EdgeInfo`, what rows and nodes contain (so nothing is said of stale contents,
  which a bump keeps alive as long as somebody asks), duplicate ids in one body, the
  optional reads of `getEdgeTime`, and `la_set` and `cr_set`, which `fullDataResolver`
  clears and the route fills without reading them.
- In `Upsert` the node copies in the cache, and in `Store` the existence keys, counters
  and TTLs, which are the other modules'; edges of a node with itself; relations but one.
- How long an entry of the in-memory cache lives: it may go at any moment, or stay.
- In `Factory`, the deletion of the six tables in `resetTables`, before the close; the
  errors of `metadata.init` and of Redis, which `init` swallows; and entries that
  memory-cache finds expired before their timer has fired.

## Not modelled

- *Access control*: a decision without state over a configuration read once.
- *Routes, schemas, server, command line*: they translate requests into the calls that
  are modelled, and keep nothing. What a route does beside its call is part of the
  action it maps to (`Store!EdgeRoutes`, `EdgeInfo!Answer`).
- *Metrics*: written, and read by nothing in the program. *Translator, utilities*:
  identifiers are model values.
- Reads that change nothing and cache nothing: `getEdgesForLeftNode` and its like in
  `NodeHandler.ts`, `routes/path.ts`. `updateEdgeOnNode` is called by nothing.
- The composition of the counters with upserts and TTL jobs: they are counted per
  call, so that nothing exact can be said of their totals when calls overlap (the
  hazard at `NodeHandler.ts:445`).
- The timers of `LookupCache.ts` and `Metadata.ts` that only copy sizes into metrics.
- The creation of tables and column families in `Yildiz.init`.
