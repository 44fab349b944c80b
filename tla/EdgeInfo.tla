------------------------------ MODULE EdgeInfo ------------------------------
(***************************************************************************)
(* POST /access/translated-edge-info and the two modes of FetchJob, which  *)
(* read nodes through four stores: the existence keys in Redis, the rows   *)
(* of the cache table, the process's memory cache and the node table.      *)
(* An existence key is only a hint: it outlives the row (redis.ttl 180 s   *)
(* against cacheLifeTimeInSec 120 s) and is written before the row is.     *)
(*                                                                         *)
(* Every call that GraphAccess starts with Bluebird.map is a call of its   *)
(* own in `calls`, and runs until its next await.  A rejection settles the *)
(* request, the calls it left behind go on.  A command to Redis takes      *)
(* effect when it is sent: nobody awaits the setting of an existence key,  *)
(* and the commands of a process are carried out in order.  Left out: the  *)
(* contents of nodes and edges, metrics, duplicate ids in one body, the    *)
(* TTL entries that setTTL writes (module TtlIndex; here a row may expire  *)
(* at any time) and the job's two lists, written here and never read.      *)
(***************************************************************************)
EXTENDS Naturals, FiniteSets

CONSTANTS
    Keys,       \* node identifiers
    Right,      \* the node at the right end of the edges of a node
    Kind,       \* [request -> "info" (the route), "bump" or "resolve" (the job)]
    AlwaysAwaiting, \* config.ttl.alwaysAwaiting
    MaxEvents   \* bound: writes, expiries, evictions, disconnections and failures

Requests == DOMAIN Kind

ASSUME RightAssumption == Right \in [Keys -> Keys]
ASSUME KindAssumption == Kind \in [Requests -> {"info", "bump", "resolve"}]
ASSUME AwaitingAssumption == AlwaysAwaiting \in BOOLEAN
ASSUME BoundAssumption == MaxEvents \in Nat

VARIABLES
    node,       \* node table: "none", "bare" (no edges) or "linked"
    memory,     \* the memory cache of this process, "none" when absent
    rows,       \* keys with a row in the cache table
    exist,      \* keys with an existence key in Redis
    rightNodes, \* keys with a right-node entry in Redis
    ready,      \* redis.status = "ready"
    asked, phase, calls, missing, found,  \* the requests
    gone,       \* history: keys without a node at some time of the request
    lost,       \* history: existence keys whose row expired or was not saved
    outrun,     \* history: rows that expired after a request had read them and
                \* before it renews their existence key
    events      \* how much of the bound is used

stores == <<node, memory, rows, exist, rightNodes, ready>>
requests == <<asked, phase, missing, found>>
history == <<lost, outrun>>
vars == <<stores, requests, calls, gone, history, events>>

Contents == {"none", "bare", "linked"}
Steps == {"get", "bump", "touch", "renew", "node", "right", "other", "save"}
Settled == {"idle", "done", "failed"}

(* The types of the state. *)
TypeOK ==
    /\ node \in [Keys -> Contents] /\ memory \in [Keys -> Contents]
    /\ rows \subseteq Keys /\ exist \subseteq Keys /\ rightNodes \subseteq Keys
    /\ ready \in BOOLEAN
    /\ asked \in [Requests -> SUBSET Keys]
    /\ phase \in [Requests -> {"classify", "cached", "built"} \cup Settled]
    /\ calls \in [Requests -> SUBSET (Keys \X Steps)]
    /\ missing \in [Requests -> SUBSET Keys]
    /\ found \in [Requests -> SUBSET Keys]
    /\ gone \in [Requests -> SUBSET Keys]
    /\ lost \subseteq Keys /\ outrun \in [Requests -> SUBSET Keys]
    /\ events \in 0..MaxEvents

Init ==
    /\ node \in [Keys -> Contents]
    /\ memory = [k \in Keys |-> "none"]
    /\ rows = {} /\ exist = {} /\ rightNodes = {}
    /\ ready = TRUE
    /\ asked = [r \in Requests |-> {}]
    /\ phase = [r \in Requests |-> "idle"]
    /\ calls = [r \in Requests |-> {}]
    /\ missing = [r \in Requests |-> {}]
    /\ found = [r \in Requests |-> {}]
    /\ gone = [r \in Requests |-> {}]
    /\ lost = {} /\ outrun = [r \in Requests |-> {}]
    /\ events = 0

Active(r) == phase[r] \notin Settled
Start(step, keys) == keys \X {step}
End(r, k, step) == calls' = [calls EXCEPT ![r] = @ \ {<<k, step>>}]
Continue(r, k, step, next) ==
    calls' = [calls EXCEPT ![r] = (@ \ {<<k, step>>}) \cup {<<k, next>>}]
Add(f, r, k) == [f EXCEPT ![r] = @ \cup {k}]
Found(r, k) == IF Kind[r] = "info" THEN Add(found, r, k) ELSE found

(* The promise of r rejects; bumpCacheIfExists swallows that, once it has  *)
(* started its calls, and the job counts the batch as done.                *)
Rejected(r) ==
    [phase EXCEPT ![r] = IF ~Active(r) THEN @
                         ELSE IF Kind[r] = "bump" /\ @ = "built" THEN "done"
                         ELSE "failed"]

(* A call of r that needs Redis, or the client throws NOT_CONNECTED. *)
Throw(r, k, step) ==
    /\ ~ready
    /\ phase' = Rejected(r)
    /\ End(r, k, step)
    /\ UNCHANGED <<stores, asked, missing, found>>

----------------------------------------------------------------------------
(* A body arrives, or the job passes a batch on.  Resolving starts with a  *)
(* bump of every id; the other two ask Redis first.                        *)
Ask(r) == \E keys \in SUBSET Keys \ {{}} :
    /\ ~Active(r) /\ calls[r] = {}
    /\ asked' = [asked EXCEPT ![r] = IF Kind[r] = "resolve" THEN {} ELSE keys]
    /\ phase' = [phase EXCEPT ![r] = IF Kind[r] = "resolve" THEN "built" ELSE "classify"]
    /\ calls' = [calls EXCEPT ![r] = IF Kind[r] = "resolve" THEN Start("bump", keys) ELSE {}]
    /\ missing' = [missing EXCEPT ![r] = {}]
    /\ found' = [found EXCEPT ![r] = {}]
    /\ gone' = [gone EXCEPT ![r] = {k \in asked'[r] : node[k] = "none"}]
    /\ UNCHANGED <<stores, history, events>>

(* Broken on purpose: the client queues the command until Redis is back. *)
ClassifyWaits(r) ==
    /\ phase[r] = "classify" /\ ready
    /\ phase' = [phase EXCEPT ![r] = IF Kind[r] = "bump" THEN "built" ELSE "cached"]
    /\ calls' = [calls EXCEPT ![r] =
         Start(IF Kind[r] = "bump" THEN "bump" ELSE "get", asked[r] \cap exist)]
    /\ missing' = [missing EXCEPT ![r] = IF Kind[r] = "bump" THEN {} ELSE asked[r] \ exist]
    /\ UNCHANGED <<stores, asked, found, gone, history, events>>

(* classifyExistence; bumpCacheIfExists goes on with the cached ids only. *)
Classify(r) ==
    /\ phase[r] = "classify"
    /\ IF ready
       THEN /\ phase' = [phase EXCEPT ![r] = IF Kind[r] = "bump" THEN "built" ELSE "cached"]
            /\ calls' = [calls EXCEPT ![r] =
                 Start(IF Kind[r] = "bump" THEN "bump" ELSE "get", asked[r] \cap exist)]
            /\ missing' = [missing EXCEPT ![r] = IF Kind[r] = "bump" THEN {} ELSE asked[r] \ exist]
       ELSE phase' = Rejected(r) /\ UNCHANGED <<calls, missing>>
    /\ UNCHANGED <<stores, asked, found, gone, history, events>>

(* Broken on purpose: an id whose row is gone is reported, and not built. *)
GetRowReports(r, k) ==
    /\ <<k, "get">> \in calls[r]
    /\ IF k \in rows THEN Continue(r, k, "get", "touch") ELSE End(r, k, "get")
    /\ UNCHANGED <<stores, requests, history>>

(* getCacheByIdentifier reads the row; an id without one is built instead. *)
GetRow(r, k) ==
    /\ <<k, "get">> \in calls[r]
    /\ IF k \in rows
       THEN Continue(r, k, "get", "touch") /\ UNCHANGED missing
       ELSE End(r, k, "get") /\ missing' = Add(missing, r, k)
    /\ UNCHANGED <<stores, asked, phase, found, history>>

(* Broken on purpose: the row is taken for granted. *)
BumpTrusting(r, k) ==
    /\ <<k, "bump">> \in calls[r]
    /\ Continue(r, k, "bump", "touch")
    /\ UNCHANGED <<stores, requests, history>>

(* bumpCacheByIdentifier asks whether the row exists; resolveOrBump builds *)
(* the node when it does not.                                              *)
Bump(r, k) ==
    /\ <<k, "bump">> \in calls[r]
    /\ IF k \in rows THEN Continue(r, k, "bump", "touch")
       ELSE IF Kind[r] = "resolve" THEN Continue(r, k, "bump", "node")
       ELSE End(r, k, "bump")
    /\ UNCHANGED <<stores, requests, history>>

(* The row was there when it was read: its existence key is renewed, and   *)
(* the TTL of the row, which is awaited if alwaysAwaiting.                 *)
Touch(r, k) ==
    /\ <<k, "touch">> \in calls[r]
    /\ outrun' = [outrun EXCEPT ![r] = @ \ {k}]
    /\ \/ Throw(r, k, "touch") /\ UNCHANGED lost
       \/ /\ ready
          /\ exist' = exist \cup {k}
          /\ lost' = IF k \in outrun[r] \ rows THEN lost \cup {k} ELSE lost \ {k}
          /\ IF AlwaysAwaiting
             THEN Continue(r, k, "touch", "renew") /\ UNCHANGED found
             ELSE End(r, k, "touch") /\ found' = Found(r, k)
          /\ UNCHANGED <<node, memory, rows, rightNodes, ready, asked, phase, missing>>

(* setTTL is done. *)
Renew(r, k) ==
    /\ <<k, "renew">> \in calls[r]
    /\ End(r, k, "renew")
    /\ found' = Found(r, k)
    /\ UNCHANGED <<stores, asked, phase, missing, history>>

(* getBuiltNodes for the ids that neither cache had. *)
Build(r) ==
    /\ phase[r] = "cached" /\ calls[r] = {} /\ missing[r] # {}
    /\ phase' = [phase EXCEPT ![r] = "built"]
    /\ calls' = [calls EXCEPT ![r] = Start("node", missing[r])]
    /\ missing' = [missing EXCEPT ![r] = {}]
    /\ UNCHANGED <<stores, asked, found, gone, history, events>>

(* getNodeByIdentifier; the resolving job bypasses the memory cache. *)
Read(r, k) == IF Kind[r] # "resolve" /\ memory[k] # "none" THEN memory[k] ELSE node[k]

(* Broken on purpose: the memory cache is given the null of a missing node. *)
RememberNull(r, k) ==
    memory' = IF Kind[r] = "resolve" THEN memory
              ELSE [memory EXCEPT ![k] = IF Read(r, k) = "none" THEN "null" ELSE Read(r, k)]

Remember(r, k) ==
    memory' = IF Kind[r] = "resolve" \/ Read(r, k) = "none" THEN memory
              ELSE [memory EXCEPT ![k] = Read(r, k)]

(* fullDataResolver: a node without edges is returned and not cached. *)
ReadNode(r, k) ==
    /\ <<k, "node">> \in calls[r]
    /\ IF Read(r, k) = "linked" THEN Continue(r, k, "node", "right") ELSE End(r, k, "node")
    /\ found' = IF Read(r, k) = "bare" THEN Found(r, k) ELSE found
    /\ Remember(r, k)
    /\ UNCHANGED <<node, rows, exist, rightNodes, ready, asked, phase, missing, history>>

(* createCache sets the existence key at once, and then waits for the row. *)
CreateCache(r, k, step) ==
    /\ exist' = exist \cup {k}
    /\ lost' = lost \ {k}
    /\ Continue(r, k, step, "save")

(* getRightNodes: classifyRightNode, then a read of the node it misses.    *)
ClassifyRight(r, k) ==
    /\ <<k, "right">> \in calls[r]
    /\ \/ Throw(r, k, "right") /\ UNCHANGED lost
       \/ /\ ready /\ Right[k] \in rightNodes
          /\ CreateCache(r, k, "right")
          /\ UNCHANGED <<node, memory, rows, rightNodes, ready, requests>>
       \/ /\ ready /\ Right[k] \notin rightNodes
          /\ Continue(r, k, "right", "other")
          /\ UNCHANGED <<stores, requests, lost>>
    /\ UNCHANGED outrun

ReadRight(r, k) ==
    /\ <<k, "other">> \in calls[r]
    /\ Remember(r, Right[k])
    /\ IF ready
       THEN /\ rightNodes' = IF Read(r, Right[k]) = "none" THEN rightNodes
                             ELSE rightNodes \cup {Right[k]}
            /\ CreateCache(r, k, "other")
            /\ UNCHANGED phase
       ELSE /\ phase' = Rejected(r)
            /\ End(r, k, "other")
            /\ UNCHANGED <<rightNodes, exist, lost>>
    /\ UNCHANGED <<node, rows, ready, asked, missing, found, outrun>>

Save(r, k) ==
    /\ <<k, "save">> \in calls[r]
    /\ rows' = rows \cup {k}
    /\ lost' = lost \ {k}
    /\ found' = Found(r, k)
    /\ End(r, k, "save")
    /\ UNCHANGED <<node, memory, exist, rightNodes, ready, asked, phase, missing, outrun>>

(* The result of buildResult goes out (or 404), or the batch is done. *)
Finish(r) ==
    /\ calls[r] = {}
    /\ phase[r] = "built" \/ (phase[r] = "cached" /\ missing[r] = {})
    /\ phase' = [phase EXCEPT ![r] = "done"]
    /\ UNCHANGED <<stores, asked, calls, missing, found, gone, history, events>>

(* Bigtable or Redis fails a call; a save goes on when it was the setTTL    *)
(* beside it that failed.  Of a setTTL that is not awaited nobody hears.   *)
Fail(r, k, step) ==
    /\ step # "touch" /\ <<k, step>> \in calls[r]
    /\ events < MaxEvents /\ events' = events + 1
    /\ phase' = Rejected(r)
    /\ \/ /\ End(r, k, step)
          /\ lost' = IF step = "save" /\ k \in exist \ rows THEN lost \cup {k} ELSE lost
       \/ step = "save" /\ UNCHANGED <<calls, lost>>
    /\ UNCHANGED <<stores, asked, missing, found, gone, outrun>>

Call(r, k) ==
    /\ \/ GetRow(r, k) \/ Bump(r, k) \/ Touch(r, k) \/ Renew(r, k) \/ ReadNode(r, k)
       \/ ClassifyRight(r, k) \/ ReadRight(r, k) \/ Save(r, k)
    /\ UNCHANGED <<gone, events>>

----------------------------------------------------------------------------
(* The stores change under the requests. *)

(* A writer of any process; only one of this process drops what it         *)
(* remembers.                                                              *)
Write(k) == \E content \in Contents \ {node[k]}, drop \in BOOLEAN :
    /\ node[k] = "none" => content = "bare"
    /\ node' = [node EXCEPT ![k] = content]
    /\ memory' = IF drop THEN [memory EXCEPT ![k] = "none"] ELSE memory
    /\ gone' = [r \in Requests |-> IF Active(r) /\ content = "none" /\ k \in asked[r]
                                   THEN gone[r] \cup {k} ELSE gone[r]]
    /\ UNCHANGED <<rows, exist, rightNodes, ready, history>>

(* What expires in Redis, the cache table (TtlJob) or the memory cache. *)
ExpireKey(k) == k \in exist /\ exist' = exist \ {k} /\ lost' = lost \ {k}
                /\ UNCHANGED <<node, memory, rows, rightNodes, ready, gone, outrun>>
ExpireRight(k) == k \in rightNodes /\ rightNodes' = rightNodes \ {k}
                  /\ UNCHANGED <<node, memory, rows, exist, ready, gone, history>>
ExpireRow(k) == k \in rows /\ rows' = rows \ {k} /\ lost' = lost \cup ({k} \cap exist)
                /\ outrun' = [r \in Requests |-> outrun[r] \cup
                                 IF <<k, "touch">> \in calls[r] THEN {k} ELSE {}]
                /\ UNCHANGED <<node, memory, exist, rightNodes, ready, gone>>
Forget(k) == memory[k] # "none" /\ memory' = [memory EXCEPT ![k] = "none"]
             /\ UNCHANGED <<node, rows, exist, rightNodes, ready, gone, history>>

Disconnect == ready /\ ready' = FALSE
              /\ UNCHANGED <<node, memory, rows, exist, rightNodes, gone, history>>

Event ==
    /\ events < MaxEvents /\ events' = events + 1
    /\ \/ Disconnect
       \/ \E k \in Keys : \/ Write(k) \/ ExpireKey(k) \/ ExpireRight(k)
                         \/ ExpireRow(k) \/ Forget(k)
    /\ UNCHANGED <<requests, calls>>

Reconnect == ~ready /\ ready' = TRUE
             /\ UNCHANGED <<node, memory, rows, exist, rightNodes, requests, calls, gone, history, events>>

Answer(r) == Classify(r) \/ Build(r) \/ Finish(r) \/ \E k \in Keys : Call(r, k)

Next ==
    \/ \E r \in Requests : Ask(r) \/ Answer(r)
    \/ \E r \in Requests, k \in Keys, step \in Steps : Fail(r, k, step)
    \/ Event \/ Reconnect

(* The event loop runs every callback, and every call is answered or fails. *)
Fairness == \A r \in Requests : WF_vars(Answer(r))

Spec == Init /\ [][Next]_vars /\ Fairness

----------------------------------------------------------------------------
(* An answer has every id asked for whose node existed all the while, no   *)
(* matter what each cache held, lost or got meanwhile: what one store      *)
(* misses, edgeInfoForNodesRelatingToTranslateValues takes from the next.  *)
Complete == \A r \in Requests :
    Kind[r] = "info" /\ phase[r] = "done" => asked[r] \ gone[r] \subseteq found[r]

(* An existence key without a row is one whose row is being saved, or could *)
(* not be, or has expired: since the key was set, or between the reading   *)
(* of the row and the renewal that followed.  No path of createCache,      *)
(* getCacheByIdentifier or bumpCacheByIdentifier sets a key anew on the    *)
(* strength of a row that had gone before, or that nobody saves.           *)
KeyHasRow == \A k \in exist :
    \/ k \in rows \cup lost
    \/ \E r \in Requests : <<k, "save">> \in calls[r]

(* Every request is answered or rejected, whether Redis comes back or not  *)
(* (the guards on redis.status in RedisClient).                            *)
Answered == \A r \in Requests : Active(r) ~> ~Active(r)
=============================================================================
