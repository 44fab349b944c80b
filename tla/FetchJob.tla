------------------------------ MODULE FetchJob ------------------------------
(***************************************************************************)
(* The fetch job of cache/FetchJob.ts, in each process that shares a Redis *)
(* prefix.  LASTACCESS_SET has when a key was last asked for (POST         *)
(* /access/translated-edge-info), CACHEREFRESH_SET when a job last took    *)
(* it; both are sorted by time, here by age in ticks.  A run takes batches *)
(* of keys until none is due, then it arms its timer again.                *)
(*                                                                         *)
(* Timers are punctual, and no time passes during a run, which the code    *)
(* does not promise: the run computes its bounds anew for every batch, so  *)
(* keys that fall due meanwhile prolong it.  Nothing is said here of runs  *)
(* that last.  What becomes of a batch is module EdgeInfo: here its keys   *)
(* are served, or cleared when they have no node.                          *)
(***************************************************************************)
EXTENDS Naturals, Sequences, FiniteSets, Functions

CONSTANTS
    Keys,      \* node identifiers, numbers: Redis sorts equal ages by name
    Processes, \* of this prefix
    Expire,    \* expireInSec, in ticks
    Refresh,   \* fetchLastAccess
    Interval,  \* fetchIntervalInSec
    Limit,     \* limit
    MaxFaults  \* bound: crashes, closes and calls that fail

ASSUME FetchJobAssumption ==
    /\ Keys \subseteq Nat /\ IsFiniteSet(Keys)
    /\ {Expire, Refresh, Interval, MaxFaults} \subseteq Nat /\ Limit \in Nat \ {0}

VARIABLES
    access,    \* LASTACCESS_SET: key -> age of its score, or Absent
    mark,      \* CACHEREFRESH_SET: key -> age of its score, or Absent
    at,        \* process -> what its job awaits
    timer,     \* process -> ticks since its timer was armed
    accessed, refresh, keys,  \* process -> the lists of getKeysToBeCached
    closed,    \* processes after FetchJob.close()
    waited,    \* history: key -> ticks at the head of LASTACCESS_SET without
               \* an access or a batch
    faults     \* how much of the bound is used

sets == <<access, mark>>
lists == <<accessed, refresh, keys>>
vars == <<sets, at, timer, lists, closed, waited, faults>>

MaxAge == Expire + Refresh + Interval
Absent == MaxAge + 1

Running == {"expire", "accessed", "refresh", "recent", "clear", "mark", "unmark", "serve"}

(* The types of the state; a list, and so a batch, has `limit` keys at most. *)
TypeOK ==
    /\ access \in [Keys -> 0..Absent] /\ mark \in [Keys -> 0..Absent]
    /\ at \in [Processes -> {"init", "armed", "off"} \cup Running]
    /\ timer \in [Processes -> 0..Interval]
    /\ \A p \in Processes : \A list \in {accessed[p], refresh[p], keys[p]} :
          list \in Seq(Keys) /\ Len(list) <= Limit
    /\ closed \subseteq Processes
    /\ waited \in [Keys -> Nat] /\ faults \in 0..MaxFaults

Init ==
    /\ access = [k \in Keys |-> Absent] /\ mark = access
    /\ at = [p \in Processes |-> "init"]
    /\ timer = [p \in Processes |-> 0]
    /\ accessed = [p \in Processes |-> <<>>] /\ refresh = accessed /\ keys = accessed
    /\ closed = {}
    /\ waited = [k \in Keys |-> 0]
    /\ faults = 0

(* The first `limit` of S in their order: ahead has what comes before each. *)
Batch(S, ahead) ==
    LET size == Cardinality(S)
    IN  [i \in 1..(IF size < Limit THEN size ELSE Limit) |->
            CHOOSE k \in S : Cardinality(ahead[k]) = i - 1]

(* zrangebyscore 0 <time> LIMIT 0 <limit>: the oldest keys of a set, down  *)
(* to an age.                                                              *)
Before(set, j, k) == set[j] > set[k] \/ (set[j] = set[k] /\ j < k)
Oldest(set, age) ==
    LET all == {k \in Keys : set[k] \in age..MaxAge}
    IN  Batch(all, [k \in all |-> {j \in all : Before(set, j, k)}])

(* zadd with the time of now, and zrem. *)
Add(set, S) == [k \in Keys |-> IF k \in S THEN 0 ELSE set[k]]
Rem(set, S) == [k \in Keys |-> IF k \in S THEN Absent ELSE set[k]]

----------------------------------------------------------------------------
(* The job.                                                                *)

Goes(p, from, to) == at[p] = from /\ at' = [at EXCEPT ![p] = to]

Forgets(p) ==
    /\ accessed' = [accessed EXCEPT ![p] = <<>>]
    /\ refresh' = [refresh EXCEPT ![p] = <<>>]
    /\ keys' = [keys EXCEPT ![p] = <<>>]

(* resetJob: the run is over. *)
Rests(p, from) ==
    /\ Goes(p, from, "armed")
    /\ timer' = [timer EXCEPT ![p] = 0]
    /\ Forgets(p)

(* init() has its GraphAccess. *)
Start(p) ==
    /\ Rests(p, "init")
    /\ UNCHANGED <<sets, closed, waited, faults>>

Fire(p) ==
    /\ timer[p] = Interval
    /\ Goes(p, "armed", "expire")
    /\ UNCHANGED <<sets, timer, lists, closed, waited, faults>>

ClearExpired(p) ==
    /\ Goes(p, "expire", "accessed")
    /\ access' = Rem(access, {k \in Keys : access[k] >= Expire})
    /\ UNCHANGED <<mark, timer, lists, closed, waited, faults>>

GetLastAccess(p) ==
    /\ Goes(p, "accessed", "refresh")
    /\ accessed' = [accessed EXCEPT ![p] = Oldest(access, Refresh)]
    /\ UNCHANGED <<sets, timer, refresh, keys, closed, waited, faults>>

GetCacheRefresh(p) ==
    /\ Goes(p, "refresh", "recent")
    /\ refresh' = [refresh EXCEPT ![p] = Oldest(mark, Refresh)]
    /\ UNCHANGED <<sets, timer, accessed, keys, closed, waited, faults>>

(* Broken on purpose: a mark counts as recent for one interval more. *)
RecentLonger == {k \in Keys : mark[k] <= Refresh + Interval}

(* getRecentCacheRefresh. *)
Recent == {k \in Keys : mark[k] <= Refresh}

(* Broken on purpose: keys that were just taken are taken again. *)
DueAgain(p) ==
    LET all == accessed[p] \o refresh[p]
    IN  SubSeq(all, 1, IF Len(all) < Limit THEN Len(all) ELSE Limit)

(* Broken on purpose: the two lists together have more than the limit. *)
DueOfBoth(p) == SelectSeq(accessed[p] \o refresh[p], LAMBDA k : k \notin Recent)

(* The batch: the keys of both lists, twice those on both, that are not recent. *)
Due(p) ==
    LET all == accessed[p] \o refresh[p]
        due == {i \in DOMAIN all : all[i] \notin Recent}
        first == Batch(due, [i \in due |-> {h \in due : h < i}])
    IN  [i \in DOMAIN first |-> all[first[i]]]

(* getRecentCacheRefresh completes the lists: there is nothing to do, or   *)
(* old marks to clear, or keys to take.                                    *)
GetRecent(p) ==
    /\ \/ /\ accessed[p] = <<>> /\ refresh[p] # <<>>
          /\ Goes(p, "recent", "clear")
          /\ UNCHANGED <<timer, lists>>
       \/ /\ accessed[p] # <<>> /\ Due(p) # <<>>
          /\ Goes(p, "recent", "mark")
          /\ keys' = [keys EXCEPT ![p] = Due(p)]
          /\ refresh' = [refresh EXCEPT ![p] = <<>>]
          /\ UNCHANGED <<timer, accessed>>
       \/ /\ IF accessed[p] = <<>> THEN refresh[p] = <<>> ELSE Due(p) = <<>>
          /\ Rests(p, "recent")
    /\ UNCHANGED <<sets, closed, waited, faults>>

(* Broken on purpose: the marks of keys nobody asks for stay. *)
ClearNothing(p) ==
    /\ Rests(p, "clear")
    /\ UNCHANGED <<sets, closed, waited, faults>>

ClearRefresh(p) ==
    /\ Rests(p, "clear")
    /\ mark' = Rem(mark, Range(refresh[p]))
    /\ UNCHANGED <<access, closed, waited, faults>>

(* setCacheRefresh marks the batch before it is worked on. *)
Mark(p) ==
    /\ mark' = Add(mark, Range(keys[p]))
    /\ Goes(p, "mark", IF Range(keys[p]) \subseteq Range(accessed[p]) THEN "serve" ELSE "unmark")
    /\ UNCHANGED <<access, timer, lists, closed, waited, faults>>

(* Keys that came from CACHEREFRESH_SET alone lose their mark, and stay in *)
(* the batch.                                                              *)
Unmark(p) ==
    /\ Goes(p, "unmark", "serve")
    /\ mark' = Rem(mark, Range(keys[p]) \ Range(accessed[p]))
    /\ UNCHANGED <<access, timer, lists, closed, waited, faults>>

(* buildAndCacheNodes clears the keys it finds no node for (fullDataResolver); *)
(* bumpCacheIfExists clears none.  Then jobAction starts over.             *)
Serve(p) ==
    /\ Goes(p, "serve", "expire")
    /\ \E gone \in SUBSET Range(keys[p]) :
          access' = Rem(access, gone) /\ mark' = Rem(mark, gone)
    /\ waited' = [k \in Keys |-> IF k \in Range(keys[p]) THEN 0 ELSE waited[k]]
    /\ Forgets(p)
    /\ UNCHANGED <<timer, closed, faults>>

Step(p) ==
    \/ Start(p) \/ Fire(p) \/ ClearExpired(p) \/ GetLastAccess(p) \/ GetCacheRefresh(p)
    \/ GetRecent(p) \/ ClearRefresh(p) \/ Mark(p) \/ Unmark(p) \/ Serve(p)

----------------------------------------------------------------------------
(* What happens to it.                                                     *)

Fault == faults < MaxFaults /\ faults' = faults + 1

(* Broken on purpose: the error ends the job. *)
FailCallEnds(p) ==
    /\ Fault
    /\ at[p] \in Running \ {"serve"} /\ at' = [at EXCEPT ![p] = "off"]
    /\ UNCHANGED <<sets, timer, lists, closed, waited>>

(* Redis fails a call of getKeysToBeCached, or is not connected; a write   *)
(* may have been done.                                                     *)
FailCall(p) ==
    /\ Fault
    /\ at[p] \in Running \ {"serve"} /\ Rests(p, at[p])
    /\ mark' \in {mark} \cup (IF at[p] = "mark" THEN {Add(mark, Range(keys[p]))} ELSE {})
    /\ UNCHANGED <<access, closed, waited>>

(* The batch fails, when some of its keys may have been cleared: the job   *)
(* goes on with the next.                                                  *)
FailServe(p) ==
    /\ Fault
    /\ Goes(p, "serve", "expire")
    /\ \E gone \in SUBSET Range(keys[p]) :
          access' = Rem(access, gone) /\ mark' = Rem(mark, gone)
    /\ Forgets(p)
    /\ UNCHANGED <<timer, closed, waited>>

(* close() clears the timer it knows: a run, or an init(), under way arms  *)
(* another.                                                                *)
Close(p) ==
    /\ Fault
    /\ p \notin closed /\ closed' = closed \cup {p}
    /\ at' = IF at[p] = "armed" THEN [at EXCEPT ![p] = "off"] ELSE at
    /\ UNCHANGED <<sets, timer, lists, waited>>

(* A process ends at any point, and another takes its place. *)
Crash(p) ==
    /\ Fault
    /\ at' = [at EXCEPT ![p] = "init"]
    /\ timer' = [timer EXCEPT ![p] = 0]
    /\ Forgets(p)
    /\ closed' = closed \ {p}
    /\ UNCHANGED <<sets, waited>>

(* bumpTTL: setLastAccessFireAndForget of a request. *)
BumpTTL(k) ==
    /\ access' = Add(access, {k})
    /\ waited' = [waited EXCEPT ![k] = 0]
    /\ UNCHANGED <<mark, at, timer, lists, closed, faults>>

(* fullDataResolver finds no node, for a request or for a call that goes on *)
(* after its batch has failed.                                             *)
NoNode(k) ==
    /\ access' = Rem(access, {k}) /\ mark' = Rem(mark, {k})
    /\ waited' = [waited EXCEPT ![k] = 0]
    /\ UNCHANGED <<at, timer, lists, closed, faults>>

(* Ages are capped where nothing tells them apart: access times that expire *)
(* go before they are compared.                                            *)
Older(set, cap) == [k \in Keys |-> IF set[k] < cap THEN set[k] + 1 ELSE set[k]]
AtHead(k) == access[k] # Absent
    /\ Cardinality({j \in Keys : access[j] # Absent /\ Before(access, j, k)}) < Limit

Tick ==
    /\ \A p \in Processes : at[p] \notin Running /\ (at[p] = "armed" => timer[p] < Interval)
    /\ access' = Older(access, Expire) /\ mark' = Older(mark, MaxAge)
    /\ timer' = [p \in Processes |-> IF at[p] = "armed" THEN timer[p] + 1 ELSE 0]
    /\ waited' = [k \in Keys |-> IF AtHead(k) /\ \E p \in Processes : at[p] = "armed"
                                 THEN waited[k] + 1 ELSE 0]
    /\ UNCHANGED <<at, lists, closed, faults>>

Next ==
    \/ \E p \in Processes : Step(p) \/ FailCall(p) \/ FailServe(p) \/ Close(p) \/ Crash(p)
    \/ \E k \in Keys : BumpTTL(k) \/ NoNode(k)
    \/ Tick

(* Timers fire, calls are answered, time passes; nobody need ask for a key. *)
Fairness == WF_vars(Tick) /\ \A p \in Processes : WF_vars(Step(p))

Spec == Init /\ [][Next]_vars /\ Fairness

----------------------------------------------------------------------------
(* Properties.                                                             *)

(* A key is served once a period: as long as it is among the `limit` keys  *)
(* that were not asked for longest, some job takes it within               *)
(* fetchLastAccess and one interval of its last access or batch, whatever  *)
(* the runs of the processes do to each other's lists and marks between    *)
(* the reads of getKeysToBeCached and its writes.  Each fault costs one    *)
(* period more: a mark is set before the work (FetchJob.ts:140-182).       *)
Kept == \A k \in Keys : waited[k] <= (faults + 1) * (Refresh + Interval)

(* A key that is in no LASTACCESS_SET any more loses its mark, unless the  *)
(* jobs are closed (FetchJob.ts:152-159, :176-182).                        *)
Cleaned == \A k \in Keys :
    []<>(mark[k] = Absent \/ access[k] # Absent \/ \A p \in Processes : at[p] = "off")

(* A run in which no time passes ends: it takes no key for ever, not even  *)
(* one that another process unmarks or clears, or that is asked for again  *)
(* and again (FetchJob.ts:161-170).  One that takes time need not end:     *)
(* keys may fall due as fast as it works (FetchJob.ts:109, :121-132).      *)
QuickRunEnds == \A p \in Processes : []<>(at[p] \notin Running)

(* The job goes on for ever until it is closed, whatever fails in a run    *)
(* (FetchJob.ts:76-82, :91-104).                                           *)
GoesOn == \A p \in Processes : []<>(p \in closed \/ at[p] = "expire")
=============================================================================
