------------------------------ MODULE TtlIndex ------------------------------
(***************************************************************************)
(* The time-to-live index: NodeHandler.setTTL and its callers against the  *)
(* job of lib/bigtable/db/Lifetime.ts.                                     *)
(*                                                                         *)
(* The TTL of an item (a node row, an edge cell, a popnode row or a cache  *)
(* row) is kept in two tables: ttlTable has a row per expiry time with a   *)
(* cell per item (`entries`), ttlReferenceTable has a row per item with    *)
(* the expiry time entered last (`ref`).  setTTL is not a transaction: it  *)
(* computes the time, reads the reference, deletes the old entry, and then *)
(* inserts the new entry and the new reference in parallel, all while the  *)
(* item itself is being saved.  The job scans the due entries, deletes     *)
(* their items, and then the entries and the references in parallel.       *)
(* Several server processes run requests and the job on the same tables.   *)
(***************************************************************************)
EXTENDS Integers, FiniteSets

CONSTANTS Items,     \* what can expire: rows, or cells, of one resource type
          Writers,   \* the requests that can be under way at once
          Jobs,      \* the processes with ttl.active, one job each
          NoRef,     \* no row in ttlReferenceTable
          Lifetime,  \* ttl.lifeTimeInSec, in clock ticks
          Patience,  \* a request ends within this many ticks of its start
          Limit,     \* promiseConcurrency: rows of one scan
          Kinds,     \* the requests there are: see Begin
          MaxTime,   \* bound: last expiry time that is handed out
          MaxFails   \* bound: calls of requests and jobs that fail

ASSUME TtlAssumption ==
  /\ Lifetime \in Nat /\ Patience \in Nat /\ 2 * Patience < Lifetime
  /\ NoRef \notin Nat
  /\ Limit \in Nat \ {0}
  /\ Kinds \subseteq {"create", "bump", "plain"}
  /\ MaxTime \in Nat /\ MaxFails \in Nat

VARIABLES
  now,      \* the clock
  present,  \* the items that are in their table
  entries,  \* ttlTable: the pairs <<item, time>>
  ref,      \* ttlReferenceTable: item -> time or NoRef
  kind, item, start,       \* writer -> the request, its item, when it began,
  old, todo,               \* the entry to delete and the calls unanswered
  doomed, rows, refs,      \* job -> the items, ttlTable rows and reference rows
                           \* that it has still to delete
  fails,       \* how much of the bound is used
  mortal,      \* history: the items that were last saved with a TTL
  cut,         \* history: the items that lost a call of setTTL to a failure
  deadline,    \* history: item -> the latest expiry time a request gave it
  serial       \* history: requests, removals and job runs never overlapped

tables == <<present, entries, ref>>
writers == <<kind, item, start, old, todo>>
jobs == <<doomed, rows, refs>>
vars == <<now, tables, writers, jobs, fails, mortal, cut, deadline, serial>>

Times == 0..MaxTime

Busy(w) == todo[w] # {}
Working(j) == doomed[j] \cup rows[j] \cup refs[j] # {}
Quiet == /\ \A w \in Writers : ~Busy(w)
         /\ \A j \in Jobs : ~Working(j)

\* The expiry time a request hands out: setTTL computes it when it is called.
Due(w) == start[w] + Lifetime

Init ==
  /\ now = 0
  /\ present = {} /\ entries = {}
  /\ ref = [i \in Items |-> NoRef]
  /\ kind \in [Writers -> {"bump"}]
  /\ item \in [Writers -> Items]
  /\ start = [w \in Writers |-> 0]
  /\ old = [w \in Writers |-> NoRef]
  /\ todo = [w \in Writers |-> {}]
  /\ doomed = [j \in Jobs |-> {}]
  /\ rows = [j \in Jobs |-> {}]
  /\ refs = [j \in Jobs |-> {}]
  /\ fails = 0
  /\ mortal = {} /\ cut = {}
  /\ deadline = [i \in Items |-> 0]
  /\ serial = TRUE

-----------------------------------------------------------------------------
(* Requests.                                                               *)


Latest(s, t) == IF s < t THEN t ELSE s

\* The calls a request issues in its first synchronous stretch.
FirstCalls(k) ==
  CASE k = "create" -> {"save", "read"}  \* createNode, createCache, or a cell of
                                         \* createEdgeWithId, with a TTL
    [] k = "bump"   -> {"read"}          \* getCacheByIdentifier has found the row
    [] k = "plain"  -> {"save"}          \* the same creations without a TTL

Begin(w, i, k) ==
  /\ ~Busy(w)
  /\ now + Lifetime <= MaxTime
  /\ k = "bump" => i \in present
  /\ serial' = (serial /\ Quiet)
  /\ kind' = [kind EXCEPT ![w] = k]
  /\ item' = [item EXCEPT ![w] = i]
  /\ start' = [start EXCEPT ![w] = now]
  /\ todo' = [todo EXCEPT ![w] = FirstCalls(k)]
  /\ UNCHANGED <<now, tables, old, jobs, fails, mortal, cut, deadline>>

\* The call c of w is answered and the calls in next are issued; a request with
\* nothing left to wait for has kept what it was asked for.
Answered(w, c, next) ==
  /\ c \in todo[w]
  /\ todo' = [todo EXCEPT ![w] = (@ \ {c}) \cup next]
  /\ deadline' = IF todo[w] = {c} /\ next = {} /\ kind[w] # "plain"
                 THEN [deadline EXCEPT ![item[w]] = Latest(@, Due(w))]
                 ELSE deadline
  /\ UNCHANGED <<now, kind, item, start, jobs, fails, cut, serial>>

\* The item is written to its table.
Save(w) ==
  /\ Answered(w, "save", {})
  /\ present' = present \cup {item[w]}
  /\ mortal' = IF kind[w] = "plain" THEN mortal \ {item[w]} ELSE mortal \cup {item[w]}
  /\ UNCHANGED <<entries, ref, old>>

\* Broken on purpose: the old entry is not deleted.
ReadRefKeep(w) ==
  /\ Answered(w, "read", {"enter", "refer"})
  /\ UNCHANGED <<tables, old, mortal>>

\* checkReferenceAndDeleteTTL reads the reference; without one it is done.
ReadRef(w) ==
  /\ Answered(w, "read", IF ref[item[w]] = NoRef THEN {"enter", "refer"} ELSE {"drop"})
  /\ old' = [old EXCEPT ![w] = ref[item[w]]]
  /\ UNCHANGED <<tables, mortal>>

\* It deletes the entry the reference told of.
DropOld(w) ==
  /\ Answered(w, "drop", {"enter", "refer"})
  /\ entries' = entries \ {<<item[w], old[w]>>}
  /\ old' = [old EXCEPT ![w] = NoRef]
  /\ UNCHANGED <<present, ref, mortal>>

\* setTTL inserts the entry and the reference in parallel.
Enter(w) ==
  /\ Answered(w, "enter", {})
  /\ entries' = entries \cup {<<item[w], Due(w)>>}
  /\ UNCHANGED <<present, ref, old, mortal>>

Refer(w) ==
  /\ Answered(w, "refer", {})
  /\ ref' = [ref EXCEPT ![item[w]] = Due(w)]
  /\ UNCHANGED <<present, entries, old, mortal>>

\* A call fails or its process dies: nothing is done after it; what the request
\* has issued besides still arrives.
FailCall(w, c) ==
  /\ c \in todo[w]
  /\ fails < MaxFails
  /\ fails' = fails + 1
  /\ todo' = [todo EXCEPT ![w] = @ \ {c}]
  /\ cut' = IF c \in {"read", "drop", "enter"} THEN cut \cup {item[w]} ELSE cut
  /\ UNCHANGED <<now, tables, kind, item, start, old, jobs, mortal, deadline, serial>>

\* removeNode, removeEdgeByIds: the item goes, its entry and reference stay.
Remove(i) ==
  /\ i \in present
  /\ serial' = (serial /\ Quiet)
  /\ present' = present \ {i}
  /\ UNCHANGED <<now, entries, ref, writers, jobs, fails, mortal, cut, deadline>>

-----------------------------------------------------------------------------
(* The job.                                                                *)

\* Broken on purpose: a tick too early.
DueRowsEarly == {e[2] : e \in {x \in entries : x[2] <= now + 1}}

DueRows == {e[2] : e \in {x \in entries : x[2] <= now}}

\* Broken on purpose: one row short of the limit.
ScannedShort == {t \in DueRows : Cardinality({s \in DueRows : s < t}) < Limit - 1}

\* getTTLIds: the first Limit rows up to now, in the order of their times.
Scanned == {t \in DueRows : Cardinality({s \in DueRows : s < t}) < Limit}

\* Broken on purpose: one cell of each row is deleted, the row with all of them.
ScanFirstCell(j) ==
  /\ ~Working(j)
  /\ Scanned # {}
  /\ serial' = (serial /\ Quiet)
  /\ LET first == {CHOOSE e \in entries : e[2] = t : t \in Scanned} IN
       /\ doomed' = [doomed EXCEPT ![j] = {e[1] : e \in first}]
       /\ refs' = [refs EXCEPT ![j] = {e[1] : e \in first}]
  /\ rows' = [rows EXCEPT ![j] = Scanned]
  /\ UNCHANGED <<now, tables, writers, fails, mortal, cut, deadline>>

\* job() has the answer of its scan, and issues the deletion of the items.
Scan(j) ==
  /\ ~Working(j)
  /\ Scanned # {}
  /\ serial' = (serial /\ Quiet)
  /\ LET expired == {e \in entries : e[2] \in Scanned} IN
       /\ doomed' = [doomed EXCEPT ![j] = {e[1] : e \in expired}]
       /\ refs' = [refs EXCEPT ![j] = {e[1] : e \in expired}]
  /\ rows' = [rows EXCEPT ![j] = Scanned]
  /\ UNCHANGED <<now, tables, writers, fails, mortal, cut, deadline>>

DeleteItem(j, i) ==
  /\ i \in doomed[j]
  /\ present' = present \ {i}
  /\ doomed' = [doomed EXCEPT ![j] = @ \ {i}]
  /\ UNCHANGED <<now, entries, ref, writers, rows, refs, fails, mortal, cut, deadline, serial>>

\* Broken on purpose: entries are deleted in parallel with the items.
DeleteRowAtOnce(j, t) ==
  /\ t \in rows[j]
  /\ entries' = {e \in entries : e[2] # t}
  /\ rows' = [rows EXCEPT ![j] = @ \ {t}]
  /\ UNCHANGED <<now, present, ref, writers, doomed, refs, fails, mortal, cut, deadline, serial>>

\* The second Bluebird.all: whole ttlTable rows and reference rows, only after
\* every item is deleted.
DeleteRow(j, t) ==
  /\ doomed[j] = {} /\ t \in rows[j]
  /\ entries' = {e \in entries : e[2] # t}
  /\ rows' = [rows EXCEPT ![j] = @ \ {t}]
  /\ UNCHANGED <<now, present, ref, writers, doomed, refs, fails, mortal, cut, deadline, serial>>

\* Broken on purpose: the reference is emptied, not deleted.
DeleteRefEmptied(j, i) ==
  /\ doomed[j] = {} /\ i \in refs[j]
  /\ ref' = [ref EXCEPT ![i] = -1]
  /\ refs' = [refs EXCEPT ![j] = @ \ {i}]
  /\ UNCHANGED <<now, present, entries, writers, doomed, rows, fails, mortal, cut, deadline, serial>>

DeleteRef(j, i) ==
  /\ doomed[j] = {} /\ i \in refs[j]
  /\ ref' = [ref EXCEPT ![i] = NoRef]
  /\ refs' = [refs EXCEPT ![j] = @ \ {i}]
  /\ UNCHANGED <<now, present, entries, writers, doomed, rows, fails, mortal, cut, deadline, serial>>

\* The job rejects, or its process dies; the next scan starts over.
FailJob(j) ==
  /\ Working(j)
  /\ fails < MaxFails
  /\ fails' = fails + 1
  /\ doomed' = [doomed EXCEPT ![j] = {}]
  /\ rows' = [rows EXCEPT ![j] = {}]
  /\ refs' = [refs EXCEPT ![j] = {}]
  /\ UNCHANGED <<now, tables, writers, mortal, cut, deadline, serial>>

-----------------------------------------------------------------------------
\* Time passes, but not so much that a request outlives its patience.
Tick ==
  /\ now < MaxTime
  /\ \A w \in Writers : Busy(w) => now < start[w] + Patience
  /\ now' = now + 1
  /\ UNCHANGED <<tables, writers, jobs, fails, mortal, cut, deadline, serial>>

WriterStep(w) == Save(w) \/ ReadRef(w) \/ DropOld(w) \/ Enter(w) \/ Refer(w)

JobStep(j) ==
  \/ Scan(j)
  \/ \E i \in Items : DeleteItem(j, i) \/ DeleteRef(j, i)
  \/ \E t \in rows[j] : DeleteRow(j, t)

Next ==
  \/ \E w \in Writers, i \in Items, k \in Kinds : Begin(w, i, k)
  \/ \E w \in Writers : WriterStep(w) \/ \E c \in todo[w] : FailCall(w, c)
  \/ \E i \in Items : Remove(i)
  \/ \E j \in Jobs : JobStep(j) \/ FailJob(j)
  \/ Tick

Spec == Init /\ [][Next]_vars

\* Time passes, calls are answered, and every job runs again and again; requests
\* may never come.
Fairness ==
  /\ WF_vars(Tick)
  /\ \A w \in Writers : WF_vars(WriterStep(w))
  /\ \A j \in Jobs : WF_vars(JobStep(j))

FairSpec == Spec /\ Fairness

-----------------------------------------------------------------------------
(* Properties                                                              *)

Calls == {"save", "read", "drop", "enter", "refer"}

\* The type of the state.
TypeOK ==
  /\ now \in Nat
  /\ present \subseteq Items /\ mortal \subseteq Items /\ cut \subseteq Items
  /\ entries \subseteq Items \X Nat
  /\ ref \in [Items -> Nat \cup {NoRef}]
  /\ kind \in [Writers -> {"create", "bump", "plain"}]
  /\ item \in [Writers -> Items]
  /\ start \in [Writers -> Nat]
  /\ old \in [Writers -> Nat \cup {NoRef}]
  /\ todo \in [Writers -> SUBSET Calls]
  /\ doomed \in [Jobs -> SUBSET Items]
  /\ rows \in [Jobs -> SUBSET Nat]
  /\ refs \in [Jobs -> SUBSET Items]
  /\ fails \in Nat
  /\ deadline \in [Items -> Nat]
  /\ serial \in BOOLEAN

\* w will still enter an expiry time for i.
WillEnter(w, i) == item[w] = i /\ todo[w] \cap {"read", "drop", "enter"} # {}

\* i has an entry that no job is about to delete before it has deleted i.
Indexed(i) == \E e \in entries :
  e[1] = i /\ \A j \in Jobs : e[2] \in rows[j] => i \in doomed[j]

\* An item saved with a TTL cannot outlive it for ever: it has an entry in the
\* index that leads a job to it, or a request will still enter one.  That holds
\* however requests, renewals, removals and the jobs of several processes overlap
\* and wherever a job stops, unless a call of setTTL for this very item failed:
\* setTTL deletes the old entry before it inserts the new one.
NoImmortal ==
  \A i \in (present \cap mortal) \ cut :
    Indexed(i) \/ \E w \in Writers : WillEnter(w, i)

\* Every item saved with a TTL disappears, or loses its TTL to a failed call or a
\* later save without one.
Expires == \A i \in Items :
  i \in present \cap mortal ~> i \notin present \cap mortal \/ i \in cut

\* While requests and jobs come one after the other, the index is exact between
\* them: one entry per reference, at the same time, and no other entry.
SerialExact ==
  (serial /\ Quiet /\ fails = 0) =>
    entries = {<<i, ref[i]>> : i \in {k \in Items : ref[k] # NoRef}}

\* What a job is about to delete is due by every request that was answered.  A
\* renewal between the scan and the deletion breaks it (Lifetime.ts:280).
OnlyExpired ==
  fails = 0 => \A j \in Jobs : \A i \in doomed[j] \cap present : deadline[i] <= now

\* While requests and jobs come one after the other, renewing an item, by way of
\* the index, is enough to keep it from being deleted early.
SerialOnTime == serial => OnlyExpired
=============================================================================
