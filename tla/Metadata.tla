------------------------------ MODULE Metadata ------------------------------
(***************************************************************************)
(* The counters of lib/bigtable/db/Metadata.ts.  Request handlers and the  *)
(* TTL job change a delta in memory (increaseCount, decreaseCount); a      *)
(* timer and close() flush the deltas to one Bigtable row with one         *)
(* increment per key; getCount and getAllCount add the row to the delta.   *)
(*                                                                         *)
(* A call of save() reads the delta of a key, awaits row.increment and     *)
(* only then sets the delta to 0, so anything may happen in between.  A    *)
(* rejected increment rejects the whole save() while the increments of the *)
(* other keys are still under way.                                         *)
(***************************************************************************)
EXTENDS Integers

CONSTANTS Keys,        \* the tracked counters ("nodes", "edges", "ttls")
          Calls,       \* the calls of save() that may be under way at once
          NoKey,       \* the reader is not reading
          MaxAmount,   \* bound: largest amount of one change
          MaxChanges,  \* bound: changes of the deltas in one behaviour
          MaxFails     \* bound: increments that fail in one behaviour

ASSUME MetadataAssumption ==
  /\ NoKey \notin Keys
  /\ MaxAmount \in Nat /\ MaxChanges \in Nat /\ MaxFails \in Nat

VARIABLES
  counts,   \* key -> delta in memory
  stored,   \* key -> cell of the metadata row
  awaiter,  \* call of save() -> who awaits it
  flight,   \* call, key -> the increment: "none", "sent" or "applied"
  sent,     \* call, key -> the value of that increment
  timer,    \* the save timer: "armed", "saving" (its callback runs) or "off"
  phase,    \* close(): "open", "closing" or "closed"
  reader,   \* a getCount in progress: the key, and the cell it was answered
  changes, fails,  \* how much of the bounds is used
  net,      \* history: key -> sum of all changes ever asked for
  dirty,    \* history: the keys of which an increment under way has met a
            \*          change, a second increment or the loss of its answer
  torn,     \* history: an increment of reader.key landed after its row read
  late      \* history: a change or a failure after close() began

save == <<awaiter, flight, sent>>
code == <<counts, stored, save, timer, phase, reader>>
history == <<net, dirty, torn, late>>
vars == <<code, changes, fails, history>>

NoRead == [key |-> NoKey, raw |-> 0]

InFlight(c, k) == flight[c][k] # "none"
Flushing(k) == \E c \in Calls : InFlight(c, k)
Running(c) == awaiter[c] # "none" \/ \E k \in Keys : InFlight(c, k)

Init ==
  /\ counts = [k \in Keys |-> 0]
  /\ stored = [k \in Keys |-> 0]
  /\ awaiter = [c \in Calls |-> "none"]
  /\ flight = [c \in Calls |-> [k \in Keys |-> "none"]]
  /\ sent = [c \in Calls |-> [k \in Keys |-> 0]]
  /\ timer = "armed"
  /\ phase = "open"
  /\ reader = NoRead
  /\ changes = 0 /\ fails = 0
  /\ net = [k \in Keys |-> 0]
  /\ dirty = {}
  /\ torn = FALSE
  /\ late = FALSE

-----------------------------------------------------------------------------
(* increaseCount and decreaseCount: one synchronous assignment.            *)

Change(k, amount) ==
  /\ changes < MaxChanges
  /\ changes' = changes + 1
  /\ counts' = [counts EXCEPT ![k] = @ + amount]
  /\ net' = [net EXCEPT ![k] = @ + amount]
  /\ dirty' = IF Flushing(k) THEN dirty \cup {k} ELSE dirty
  /\ late' = (late \/ phase # "open")
  /\ UNCHANGED <<stored, save, timer, phase, reader, fails, torn>>

IncreaseCount(k, amount) == Change(k, amount)
DecreaseCount(k, amount) == Change(k, -amount)

-----------------------------------------------------------------------------
(* save(): every key with a delta gets an increment of its own.            *)

StartSave(c, by) ==
  /\ ~Running(c)
  /\ awaiter' = [awaiter EXCEPT ![c] = by]
  /\ flight' = [flight EXCEPT ![c] =
                  [k \in Keys |-> IF counts[k] = 0 THEN "none" ELSE "sent"]]
  /\ sent' = [sent EXCEPT ![c] = counts]
  /\ dirty' = dirty \cup {k \in Keys : counts[k] # 0 /\ Flushing(k)}
  /\ UNCHANGED <<counts, stored, reader, changes, fails, net, torn, late>>

\* The callback of the save timer.
IntervalSave(c) ==
  /\ timer = "armed"
  /\ timer' = "saving"
  /\ StartSave(c, "interval")
  /\ UNCHANGED phase

\* close() begins with a save() of its own.
Close(c) ==
  /\ phase = "open"
  /\ phase' = "closing"
  /\ StartSave(c, "close")
  /\ UNCHANGED timer

\* What the awaiter of a save() does once it resolves or rejects: the timer
\* callback arms the timer again in both cases, close() clears it.
Awaken(by) ==
  /\ timer' = CASE by = "interval" -> "armed"
                [] by = "close" /\ timer = "armed" -> "off"
                [] OTHER -> timer
  /\ phase' = IF by = "close" THEN "closed" ELSE phase

\* Bigtable applies the increment.
Apply(c, k) ==
  /\ flight[c][k] = "sent"
  /\ stored' = [stored EXCEPT ![k] = @ + sent[c][k]]
  /\ flight' = [flight EXCEPT ![c][k] = "applied"]
  /\ torn' = (torn \/ reader.key = k)
  /\ UNCHANGED <<counts, awaiter, sent, timer, phase, reader, changes, fails, net, dirty, late>>

\* The answer arrives: the delta is set to 0, whatever it is by now.
Acknowledge(c, k) ==
  /\ flight[c][k] = "applied"
  /\ counts' = [counts EXCEPT ![k] = 0]
  /\ flight' = [flight EXCEPT ![c][k] = "none"]
  /\ UNCHANGED <<stored, awaiter, sent, timer, phase, reader, changes, fails, history>>

\* Broken on purpose: the delta is reset whether or not the increment succeeded.
RejectAndReset(c, k) ==
  /\ fails < MaxFails
  /\ fails' = fails + 1
  /\ InFlight(c, k)
  /\ counts' = [counts EXCEPT ![k] = 0]
  /\ flight' = [flight EXCEPT ![c][k] = "none"]
  /\ awaiter' = [awaiter EXCEPT ![c] = "none"]
  /\ dirty' = IF flight[c][k] = "applied" THEN dirty \cup {k} ELSE dirty
  /\ late' = (late \/ phase # "open")
  /\ Awaken(awaiter[c])
  /\ UNCHANGED <<stored, sent, reader, changes, net, torn>>

\* Broken on purpose: the timer is armed again only after a save() that resolved.
RejectForGood(c, k) ==
  /\ fails < MaxFails
  /\ fails' = fails + 1
  /\ InFlight(c, k)
  /\ flight' = [flight EXCEPT ![c][k] = "none"]
  /\ awaiter' = [awaiter EXCEPT ![c] = "none"]
  /\ dirty' = IF flight[c][k] = "applied" THEN dirty \cup {k} ELSE dirty
  /\ late' = (late \/ phase # "open")
  /\ UNCHANGED <<counts, stored, sent, timer, phase, reader, changes, net, torn>>

\* The increment is rejected, before or after Bigtable applied it: the delta
\* stays, and save() rejects without waiting for its other keys.
Reject(c, k) ==
  /\ fails < MaxFails
  /\ fails' = fails + 1
  /\ InFlight(c, k)
  /\ flight' = [flight EXCEPT ![c][k] = "none"]
  /\ awaiter' = [awaiter EXCEPT ![c] = "none"]
  /\ dirty' = IF flight[c][k] = "applied" THEN dirty \cup {k} ELSE dirty
  /\ late' = (late \/ phase # "open")
  /\ Awaken(awaiter[c])
  /\ UNCHANGED <<counts, stored, sent, reader, changes, net, torn>>

\* Broken on purpose: save() resolves without waiting for its increments.
SettleEarly(c) ==
  /\ awaiter[c] # "none"
  /\ awaiter' = [awaiter EXCEPT ![c] = "none"]
  /\ Awaken(awaiter[c])
  /\ UNCHANGED <<counts, stored, flight, sent, reader, changes, fails, history>>

\* Every increment of the call is answered: save() resolves.
Settle(c) ==
  /\ awaiter[c] # "none"
  /\ \A k \in Keys : ~InFlight(c, k)
  /\ awaiter' = [awaiter EXCEPT ![c] = "none"]
  /\ Awaken(awaiter[c])
  /\ UNCHANGED <<counts, stored, flight, sent, reader, changes, fails, history>>

-----------------------------------------------------------------------------
(* getCount, and one key of getAllCount: the row first, the delta later.   *)

\* Broken on purpose: no default for a cell that is not there.
ReadRowUnset(k) ==
  /\ reader = NoRead
  /\ reader' = [key |-> k, raw |-> IF stored[k] = 0 THEN NoKey ELSE stored[k]]
  /\ torn' = FALSE
  /\ UNCHANGED <<counts, stored, save, timer, phase, changes, fails, net, dirty, late>>

ReadRow(k) ==
  /\ reader = NoRead
  /\ reader' = [key |-> k, raw |-> stored[k]]
  /\ torn' = FALSE
  /\ UNCHANGED <<counts, stored, save, timer, phase, changes, fails, net, dirty, late>>

\* Broken on purpose: the delta is left out.
AnswerStored == IF reader.raw < 0 THEN 0 ELSE reader.raw

\* What getCount returns if it resumes now.
Answer == LET sum == reader.raw + counts[reader.key] IN IF sum < 0 THEN 0 ELSE sum

ReturnCount ==
  /\ reader # NoRead
  /\ reader' = NoRead
  /\ UNCHANGED <<counts, stored, save, timer, phase, changes, fails, history>>

-----------------------------------------------------------------------------
SaveStep(c) ==
  \/ Settle(c)
  \/ \E k \in Keys : Apply(c, k) \/ Acknowledge(c, k)

Next ==
  \/ \E k \in Keys, a \in 1..MaxAmount : IncreaseCount(k, a) \/ DecreaseCount(k, a)
  \/ \E c \in Calls : IntervalSave(c) \/ Close(c) \/ SaveStep(c)
  \/ \E c \in Calls, k \in Keys : Reject(c, k)
  \/ \E k \in Keys : ReadRow(k)
  \/ ReturnCount

Spec == Init /\ [][Next]_vars

\* Timers fire and Bigtable answers; requests, close() and failures may never
\* come.
Fairness ==
  /\ WF_vars(\E c \in Calls : IntervalSave(c))
  /\ \A c \in Calls :
       /\ WF_vars(Settle(c))
       /\ \A k \in Keys : WF_vars(Apply(c, k)) /\ WF_vars(Acknowledge(c, k))

FairSpec == Spec /\ Fairness

-----------------------------------------------------------------------------
(* Properties                                                              *)

FlagsOK == torn \in BOOLEAN /\ late \in BOOLEAN

\* The type of the state.
TypeOK ==
  /\ counts \in [Keys -> Int]
  /\ stored \in [Keys -> Int]
  /\ awaiter \in [Calls -> {"none", "interval", "close"}]
  /\ flight \in [Calls -> [Keys -> {"none", "sent", "applied"}]]
  /\ sent \in [Calls -> [Keys -> Int]]
  /\ timer \in {"armed", "saving", "off"}
  /\ phase \in {"open", "closing", "closed"}
  /\ reader \in [key : Keys \cup {NoKey}, raw : Int]
  /\ changes \in Nat /\ fails \in Nat
  /\ net \in [Keys -> Int]
  /\ dirty \subseteq Keys
  /\ FlagsOK

\* The calls whose increment of k is in the row already while its answer, and
\* so the subtraction from the delta, is still to come.
Landed(k) == {c \in Calls : flight[c][k] = "applied"}

\* As long as no change, no second save() and no lost answer has met an
\* increment of k under way, the row and the delta together account for every
\* change ever made, lost increments and failed flushes of other keys included:
\* the delta is dropped exactly when its increment has been applied.
CleanExact ==
  \A k \in Keys \ dirty :
    /\ Landed(k) = {} => stored[k] + counts[k] = net[k]
    /\ \A c \in Landed(k) : stored[k] + counts[k] = net[k] + sent[c][k]

\* getCount awaits the row and adds the delta it finds afterwards: its answer
\* is the exact count (0 when negative) if nothing has disturbed the key (it is
\* not dirty), no increment landed after the row was read and none is waiting
\* for its acknowledgement.
ReadExact ==
  LET k == reader.key IN
    (/\ reader # NoRead
     /\ ~torn
     /\ k \notin dirty
     /\ Landed(k) = {})
    => Answer = IF net[k] < 0 THEN 0 ELSE net[k]

\* When close() is done, nothing failed and no change came since it began,
\* every delta has reached the row, also when the interval's save() was under
\* way at the time.
CloseFlushes == phase = "closed" /\ ~late => \A k \in Keys : counts[k] = 0

\* A delta does not stay in memory for ever: after a failed save() the timer is
\* armed again, until close() clears it.
EventuallyFlushed == \A k \in Keys : counts[k] # 0 ~> counts[k] = 0 \/ timer = "off"
=============================================================================
