--------------------------- MODULE MetadataProofs ---------------------------
(***************************************************************************)
(* Proofs about Metadata.tla, for any set of keys, any number of           *)
(* overlapping flushes and any bounds.                                     *)
(*                                                                         *)
(* CleanExact alone is not inductive: that dropping the delta is exact when*)
(* the answer arrives rests on the delta still being the value that was    *)
(* sent (FlightInv).  ReadExact rests on what `torn` records (ReaderInv),  *)
(* CloseFlushes on the flush that close() awaits covering every delta      *)
(* (CloseInv).                                                             *)
(***************************************************************************)
EXTENDS Metadata, TLAPS

\* While a key that is not dirty is being flushed, by one call only, its delta is the value
\* that call sent.
FlightInv ==
  \A k \in Keys \ dirty :
    \A c \in Calls : InFlight(c, k) =>
      /\ sent[c][k] = counts[k]
      /\ \A d \in Calls : InFlight(d, k) => d = c

\* The reader holds what the row still says, unless an increment landed.
ReaderInv ==
  reader # NoRead => /\ reader.key \in Keys
                     /\ ~torn => reader.raw = stored[reader.key]

\* While close() awaits its save(), that call flushes every delta there is.
CloseInv ==
  /\ \A c \in Calls : awaiter[c] = "close" =>
       /\ phase = "closing"
       /\ \A d \in Calls : awaiter[d] = "close" => d = c
  /\ phase = "closing" /\ ~late =>
       \E c \in Calls : /\ awaiter[c] = "close"
                        /\ \A k \in Keys : counts[k] # 0 => InFlight(c, k)

-----------------------------------------------------------------------------
\* The two Boolean history variables stay Boolean (a lemma of its own, because
\* no prover does both Boolean values and arithmetic).
LEMMA FlagsStep == FlagsOK /\ [Next]_vars => FlagsOK'
<1> SUFFICES ASSUME FlagsOK, [Next]_vars PROVE FlagsOK'
  OBVIOUS
<1> USE DEF FlagsOK
<1>1. CASE UNCHANGED vars
  BY <1>1 DEF vars, history
<1>2. ASSUME NEW k \in Keys, NEW a, Change(k, a) PROVE FlagsOK'
  BY <1>2 DEF Change
<1>3. ASSUME NEW c \in Calls, NEW by, StartSave(c, by) PROVE FlagsOK'
  BY <1>3 DEF StartSave
<1>4. ASSUME NEW c \in Calls, SaveStep(c) PROVE FlagsOK'
  BY <1>4 DEF SaveStep, Settle, Apply, Acknowledge, history
<1>5. ASSUME NEW c \in Calls, NEW k \in Keys, Reject(c, k) PROVE FlagsOK'
  BY <1>5 DEF Reject
<1>6. ASSUME NEW k \in Keys, ReadRow(k) PROVE FlagsOK'
  BY <1>6 DEF ReadRow
<1>7. CASE ReturnCount
  BY <1>7 DEF ReturnCount, history
<1>8. QED
  BY <1>1, <1>2, <1>3, <1>4, <1>5, <1>6, <1>7
     DEF Next, IncreaseCount, DecreaseCount, IntervalSave, Close

\* The state has its type in every reachable state.
THEOREM TypeCorrect == Spec => []TypeOK
<1>1. Init => TypeOK
  <2>1. Init => FlagsOK
    BY DEF Init, FlagsOK
  <2>2. QED
    BY <2>1 DEF Init, TypeOK, NoRead
<1>2. TypeOK /\ [Next]_vars => TypeOK'
  <2> SUFFICES ASSUME TypeOK, [Next]_vars PROVE TypeOK'
    OBVIOUS
  <2>0. FlagsOK'
    BY FlagsStep DEF TypeOK
  <2> USE MetadataAssumption, <2>0 DEF TypeOK
  <2>1. CASE UNCHANGED vars
    BY <2>1 DEF vars, code, save, history
  <2>2. ASSUME NEW k \in Keys, NEW a \in 1..MaxAmount,
               IncreaseCount(k, a) \/ DecreaseCount(k, a)
        PROVE  TypeOK'
    BY <2>2 DEF IncreaseCount, DecreaseCount, Change, save
  <2>3. ASSUME NEW c \in Calls, IntervalSave(c) \/ Close(c) PROVE TypeOK'
    <3>1. PICK by \in {"interval", "close"} : StartSave(c, by)
      BY <2>3 DEF IntervalSave, Close
    <3>2. timer' \in {"armed", "saving", "off"} /\ phase' \in {"open", "closing", "closed"}
      BY <2>3 DEF IntervalSave, Close
    <3>3. awaiter' \in [Calls -> {"none", "interval", "close"}]
      BY <3>1 DEF StartSave
    <3>4. flight' \in [Calls -> [Keys -> {"none", "sent", "applied"}]]
      <4>1. [k \in Keys |-> IF counts[k] = 0 THEN "none" ELSE "sent"]
              \in [Keys -> {"none", "sent", "applied"}]
        OBVIOUS
      <4>2. QED
        BY <3>1, <4>1 DEF StartSave
    <3>5. sent' \in [Calls -> [Keys -> Int]]
      BY <3>1 DEF StartSave
    <3>6. QED
      BY <3>1, <3>2, <3>3, <3>4, <3>5 DEF StartSave
  <2>4. ASSUME NEW c \in Calls, Settle(c) PROVE TypeOK'
    BY <2>4 DEF Settle, Awaken, history
  <2>5. ASSUME NEW c \in Calls, NEW k \in Keys, Apply(c, k) PROVE TypeOK'
    BY <2>5 DEF Apply
  <2>6. ASSUME NEW c \in Calls, NEW k \in Keys, Acknowledge(c, k) PROVE TypeOK'
    BY <2>6 DEF Acknowledge, history
  <2>7. ASSUME NEW c \in Calls, NEW k \in Keys, Reject(c, k) PROVE TypeOK'
    BY <2>7 DEF Reject, Awaken
  <2>8. ASSUME NEW k \in Keys, ReadRow(k) PROVE TypeOK'
    BY <2>8 DEF ReadRow, save
  <2>9. CASE ReturnCount
    BY <2>9 DEF ReturnCount, NoRead, save, history
  <2>10. QED
    BY <2>1, <2>2, <2>3, <2>4, <2>5, <2>6, <2>7, <2>8, <2>9 DEF Next, SaveStep
<1>3. QED
  BY <1>1, <1>2, PTL DEF Spec

-----------------------------------------------------------------------------
\* The arithmetic of an acknowledgement.
LEMMA Cancel == \A x, y, z \in Int : x + y = z + y => x + 0 = z
OBVIOUS

\* Every step keeps the account of a key that stays free of interference.
LEMMA AccountStep ==
  TypeOK /\ FlightInv /\ CleanExact /\ [Next]_vars => FlightInv' /\ CleanExact'
<1> SUFFICES ASSUME TypeOK, FlightInv, CleanExact, [Next]_vars
             PROVE  FlightInv' /\ CleanExact'
  OBVIOUS
<1> DEFINE Single(k) == \A c \in Calls : InFlight(c, k) =>
                          /\ sent[c][k] = counts[k]
                          /\ \A d \in Calls : InFlight(d, k) => d = c
           Exact(k) == /\ Landed(k) = {} => stored[k] + counts[k] = net[k]
                       /\ \A c \in Landed(k) :
                            stored[k] + counts[k] = net[k] + sent[c][k]
<1>0. SUFFICES ASSUME NEW k \in Keys \ dirty' PROVE Single(k)' /\ Exact(k)'
  BY DEF FlightInv, CleanExact
<1> USE DEF TypeOK, InFlight, Flushing, Landed
<1>1. ASSUME k \notin dirty, UNCHANGED <<counts, stored, net, flight, sent>>
      PROVE  Single(k)' /\ Exact(k)'
  BY <1>1 DEF FlightInv, CleanExact
<1>2. ASSUME NEW l \in Keys, NEW a \in Int, Change(l, a)
      PROVE  Single(k)' /\ Exact(k)'
  <2>1. k \notin dirty /\ (l = k => ~Flushing(k))
    BY <1>2 DEF Change
  <2>2. UNCHANGED <<stored, flight, sent>>
    BY <1>2 DEF Change, save
  <2>3. l # k => counts'[k] = counts[k] /\ net'[k] = net[k]
    BY <1>2 DEF Change
  <2>4. CASE l = k
    <3>1. Landed(k)' = {} /\ stored[k] + counts[k] = net[k] /\ ~Flushing(k)'
      BY <2>1, <2>2, <2>4 DEF CleanExact
    <3>2. stored'[k] + counts'[k] = net'[k]
      BY <1>2, <2>2, <2>4, <3>1 DEF Change
    <3>3. QED
      BY <3>1, <3>2
  <2>5. CASE l # k
    BY <2>1, <2>2, <2>3, <2>5 DEF FlightInv, CleanExact
  <2>6. QED
    BY <2>4, <2>5
<1>3. ASSUME NEW c \in Calls, NEW by, StartSave(c, by)
      PROVE  Single(k)' /\ Exact(k)'
  <2>1. k \notin dirty /\ (counts[k] # 0 => ~Flushing(k))
    BY <1>3 DEF StartSave
  <2>2. flight'[c][k] = IF counts[k] = 0 THEN "none" ELSE "sent"
    BY <1>3 DEF StartSave
  <2>3. sent'[c][k] = counts[k] /\ ~InFlight(c, k)
    BY <1>3 DEF StartSave, Running
  <2>4. \A d \in Calls \ {c} : flight'[d] = flight[d] /\ sent'[d] = sent[d]
    BY <1>3 DEF StartSave
  <2>5. UNCHANGED <<counts, stored, net>>
    BY <1>3 DEF StartSave
  <2>6. Landed(k)' = Landed(k)
    BY <2>2, <2>3, <2>4
  <2>7. Single(k)'
    BY <2>1, <2>2, <2>3, <2>4, <2>5 DEF FlightInv
  <2>8. Exact(k)'
    BY <2>1, <2>3, <2>4, <2>5, <2>6 DEF CleanExact
  <2>9. QED
    BY <2>7, <2>8
<1>4. ASSUME NEW c \in Calls, NEW l \in Keys, Apply(c, l)
      PROVE  Single(k)' /\ Exact(k)'
  <2>1. k \notin dirty /\ UNCHANGED <<counts, net, sent>>
    BY <1>4 DEF Apply
  <2>2. CASE l = k
    <3>1. flight[c][k] = "sent" /\ flight'[c][k] = "applied"
      BY <1>4, <2>2 DEF Apply
    <3>2. stored'[k] = stored[k] + sent[c][k]
      BY <1>4, <2>2 DEF Apply
    <3>3. \A d \in Calls \ {c} : flight'[d] = flight[d]
      BY <1>4 DEF Apply
    <3>4. Landed(k) = {} /\ Landed(k)' = {c}
      BY <2>1, <3>1, <3>3 DEF FlightInv
    <3>5. stored[k] + counts[k] = net[k]
      BY <2>1, <3>4 DEF CleanExact
    <3>6. stored'[k] + counts'[k] = net'[k] + sent'[c][k]
      BY <2>1, <3>2, <3>5
    <3>7. Single(k)'
      BY <2>1, <3>1, <3>3 DEF FlightInv
    <3>8. QED
      BY <3>4, <3>6, <3>7
  <2>3. CASE l # k
    <3>1. stored'[k] = stored[k] /\ \A d \in Calls : flight'[d][k] = flight[d][k]
      BY <1>4, <2>3 DEF Apply
    <3>2. QED
      BY <2>1, <3>1 DEF FlightInv, CleanExact
  <2>4. QED
    BY <2>2, <2>3
<1>5. ASSUME NEW c \in Calls, NEW l \in Keys, Acknowledge(c, l)
      PROVE  Single(k)' /\ Exact(k)'
  <2>1. k \notin dirty /\ UNCHANGED <<stored, net, sent>>
    BY <1>5 DEF Acknowledge, history
  <2>2. CASE l = k
    <3>1. flight[c][k] = "applied" /\ flight'[c][k] = "none" /\ counts'[k] = 0
      BY <1>5, <2>2 DEF Acknowledge
    <3>2. \A d \in Calls \ {c} : flight'[d] = flight[d]
      BY <1>5 DEF Acknowledge
    <3>3. sent[c][k] = counts[k] /\ Landed(k) = {c} /\ Landed(k)' = {}
      BY <2>1, <3>1, <3>2 DEF FlightInv
    <3>4. stored[k] + counts[k] = net[k] + sent[c][k]
      BY <2>1, <3>3 DEF CleanExact
    <3>5. stored'[k] + counts'[k] = net'[k]
      <4>1. stored[k] \in Int /\ counts[k] \in Int /\ net[k] \in Int
        OBVIOUS
      <4>2. stored[k] + counts[k] = net[k] + counts[k]
        BY <3>3, <3>4
      <4>3. stored[k] + 0 = net[k]
        BY ONLY <4>1, <4>2, Cancel
      <4>4. QED
        BY <2>1, <3>1, <4>3
    <3>6. \A d \in Calls : ~InFlight(d, k)'
      BY <2>1, <3>1, <3>2 DEF FlightInv
    <3>7. QED
      BY <3>3, <3>5, <3>6
  <2>3. CASE l # k
    <3>1. counts'[k] = counts[k] /\ \A d \in Calls : flight'[d][k] = flight[d][k]
      BY <1>5, <2>3 DEF Acknowledge
    <3>2. QED
      BY <2>1, <3>1 DEF FlightInv, CleanExact
  <2>4. QED
    BY <2>2, <2>3
<1>6. ASSUME NEW c \in Calls, NEW l \in Keys, Reject(c, l)
      PROVE  Single(k)' /\ Exact(k)'
  <2>1. k \notin dirty /\ UNCHANGED <<counts, stored, net, sent>>
    BY <1>6 DEF Reject
  <2>2. Landed(k)' = Landed(k)
    BY <1>6 DEF Reject
  <2>3. \A d \in Calls : InFlight(d, k)' => InFlight(d, k)
    BY <1>6 DEF Reject
  <2>4. QED
    BY <2>1, <2>2, <2>3 DEF FlightInv, CleanExact
<1>7. CASE UNCHANGED vars
  BY <1>1, <1>7 DEF vars, code, save, history
<1>8. CASE \E c \in Calls : Settle(c)
  BY <1>1, <1>8 DEF Settle, history
<1>9. CASE ReturnCount \/ \E l \in Keys : ReadRow(l)
  BY <1>1, <1>9 DEF ReturnCount, ReadRow, save, history
<1>10. ASSUME NEW l \in Keys, NEW a \in 1..MaxAmount,
              IncreaseCount(l, a) \/ DecreaseCount(l, a)
       PROVE  Single(k)' /\ Exact(k)'
  <2>1. a \in Int /\ -a \in Int
    OBVIOUS
  <2>2. QED
    BY <1>2, <1>10, <2>1 DEF IncreaseCount, DecreaseCount
<1>11. QED
  BY <1>3, <1>4, <1>5, <1>6, <1>7, <1>8, <1>9, <1>10
     DEF Next, IntervalSave, Close, SaveStep

\* At any time, a counter that no change, no second flush and no lost answer has
\* met during an increment is exact: row plus delta is the sum of all changes.
THEOREM AccountsExact == Spec => []CleanExact
<1>1. Init => FlightInv /\ CleanExact
  BY DEF Init, FlightInv, CleanExact, InFlight, Landed
<1>2. QED
  BY <1>1, AccountStep, TypeCorrect, PTL DEF Spec

-----------------------------------------------------------------------------
\* Every step keeps what a reader holds.
LEMMA ReaderStep == TypeOK /\ ReaderInv /\ [Next]_vars => ReaderInv'
<1> SUFFICES ASSUME TypeOK, ReaderInv, [Next]_vars PROVE ReaderInv'
  OBVIOUS
<1> USE MetadataAssumption DEF TypeOK, ReaderInv, NoRead
<1>1. ASSUME UNCHANGED <<reader, torn, stored>> PROVE ReaderInv'
  BY <1>1
<1>2. ASSUME NEW c \in Calls, NEW k \in Keys, Apply(c, k) PROVE ReaderInv'
  <2>1. reader' = reader
    BY <1>2 DEF Apply
  <2>2. CASE reader.key = k
    BY <1>2, <2>1, <2>2 DEF Apply
  <2>3. CASE reader.key # k
    BY <1>2, <2>1, <2>3 DEF Apply
  <2>4. QED
    BY <2>2, <2>3
<1>3. ASSUME NEW k \in Keys, ReadRow(k) PROVE ReaderInv'
  BY <1>3 DEF ReadRow
<1>4. CASE ReturnCount
  BY <1>4 DEF ReturnCount
<1>5. ASSUME NEW k \in Keys, NEW a, Change(k, a) PROVE ReaderInv'
  BY <1>1, <1>5 DEF Change
<1>6. ASSUME NEW c \in Calls, NEW by, StartSave(c, by) PROVE ReaderInv'
  BY <1>1, <1>6 DEF StartSave
<1>7. ASSUME NEW c \in Calls, Settle(c) PROVE ReaderInv'
  BY <1>1, <1>7 DEF Settle, history
<1>8. ASSUME NEW c \in Calls, NEW k \in Keys, Acknowledge(c, k) \/ Reject(c, k)
      PROVE  ReaderInv'
  BY <1>1, <1>8 DEF Acknowledge, Reject, history
<1>9. CASE UNCHANGED vars
  BY <1>1, <1>9 DEF vars, code, history
<1>10. QED
  BY <1>2, <1>3, <1>4, <1>5, <1>6, <1>7, <1>8, <1>9
     DEF Next, SaveStep, IncreaseCount, DecreaseCount, IntervalSave, Close

\* getCount answers the exact count whenever no increment of its key lands
\* between the row read and the answer, and none waits for its acknowledgement.
THEOREM ReadsExact == Spec => []ReadExact
<1>1. Init => ReaderInv
  BY DEF Init, ReaderInv
<1>2. TypeOK /\ ReaderInv /\ CleanExact => ReadExact
  <2> SUFFICES ASSUME TypeOK, ReaderInv, CleanExact,
                      reader # NoRead, ~torn,
                      reader.key \notin dirty, Landed(reader.key) = {}
               PROVE  Answer = IF net[reader.key] < 0 THEN 0 ELSE net[reader.key]
    BY DEF ReadExact
  <2>1. reader.key \in Keys /\ reader.raw = stored[reader.key]
    BY DEF ReaderInv
  <2>2. stored[reader.key] + counts[reader.key] = net[reader.key]
    BY <2>1 DEF CleanExact
  <2>3. QED
    BY <2>1, <2>2 DEF Answer
<1>3. QED
  BY <1>1, <1>2, ReaderStep, AccountsExact, TypeCorrect, PTL DEF Spec

-----------------------------------------------------------------------------
\* Every step keeps the promise of close().
LEMMA CloseStep ==
  TypeOK /\ CloseInv /\ CloseFlushes /\ [Next]_vars => CloseInv' /\ CloseFlushes'
<1> SUFFICES ASSUME TypeOK, CloseInv, CloseFlushes, [Next]_vars
             PROVE  CloseInv' /\ CloseFlushes'
  OBVIOUS
<1> USE DEF CloseInv, CloseFlushes, TypeOK, InFlight
<1>1. ASSUME UNCHANGED <<counts, awaiter, flight, phase, late>>
      PROVE  CloseInv' /\ CloseFlushes'
  BY <1>1
<1>2. ASSUME NEW k \in Keys, NEW a, Change(k, a) PROVE CloseInv' /\ CloseFlushes'
  <2>1. UNCHANGED <<awaiter, phase>> /\ (phase # "open" => late')
    BY <1>2 DEF Change, save
  <2>2. QED
    BY <2>1
<1>3. ASSUME NEW c \in Calls, NEW by \in {"interval", "close"}, StartSave(c, by),
             phase' = IF by = "close" THEN "closing" ELSE phase,
             by = "close" => phase = "open"
      PROVE  CloseInv' /\ CloseFlushes'
  <2>1. /\ awaiter[c] = "none"
        /\ awaiter'[c] = by
        /\ \A d \in Calls \ {c} : awaiter'[d] = awaiter[d] /\ flight'[d] = flight[d]
    BY <1>3 DEF StartSave, Running
  <2>2. counts' = counts /\ late' = late
    BY <1>3 DEF StartSave
  <2>3. CASE by = "close"
    <3>1. \A k \in Keys : counts'[k] # 0 => InFlight(c, k)'
      BY <1>3, <2>2 DEF StartSave
    <3>2. \A d \in Calls : awaiter'[d] = "close" => d = c
      BY <1>3, <2>1, <2>3
    <3>3. QED
      BY <1>3, <2>1, <2>3, <3>1, <3>2
  <2>4. CASE by = "interval"
    <3>1. \A d \in Calls : awaiter'[d] = "close" => awaiter[d] = "close" /\ d # c
      BY <2>1, <2>4
    <3>2. QED
      BY <1>3, <2>1, <2>2, <2>4, <3>1
  <2>5. QED
    BY <2>3, <2>4
<1>4. ASSUME NEW c \in Calls, Settle(c) PROVE CloseInv' /\ CloseFlushes'
  <2>1. /\ UNCHANGED <<counts, flight, late>>
        /\ awaiter'[c] = "none"
        /\ \A d \in Calls \ {c} : awaiter'[d] = awaiter[d]
        /\ \A k \in Keys : ~InFlight(c, k)
    BY <1>4 DEF Settle, history
  <2>2. CASE awaiter[c] = "close"
    <3>1. phase' = "closed" /\ phase = "closing"
      BY <1>4, <2>2 DEF Settle, Awaken
    <3>2. ~late => \A k \in Keys : counts[k] = 0
      BY <2>1, <2>2, <3>1
    <3>3. ~late => \A d \in Calls : awaiter'[d] # "close"
      BY <2>1, <2>2, <3>1
    <3>4. QED
      BY <2>1, <2>2, <3>1, <3>2, <3>3
  <2>3. CASE awaiter[c] # "close"
    <3>1. phase' = phase
      BY <1>4, <2>3 DEF Settle, Awaken
    <3>2. QED
      BY <2>1, <2>3, <3>1
  <2>4. QED
    BY <2>2, <2>3
<1>5. ASSUME NEW c \in Calls, NEW k \in Keys, Apply(c, k)
      PROVE  CloseInv' /\ CloseFlushes'
  <2>1. UNCHANGED <<counts, awaiter, phase, late>>
    BY <1>5 DEF Apply
  <2>2. \A d \in Calls, l \in Keys : InFlight(d, l) => InFlight(d, l)'
    BY <1>5 DEF Apply
  <2>3. QED
    BY <2>1, <2>2
<1>6. ASSUME NEW c \in Calls, NEW k \in Keys, Acknowledge(c, k)
      PROVE  CloseInv' /\ CloseFlushes'
  <2>1. UNCHANGED <<awaiter, phase, late>>
    BY <1>6 DEF Acknowledge, history
  <2>2. \A d \in Calls, l \in Keys :
          counts'[l] # 0 /\ InFlight(d, l) => counts[l] # 0 /\ InFlight(d, l)'
    BY <1>6 DEF Acknowledge
  <2>3. \A l \in Keys : counts'[l] # 0 => counts[l] # 0
    BY <1>6 DEF Acknowledge
  <2>4. QED
    BY <2>1, <2>2, <2>3
<1>7. ASSUME NEW c \in Calls, NEW k \in Keys, Reject(c, k)
      PROVE  CloseInv' /\ CloseFlushes'
  <2>1. \A d \in Calls : awaiter'[d] = "close" => awaiter[d] = "close" /\ d # c
    BY <1>7 DEF Reject
  <2>2. CASE phase = "open"
    <3>1. phase' = "open"
      BY <1>7, <2>2 DEF Reject, Awaken
    <3>2. QED
      BY <2>1, <2>2, <3>1
  <2>3. CASE phase # "open"
    <3>1. late' /\ phase' # "open"
      BY <1>7, <2>3 DEF Reject, Awaken
    <3>2. \A d \in Calls : awaiter'[d] = "close" => phase' = "closing"
      BY <1>7, <2>1 DEF Reject, Awaken
    <3>3. \A d, e \in Calls : awaiter'[d] = "close" /\ awaiter'[e] = "close" => e = d
      BY <2>1
    <3>4. QED
      BY <3>1, <3>2, <3>3
  <2>4. QED
    BY <2>2, <2>3
<1>8. CASE ReturnCount \/ \E k \in Keys : ReadRow(k)
  BY <1>1, <1>8 DEF ReturnCount, ReadRow, save, history
<1>9. CASE UNCHANGED vars
  BY <1>1, <1>9 DEF vars, code, save, history
<1>10. ASSUME NEW c \in Calls, IntervalSave(c) \/ Close(c)
       PROVE  CloseInv' /\ CloseFlushes'
  BY <1>3, <1>10 DEF IntervalSave, Close
<1>11. QED
  BY <1>2, <1>4, <1>5, <1>6, <1>7, <1>8, <1>9, <1>10
     DEF Next, SaveStep, IncreaseCount, DecreaseCount

\* close() leaves no delta behind if nothing fails or changes once it has begun.
THEOREM CloseLosesNothing == Spec => []CloseFlushes
<1>1. Init => CloseInv /\ CloseFlushes
  BY DEF Init, CloseInv, CloseFlushes
<1>2. QED
  BY <1>1, CloseStep, TypeCorrect, PTL DEF Spec
=============================================================================
