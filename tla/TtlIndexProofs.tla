--------------------------- MODULE TtlIndexProofs ---------------------------
(***************************************************************************)
(* Proofs that no item saved with a TTL becomes immortal (NoImmortal), and *)
(* that the index is exact and nothing disappears early while requests and *)
(* jobs come one after the other (SerialExact, SerialOnTime), for any      *)
(* number of items, requests and jobs, any lifetime and any bounds.        *)
(*                                                                         *)
(* NoImmortal alone is not inductive: an item can be saved after the whole *)
(* of its setTTL is over, and other requests and jobs have worked on its   *)
(* entry in between.  SaveInv says what a request that has still to save   *)
(* its item can rely on: an expiry time in the index, or on its way there, *)
(* that lies after the last moment the request can save (Covered).  That   *)
(* time is not due yet, so no job deletes the entry (RowsInv), and whoever *)
(* replaces it enters a later time still, because two lives of a request   *)
(* fit in the lifetime of an item (TtlAssumption).                         *)
(*                                                                         *)
(* SerialInv is about the steps of the only actor there is: what a request *)
(* still has to do to the entry and the reference of its item (WriterExact)*)
(* and what a job has not deleted of them (JobExact).                      *)
(***************************************************************************)
EXTENDS TtlIndex, TLAPS

\* A request in progress is within its patience.
PatienceInv == \A w \in Writers :
  Busy(w) => start[w] <= now /\ now <= start[w] + Patience

\* A job only deletes rows that were due when it scanned.
RowsInv == \A j \in Jobs : \A t \in rows[j] : t <= now

\* i has, or is about to get, an expiry time after t.
Covered(i, t) ==
  \/ \E e \in entries : e[1] = i /\ e[2] > t
  \/ \E w \in Writers : WillEnter(w, i) /\ Due(w) > t

SaveInv == \A w \in Writers :
  ("save" \in todo[w] /\ kind[w] # "plain" /\ item[w] \notin cut)
    => Covered(item[w], start[w] + Patience)

-----------------------------------------------------------------------------
\* The first calls of every kind of request are calls.
LEMMA CallsOfKind == \A k \in Kinds : FirstCalls(k) \subseteq Calls
BY TtlAssumption DEF FirstCalls, Calls

\* The state has its type in every reachable state.
THEOREM TypeCorrect == Spec => []TypeOK
<1>1. Init => TypeOK
  BY TtlAssumption DEF Init, TypeOK, Calls
<1>2. TypeOK /\ [Next]_vars => TypeOK'
  <2> SUFFICES ASSUME TypeOK, [Next]_vars PROVE TypeOK'
    OBVIOUS
  <2> USE TtlAssumption DEF TypeOK
  <2>1. CASE UNCHANGED vars
    BY <2>1 DEF vars, tables, writers, jobs
  <2>2. ASSUME NEW w \in Writers, NEW i \in Items, NEW k \in Kinds, Begin(w, i, k)
        PROVE  TypeOK'
    BY <2>2, CallsOfKind DEF Begin, tables, jobs
  <2>3. ASSUME NEW w \in Writers, NEW c \in Calls, NEW next \in SUBSET Calls,
               Answered(w, c, next)
        PROVE  /\ todo' \in [Writers -> SUBSET Calls]
               /\ deadline' \in [Items -> Nat]
               /\ UNCHANGED <<now, kind, item, start, jobs, fails, cut, serial>>
    BY <2>3 DEF Answered, Latest, Due
  <2>4. ASSUME NEW w \in Writers, WriterStep(w) PROVE TypeOK'
    <3> USE DEF Calls, jobs, tables
    <3>1. CASE Save(w)
      BY <2>3, <3>1 DEF Save
    <3>2. CASE ReadRef(w)
      BY <2>3, <3>2 DEF ReadRef
    <3>3. CASE DropOld(w)
      BY <2>3, <3>3 DEF DropOld
    <3>4. CASE Enter(w)
      <4>1. Due(w) \in Nat
        BY DEF Due
      <4>2. QED
        BY <2>3, <3>4, <4>1 DEF Enter
    <3>5. CASE Refer(w)
      <4>1. Due(w) \in Nat
        BY DEF Due
      <4>2. QED
        BY <2>3, <3>5, <4>1 DEF Refer
    <3>6. QED
      BY <2>4, <3>1, <3>2, <3>3, <3>4, <3>5 DEF WriterStep
  <2>5. ASSUME NEW w \in Writers, NEW c \in todo[w], FailCall(w, c) PROVE TypeOK'
    BY <2>5 DEF FailCall, tables, jobs
  <2>6. ASSUME NEW i \in Items, Remove(i) PROVE TypeOK'
    BY <2>6 DEF Remove, writers, jobs
  <2>7. ASSUME NEW j \in Jobs, Scan(j) PROVE TypeOK'
    <3>1. \A e \in entries : e[1] \in Items /\ e[2] \in Nat
      OBVIOUS
    <3>2. Scanned \subseteq Nat
      BY <3>1 DEF Scanned, DueRows
    <3>3. QED
      BY <2>7, <3>1, <3>2 DEF Scan, tables, writers
  <2>8. ASSUME NEW j \in Jobs, NEW i \in Items, DeleteItem(j, i) \/ DeleteRef(j, i)
        PROVE  TypeOK'
    BY <2>8 DEF DeleteItem, DeleteRef, writers
  <2>9. ASSUME NEW j \in Jobs, NEW t \in rows[j], DeleteRow(j, t) PROVE TypeOK'
    BY <2>9 DEF DeleteRow, writers
  <2>10. ASSUME NEW j \in Jobs, FailJob(j) PROVE TypeOK'
    BY <2>10 DEF FailJob, tables, writers
  <2>11. CASE Tick
    BY <2>11 DEF Tick, tables, writers, jobs
  <2>12. QED
    BY <2>1, <2>2, <2>4, <2>5, <2>6, <2>7, <2>8, <2>9, <2>10, <2>11 DEF Next, JobStep
<1>3. QED
  BY <1>1, <1>2, PTL DEF Spec

-----------------------------------------------------------------------------
\* No request outlives its patience.
LEMMA PatienceStep == TypeOK /\ PatienceInv /\ [Next]_vars => PatienceInv'
<1> SUFFICES ASSUME TypeOK, PatienceInv, [Next]_vars PROVE PatienceInv'
  OBVIOUS
<1> USE TtlAssumption DEF TypeOK, PatienceInv, Busy
<1>1. ASSUME now' = now, start' = start, \A w \in Writers : Busy(w)' => Busy(w)
      PROVE  PatienceInv'
  BY <1>1
<1>2. ASSUME NEW w \in Writers, NEW i \in Items, NEW k \in Kinds, Begin(w, i, k)
      PROVE  PatienceInv'
  BY <1>2 DEF Begin
<1>3. ASSUME NEW w \in Writers, NEW c, NEW next, Answered(w, c, next)
      PROVE  PatienceInv'
  BY <1>1, <1>3 DEF Answered
<1>4. ASSUME NEW w \in Writers, NEW c \in todo[w], FailCall(w, c) PROVE PatienceInv'
  BY <1>1, <1>4 DEF FailCall
<1>5. CASE Tick
  BY <1>5 DEF Tick, writers
<1>6. ASSUME UNCHANGED <<now, writers>> PROVE PatienceInv'
  BY <1>1, <1>6 DEF writers
<1>7. ASSUME NEW j \in Jobs, JobStep(j) \/ FailJob(j) PROVE PatienceInv'
  BY <1>6, <1>7 DEF JobStep, Scan, DeleteItem, DeleteRow, DeleteRef, FailJob
<1>8. QED
  BY <1>2, <1>3, <1>4, <1>5, <1>6, <1>7
     DEF Next, WriterStep, Save, ReadRef, DropOld, Enter, Refer, Remove, vars

\* Every step keeps what jobs know of rows.
LEMMA RowsStep == TypeOK /\ RowsInv /\ [Next]_vars => RowsInv'
<1> SUFFICES ASSUME TypeOK, RowsInv, [Next]_vars PROVE RowsInv'
  OBVIOUS
<1> USE DEF TypeOK, RowsInv
<1>1. ASSUME now' = now, \A j \in Jobs : rows'[j] \subseteq rows[j] PROVE RowsInv'
  BY <1>1
<1>2. ASSUME NEW j \in Jobs, Scan(j) PROVE RowsInv'
  BY <1>2 DEF Scan, Scanned, DueRows
<1>3. ASSUME NEW j \in Jobs, FailJob(j) \/ \E t \in rows[j] : DeleteRow(j, t)
      PROVE  RowsInv'
  BY <1>1, <1>3 DEF FailJob, DeleteRow
<1>4. ASSUME NEW j \in Jobs, NEW i \in Items, DeleteItem(j, i) \/ DeleteRef(j, i)
      PROVE  RowsInv'
  BY <1>1, <1>4 DEF DeleteItem, DeleteRef
<1>5. CASE Tick
  BY <1>5 DEF Tick, jobs
<1>6. ASSUME UNCHANGED <<now, jobs>> PROVE RowsInv'
  BY <1>1, <1>6 DEF jobs
<1>7. QED
  BY <1>2, <1>3, <1>4, <1>5, <1>6
     DEF Next, JobStep, WriterStep, Begin, Answered, FailCall, Save, ReadRef, DropOld,
         Enter, Refer, Remove, vars

-----------------------------------------------------------------------------
\* What a step does to the requests that will enter a time: only the call that
\* enters it, or a failure of one of the calls before, ends that prospect.
LEMMA WillEnterStep ==
  ASSUME TypeOK, [Next]_vars, NEW v \in Writers, NEW i \in Items, WillEnter(v, i)
  PROVE  \/ WillEnter(v, i)' /\ start'[v] = start[v]
         \/ <<i, Due(v)>> \in entries'
         \/ i \in cut'
<1> USE DEF TypeOK, WillEnter
<1>1. ASSUME NEW w \in Writers, NEW k \in Kinds, NEW l \in Items, Begin(w, l, k)
      PROVE  WillEnter(v, i)' /\ start'[v] = start[v]
  <2>1. w # v
    BY <1>1 DEF Begin, Busy
  <2>2. QED
    BY <1>1, <2>1 DEF Begin
<1>2. ASSUME UNCHANGED writers PROVE WillEnter(v, i)' /\ start'[v] = start[v]
  BY <1>2 DEF writers
<1>3. ASSUME NEW w \in Writers, NEW c \in todo[w], FailCall(w, c)
      PROVE  (WillEnter(v, i)' /\ start'[v] = start[v]) \/ i \in cut'
  <2>1. UNCHANGED <<item, start>> /\ todo' = [todo EXCEPT ![w] = @ \ {c}]
    BY <1>3 DEF FailCall
  <2>2. CASE w = v /\ c \in {"read", "drop", "enter"}
    BY <1>3, <2>2 DEF FailCall
  <2>3. CASE w = v /\ c \notin {"read", "drop", "enter"}
    BY <2>1, <2>3
  <2>4. CASE w # v
    BY <2>1, <2>4
  <2>5. QED
    BY <2>2, <2>3, <2>4
<1>4. ASSUME NEW w \in Writers, NEW c, NEW next, Answered(w, c, next),
             w = v => \/ c \notin {"read", "drop", "enter"}
                      \/ next \cap {"read", "drop", "enter"} # {}
      PROVE  WillEnter(v, i)' /\ start'[v] = start[v]
  <2>1. /\ UNCHANGED <<item, start>>
        /\ todo' = [todo EXCEPT ![w] = (@ \ {c}) \cup next]
    BY <1>4 DEF Answered
  <2>2. QED
    BY <1>4, <2>1
<1>5. ASSUME NEW w \in Writers, WriterStep(w)
      PROVE  \/ WillEnter(v, i)' /\ start'[v] = start[v]
             \/ <<i, Due(v)>> \in entries'
  <2>1. CASE Save(w)
    BY <1>4, <2>1 DEF Save
  <2>2. CASE ReadRef(w)
    BY <1>4, <2>2 DEF ReadRef
  <2>3. CASE DropOld(w)
    BY <1>4, <2>3 DEF DropOld
  <2>4. CASE Enter(w) /\ w # v
    BY <1>4, <2>4 DEF Enter
  <2>5. CASE Enter(w) /\ w = v
    BY <2>5 DEF Enter
  <2>6. CASE Refer(w)
    BY <1>4, <2>6 DEF Refer
  <2>7. QED
    BY <1>5, <2>1, <2>2, <2>3, <2>4, <2>5, <2>6 DEF WriterStep
<1>6. QED
  BY <1>1, <1>2, <1>3, <1>5
     DEF Next, JobStep, Scan, DeleteItem, DeleteRow, DeleteRef, FailJob, Remove, Tick, vars

\* An entry disappears when a request replaces it or a job deletes its row.
LEMMA EntryStep ==
  ASSUME TypeOK, [Next]_vars, NEW e \in entries
  PROVE  \/ e \in entries'
         \/ \E v \in Writers : DropOld(v) /\ item[v] = e[1]
         \/ \E j \in Jobs : e[2] \in rows[j] /\ doomed[j] = {}
<1> USE DEF TypeOK
<1>1. ASSUME NEW v \in Writers, DropOld(v) PROVE e \in entries' \/ item[v] = e[1]
  BY <1>1 DEF DropOld
<1>2. ASSUME NEW v \in Writers, Enter(v) PROVE e \in entries'
  BY <1>2 DEF Enter
<1>3. ASSUME NEW j \in Jobs, NEW t \in rows[j], DeleteRow(j, t)
      PROVE  e \in entries' \/ (e[2] \in rows[j] /\ doomed[j] = {})
  BY <1>3 DEF DeleteRow
<1>4. ASSUME UNCHANGED entries PROVE e \in entries'
  BY <1>4
<1>5. QED
  BY <1>1, <1>2, <1>3, <1>4
     DEF Next, WriterStep, JobStep, Begin, Save, ReadRef, Refer, FailCall, Remove,
         Scan, DeleteItem, DeleteRef, FailJob, Tick, vars, tables

\* What a busy request enters lies after the end of every request of this moment.
LEMMA DueLate ==
  ASSUME TypeOK, PatienceInv, NEW v \in Writers, Busy(v)
  PROVE  Due(v) \in Nat /\ Due(v) > now + Patience
BY TtlAssumption DEF TypeOK, PatienceInv, Due

\* A request that drops an entry will enter one.
LEMMA DropIsWillEnter ==
  ASSUME TypeOK, NEW v \in Writers, NEW i, DropOld(v), item[v] = i
  PROVE  WillEnter(v, i)' /\ start' = start /\ Busy(v)
BY DEF TypeOK, DropOld, Answered, WillEnter, Busy

\* A cover for a time that no request of this moment outlives stays a cover.
LEMMA CoveredStep ==
  ASSUME TypeOK, PatienceInv, RowsInv, [Next]_vars,
         NEW i \in Items, i \notin cut',
         NEW t \in Nat, now <= t, t <= now + Patience,
         Covered(i, t)
  PROVE  Covered(i, t)'
<1>1. CASE \E e \in entries : e[1] = i /\ e[2] > t
  <2>1. PICK e \in entries : e[1] = i /\ e[2] > t
    BY <1>1
  <2>2. e[2] \in Nat
    BY <2>1 DEF TypeOK
  <2>3. \A j \in Jobs : e[2] \notin rows[j]
    BY <2>1, <2>2 DEF RowsInv, TypeOK
  <2>4. CASE e \in entries'
    BY <2>1, <2>4 DEF Covered
  <2>5. ASSUME NEW v \in Writers, DropOld(v), item[v] = e[1] PROVE Covered(i, t)'
    <3>1. WillEnter(v, i)' /\ start' = start /\ Busy(v)
      BY <2>1, <2>5, DropIsWillEnter
    <3>2. Due(v) > t /\ Due(v)' = Due(v)
      BY <3>1, DueLate, TtlAssumption DEF Due, TypeOK
    <3>3. QED
      BY <3>1, <3>2 DEF Covered
  <2>6. QED
    BY <2>3, <2>4, <2>5, EntryStep
<1>2. CASE \E v \in Writers : WillEnter(v, i) /\ Due(v) > t
  <2>1. PICK v \in Writers : WillEnter(v, i) /\ Due(v) > t
    BY <1>2
  <2>2. CASE WillEnter(v, i)' /\ start'[v] = start[v]
    BY <2>1, <2>2 DEF Covered, Due
  <2>3. CASE <<i, Due(v)>> \in entries'
    BY <2>1, <2>3 DEF Covered
  <2>4. QED
    BY <2>1, <2>2, <2>3, WillEnterStep
<1>3. QED
  BY <1>1, <1>2 DEF Covered

-----------------------------------------------------------------------------
\* Every step keeps what a save can rely on.
LEMMA SaveStep ==
  TypeOK /\ PatienceInv /\ RowsInv /\ SaveInv /\ [Next]_vars => SaveInv'
<1> SUFFICES ASSUME TypeOK, PatienceInv, RowsInv, SaveInv, [Next]_vars,
                    NEW w \in Writers,
                    "save" \in todo'[w], kind'[w] # "plain", item'[w] \notin cut'
             PROVE  Covered(item[w], start[w] + Patience)'
  BY DEF SaveInv
<1> USE DEF TypeOK
<1>1. ASSUME "save" \in todo[w], UNCHANGED <<kind[w], item[w], start[w]>>
      PROVE  Covered(item[w], start[w] + Patience)'
  <2>1. item[w] \notin cut
    BY <1>1 DEF Next, Begin, WriterStep, Save, ReadRef, DropOld, Enter, Refer, Answered,
       FailCall, Remove, JobStep, Scan, DeleteItem, DeleteRow, DeleteRef, FailJob, Tick, vars
  <2>2. Covered(item[w], start[w] + Patience)
    BY <1>1, <2>1 DEF SaveInv
  <2>3. now <= start[w] + Patience /\ start[w] + Patience <= now + Patience
    BY <1>1, TtlAssumption DEF PatienceInv, Busy
  <2>4. start[w] + Patience \in Nat
    BY TtlAssumption
  <2>5. item[w] \notin cut'
    BY <1>1
  <2>6. \A i \in Items, t \in Nat :
          /\ i \notin cut' /\ now <= t /\ t <= now + Patience
          /\ Covered(i, t)
          => Covered(i, t)'
    BY CoveredStep
  <2>7. \A i \in Items, t \in Nat :
          i = item'[w] /\ t = start'[w] + Patience /\ Covered(i, t)'
            => Covered(item[w], start[w] + Patience)'
    OBVIOUS
  <2>8. QED
    BY <1>1, <2>2, <2>3, <2>4, <2>5, <2>6, <2>7
<1>2. ASSUME NEW i \in Items, NEW k \in Kinds, Begin(w, i, k)
      PROVE  Covered(item[w], start[w] + Patience)'
  <2>1. k = "create"
    BY <1>2, TtlAssumption DEF Begin, FirstCalls
  <2>2. todo'[w] = {"save", "read"}
    BY <1>2, <2>1 DEF Begin, FirstCalls
  <2>3. WillEnter(w, item[w])'
    BY <2>2 DEF WillEnter
  <2>4. start'[w] \in Nat
    BY <1>2 DEF Begin
  <2>5. Due(w)' > start'[w] + Patience
    BY <2>4, TtlAssumption DEF Due
  <2>6. QED
    BY <2>3, <2>5 DEF Covered
<1>3. ASSUME NEW v \in Writers, NEW i \in Items, NEW k \in Kinds, Begin(v, i, k), v # w
      PROVE  Covered(item[w], start[w] + Patience)'
  BY <1>1, <1>3 DEF Begin
<1>4. ASSUME NEW v \in Writers, NEW c \in Calls, NEW next \in SUBSET (Calls \ {"save"}),
             Answered(v, c, next)
      PROVE  Covered(item[w], start[w] + Patience)'
  BY <1>1, <1>4 DEF Answered
<1>5. ASSUME NEW v \in Writers, WriterStep(v)
      PROVE  Covered(item[w], start[w] + Patience)'
  BY <1>4, <1>5 DEF WriterStep, Save, ReadRef, DropOld, Enter, Refer, Calls
<1>6. ASSUME NEW v \in Writers, NEW c \in todo[v], FailCall(v, c)
      PROVE  Covered(item[w], start[w] + Patience)'
  BY <1>1, <1>6 DEF FailCall
<1>7. ASSUME UNCHANGED writers PROVE Covered(item[w], start[w] + Patience)'
  BY <1>1, <1>7 DEF writers
<1>8. QED
  BY <1>2, <1>3, <1>5, <1>6, <1>7
     DEF Next, JobStep, Scan, DeleteItem, DeleteRow, DeleteRef, FailJob, Remove, Tick, vars

-----------------------------------------------------------------------------
\* The cover of a request that saves its item makes the item indexed, or about
\* to be: the covering entry is not due, so no job has it among its rows.
LEMMA CoveredIndexed ==
  ASSUME TypeOK, RowsInv, NEW i \in Items, NEW t \in Nat, now <= t, Covered(i, t)
  PROVE  Indexed(i) \/ \E v \in Writers : WillEnter(v, i)
<1>1. ASSUME NEW e \in entries, e[1] = i, e[2] > t PROVE Indexed(i)
  <2>1. \A j \in Jobs : e[2] \notin rows[j]
    BY <1>1 DEF TypeOK, RowsInv
  <2>2. QED
    BY <1>1, <2>1 DEF Indexed
<1>2. QED
  BY <1>1 DEF Covered

\* An item that stays in its table keeps its entry, as far as the jobs go.
LEMMA IndexedStep ==
  ASSUME TypeOK, PatienceInv, RowsInv, [Next]_vars,
         NEW i \in Items, i \in present', Indexed(i)
  PROVE  Indexed(i)' \/ \E v \in Writers : WillEnter(v, i)'
<1> USE DEF TypeOK
<1>1. PICK e \in entries :
        e[1] = i /\ \A j \in Jobs : e[2] \in rows[j] => i \in doomed[j]
  BY DEF Indexed
<1>2. ASSUME NEW v \in Writers, DropOld(v), item[v] = e[1]
      PROVE  \E u \in Writers : WillEnter(u, i)'
  BY <1>1, <1>2, DropIsWillEnter
<1>3. ~ \E j \in Jobs : e[2] \in rows[j] /\ doomed[j] = {}
  BY <1>1
<1>4. \A j \in Jobs : e[2] \in rows'[j] => i \in doomed'[j]
  <2> SUFFICES ASSUME NEW j \in Jobs, e[2] \in rows'[j] PROVE i \in doomed'[j]
    OBVIOUS
  <2>1. ASSUME UNCHANGED <<doomed, rows>> PROVE i \in doomed'[j]
    BY <1>1, <2>1
  <2>2. ASSUME NEW k \in Jobs, Scan(k) PROVE i \in doomed'[j]
    <3>1. CASE k = j
      BY <1>1, <2>2, <3>1 DEF Scan
    <3>2. CASE k # j
      BY <1>1, <2>2, <3>2 DEF Scan
    <3>3. QED
      BY <3>1, <3>2
  <2>3. ASSUME NEW k \in Jobs, NEW l \in Items, DeleteItem(k, l) PROVE i \in doomed'[j]
    <3>1. l # i
      BY <2>3 DEF DeleteItem
    <3>2. QED
      BY <1>1, <2>3, <3>1 DEF DeleteItem
  <2>4. ASSUME NEW k \in Jobs, NEW t \in rows[k], DeleteRow(k, t) PROVE i \in doomed'[j]
    BY <1>1, <2>4 DEF DeleteRow
  <2>5. ASSUME NEW k \in Jobs, FailJob(k) PROVE i \in doomed'[j]
    BY <1>1, <2>5 DEF FailJob
  <2>6. QED
    BY <2>1, <2>2, <2>3, <2>4, <2>5
       DEF Next, WriterStep, JobStep, Begin, Answered, Save, ReadRef, DropOld, Enter,
           Refer, FailCall, Remove, DeleteRef, Tick, vars, jobs
<1>5. QED
  BY <1>1, <1>2, <1>3, <1>4, EntryStep DEF Indexed

\* Every step keeps an entry or a request for each item.
LEMMA ImmortalStep ==
  /\ TypeOK /\ PatienceInv /\ RowsInv /\ SaveInv /\ NoImmortal
  /\ [Next]_vars
  => NoImmortal'
<1> SUFFICES ASSUME TypeOK, PatienceInv, RowsInv, SaveInv, NoImmortal, [Next]_vars,
                    NEW i \in (present' \cap mortal') \ cut'
             PROVE  Indexed(i)' \/ \E v \in Writers : WillEnter(v, i)'
  BY DEF NoImmortal
<1> USE DEF TypeOK
<1>1. i \in Items /\ i \notin cut
  <2>1. mortal' \subseteq Items
    BY DEF Next, Begin, WriterStep, Save, ReadRef, DropOld, Enter, Refer, Answered,
       FailCall, Remove, JobStep, Scan, DeleteItem, DeleteRow, DeleteRef, FailJob, Tick, vars
  <2>2. cut \subseteq cut'
    BY DEF Next, Begin, WriterStep, Save, ReadRef, DropOld, Enter, Refer, Answered,
       FailCall, Remove, JobStep, Scan, DeleteItem, DeleteRow, DeleteRef, FailJob, Tick, vars
  <2>3. QED
    BY <2>1, <2>2
<1>2. ASSUME Indexed(i) \/ \E v \in Writers : WillEnter(v, i)
      PROVE  Indexed(i)' \/ \E v \in Writers : WillEnter(v, i)'
  <2>1. CASE Indexed(i)
    BY <1>1, <2>1, IndexedStep
  <2>2. ASSUME NEW v \in Writers, WillEnter(v, i)
        PROVE  Indexed(i)' \/ \E u \in Writers : WillEnter(u, i)'
    <3>1. CASE <<i, Due(v)>> \in entries'
      <4>1. Due(v) > now /\ Due(v) \in Nat
        BY <2>2, DueLate, TtlAssumption DEF WillEnter, Busy
      <4>2. CASE UNCHANGED rows
        <5>1. \A j \in Jobs : Due(v) \notin rows'[j]
          BY <4>1, <4>2 DEF RowsInv
        <5>2. QED
          BY <3>1, <5>1 DEF Indexed
      <4>3. CASE UNCHANGED writers
        BY <2>2, <4>3 DEF WillEnter, writers
      <4>4. QED
        BY <4>2, <4>3
           DEF Next, Begin, WriterStep, Save, ReadRef, DropOld, Enter, Refer, Answered,
               FailCall, Remove, JobStep, Scan, DeleteItem, DeleteRow, DeleteRef,
               FailJob, Tick, vars, jobs
    <3>2. QED
      BY <1>1, <2>2, <3>1, WillEnterStep
  <2>3. QED
    BY <1>2, <2>1, <2>2
<1>3. CASE i \in present \cap mortal
  BY <1>1, <1>2, <1>3 DEF NoImmortal
<1>4. CASE i \notin present \cap mortal
  <2>1. PICK w \in Writers : Save(w) /\ kind[w] # "plain" /\ item[w] = i
    BY <1>4 DEF Next, Begin, WriterStep, Save, ReadRef, DropOld, Enter, Refer, Answered,
       FailCall, Remove, JobStep, Scan, DeleteItem, DeleteRow, DeleteRef, FailJob, Tick,
       vars, tables
  <2>2. "save" \in todo[w]
    BY <2>1 DEF Save, Answered
  <2>3. Covered(i, start[w] + Patience)
    BY <1>1, <2>1, <2>2 DEF SaveInv
  <2>4. start[w] + Patience \in Nat /\ now <= start[w] + Patience
    BY <2>2, TtlAssumption DEF PatienceInv, Busy
  <2>5. QED
    BY <1>1, <1>2, <2>3, <2>4, CoveredIndexed
<1>5. QED
  BY <1>3, <1>4

\* No item saved with a TTL becomes immortal, however the requests and the jobs of
\* any number of processes interleave and wherever a job stops, as long as no call
\* of setTTL for the item failed.
THEOREM NothingImmortal == Spec => []NoImmortal
<1>1. Init => PatienceInv /\ RowsInv /\ SaveInv /\ NoImmortal
  BY DEF Init, PatienceInv, Busy, RowsInv, SaveInv, NoImmortal
<1>2. QED
  BY <1>1, PatienceStep, RowsStep, SaveStep, ImmortalStep, TypeCorrect, PTL DEF Spec

-----------------------------------------------------------------------------
(* Requests, removals and jobs that come one after the other.              *)

\* Nothing overlaps.
OneActor ==
  /\ \A w, v \in Writers : Busy(w) /\ Busy(v) => w = v
  /\ \A j, k \in Jobs : Working(j) /\ Working(k) => j = k
  /\ \A w \in Writers, j \in Jobs : Busy(w) => ~Working(j)

\* The one entry of i is the one its reference tells of.
Exact(i) == \A t \in Nat : <<i, t>> \in entries <=> ref[i] = t

\* How far request w has come with the entry and the reference of its item.
WriterExact(w) ==
  LET i == item[w] IN
  /\ todo[w] \cap {"read", "drop"} # {} => todo[w] \cap {"enter", "refer"} = {} /\ Exact(i)
  /\ "drop" \in todo[w] => old[w] = ref[i] /\ ref[i] # NoRef /\ "read" \notin todo[w]
  /\ "enter" \in todo[w] => \A t \in Nat : <<i, t>> \notin entries
  /\ "enter" \in todo[w] /\ "refer" \notin todo[w] => ref[i] = Due(w)
  /\ "enter" \notin todo[w] /\ "refer" \in todo[w] => \A t \in Nat : <<i, t>> \in entries <=> t = Due(w)
  /\ todo[w] \cap {"read", "drop", "enter", "refer"} = {} => Exact(i)
  /\ kind[w] # "plain" /\ todo[w] \cap {"read", "drop", "refer"} = {} => ref[i] = Due(w)

\* How far job j has come with those of i: what it has not deleted of the two is
\* among the rows and the references it will delete.
JobExact(j, i) ==
  /\ i \in refs[j] => /\ ref[i] # NoRef
                      /\ \A t \in Nat : <<i, t>> \in entries => t = ref[i] /\ t \in rows[j]
  /\ i \notin refs[j] => /\ ref[i] \notin rows[j]
                         /\ ref[i] # NoRef => Exact(i)
                         /\ ref[i] = NoRef => \A t \in Nat : <<i, t>> \in entries => t \in rows[j]

\* The latest time that was promised for i is the one in its reference, and a job
\* has i only once that is over.
InTime(i) ==
  /\ ref[i] # NoRef => deadline[i] <= ref[i]
  /\ deadline[i] <= now + Lifetime
  /\ \A w \in Writers : Busy(w) /\ item[w] = i => deadline[i] <= Due(w)
  /\ \A j \in Jobs : i \in doomed[j] => deadline[i] <= now

AllExact ==
  \A i \in Items :
    /\ (\A w \in Writers : Busy(w) => item[w] # i) /\ (\A j \in Jobs : ~Working(j)) => Exact(i)
    /\ \A j \in Jobs : Working(j) => JobExact(j, i)
    /\ InTime(i)

WritersExact == \A w \in Writers : Busy(w) => WriterExact(w)

SerialInv == serial => OneActor /\ (fails = 0 => AllExact /\ WritersExact)

\* No step makes up for an overlap or a failure.
LEMMA SerialBefore ==
  ASSUME TypeOK, [Next]_vars, serial'
  PROVE  serial
BY DEF Next, vars, WriterStep, JobStep, Begin, Answered, FailCall, Save, ReadRef, DropOld, Enter, Refer, Remove,
       Scan, DeleteItem, DeleteRef, DeleteRow, FailJob, Tick

\* Whoever begins does so when nothing is under way.
LEMMA BeginsQuiet ==
  ASSUME serial', NEW w, NEW i, NEW k, NEW j, Begin(w, i, k) \/ Scan(j)
  PROVE  Quiet
BY DEF Begin, Scan

\* After its scan a job has less and less to delete.
LEMMA JobDeletes ==
  ASSUME TypeOK, NEW j \in Jobs,
         FailJob(j) \/ (\E i \in Items : DeleteItem(j, i) \/ DeleteRef(j, i))
                    \/ \E t \in rows[j] : DeleteRow(j, t)
  PROVE  \A k \in Jobs : /\ doomed'[k] \subseteq doomed[k]
                         /\ rows'[k] \subseteq rows[k]
                         /\ refs'[k] \subseteq refs[k]
<1> USE DEF TypeOK
<1>1. CASE FailJob(j)
  BY <1>1 DEF FailJob
<1>2. ASSUME NEW i \in Items, DeleteItem(j, i) PROVE \A k \in Jobs : doomed'[k] \subseteq doomed[k]
  BY <1>2 DEF DeleteItem
<1>3. ASSUME NEW i \in Items, DeleteItem(j, i) PROVE UNCHANGED <<rows, refs>>
  BY <1>3 DEF DeleteItem
<1>4. ASSUME NEW i \in Items, DeleteRef(j, i) PROVE \A k \in Jobs : refs'[k] \subseteq refs[k]
  BY <1>4 DEF DeleteRef
<1>5. ASSUME NEW i \in Items, DeleteRef(j, i) PROVE UNCHANGED <<rows, doomed>>
  BY <1>5 DEF DeleteRef
<1>6. ASSUME NEW t \in rows[j], DeleteRow(j, t) PROVE \A k \in Jobs : rows'[k] \subseteq rows[k]
  BY <1>6 DEF DeleteRow
<1>7. ASSUME NEW t \in rows[j], DeleteRow(j, t) PROVE UNCHANGED <<doomed, refs>>
  BY <1>7 DEF DeleteRow
<1> QED
  BY <1>1, <1>2, <1>3, <1>4, <1>5, <1>6, <1>7

\* One actor at a time, whatever fails.
LEMMA OneActorStep ==
  ASSUME TypeOK, OneActor, [Next]_vars, serial'
  PROVE  OneActor'
<1> USE DEF TypeOK
<1>1. ASSUME \A w \in Writers : Busy(w)' => Busy(w), \A j \in Jobs : Working(j)' => Working(j)
      PROVE  OneActor'
  BY <1>1 DEF OneActor
<1>2. ASSUME NEW w \in Writers, NEW i \in Items, NEW k \in Kinds, Begin(w, i, k) PROVE OneActor'
  <2>1. Quiet
    BY <1>2 DEF Begin
  <2>2. \A v \in Writers : Busy(v)' => v = w
    BY <1>2, <2>1 DEF Begin, Quiet, Busy
  <2>3. \A j \in Jobs : ~Working(j)'
    BY <1>2, <2>1 DEF Begin, Quiet, Working, jobs
  <2> QED
    BY <2>2, <2>3 DEF OneActor
<1>3. ASSUME NEW w \in Writers, WriterStep(w) PROVE OneActor'
  <2>1. \E c, next : Answered(w, c, next)
    BY <1>3 DEF WriterStep, Save, ReadRef, DropOld, Enter, Refer
  <2>2. \A v \in Writers : Busy(v)' => Busy(v)
    BY <2>1 DEF Answered, Busy
  <2>3. \A j \in Jobs : Working(j)' => Working(j)
    BY <2>1 DEF Answered, Working, jobs
  <2> QED
    BY <1>1, <2>2, <2>3
<1>4. ASSUME NEW w \in Writers, NEW c \in todo[w], FailCall(w, c) PROVE OneActor'
  <2>2. \A v \in Writers : Busy(v)' => Busy(v)
    BY <1>4 DEF FailCall, Busy
  <2>3. \A j \in Jobs : Working(j)' => Working(j)
    BY <1>4 DEF FailCall, Working, jobs
  <2> QED
    BY <1>1, <2>2, <2>3
<1>5. ASSUME NEW j \in Jobs, Scan(j) PROVE OneActor'
  <2>1. Quiet
    BY <1>5 DEF Scan
  <2>2. \A v \in Writers : ~Busy(v)'
    BY <1>5, <2>1 DEF Scan, Quiet, Busy, writers
  <2>3. \A k \in Jobs : Working(k)' => k = j
    BY <1>5, <2>1 DEF Scan, Quiet, Working
  <2> QED
    BY <2>2, <2>3 DEF OneActor
<1>6. ASSUME UNCHANGED todo, \A j \in Jobs : Working(j)' => Working(j) PROVE OneActor'
  BY <1>1, <1>6 DEF Busy
<1>7. ASSUME NEW j \in Jobs, FailJob(j) \/ (\E i \in Items : DeleteItem(j, i) \/ DeleteRef(j, i))
                                       \/ \E t \in rows[j] : DeleteRow(j, t)
      PROVE  OneActor'
  <2>1. \A k \in Jobs : Working(k)' => Working(k)
    BY <1>7, JobDeletes DEF Working
  <2>2. UNCHANGED todo
    BY <1>7 DEF FailJob, DeleteItem, DeleteRef, DeleteRow, writers
  <2> QED
    BY <1>6, <2>1, <2>2
<1>8. ASSUME UNCHANGED <<todo, jobs>> PROVE OneActor'
  BY <1>6, <1>8 DEF Working, jobs
<1> QED
  BY <1>2, <1>3, <1>4, <1>5, <1>7, <1>8 DEF Next, JobStep, Remove, Tick, vars, writers

\* What a request has told of its item stays true with each of its calls.
LEMMA WriterExactStep ==
  ASSUME TypeOK, NEW w \in Writers, WriterExact(w), WriterStep(w)
  PROVE  WriterExact(w)'
<1> USE DEF TypeOK
<1> DEFINE i == item[w]
<1>0. i \in Items /\ Due(w) \in Nat /\ NoRef \notin Nat
  BY TtlAssumption DEF Due
<1>1. UNCHANGED <<item, kind, start>> /\ Due(w)' = Due(w)
  BY DEF WriterStep, Save, ReadRef, DropOld, Enter, Refer, Answered, Due
<1>2. CASE Save(w)
  <2>1. todo'[w] = todo[w] \ {"save"}
    BY <1>2 DEF Save, Answered
  <2>2. UNCHANGED <<entries, ref, old>>
    BY <1>2 DEF Save
  <2> QED
    BY <1>1, <2>1, <2>2 DEF WriterExact, Exact
<1>3. CASE ReadRef(w)
  <2>1. "read" \in todo[w] /\ UNCHANGED <<entries, ref>> /\ old'[w] = ref[i]
    BY <1>3 DEF ReadRef, Answered, tables
  <2>2. Exact(i) /\ "enter" \notin todo[w] /\ "refer" \notin todo[w] /\ "drop" \notin todo[w]
    BY <2>1 DEF WriterExact
  <2>3. CASE ref[i] = NoRef
    <3>1. todo'[w] = (todo[w] \ {"read"}) \cup {"enter", "refer"}
      BY <1>3, <2>3 DEF ReadRef, Answered
    <3>2. \A t \in Nat : <<i, t>> \notin entries
      BY <1>0, <2>2, <2>3 DEF Exact
    <3> QED
      BY <1>1, <2>1, <2>2, <3>1, <3>2 DEF WriterExact, Exact
  <2>4. CASE ref[i] # NoRef
    <3>1. todo'[w] = (todo[w] \ {"read"}) \cup {"drop"}
      BY <1>3, <2>4 DEF ReadRef, Answered
    <3> QED
      BY <1>1, <2>1, <2>2, <2>4, <3>1 DEF WriterExact, Exact
  <2> QED
    BY <2>3, <2>4
<1>4. CASE DropOld(w)
  <2>1. /\ "drop" \in todo[w] /\ UNCHANGED ref
        /\ entries' = entries \ {<<i, old[w]>>}
        /\ todo'[w] = (todo[w] \ {"drop"}) \cup {"enter", "refer"}
    BY <1>4 DEF DropOld, Answered
  <2>2. Exact(i) /\ old[w] = ref[i] /\ "read" \notin todo[w]
    BY <2>1 DEF WriterExact
  <2>3. \A t \in Nat : <<i, t>> \notin entries'
    BY <2>1, <2>2 DEF Exact
  <2> QED
    BY <1>1, <2>1, <2>2, <2>3 DEF WriterExact, Exact
<1>5. CASE Enter(w)
  <2>1. /\ "enter" \in todo[w] /\ UNCHANGED <<ref, old>>
        /\ entries' = entries \cup {<<i, Due(w)>>}
        /\ todo'[w] = todo[w] \ {"enter"}
    BY <1>5 DEF Enter, Answered
  <2>2. \A t \in Nat : <<i, t>> \notin entries
    BY <2>1 DEF WriterExact
  <2>3. \A t \in Nat : <<i, t>> \in entries' <=> t = Due(w)
    BY <2>1, <2>2
  <2>4. "read" \notin todo[w] /\ "drop" \notin todo[w]
    BY <2>1 DEF WriterExact
  <2>5. "refer" \notin todo[w] => ref[i] = Due(w)
    BY <2>1 DEF WriterExact
  <2> QED
    BY <1>1, <2>1, <2>3, <2>4, <2>5 DEF WriterExact, Exact
<1>6. CASE Refer(w)
  <2>1. /\ "refer" \in todo[w] /\ UNCHANGED <<entries, old>>
        /\ ref'[i] = Due(w)
        /\ todo'[w] = todo[w] \ {"refer"}
    BY <1>6 DEF Refer, Answered
  <2>2. "read" \notin todo[w] /\ "drop" \notin todo[w]
    BY <2>1 DEF WriterExact
  <2>3. "enter" \in todo[w] => \A t \in Nat : <<i, t>> \notin entries
    BY DEF WriterExact
  <2>4. "enter" \notin todo[w] => \A t \in Nat : <<i, t>> \in entries <=> t = Due(w)
    BY <2>1 DEF WriterExact
  <2> QED
    BY <1>1, <2>1, <2>2, <2>3, <2>4 DEF WriterExact, Exact
<1> QED
  BY <1>2, <1>3, <1>4, <1>5, <1>6 DEF WriterStep

\* A call of a request, when nothing else is under way.
LEMMA SerialWriterStep ==
  ASSUME TypeOK, PatienceInv, OneActor, AllExact, WritersExact,
         NEW w \in Writers, WriterStep(w)
  PROVE  AllExact' /\ WritersExact'
<1> USE DEF TypeOK
<1>1. PICK c \in Calls, next \in SUBSET Calls : Answered(w, c, next)
  <2>1. Save(w) => Answered(w, "save", {})
    BY DEF Save
  <2>2. ReadRef(w) => Answered(w, "read", {"enter", "refer"}) \/ Answered(w, "read", {"drop"})
    BY DEF ReadRef
  <2>3. DropOld(w) => Answered(w, "drop", {"enter", "refer"})
    BY DEF DropOld
  <2>4. Enter(w) => Answered(w, "enter", {})
    BY DEF Enter
  <2>5. Refer(w) => Answered(w, "refer", {})
    BY DEF Refer
  <2> QED
    BY <2>1, <2>2, <2>3, <2>4, <2>5 DEF WriterStep, Calls
<1>2. c \in todo[w] /\ Busy(w)
  BY <1>1 DEF Answered, Busy
<1>3. (\A v \in Writers \ {w} : ~Busy(v)) /\ (\A j \in Jobs : ~Working(j))
  BY <1>2 DEF OneActor
<1>4. (\A v \in Writers \ {w} : ~Busy(v)') /\ (\A j \in Jobs : ~Working(j)')
  BY <1>1, <1>3 DEF Answered, Busy, Working, jobs
<1>5. WriterExact(w)'
  BY <1>2, WriterExactStep DEF WritersExact
<1>6. WritersExact'
  BY <1>4, <1>5 DEF WritersExact
<1>7. UNCHANGED <<item, kind, start, now, doomed>> /\ Due(w)' = Due(w) /\ Due(w) \in Nat
  BY <1>1, TtlAssumption DEF Answered, Due, jobs
<1>8. Due(w) <= now + Lifetime
  BY <1>2, TtlAssumption DEF PatienceInv, Due
<1>9. \A i \in Items : deadline'[i] = deadline[i] \/ (i = item[w] /\ deadline'[i] = Due(w))
  <2>1. deadline[item[w]] <= Due(w) /\ deadline[item[w]] \in Nat
    BY <1>2 DEF AllExact, InTime
  <2>2. Latest(deadline[item[w]], Due(w)) = Due(w)
    BY <2>1, <1>7 DEF Latest
  <2> QED
    BY <1>1, <2>2 DEF Answered
<1>10. \A i \in Items \ {item[w]} :
         ref'[i] = ref[i] /\ \A t \in Nat : <<i, t>> \in entries' <=> <<i, t>> \in entries
  BY DEF WriterStep, Save, ReadRef, DropOld, Enter, Refer, tables
<1>11. todo'[w] = {} => Exact(item[w])'
  BY <1>5, <1>7 DEF WriterExact
<1>12. \A i \in Items : InTime(i)'
  <2> SUFFICES ASSUME NEW i \in Items PROVE InTime(i)'
    OBVIOUS
  <2>1. InTime(i) /\ deadline[i] \in Nat
    BY DEF AllExact
  <2>2. \A v \in Writers : Busy(v)' /\ item'[v] = i => v = w /\ deadline[i] <= Due(w)
    BY <1>4, <1>7, <2>1, <1>2 DEF InTime
  <2>3. deadline'[i] <= now + Lifetime
    BY <1>8, <1>9, <2>1 DEF InTime
  <2>4. \A v \in Writers : Busy(v)' /\ item'[v] = i => deadline'[i] <= Due(v)'
    BY <1>7, <1>9, <2>2
  <2>5. \A j \in Jobs : i \notin doomed'[j]
    BY <1>4 DEF Working
  <2>6. ref'[i] # NoRef => deadline'[i] <= ref'[i]
    <3>1. CASE i # item[w]
      BY <1>9, <1>10, <2>1, <3>1 DEF InTime
    <3>2. CASE i = item[w] /\ Refer(w)
      <4>1. ref'[i] = Due(w) /\ deadline[i] <= Due(w)
        BY <3>2, <1>2, <2>1 DEF Refer, InTime
      <4> QED
        BY <4>1, <1>9, <1>7
    <3>3. CASE i = item[w] /\ ~Refer(w)
      <4>1. UNCHANGED ref
        BY <3>3 DEF WriterStep, Save, ReadRef, DropOld, Enter, tables
      <4>2. CASE deadline'[i] = deadline[i]
        BY <4>1, <4>2, <2>1 DEF InTime
      <4>3. CASE deadline'[i] # deadline[i]
        <5>1. todo[w] = {c} /\ next = {} /\ kind[w] # "plain"
          BY <4>3, <1>1 DEF Answered
        <5>2. todo'[w] = {}
          BY <5>1, <1>1 DEF Answered
        <5>3. ref'[i] = Due(w)
          BY <5>1, <5>2, <1>5, <1>7, <3>3 DEF WriterExact
        <5> QED
          BY <5>3, <1>9, <4>3, <1>7
      <4> QED
        BY <4>2, <4>3
    <3> QED
      BY <3>1, <3>2, <3>3
  <2> QED
    BY <1>7, <2>3, <2>4, <2>5, <2>6 DEF InTime
<1>13. \A i \in Items : (\A v \in Writers : Busy(v)' => item'[v] # i) => Exact(i)'
  <2> SUFFICES ASSUME NEW i \in Items, \A v \in Writers : Busy(v)' => item'[v] # i
               PROVE  Exact(i)'
    OBVIOUS
  <2>1. CASE i = item[w]
    BY <1>7, <1>11, <2>1 DEF Busy
  <2>2. CASE i # item[w]
    <3>1. Exact(i)
      BY <1>3, <2>2 DEF AllExact
    <3> QED
      BY <1>10, <2>2, <3>1 DEF Exact
  <2> QED
    BY <2>1, <2>2
<1> QED
  BY <1>4, <1>6, <1>12, <1>13 DEF AllExact

\* A request begins when nothing else is under way.
LEMMA SerialBeginStep ==
  ASSUME TypeOK, AllExact, Quiet,
         NEW w \in Writers, NEW i \in Items, NEW k \in Kinds, Begin(w, i, k)
  PROVE  AllExact' /\ WritersExact'
<1> USE DEF TypeOK
<1>1. /\ todo'[w] = FirstCalls(k) /\ item'[w] = i /\ kind'[w] = k /\ start'[w] = now
      /\ \A v \in Writers \ {w} : todo'[v] = todo[v]
      /\ UNCHANGED <<entries, ref, doomed, rows, refs, deadline, now>>
  BY DEF Begin, tables, jobs
<1>2. k \in {"create", "bump", "plain"}
  BY TtlAssumption
<1>3. /\ "drop" \notin FirstCalls(k) /\ "enter" \notin FirstCalls(k) /\ "refer" \notin FirstCalls(k)
      /\ k # "plain" => "read" \in FirstCalls(k)
  BY <1>2 DEF FirstCalls
<1>4. \A l \in Items : Exact(l)
  BY DEF AllExact, Quiet
<1>5. \A l \in Items : Exact(l)'
  BY <1>1, <1>4 DEF Exact
<1>6. WriterExact(w)'
  BY <1>1, <1>3, <1>5 DEF WriterExact
<1>7. \A v \in Writers : Busy(v)' => v = w
  BY <1>1 DEF Busy, Quiet
<1>8. \A j \in Jobs : ~Working(j)'
  BY <1>1 DEF Working, Quiet
<1>9. \A l \in Items : InTime(l)'
  <2> SUFFICES ASSUME NEW l \in Items PROVE InTime(l)'
    OBVIOUS
  <2>1. InTime(l)
    BY DEF AllExact
  <2>2. Due(w)' = now + Lifetime
    BY <1>1 DEF Due
  <2>3. \A v \in Writers : Busy(v)' /\ item'[v] = l => deadline'[l] <= Due(v)'
    BY <1>1, <1>7, <2>1, <2>2 DEF InTime
  <2>4. (ref'[l] # NoRef => deadline'[l] <= ref'[l]) /\ deadline'[l] <= now' + Lifetime
    BY <1>1, <2>1 DEF InTime
  <2>5. \A j \in Jobs : l \in doomed'[j] => deadline'[l] <= now'
    BY <1>1, <2>1 DEF InTime
  <2> QED
    BY <2>3, <2>4, <2>5 DEF InTime
<1> QED
  BY <1>5, <1>6, <1>7, <1>8, <1>9 DEF AllExact, WritersExact

\* A job scans when nothing else is under way.
LEMMA SerialScanStep ==
  ASSUME TypeOK, AllExact, Quiet, NEW j \in Jobs, Scan(j)
  PROVE  AllExact' /\ WritersExact'
<1> USE DEF TypeOK
<1> DEFINE expired == {e \in entries : e[2] \in Scanned}
<1>1. /\ doomed'[j] = {e[1] : e \in expired} /\ refs'[j] = {e[1] : e \in expired}
      /\ rows'[j] = Scanned
      /\ \A k \in Jobs \ {j} : ~Working(k)'
      /\ UNCHANGED <<entries, ref, todo, item, start, deadline, now>>
  BY DEF Scan, tables, writers, Working, Quiet
<1>2. \A t \in Scanned : t \in Nat /\ t <= now
  BY DEF Scanned, DueRows
<1>3. \A i \in Items : Exact(i) /\ InTime(i)
  BY DEF AllExact, Quiet
<1>4. \A v \in Writers : ~Busy(v)'
  BY <1>1 DEF Busy, Quiet
<1>5. \A i \in Items : i \in {e[1] : e \in expired} <=> \E t \in Scanned : <<i, t>> \in entries
  <2> SUFFICES ASSUME NEW i \in Items
               PROVE  i \in {e[1] : e \in expired} <=> \E t \in Scanned : <<i, t>> \in entries
    OBVIOUS
  <2>1. ASSUME NEW e \in expired, i = e[1] PROVE \E t \in Scanned : <<i, t>> \in entries
    <3>1. e = <<e[1], e[2]>> /\ e[2] \in Scanned /\ e \in entries
      OBVIOUS
    <3> QED
      BY <2>1, <3>1
  <2>2. ASSUME NEW t \in Scanned, <<i, t>> \in entries PROVE i \in {e[1] : e \in expired}
    BY <2>2
  <2> QED
    BY <2>1, <2>2
<1>6. \A i \in Items : JobExact(j, i)'
  <2> SUFFICES ASSUME NEW i \in Items PROVE JobExact(j, i)'
    OBVIOUS
  <2> HIDE DEF expired
  <2>1. \A t \in Nat : <<i, t>> \in entries <=> ref[i] = t
    BY <1>3 DEF Exact
  <2>2. CASE i \in refs'[j]
    <3>1. PICK t \in Scanned : <<i, t>> \in entries
      BY <1>1, <1>5, <2>2
    <3>2. ref[i] = t /\ ref[i] # NoRef
      BY <1>2, <2>1, <3>1, TtlAssumption
    <3> QED
      BY <1>1, <2>1, <2>2, <3>1, <3>2 DEF JobExact
  <2>3. CASE i \notin refs'[j]
    <3>1. \A t \in Scanned : <<i, t>> \notin entries
      BY <1>1, <1>5, <2>3
    <3>2. ref[i] \notin Scanned
      BY <1>2, <2>1, <3>1
    <3>3. Exact(i)'
      BY <1>1, <1>3 DEF Exact
    <3>4. ref[i] = NoRef => \A t \in Nat : <<i, t>> \notin entries
      BY <2>1, TtlAssumption
    <3> QED
      BY <1>1, <2>3, <3>2, <3>3, <3>4 DEF JobExact
  <2> QED
    BY <2>2, <2>3
<1>7. \A i \in Items : InTime(i)'
  <2> SUFFICES ASSUME NEW i \in Items PROVE InTime(i)'
    OBVIOUS
  <2> HIDE DEF expired
  <2>1. InTime(i) /\ Exact(i)
    BY <1>3
  <2>2. i \in doomed'[j] => deadline[i] <= now
    <3> SUFFICES ASSUME i \in doomed'[j] PROVE deadline[i] <= now
      OBVIOUS
    <3>1. PICK t \in Scanned : <<i, t>> \in entries
      BY <1>1, <1>5
    <3>2. ref[i] = t /\ t \in Nat /\ t <= now
      BY <1>2, <2>1, <3>1 DEF Exact
    <3>3. deadline[i] <= t /\ deadline[i] \in Nat
      BY <2>1, <3>2, TtlAssumption DEF InTime
    <3> QED
      BY <3>2, <3>3
  <2>3. \A k \in Jobs : i \in doomed'[k] => deadline[i] <= now
    BY <1>1, <2>2 DEF Working
  <2> QED
    BY <1>1, <1>4, <2>1, <2>3 DEF InTime
<1>8. Working(j)'
  <2>1. Scanned # {}
    BY DEF Scan
  <2> QED
    BY <1>1, <2>1 DEF Working
<1> QED
  BY <1>1, <1>4, <1>6, <1>7, <1>8 DEF AllExact, WritersExact

\* A job deletes, when nothing else is under way.
LEMMA SerialDeleteStep ==
  ASSUME TypeOK, OneActor, AllExact, NEW j \in Jobs,
         (\E i \in Items : DeleteItem(j, i) \/ DeleteRef(j, i)) \/ \E t \in rows[j] : DeleteRow(j, t)
  PROVE  AllExact' /\ WritersExact'
<1> USE DEF TypeOK
<1>1. Working(j) /\ UNCHANGED <<todo, item, start, deadline, now>>
  BY DEF DeleteItem, DeleteRef, DeleteRow, Working, writers
<1>2. (\A k \in Jobs \ {j} : ~Working(k)) /\ \A v \in Writers : ~Busy(v)
  BY <1>1 DEF OneActor
<1>3. \A k \in Jobs : doomed'[k] \subseteq doomed[k] /\ rows'[k] \subseteq rows[k] /\ refs'[k] \subseteq refs[k]
  BY JobDeletes
<1>4. (\A k \in Jobs \ {j} : ~Working(k)') /\ \A v \in Writers : ~Busy(v)'
  BY <1>1, <1>2, <1>3 DEF Working, Busy
<1>5. \A i \in Items : JobExact(j, i)'
  <2> SUFFICES ASSUME NEW i \in Items PROVE JobExact(j, i)'
    OBVIOUS
  <2>0. JobExact(j, i) /\ rows[j] \subseteq Nat /\ NoRef \notin Nat
    BY <1>1, TtlAssumption DEF AllExact
  <2>1. ASSUME NEW l \in Items, DeleteItem(j, l) PROVE JobExact(j, i)'
    BY <2>0, <2>1 DEF DeleteItem, JobExact, Exact
  <2>2. ASSUME NEW l \in Items, DeleteRef(j, l) PROVE JobExact(j, i)'
    <3>1. UNCHANGED <<entries, rows>> /\ refs'[j] = refs[j] \ {l} /\ l \in refs[j]
          /\ ref' = [ref EXCEPT ![l] = NoRef]
      BY <2>2 DEF DeleteRef
    <3>2. CASE i = l
      <4>1. ref'[i] = NoRef /\ i \notin refs'[j]
        BY <3>1, <3>2
      <4> QED
        BY <2>0, <3>1, <3>2, <4>1 DEF JobExact
    <3>3. CASE i # l
      BY <2>0, <3>1, <3>3 DEF JobExact, Exact
    <3> QED
      BY <3>2, <3>3
  <2>3. ASSUME NEW t \in rows[j], DeleteRow(j, t) PROVE JobExact(j, i)'
    <3>1. UNCHANGED <<ref, refs>> /\ rows'[j] = rows[j] \ {t}
      BY <2>3 DEF DeleteRow
    <3>2. \A s \in Nat : <<i, s>> \in entries' <=> <<i, s>> \in entries /\ s # t
      BY <2>3 DEF DeleteRow
    <3>3. CASE i \in refs[j]
      BY <2>0, <3>1, <3>2, <3>3 DEF JobExact
    <3>4. CASE i \notin refs[j]
      <4>1. ref[i] \notin rows[j]
        BY <2>0, <3>4 DEF JobExact
      <4>2. ref'[i] # NoRef => Exact(i)'
        BY <2>0, <3>1, <3>2, <3>4, <4>1 DEF JobExact, Exact
      <4> QED
        BY <2>0, <3>1, <3>2, <3>4, <4>1, <4>2 DEF JobExact
    <3> QED
      BY <3>3, <3>4
  <2> QED
    BY <2>1, <2>2, <2>3
<1>6. \A i \in Items : InTime(i)'
  <2> SUFFICES ASSUME NEW i \in Items PROVE InTime(i)'
    OBVIOUS
  <2>1. InTime(i)
    BY DEF AllExact
  <2>2. ref'[i] # NoRef => ref'[i] = ref[i]
    BY DEF DeleteItem, DeleteRef, DeleteRow
  <2> QED
    BY <1>1, <1>3, <1>4, <2>1, <2>2 DEF InTime
<1>7. ~Working(j)' => \A i \in Items : Exact(i)'
  <2> SUFFICES ASSUME ~Working(j)', NEW i \in Items PROVE Exact(i)'
    OBVIOUS
  <2>1. rows'[j] = {} /\ refs'[j] = {}
    BY DEF Working
  <2>2. ref'[i] # NoRef => Exact(i)'
    BY <1>5, <2>1 DEF JobExact
  <2>3. ref'[i] = NoRef => \A t \in Nat : <<i, t>> \notin entries'
    BY <1>5, <2>1 DEF JobExact
  <2> QED
    BY <2>2, <2>3, TtlAssumption DEF Exact
<1> QED
  BY <1>4, <1>5, <1>6, <1>7 DEF AllExact, WritersExact

\* The clock and a removal touch none of this.
LEMMA SerialRestStep ==
  ASSUME TypeOK, AllExact, WritersExact,
         UNCHANGED vars \/ Tick \/ \E i \in Items : Remove(i)
  PROVE  AllExact' /\ WritersExact'
<1> USE DEF TypeOK
<1>1. /\ UNCHANGED <<entries, ref, kind, item, start, old, todo, doomed, rows, refs, deadline>>
      /\ now \in Nat /\ now' \in Nat /\ now <= now'
  BY DEF vars, tables, writers, jobs, Tick, Remove
<1>2. \A w \in Writers : (Busy(w)' <=> Busy(w)) /\ Due(w)' = Due(w)
  BY <1>1 DEF Busy, Due
<1>3. \A j \in Jobs : Working(j)' <=> Working(j)
  BY <1>1 DEF Working
<1>4. \A i \in Items : (Exact(i)' <=> Exact(i)) /\ \A j \in Jobs : JobExact(j, i)' <=> JobExact(j, i)
  BY <1>1 DEF Exact, JobExact
<1>5. WritersExact'
  <2> SUFFICES ASSUME NEW w \in Writers, Busy(w)' PROVE WriterExact(w)'
    BY DEF WritersExact
  <2>1. WriterExact(w)
    BY <1>2 DEF WritersExact
  <2> QED
    BY <1>1, <1>2, <2>1 DEF WriterExact, Exact
<1>6. \A i \in Items : InTime(i)'
  <2> SUFFICES ASSUME NEW i \in Items PROVE InTime(i)'
    OBVIOUS
  <2>1. InTime(i) /\ deadline[i] \in Nat
    BY DEF AllExact
  <2>2. deadline'[i] <= now' + Lifetime
    BY <1>1, <2>1, TtlAssumption DEF InTime
  <2>3. \A j \in Jobs : i \in doomed'[j] => deadline'[i] <= now'
    BY <1>1, <2>1 DEF InTime
  <2> QED
    BY <1>1, <1>2, <2>1, <2>2, <2>3 DEF InTime
<1> QED
  BY <1>1, <1>2, <1>3, <1>4, <1>5, <1>6 DEF AllExact

\* Every step, while nothing overlaps.
LEMMA SerialStep == TypeOK /\ PatienceInv /\ SerialInv /\ [Next]_vars => SerialInv'
<1> SUFFICES ASSUME TypeOK, PatienceInv, SerialInv, [Next]_vars, serial'
             PROVE  OneActor' /\ (fails' = 0 => AllExact' /\ WritersExact')
  BY DEF SerialInv
<1>1. serial /\ OneActor
  BY SerialBefore DEF SerialInv
<1>2. OneActor'
  BY <1>1, OneActorStep
<1>3. ASSUME fails' = 0 PROVE AllExact' /\ WritersExact'
  <2>1. /\ \A w \in Writers : \A c \in todo[w] : ~FailCall(w, c)
        /\ \A j \in Jobs : ~FailJob(j)
    <3>1. fails \in Nat
      BY DEF TypeOK
    <3>2. ASSUME NEW w, NEW c, FailCall(w, c) PROVE fails' = fails + 1
      BY <3>2 DEF FailCall
    <3>3. ASSUME NEW j, FailJob(j) PROVE fails' = fails + 1
      BY <3>3 DEF FailJob
    <3> QED
      BY <1>3, <3>1, <3>2, <3>3
  <2>2. fails = 0
    <3>1. ASSUME NEW w \in Writers, WriterStep(w) PROVE fails' = fails
      <4>1. \E c, next : Answered(w, c, next)
        BY <3>1 DEF WriterStep, Save, ReadRef, DropOld, Enter, Refer
      <4> QED
        BY <4>1 DEF Answered
    <3>2. ASSUME NEW j \in Jobs, JobStep(j) PROVE fails' = fails
      BY <3>2 DEF JobStep, Scan, DeleteItem, DeleteRef, DeleteRow
    <3>3. ASSUME NEW w, NEW i, NEW k, Begin(w, i, k) PROVE fails' = fails
      BY <3>3 DEF Begin
    <3>4. ASSUME Tick \/ (\E i \in Items : Remove(i)) \/ UNCHANGED vars PROVE fails' = fails
      BY <3>4 DEF Tick, Remove, vars
    <3>5. fails' = fails
      <4>1. CASE \E w \in Writers, i \in Items, k \in Kinds : Begin(w, i, k)
        BY <4>1, <3>3
      <4>2. CASE \E w \in Writers : WriterStep(w)
        BY <4>2, <3>1
      <4>3. CASE \E j \in Jobs : JobStep(j)
        BY <4>3, <3>2
      <4> QED
        BY <2>1, <3>4, <4>1, <4>2, <4>3 DEF Next
    <3> QED
      BY <1>3, <3>5
  <2>3. AllExact /\ WritersExact
    BY <1>1, <2>2 DEF SerialInv
  <2>4. ASSUME NEW w \in Writers, NEW i \in Items, NEW k \in Kinds, Begin(w, i, k)
        PROVE  AllExact' /\ WritersExact'
    BY <2>3, <2>4, BeginsQuiet, SerialBeginStep
  <2>5. ASSUME NEW w \in Writers, WriterStep(w) PROVE AllExact' /\ WritersExact'
    BY <1>1, <2>3, <2>5, SerialWriterStep
  <2>6. ASSUME NEW j \in Jobs, JobStep(j) PROVE AllExact' /\ WritersExact'
    <3>1. CASE Scan(j)
      BY <2>3, <3>1, BeginsQuiet, SerialScanStep
    <3>2. CASE ~Scan(j)
      BY <1>1, <2>3, <2>6, <3>2, SerialDeleteStep DEF JobStep
    <3> QED
      BY <3>1, <3>2
  <2>7. CASE UNCHANGED vars \/ Tick \/ \E i \in Items : Remove(i)
    BY <2>3, <2>7, SerialRestStep
  <2> QED
    BY <2>1, <2>4, <2>5, <2>6, <2>7 DEF Next
<1> QED
  BY <1>2, <1>3

\* SerialInv holds in every reachable state.
LEMMA SerialAlways == Spec => []SerialInv
<1>1. Init => SerialInv
  <2> SUFFICES ASSUME Init PROVE SerialInv
    OBVIOUS
  <2>1. (\A w \in Writers : ~Busy(w)) /\ \A j \in Jobs : ~Working(j)
    BY DEF Init, Busy, Working
  <2>2. \A i \in Items : Exact(i)
    BY TtlAssumption DEF Init, Exact
  <2>3. \A i \in Items : InTime(i)
    BY <2>1, TtlAssumption DEF Init, InTime
  <2> QED
    BY <2>1, <2>2, <2>3 DEF SerialInv, OneActor, AllExact, WritersExact
<1>2. Init => PatienceInv
  BY DEF Init, PatienceInv, Busy
<1> QED
  BY <1>1, <1>2, TypeCorrect, PatienceStep, SerialStep, PTL DEF Spec

\* Between requests, removals and jobs that never overlapped, the entries of
\* ttlTable are those the references tell of, whatever the calls were.
THEOREM SerialIndexExact == Spec => []SerialExact
<1>1. TypeOK /\ SerialInv => SerialExact
  <2> SUFFICES ASSUME TypeOK, SerialInv, serial, Quiet, fails = 0
               PROVE  entries = {<<i, ref[i]>> : i \in {k \in Items : ref[k] # NoRef}}
    BY DEF SerialExact
  <2>1. \A i \in Items : Exact(i)
    BY DEF SerialInv, AllExact, Quiet
  <2>2. ASSUME NEW e \in entries PROVE e \in {<<i, ref[i]>> : i \in {k \in Items : ref[k] # NoRef}}
    <3>1. PICK i \in Items, t \in Nat : e = <<i, t>>
      BY <2>2 DEF TypeOK
    <3>2. ref[i] = t /\ ref[i] # NoRef
      BY <2>1, <3>1, TtlAssumption DEF Exact
    <3> QED
      BY <3>1, <3>2
  <2>3. ASSUME NEW i \in Items, ref[i] # NoRef PROVE <<i, ref[i]>> \in entries
    <3>1. ref[i] \in Nat
      BY <2>3 DEF TypeOK
    <3> QED
      BY <2>1, <3>1 DEF Exact
  <2> QED
    BY <2>2, <2>3
<1> QED
  BY <1>1, TypeCorrect, SerialAlways, PTL

\* What a job is about to delete was promised no later time, as long as nothing
\* overlapped: a renewal that is answered before the scan is heeded.
THEOREM SerialInTime == Spec => []SerialOnTime
<1>1. TypeOK /\ SerialInv => SerialOnTime
  BY DEF SerialOnTime, OnlyExpired, SerialInv, AllExact, InTime, TypeOK
<1> QED
  BY <1>1, TypeCorrect, SerialAlways, PTL

=============================================================================
