--------------------------- MODULE FetchJobProofs ---------------------------
(***************************************************************************)
(* Proofs about FetchJob: its types, and that no key which is asked for    *)
(* waits for longer than a period, whatever the jobs do to each other's    *)
(* lists and marks.                                                        *)
(***************************************************************************)
EXTENDS FetchJob, FiniteSetTheorems, TLAPS

-----------------------------------------------------------------------------
(* Batches.                                                                *)

\* What comes before the elements of S is a strict order of all of S.
Ordered(S, ahead) ==
  /\ ahead \in [S -> SUBSET S]
  /\ \A k \in S : k \notin ahead[k]
  /\ \A j, k \in S : j # k => j \in ahead[k] \/ k \in ahead[j]
  /\ \A j, k \in S : j \in ahead[k] => ahead[j] \subseteq ahead[k]

\* Each element of an ordered set has a rank of its own, and each rank its element.
LEMMA RanksAre ==
  ASSUME NEW S, IsFiniteSet(S), NEW ahead, Ordered(S, ahead)
  PROVE  /\ \A k \in S : Cardinality(ahead[k]) \in Nat /\ Cardinality(ahead[k]) + 1 \in 1..Cardinality(S)
         /\ \A j, k \in S : Cardinality(ahead[j]) = Cardinality(ahead[k]) => j = k
         /\ \A i \in 1..Cardinality(S) : \E k \in S : Cardinality(ahead[k]) = i - 1
<1> DEFINE n == Cardinality(S)
<1> DEFINE rank == [k \in S |-> Cardinality(ahead[k]) + 1]
<1>1. n \in Nat
  BY FS_CardinalityType
<1>2. ASSUME NEW k \in S PROVE Cardinality(ahead[k]) \in Nat /\ Cardinality(ahead[k]) + 1 \in 1..n
  <2>1. ahead[k] \in SUBSET (S \ {k})
    BY DEF Ordered
  <2>2. IsFiniteSet(S \ {k}) /\ Cardinality(S \ {k}) = n - 1
    BY FS_RemoveElement
  <2>3. IsFiniteSet(ahead[k]) /\ Cardinality(ahead[k]) <= n - 1
    BY <2>1, <2>2, FS_Subset
  <2>4. Cardinality(ahead[k]) \in Nat
    BY <2>3, FS_CardinalityType
  <2> QED
    BY <1>1, <2>3, <2>4
<1>3. ASSUME NEW j \in S, NEW k \in S, j \in ahead[k] PROVE Cardinality(ahead[j]) # Cardinality(ahead[k])
  <2>1. ahead[j] \in SUBSET ahead[k] /\ ahead[j] # ahead[k]
    BY <1>3 DEF Ordered
  <2>2. ahead[k] \in SUBSET S
    BY DEF Ordered
  <2>3. IsFiniteSet(ahead[k])
    BY <2>2, FS_Subset
  <2> QED
    BY <2>1, <2>3, FS_Subset
<1>4. ASSUME NEW j \in S, NEW k \in S, Cardinality(ahead[j]) = Cardinality(ahead[k]) PROVE j = k
  BY <1>3, <1>4 DEF Ordered
<1>5. rank \in [S -> 1..n]
  BY <1>2
<1>6. rank \in Injection(S, 1..n)
  <2>1. ASSUME NEW j \in S, NEW k \in S, rank[j] = rank[k] PROVE j = k
    BY <1>2, <1>4, <2>1
  <2> QED
    BY <1>5, <2>1 DEF Injection, IsInjective
<1>7. IsFiniteSet(1..n) /\ Cardinality(1..n) = n
  <2>1. IsFiniteSet(1..n) /\ Cardinality(1..n) = IF 1 > n THEN 0 ELSE n - 1 + 1
    BY <1>1, FS_Interval
  <2> QED
    BY <1>1, <2>1
<1>8. rank \in Surjection(S, 1..n)
  <2> HIDE DEF rank, n
  <2>1. Cardinality(S) = Cardinality(1..n)
    BY <1>7 DEF n
  <2> QED
    BY <1>6, <1>7, <2>1, FS_Injection
<1>9. ASSUME NEW i \in 1..n PROVE \E k \in S : Cardinality(ahead[k]) = i - 1
  <2>1. PICK k \in S : rank[k] = i
    BY <1>8 DEF Surjection
  <2> QED
    BY <1>1, <1>2, <2>1
<1> QED
  BY <1>2, <1>4, <1>9

\* A batch has the first elements, and no more than the limit.
LEMMA BatchIs ==
  ASSUME NEW S, IsFiniteSet(S), NEW ahead, Ordered(S, ahead)
  PROVE  /\ Batch(S, ahead) \in Seq(S) /\ Len(Batch(S, ahead)) <= Limit
         /\ \A k \in S : Cardinality(ahead[k]) < Limit => k \in Range(Batch(S, ahead))
         /\ S # {} => Batch(S, ahead) # <<>>
<1> DEFINE size == Cardinality(S)
<1> DEFINE n == IF size < Limit THEN size ELSE Limit
<1> DEFINE nth(i) == CHOOSE k \in S : Cardinality(ahead[k]) = i - 1
<1> DEFINE first == [i \in 1..n |-> nth(i)]
<1>1. size \in Nat /\ Limit \in Nat \ {0}
  BY FS_CardinalityType, FetchJobAssumption
<1>2. n \in Nat /\ n <= Limit /\ n <= size
  BY <1>1
<1>3. Batch(S, ahead) = first
  BY DEF Batch
<1>4. ASSUME NEW i \in 1..n PROVE nth(i) \in S /\ Cardinality(ahead[nth(i)]) = i - 1
  <2>1. i \in 1..size
    BY <1>1, <1>2
  <2>2. \E k \in S : Cardinality(ahead[k]) = i - 1
    BY <2>1, RanksAre
  <2> QED
    BY <2>2
<1>5. first \in Seq(S) /\ Len(first) = n
  <2> HIDE DEF n, nth
  <2> QED
    BY <1>2, <1>4
<1>6. ASSUME NEW k \in S, Cardinality(ahead[k]) < Limit PROVE k \in Range(first)
  <2> DEFINE i == Cardinality(ahead[k]) + 1
  <2>1. i \in 1..size /\ Cardinality(ahead[k]) \in Nat
    BY RanksAre
  <2>2. i \in 1..n
    BY <1>1, <1>6, <2>1
  <2>3. Cardinality(ahead[nth(i)]) = Cardinality(ahead[k]) /\ nth(i) \in S
    BY <1>1, <1>4, <2>1, <2>2
  <2>4. nth(i) = k
    <3> HIDE DEF nth, i
    <3> QED
      BY <2>3, RanksAre
  <2>5. first[i] = k
    BY <2>2, <2>4
  <2> HIDE DEF n, nth, i
  <2> QED
    BY <2>2, <2>5 DEF Range
<1>7. S # {} => first # <<>>
  <2>1. S # {} => size # 0
    BY FS_EmptySet
  <2>2. S # {} => n # 0
    BY <1>1, <2>1
  <2> HIDE DEF n, first
  <2> QED
    BY <1>5, <2>2
<1> HIDE DEF first
<1> QED
  BY <1>2, <1>3, <1>5, <1>6, <1>7

Lists == {list \in Seq(Keys) : Len(list) <= Limit}

\* zrangebyscore answers with a list, on which is every key that is old enough and
\* has few enough before it.
LEMMA OldestIs ==
  ASSUME NEW set \in [Keys -> 0..Absent], NEW age \in Nat
  PROVE  /\ Oldest(set, age) \in Lists
         /\ \A k \in Keys : /\ set[k] \in age..MaxAge
                            /\ Cardinality({j \in Keys : set[j] # Absent /\ Before(set, j, k)}) < Limit
                            => k \in Range(Oldest(set, age))
<1> DEFINE all == {k \in Keys : set[k] \in age..MaxAge}
<1> DEFINE ahead == [k \in all |-> {j \in all : Before(set, j, k)}]
<1>0. Keys \subseteq Nat /\ IsFiniteSet(Keys) /\ MaxAge \in Nat /\ Absent = MaxAge + 1 /\ Limit \in Nat
  BY FetchJobAssumption DEF MaxAge, Absent
<1>1. all \in SUBSET Keys /\ IsFiniteSet(all)
  BY <1>0, FS_Subset
<1>2. \A k \in Keys : set[k] \in Nat /\ k \in Nat
  BY <1>0
<1>3. Ordered(all, ahead)
  <2>1. ahead \in [all -> SUBSET all]
    OBVIOUS
  <2>2. \A j, k \in all : j \in ahead[k] <=> Before(set, j, k)
    OBVIOUS
  <2>3. \A j \in all : j \in Keys
    OBVIOUS
  <2> HIDE DEF all, ahead
  <2>4. \A k \in all : k \notin ahead[k]
    BY <1>2, <2>2, <2>3 DEF Before
  <2>5. \A j, k \in all : j # k => j \in ahead[k] \/ k \in ahead[j]
    BY <1>2, <2>2, <2>3 DEF Before
  <2>6. ASSUME NEW j \in all, NEW k \in all, j \in ahead[k], NEW h \in ahead[j] PROVE h \in ahead[k]
    <3>1. h \in all
      BY <2>1
    <3> QED
      BY <1>2, <2>2, <2>3, <2>6, <3>1 DEF Before
  <2> QED
    BY <2>1, <2>4, <2>5, <2>6 DEF Ordered
<1>4. Oldest(set, age) = Batch(all, ahead)
  BY DEF Oldest
<1>5. Oldest(set, age) \in Lists
  <2>1. Batch(all, ahead) \in Seq(all) /\ Len(Batch(all, ahead)) <= Limit
    <3> HIDE DEF all, ahead
    <3> QED
      BY <1>1, <1>3, BatchIs
  <2>2. Seq(all) \subseteq Seq(Keys)
    <3> HIDE DEF all
    <3> QED
      BY <1>1
  <2> QED
    BY <1>4, <2>1, <2>2 DEF Lists
<1>6. ASSUME NEW k \in Keys, set[k] \in age..MaxAge,
             Cardinality({j \in Keys : set[j] # Absent /\ Before(set, j, k)}) < Limit
      PROVE  k \in Range(Oldest(set, age))
  <2> DEFINE far == {j \in Keys : set[j] # Absent /\ Before(set, j, k)}
  <2>1. k \in all /\ ahead[k] \in SUBSET far
    BY <1>0, <1>6
  <2>2. far \in SUBSET Keys /\ IsFiniteSet(far)
    BY <1>0, FS_Subset
  <2>3. Cardinality(ahead[k]) <= Cardinality(far) /\ IsFiniteSet(ahead[k])
    <3> HIDE DEF far, ahead
    <3> QED
      BY <2>1, <2>2, FS_Subset
  <2>4. Cardinality(ahead[k]) \in Nat /\ Cardinality(far) \in Nat
    <3> HIDE DEF far, ahead
    <3> QED
      BY <2>2, <2>3, FS_CardinalityType
  <2>5. Cardinality(ahead[k]) < Limit
    <3>1. Cardinality(far) < Limit
      BY <1>6
    <3> HIDE DEF far, ahead
    <3> QED
      BY <1>0, <2>3, <2>4, <3>1
  <2> HIDE DEF all, ahead
  <2> QED
    BY <1>1, <1>3, <1>4, <2>1, <2>5, BatchIs
<1> QED
  BY <1>5, <1>6

\* The batch is a list, and not empty when a key on the list of old accesses is not
\* marked as recent.
LEMMA DueIs ==
  ASSUME NEW p \in Processes, accessed[p] \in Lists, refresh[p] \in Lists
  PROVE  /\ Due(p) \in Lists
         /\ \A k \in Range(accessed[p]) : k \notin Recent => Due(p) # <<>>
<1> DEFINE all == accessed[p] \o refresh[p]
<1> DEFINE due == {i \in DOMAIN all : all[i] \notin Recent}
<1> DEFINE ahead == [i \in due |-> {h \in due : h < i}]
<1> DEFINE first == Batch(due, ahead)
<1>1. accessed[p] \in Seq(Keys) /\ refresh[p] \in Seq(Keys) /\ all \in Seq(Keys)
  BY DEF Lists
<1>2. Len(all) \in Nat /\ DOMAIN all = 1..Len(all) /\ \A i \in DOMAIN all : all[i] \in Keys
  <2> HIDE DEF all
  <2> QED
    BY <1>1
<1>3. IsFiniteSet(DOMAIN all) /\ due \in SUBSET (DOMAIN all)
  <2> HIDE DEF all
  <2> QED
    BY <1>2, FS_Interval
<1>4. IsFiniteSet(due)
  BY <1>3, FS_Subset
<1>5. \A i \in due : i \in Nat
  <2> HIDE DEF all
  <2> QED
    BY <1>2
<1>6. Ordered(due, ahead)
  <2>1. ahead \in [due -> SUBSET due] /\ \A h, i \in due : h \in ahead[i] <=> h < i
    OBVIOUS
  <2> HIDE DEF due, ahead
  <2>2. \A i \in due : i \notin ahead[i]
    BY <1>5, <2>1
  <2>3. \A h, i \in due : h # i => h \in ahead[i] \/ i \in ahead[h]
    BY <1>5, <2>1
  <2>4. ASSUME NEW h \in due, NEW i \in due, h \in ahead[i], NEW g \in ahead[h] PROVE g \in ahead[i]
    <3>1. g \in due
      BY <2>1
    <3> QED
      BY <1>5, <2>1, <2>4, <3>1
  <2> QED
    BY <2>1, <2>2, <2>3, <2>4 DEF Ordered
<1>7. Due(p) = [i \in DOMAIN first |-> all[first[i]]]
  BY DEF Due
<1>8. first \in Seq(due) /\ Len(first) <= Limit /\ (due # {} => first # <<>>)
  <2> HIDE DEF due, ahead
  <2> QED
    BY <1>4, <1>6, BatchIs
<1>9. ASSUME NEW k \in Range(accessed[p]), k \notin Recent PROVE due # {}
  <2>1. PICK i \in DOMAIN accessed[p] : accessed[p][i] = k
    BY DEF Range
  <2>2. i \in DOMAIN all /\ all[i] = k
    <3> DEFINE a == accessed[p]
    <3> DEFINE b == refresh[p]
    <3>1. a \in Seq(Keys) /\ b \in Seq(Keys) /\ i \in DOMAIN a /\ a[i] = k
      BY <1>1, <2>1
    <3> HIDE DEF a, b
    <3>2. i \in DOMAIN (a \o b) /\ (a \o b)[i] = k
      BY <3>1
    <3> QED
      BY <3>2 DEF a, b
  <2> QED
    BY <1>9, <2>2
<1>10. Len(first) \in Nat /\ DOMAIN first = 1..Len(first) /\ \A i \in DOMAIN first : all[first[i]] \in Keys
  <2>1. \A i \in due : all[i] \in Keys
    BY <1>2
  <2> HIDE DEF due, all, first
  <2> QED
    BY <1>8, <2>1
<1>11. Due(p) \in Seq(Keys) /\ Len(Due(p)) = Len(first)
  <2> HIDE DEF first, all
  <2> QED
    BY <1>7, <1>10
<1>12. Due(p) = <<>> => first = <<>>
  <2> HIDE DEF first
  <2> QED
    BY <1>8, <1>11
<1> QED
  BY <1>8, <1>9, <1>11, <1>12 DEF Lists

-----------------------------------------------------------------------------
(* Types.                                                                  *)

SetsOK == access \in [Keys -> 0..Absent] /\ mark \in [Keys -> 0..Absent]
JobsOK ==
  /\ at \in [Processes -> {"init", "armed", "off"} \cup Running]
  /\ timer \in [Processes -> 0..Interval]
ListsOK ==
  /\ accessed \in [Processes -> Lists] /\ refresh \in [Processes -> Lists]
  /\ keys \in [Processes -> Lists]
RestOK == closed \subseteq Processes /\ waited \in [Keys -> Nat] /\ faults \in 0..MaxFaults
Typed == SetsOK /\ JobsOK /\ ListsOK /\ RestOK

\* The numbers of the module.
LEMMA NumbersAre ==
  /\ Expire \in Nat /\ Refresh \in Nat /\ Interval \in Nat /\ MaxFaults \in Nat
  /\ MaxAge \in Nat /\ Absent = MaxAge + 1 /\ MaxAge = Expire + Refresh + Interval
BY FetchJobAssumption DEF MaxAge, Absent

\* Redis changes scores, and keeps sets sets.
LEMMA SetOps ==
  ASSUME NEW set \in [Keys -> 0..Absent]
  PROVE  /\ \A S : Add(set, S) \in [Keys -> 0..Absent] /\ Rem(set, S) \in [Keys -> 0..Absent]
         /\ Older(set, Expire) \in [Keys -> 0..Absent]
         /\ Older(set, MaxAge) \in [Keys -> 0..Absent]
BY NumbersAre DEF Add, Rem, Older

\* A list without keys is a list.
LEMMA NoKeys == <<>> \in Lists
BY FetchJobAssumption DEF Lists

\* What Goes, Forgets and Rests do to the types.
LEMMA JobTypes ==
  ASSUME Typed, NEW p \in Processes
  PROVE  /\ \A from, to \in {"armed"} \cup Running :
               Goes(p, from, to) => at' \in [Processes -> {"init", "armed", "off"} \cup Running]
         /\ Forgets(p) => ListsOK'
         /\ \A from : Rests(p, from) => JobsOK' /\ ListsOK'
<1>1. Forgets(p) => ListsOK'
  BY NoKeys DEF Typed, ListsOK, Forgets
<1>2. \A from : Rests(p, from) => JobsOK'
  BY NumbersAre DEF Typed, JobsOK, Rests, Goes
<1> QED
  BY <1>1, <1>2 DEF Typed, JobsOK, Goes, Rests

\* Each step keeps the types.
LEMMA TypedStep == Typed /\ [Next]_vars => Typed'
<1> SUFFICES ASSUME Typed, [Next]_vars PROVE Typed'
  OBVIOUS
<1> USE DEF SetsOK, RestOK
<1>a. ASSUME NEW p \in Processes, Step(p) PROVE Typed'
  <2>1. CASE Start(p)
    BY <2>1, JobTypes DEF Start, sets, Typed
  <2>2. CASE Fire(p)
    BY <2>2, JobTypes DEF Fire, sets, lists, Typed, JobsOK, ListsOK, Running
  <2>3. CASE ClearExpired(p)
    BY <2>3, JobTypes, SetOps DEF ClearExpired, lists, Typed, JobsOK, ListsOK, Running
  <2>4. CASE GetLastAccess(p)
    <3>1. Oldest(access, Refresh) \in Lists
      BY NumbersAre, OldestIs DEF Typed
    <3> QED
      BY <2>4, <3>1, JobTypes DEF GetLastAccess, sets, Typed, JobsOK, ListsOK, Running
  <2>5. CASE GetCacheRefresh(p)
    <3>1. Oldest(mark, Refresh) \in Lists
      BY NumbersAre, OldestIs DEF Typed
    <3> QED
      BY <2>5, <3>1, JobTypes DEF GetCacheRefresh, sets, Typed, JobsOK, ListsOK, Running
  <2>6. CASE GetRecent(p)
    <3>1. UNCHANGED <<sets, closed, waited, faults>>
      BY <2>6 DEF GetRecent
    <3>2. JobsOK' /\ ListsOK'
      <4>1. CASE Goes(p, "recent", "clear") /\ UNCHANGED <<timer, lists>>
        BY <4>1, JobTypes DEF lists, Typed, JobsOK, ListsOK, Running
      <4>2. CASE /\ Goes(p, "recent", "mark") /\ keys' = [keys EXCEPT ![p] = Due(p)]
                 /\ refresh' = [refresh EXCEPT ![p] = <<>>] /\ UNCHANGED <<timer, accessed>>
        <5>1. Due(p) \in Lists
          BY DueIs DEF Typed, ListsOK
        <5> QED
          BY <4>2, <5>1, JobTypes, NoKeys DEF Typed, JobsOK, ListsOK, Running
      <4>3. CASE Rests(p, "recent")
        BY <4>3, JobTypes
      <4> QED
        BY <2>6, <4>1, <4>2, <4>3 DEF GetRecent
    <3> QED
      BY <3>1, <3>2 DEF Typed, sets
  <2>7. CASE ClearRefresh(p)
    BY <2>7, JobTypes, SetOps DEF ClearRefresh, Typed
  <2>8. CASE Mark(p)
    BY <2>8, JobTypes, SetOps DEF Mark, lists, Typed, JobsOK, ListsOK, Running
  <2>9. CASE Unmark(p)
    BY <2>9, JobTypes, SetOps DEF Unmark, lists, Typed, JobsOK, ListsOK, Running
  <2>10. CASE Serve(p)
    <3>1. access' \in [Keys -> 0..Absent] /\ mark' \in [Keys -> 0..Absent]
      BY <2>10, SetOps DEF Serve, Typed
    <3>2. waited' \in [Keys -> Nat]
      BY <2>10 DEF Serve, Typed
    <3>3. at' \in [Processes -> {"init", "armed", "off"} \cup Running] /\ ListsOK'
      BY <2>10, JobTypes DEF Serve, Running
    <3> QED
      BY <2>10, <3>1, <3>2, <3>3 DEF Serve, Typed, JobsOK
  <2> QED
    BY <1>a, <2>1, <2>2, <2>3, <2>4, <2>5, <2>6, <2>7, <2>8, <2>9, <2>10 DEF Step
<1>0. Fault => faults' \in 0..MaxFaults
  BY NumbersAre DEF Fault, Typed
<1>b. ASSUME NEW p \in Processes, FailCall(p) PROVE Typed'
  <2>1. mark' \in [Keys -> 0..Absent]
    BY <1>b, SetOps DEF FailCall, Typed
  <2>2. JobsOK' /\ ListsOK'
    BY <1>b, JobTypes DEF FailCall
  <2> QED
    BY <1>0, <1>b, <2>1, <2>2 DEF FailCall, Typed
<1>c. ASSUME NEW p \in Processes, FailServe(p) PROVE Typed'
  <2>1. access' \in [Keys -> 0..Absent] /\ mark' \in [Keys -> 0..Absent]
    BY <1>c, SetOps DEF FailServe, Typed
  <2>2. at' \in [Processes -> {"init", "armed", "off"} \cup Running] /\ ListsOK'
    BY <1>c, JobTypes DEF FailServe, Running
  <2> QED
    BY <1>0, <1>c, <2>1, <2>2 DEF FailServe, Typed, JobsOK
<1>d. ASSUME NEW p \in Processes, Close(p) PROVE Typed'
  <2>1. at' \in [Processes -> {"init", "armed", "off"} \cup Running]
    BY <1>d DEF Close, Typed, JobsOK
  <2> QED
    BY <1>0, <1>d, <2>1 DEF Close, sets, lists, Typed, JobsOK, ListsOK
<1>e. ASSUME NEW p \in Processes, Crash(p) PROVE Typed'
  <2>1. JobsOK'
    BY <1>e, NumbersAre DEF Crash, Typed, JobsOK
  <2> QED
    BY <1>0, <1>e, <2>1, JobTypes DEF Crash, sets, Typed
<1>f. ASSUME NEW k \in Keys, BumpTTL(k) PROVE Typed'
  BY <1>f, SetOps DEF BumpTTL, lists, Typed, JobsOK, ListsOK
<1>n. ASSUME NEW k \in Keys, NoNode(k) PROVE Typed'
  BY <1>n, SetOps DEF NoNode, lists, Typed, JobsOK, ListsOK
<1>g. CASE Tick
  <2>1. timer' \in [Processes -> 0..Interval]
    BY <1>g, NumbersAre DEF Tick, Typed, JobsOK
  <2>2. waited' \in [Keys -> Nat]
    BY <1>g DEF Tick, Typed
  <2> QED
    BY <1>g, <2>1, <2>2, SetOps DEF Tick, lists, Typed, JobsOK, ListsOK
<1>h. CASE UNCHANGED vars
  BY <1>h DEF vars, sets, lists, Typed, JobsOK, ListsOK
<1> QED
  BY <1>a, <1>b, <1>c, <1>d, <1>e, <1>f, <1>n, <1>g, <1>h DEF Next

\* At first nothing runs and nothing is in the sets.
LEMMA TypedInit == Init => Typed
BY NumbersAre, NoKeys DEF Init, Typed, SetsOK, JobsOK, ListsOK, RestOK

\* The state of the jobs keeps its types: no list, and so no batch, is longer than
\* the limit of getKeysToBeCached.
THEOREM TypeCorrect == Spec => []TypeOK
<1>1. Typed => TypeOK
  <2> SUFFICES ASSUME Typed PROVE TypeOK
    OBVIOUS
  <2>1. \A p \in Processes : accessed[p] \in Lists /\ refresh[p] \in Lists /\ keys[p] \in Lists
    BY DEF Typed, ListsOK
  <2>2. \A p \in Processes : \A list \in {accessed[p], refresh[p], keys[p]} :
          list \in Seq(Keys) /\ Len(list) <= Limit
    BY <2>1 DEF Lists
  <2> QED
    BY <2>2 DEF TypeOK, Typed, SetsOK, JobsOK, RestOK
<1> QED
  BY <1>1, TypedInit, TypedStep, PTL DEF Spec

-----------------------------------------------------------------------------
(* Kept.  Between two faults a key waits for one period.                   *)

Period == Refresh + Interval

\* Key k has waited for more than n ticks since the last fault.
Late(k, n) == waited[k] > faults * Period + n

\* A job has marked k and is about to serve it.
Taken(k) == \E q \in Processes : at[q] \in {"unmark", "serve"} /\ k \in Range(keys[q])

InTime(k) == ~Late(k, Period)

\* The scores tell for how long k has waited.
ScoreTells(k) ==
  /\ Late(k, access[k]) => access[k] >= Expire
  /\ Late(k, mark[k]) => Taken(k)

StaysAtHead(k) == Late(k, 0) => access[k] >= Expire \/ AtHead(k)

\* Some job has not found k due in its last run, or is in one.
Watched(k) ==
  Late(k, 0) /\ access[k] # Absent =>
    \E p \in Processes : at[p] \in {"armed"} \cup Running /\ ~Late(k, Refresh + timer[p])

\* What the run of p knows of k.
RunFinds(p, k) ==
  /\ at[p] \in Running \ {"expire"} /\ Late(k, 0) => access[k] = Absent \/ access[k] < Expire
  /\ at[p] \in {"refresh", "recent", "clear"} /\ Late(k, Refresh) /\ access[k] # Absent =>
       k \in Range(accessed[p])

RunsOK ==
  \A p \in Processes : /\ at[p] \in Running => timer[p] = Interval
                       /\ at[p] = "clear" => accessed[p] = <<>>

KeyOK(k) ==
  /\ InTime(k) /\ ScoreTells(k) /\ StaysAtHead(k) /\ Watched(k)
  /\ \A p \in Processes : RunFinds(p, k)

KeptInv == RunsOK /\ \A k \in Keys : KeyOK(k)

\* Products of numbers.
LEMMA ProductsAre == \A m, n \in Nat : m * n \in Nat /\ (m + 1) * n = m * n + n
OBVIOUS

\* What the faults so far account for.
LEMMA PeriodsAre ==
  ASSUME Typed
  PROVE  /\ Period \in Nat /\ faults * Period \in Nat
         /\ (faults + 1) * Period = faults * Period + Period
<1>1. Period \in Nat /\ faults \in Nat
  BY NumbersAre DEF Period, Typed, RestOK
<1> QED
  BY <1>1, ProductsAre

\* A key that has not waited since the last fault is fine.
LEMMA CalmKey ==
  ASSUME Typed', NEW k \in Keys, waited'[k] <= faults' * Period
  PROVE  KeyOK(k)'
<1>1. /\ Period \in Nat /\ (faults * Period)' \in Nat /\ Refresh \in Nat
      /\ waited'[k] \in Nat /\ access'[k] \in Nat /\ mark'[k] \in Nat
  <2>1. faults' \in Nat /\ Period \in Nat
    BY NumbersAre DEF Period, Typed, RestOK
  <2>2. faults' * Period \in Nat
    BY <2>1, ProductsAre
  <2>3. (faults * Period)' = faults' * Period
    BY DEF Period
  <2>4. waited'[k] \in Nat /\ access'[k] \in Nat /\ mark'[k] \in Nat
    BY NumbersAre DEF Typed, SetsOK, RestOK
  <2> QED
    BY <2>1, <2>2, <2>3, <2>4, NumbersAre
<1>2. \A n \in Nat : ~(waited'[k] > faults' * Period + n)
  BY <1>1
<1>3. InTime(k)' /\ ScoreTells(k)'
  BY <1>1, <1>2 DEF InTime, ScoreTells, Late
<1>4. ~Late(k, 0)' /\ ~Late(k, Refresh)'
  BY <1>1, <1>2 DEF Late
<1> QED
  BY <1>3, <1>4 DEF KeyOK, StaysAtHead, Watched, RunFinds

\* Nothing comes before k that was not before it.
LEMMA HeadKept ==
  ASSUME Typed, NEW k \in Keys, AtHead(k), access'[k] # Absent,
         \A j \in Keys : access'[j] # Absent /\ Before(access', j, k) => access[j] # Absent /\ Before(access, j, k)
  PROVE  AtHead(k)'
<1> DEFINE far == {j \in Keys : access[j] # Absent /\ Before(access, j, k)}
<1> DEFINE near == {j \in Keys : access'[j] # Absent /\ Before(access', j, k)}
<1>1. near \in SUBSET far /\ far \in SUBSET Keys
  OBVIOUS
<1>2. IsFiniteSet(Keys) /\ Limit \in Nat
  BY FetchJobAssumption
<1>3. Cardinality(far) < Limit
  BY DEF AtHead
<1>4. Cardinality(near) < Limit
  <2> HIDE DEF near, far
  <2>1. IsFiniteSet(far)
    BY <1>1, <1>2, FS_Subset
  <2>2. IsFiniteSet(near) /\ Cardinality(near) <= Cardinality(far)
    BY <1>1, <2>1, FS_Subset
  <2>3. Cardinality(near) \in Nat /\ Cardinality(far) \in Nat
    BY <2>1, <2>2, FS_CardinalityType
  <2> QED
    BY <1>2, <1>3, <2>2, <2>3
<1> QED
  BY <1>4 DEF AtHead

\* A job in a run watches every key: time stands still for it.
LEMMA RunWatches ==
  ASSUME Typed', RunsOK', NEW k \in Keys, InTime(k)', NEW q \in Processes, at'[q] \in Running
  PROVE  Watched(k)'
<1>1. timer'[q] = Interval
  BY DEF RunsOK
<1>2. ~Late(k, Refresh + timer[q])'
  BY <1>1 DEF InTime, Late, Period
<1> QED
  BY <1>2 DEF Watched

\* A step of the job of p that neither serves k nor is a fault.
LEMMA JobStep ==
  ASSUME Typed, Typed', NEW p \in Processes, NEW k \in Keys, KeyOK(k),
         faults' = faults, waited'[k] = waited[k],
         \A q \in Processes : q # p => at'[q] = at[q] /\ accessed'[q] = accessed[q] /\ keys'[q] = keys[q],
         \A j \in Keys : access'[j] = access[j] \/ access'[j] = Absent,
         mark'[k] >= mark[k] \/ Taken(k)',
         at[p] \in {"unmark", "serve"} /\ k \in Range(keys[p]) =>
            at'[p] \in {"unmark", "serve"} /\ k \in Range(keys'[p]),
         RunFinds(p, k)', Watched(k)'
  PROVE  KeyOK(k)'
<1>0. /\ waited[k] \in Nat /\ faults * Period \in Nat /\ Expire \in Nat /\ Absent \in Nat /\ Expire <= Absent
      /\ access[k] \in Nat /\ mark[k] \in Nat /\ mark'[k] \in Nat /\ access'[k] \in Nat
  BY PeriodsAre, NumbersAre DEF Typed, SetsOK, RestOK
<1>2. InTime(k)'
  BY DEF KeyOK, InTime, Late
<1>3. Late(k, 0)' <=> Late(k, 0)
  BY DEF Late
<1>4. Late(k, Refresh)' <=> Late(k, Refresh)
  BY DEF Late
<1>5. Taken(k) => Taken(k)'
  BY DEF Taken
<1>6. (Late(k, access[k]) => access[k] >= Expire)'
  <2>1. CASE access'[k] = Absent
    BY <1>0, <2>1
  <2>2. CASE access'[k] = access[k]
    BY <2>2 DEF KeyOK, ScoreTells, Late
  <2> QED
    BY <2>1, <2>2
<1>7. (Late(k, mark[k]) => Taken(k))'
  <2>1. CASE mark'[k] >= mark[k]
    <3> SUFFICES ASSUME waited[k] > faults * Period + mark'[k] PROVE Taken(k)'
      BY DEF Late
    <3>1. Late(k, mark[k])
      BY <1>0, <2>1 DEF Late
    <3> QED
      BY <1>5, <3>1 DEF KeyOK, ScoreTells
  <2> QED
    BY <2>1
<1>8. StaysAtHead(k)'
  <2> SUFFICES ASSUME Late(k, 0), ~(access'[k] >= Expire) PROVE AtHead(k)'
    BY <1>3 DEF StaysAtHead
  <2>1. access'[k] = access[k] /\ access'[k] # Absent
    BY <1>0
  <2>2. AtHead(k)
    BY <2>1 DEF KeyOK, StaysAtHead
  <2>3. \A j \in Keys : access'[j] # Absent /\ Before(access', j, k) => access[j] # Absent /\ Before(access, j, k)
    BY <2>1 DEF Before
  <2> QED
    BY <2>1, <2>2, <2>3, HeadKept
<1>9. ASSUME NEW q \in Processes PROVE RunFinds(q, k)'
  <2>1. CASE q # p
    <3>1. at'[q] = at[q] /\ accessed'[q] = accessed[q] /\ RunFinds(q, k) /\ (access'[k] = access[k] \/ access'[k] = Absent)
      BY <2>1 DEF KeyOK
    <3> QED
      BY <1>3, <1>4, <3>1 DEF RunFinds
  <2> QED
    BY <2>1
<1> QED
  BY <1>2, <1>6, <1>7, <1>8, <1>9 DEF KeyOK, ScoreTells

\* A fault allows every key a period more.
LEMMA FaultStep ==
  ASSUME Typed, Typed', NEW k \in Keys, InTime(k), faults' = faults + 1, waited'[k] = waited[k]
  PROVE  KeyOK(k)'
<1>1. waited[k] \in Nat /\ Period \in Nat /\ faults * Period \in Nat
      /\ (faults + 1) * Period = faults * Period + Period
  BY PeriodsAre DEF Typed, RestOK
<1>2. waited[k] <= faults * Period + Period
  BY <1>1 DEF InTime, Late
<1>3. waited'[k] <= faults' * Period
  BY <1>1, <1>2
<1> QED
  BY <1>3, CalmKey

\* A run leaves its timer alone, and has no list of accesses when it clears marks.
LEMMA RunsStep == Typed /\ RunsOK /\ [Next]_vars => RunsOK'
<1> SUFFICES ASSUME Typed, RunsOK, [Next]_vars PROVE RunsOK'
  OBVIOUS
<1>0. \A p, q \in Processes : at[q] \in {"init", "armed", "off"} \cup Running
  BY DEF Typed, JobsOK
<1>1. ASSUME NEW p \in Processes, NEW from, Rests(p, from) PROVE RunsOK'
  BY <1>1 DEF Typed, JobsOK, ListsOK, RunsOK, Rests, Goes, Forgets, Running
<1>a. ASSUME NEW p \in Processes, Step(p) PROVE RunsOK'
  <2>1. CASE Start(p)
    BY <2>1, <1>1 DEF Start
  <2>2. CASE Fire(p)
    BY <2>2 DEF Fire, Goes, lists, RunsOK, Typed, JobsOK
  <2>3. CASE ClearExpired(p)
    BY <2>3 DEF ClearExpired, Goes, lists, RunsOK, Typed, JobsOK, Running
  <2>4. CASE GetLastAccess(p)
    BY <2>4 DEF GetLastAccess, Goes, RunsOK, Typed, JobsOK, ListsOK, Running
  <2>5. CASE GetCacheRefresh(p)
    BY <2>5 DEF GetCacheRefresh, Goes, RunsOK, Typed, JobsOK, Running
  <2>6. CASE GetRecent(p)
    BY <2>6, <1>1 DEF GetRecent, Goes, lists, RunsOK, Typed, JobsOK, Running
  <2>7. CASE ClearRefresh(p)
    BY <2>7, <1>1 DEF ClearRefresh
  <2>8. CASE Mark(p)
    BY <2>8 DEF Mark, Goes, lists, RunsOK, Typed, JobsOK, Running
  <2>9. CASE Unmark(p)
    BY <2>9 DEF Unmark, Goes, lists, RunsOK, Typed, JobsOK, Running
  <2>10. CASE Serve(p)
    BY <2>10 DEF Serve, Goes, Forgets, RunsOK, Typed, JobsOK, ListsOK, Running
  <2> QED
    BY <1>a, <2>1, <2>2, <2>3, <2>4, <2>5, <2>6, <2>7, <2>8, <2>9, <2>10 DEF Step
<1>b. ASSUME NEW p \in Processes, FailCall(p) PROVE RunsOK'
  BY <1>b, <1>1 DEF FailCall
<1>c. ASSUME NEW p \in Processes, FailServe(p) PROVE RunsOK'
  BY <1>c DEF FailServe, Goes, Forgets, RunsOK, Typed, JobsOK, ListsOK, Running
<1>d. ASSUME NEW p \in Processes, Close(p) PROVE RunsOK'
  BY <1>d DEF Close, lists, RunsOK, Typed, JobsOK, Running
<1>e. ASSUME NEW p \in Processes, Crash(p) PROVE RunsOK'
  BY <1>e DEF Crash, Forgets, RunsOK, Typed, JobsOK, ListsOK, Running
<1>f. ASSUME NEW k \in Keys, BumpTTL(k) \/ NoNode(k) PROVE RunsOK'
  BY <1>f DEF BumpTTL, NoNode, lists, RunsOK
<1>g. CASE Tick
  <2>1. \A q \in Processes : at'[q] \notin Running
    BY <1>g DEF Tick
  <2> QED
    BY <2>1 DEF RunsOK, Running
<1>h. CASE UNCHANGED vars
  BY <1>h DEF vars, lists, RunsOK
<1> QED
  BY <1>a, <1>b, <1>c, <1>d, <1>e, <1>f, <1>g, <1>h DEF Next

\* The steps of a run keep every key.
LEMMA KeptByJob ==
  ASSUME Typed, Typed', RunsOK, RunsOK', NEW p \in Processes, Step(p), NEW k \in Keys, KeyOK(k)
  PROVE  KeyOK(k)'
<1>0. /\ waited[k] \in Nat /\ faults * Period \in Nat /\ Refresh \in Nat /\ Expire \in Nat /\ Absent \in Nat
      /\ access[k] \in Nat /\ access[k] <= Absent /\ mark[k] \in Nat /\ mark[k] <= Absent /\ Expire <= MaxAge
      /\ MaxAge \in Nat /\ Absent = MaxAge + 1
  BY PeriodsAre, NumbersAre DEF Typed, SetsOK, RestOK
<1>1. faults' = faults
  BY DEF Step, Start, Fire, ClearExpired, GetLastAccess, GetCacheRefresh, GetRecent, ClearRefresh,
         Mark, Unmark, Serve
<1>2. at'[p] \in Running /\ waited'[k] = waited[k] => Watched(k)'
  <2>1. waited'[k] = waited[k] => InTime(k)'
    BY <1>1 DEF KeyOK, InTime, Late
  <2> QED
    BY <2>1, RunWatches
<1>3. ASSUME NEW from, Rests(p, from)
      PROVE  /\ at'[p] = "armed" /\ timer'[p] = 0 /\ RunFinds(p, k)'
             /\ \A q \in Processes : q # p => at'[q] = at[q] /\ accessed'[q] = accessed[q] /\ keys'[q] = keys[q]
                                              /\ timer'[q] = timer[q]
             /\ at[p] = from
  <2>1. at'[p] = "armed" /\ timer'[p] = 0 /\ at[p] = from
    BY <1>3 DEF Rests, Goes, Typed, JobsOK
  <2>2. RunFinds(p, k)'
    BY <2>1 DEF RunFinds, Running
  <2> QED
    BY <1>3, <2>1, <2>2 DEF Rests, Goes, Forgets, Typed, JobsOK, ListsOK
<1>4. CASE Start(p)
  <2>1. Rests(p, "init") /\ UNCHANGED <<sets, waited>>
    BY <1>4 DEF Start
  <2>2. Watched(k)'
    <3> SUFFICES ASSUME Late(k, 0), access[k] # Absent PROVE Watched(k)'
      BY <1>1, <2>1 DEF Watched, Late, sets
    <3>1. PICK q \in Processes : at[q] \in {"armed"} \cup Running /\ ~Late(k, Refresh + timer[q])
      BY DEF KeyOK, Watched
    <3>2. q # p
      BY <1>3, <2>1, <3>1 DEF Running
    <3>3. at'[q] = at[q] /\ timer'[q] = timer[q]
      BY <1>3, <2>1, <3>2
    <3>4. ~Late(k, Refresh + timer[q])'
      BY <1>1, <2>1, <3>1, <3>3 DEF Late
    <3> QED
      BY <3>1, <3>3, <3>4 DEF Watched
  <2>3. waited'[k] = waited[k] /\ mark'[k] = mark[k] /\ access' = access /\ at[p] = "init"
    BY <1>3, <2>1 DEF sets
  <2> QED
    BY <1>0, <1>1, <1>3, <2>1, <2>2, <2>3, JobStep
<1>5. CASE Fire(p)
  <2>1. /\ at' = [at EXCEPT ![p] = "expire"] /\ at[p] = "armed" /\ access' = access /\ mark' = mark
        /\ waited' = waited /\ accessed' = accessed /\ keys' = keys
    BY <1>5 DEF Fire, Goes, sets, lists
  <2>2. at'[p] = "expire" /\ \A q \in Processes : q # p => at'[q] = at[q]
    BY <2>1 DEF Typed, JobsOK
  <2>3. RunFinds(p, k)'
    BY <2>2 DEF RunFinds, Running
  <2>4. Watched(k)'
    BY <1>2, <2>1, <2>2 DEF Running
  <2> QED
    BY <1>0, <1>1, <2>1, <2>2, <2>3, <2>4, JobStep
<1>6. CASE ClearExpired(p)
  <2>1. /\ at' = [at EXCEPT ![p] = "accessed"] /\ at[p] = "expire"
        /\ access' = Rem(access, {j \in Keys : access[j] >= Expire}) /\ mark' = mark
        /\ waited' = waited /\ accessed' = accessed /\ keys' = keys
    BY <1>6 DEF ClearExpired, Goes, lists
  <2>2. at'[p] = "accessed" /\ \A q \in Processes : q # p => at'[q] = at[q]
    BY <2>1 DEF Typed, JobsOK
  <2>3. RunFinds(p, k)'
    <3>1. access'[k] = Absent \/ access'[k] < Expire
      BY <1>0, <2>1 DEF Rem
    <3> QED
      BY <2>2, <3>1 DEF RunFinds
  <2>4. Watched(k)'
    BY <1>2, <2>1, <2>2 DEF Running
  <2>5. \A j \in Keys : access'[j] = access[j] \/ access'[j] = Absent
    BY <2>1 DEF Rem
  <2> QED
    BY <1>0, <1>1, <2>1, <2>2, <2>3, <2>4, <2>5, JobStep
<1>7. CASE GetLastAccess(p)
  <2>1. /\ at' = [at EXCEPT ![p] = "refresh"] /\ at[p] = "accessed" /\ access' = access /\ mark' = mark
        /\ waited' = waited /\ accessed' = [accessed EXCEPT ![p] = Oldest(access, Refresh)] /\ keys' = keys
    BY <1>7 DEF GetLastAccess, Goes, sets
  <2>2. /\ at'[p] = "refresh" /\ accessed'[p] = Oldest(access, Refresh)
        /\ \A q \in Processes : q # p => at'[q] = at[q] /\ accessed'[q] = accessed[q]
    BY <2>1 DEF Typed, JobsOK, ListsOK
  <2>3. Late(k, 0) => access[k] = Absent \/ access[k] < Expire
    BY <2>1 DEF KeyOK, RunFinds, Running
  <2>4. ASSUME Late(k, Refresh), access[k] # Absent PROVE k \in Range(Oldest(access, Refresh))
    <3>1. Late(k, 0) /\ access[k] < Expire
      BY <1>0, <2>3, <2>4 DEF Late
    <3>2. ~Late(k, access[k])
      BY <1>0, <3>1 DEF KeyOK, ScoreTells
    <3>3. access[k] \in Refresh..MaxAge
      BY <1>0, <2>4, <3>1, <3>2 DEF Late
    <3>4. AtHead(k)
      BY <1>0, <3>1 DEF KeyOK, StaysAtHead
    <3> QED
      BY <1>0, <3>3, <3>4, OldestIs DEF AtHead, Typed, SetsOK
  <2>5. RunFinds(p, k)'
    BY <1>1, <2>1, <2>2, <2>3, <2>4 DEF RunFinds, Late
  <2>6. Watched(k)'
    BY <1>2, <2>1, <2>2 DEF Running
  <2> QED
    BY <1>0, <1>1, <2>1, <2>2, <2>5, <2>6, JobStep
<1>8. CASE GetCacheRefresh(p)
  <2>1. /\ at' = [at EXCEPT ![p] = "recent"] /\ at[p] = "refresh" /\ access' = access /\ mark' = mark
        /\ waited' = waited /\ accessed' = accessed /\ keys' = keys
    BY <1>8 DEF GetCacheRefresh, Goes, sets
  <2>2. at'[p] = "recent" /\ \A q \in Processes : q # p => at'[q] = at[q]
    BY <2>1 DEF Typed, JobsOK
  <2>3. RunFinds(p, k)'
    BY <1>1, <2>1, <2>2 DEF KeyOK, RunFinds, Running, Late
  <2>4. Watched(k)'
    BY <1>2, <2>1, <2>2 DEF Running
  <2> QED
    BY <1>0, <1>1, <2>1, <2>2, <2>3, <2>4, JobStep
<1>9. CASE GetRecent(p)
  <2>0. access' = access /\ mark' = mark /\ waited' = waited
    BY <1>9 DEF GetRecent, sets
  <2>1. CASE Goes(p, "recent", "clear") /\ UNCHANGED <<timer, lists>>
    <3>1. at'[p] = "clear" /\ at[p] = "recent" /\ \A q \in Processes : q # p => at'[q] = at[q]
      BY <2>1 DEF Goes, Typed, JobsOK
    <3>2. accessed' = accessed /\ keys' = keys
      BY <2>1 DEF lists
    <3>3. RunFinds(p, k)'
      BY <1>1, <2>0, <3>1, <3>2 DEF KeyOK, RunFinds, Running, Late
    <3>4. Watched(k)'
      BY <1>2, <2>0, <3>1 DEF Running
    <3> QED
      BY <1>0, <1>1, <2>0, <3>1, <3>2, <3>3, <3>4, JobStep
  <2>2. CASE /\ Goes(p, "recent", "mark") /\ keys' = [keys EXCEPT ![p] = Due(p)]
             /\ UNCHANGED <<timer, accessed>>
    <3>1. /\ at'[p] = "mark" /\ at[p] = "recent"
          /\ \A q \in Processes : q # p => at'[q] = at[q] /\ keys'[q] = keys[q]
      BY <2>2 DEF Goes, Typed, JobsOK, ListsOK
    <3>2. accessed' = accessed
      BY <2>2
    <3>3. RunFinds(p, k)'
      BY <1>1, <2>0, <3>1, <3>2 DEF KeyOK, RunFinds, Running, Late
    <3>4. Watched(k)'
      BY <1>2, <2>0, <3>1 DEF Running
    <3> QED
      BY <1>0, <1>1, <2>0, <3>1, <3>2, <3>3, <3>4, JobStep
  <2>3. CASE (IF accessed[p] = <<>> THEN refresh[p] = <<>> ELSE Due(p) = <<>>) /\ Rests(p, "recent")
    <3>1. Watched(k)'
      <4> SUFFICES ASSUME Late(k, 0), access[k] # Absent PROVE Watched(k)'
        BY <1>1, <2>0 DEF Watched, Late
      <4>1. CASE Late(k, Refresh)
        <5>1. k \in Range(accessed[p])
          BY <1>3, <2>3, <4>1 DEF KeyOK, RunFinds
        <5>2. accessed[p] # <<>>
          BY <5>1 DEF Range
        <5>3. Due(p) = <<>>
          BY <2>3, <5>2
        <5>4. k \in Recent
          BY <5>1, <5>3, DueIs DEF Typed, ListsOK
        <5>5. Late(k, mark[k])
          BY <1>0, <4>1, <5>4 DEF Recent, Late
        <5>6. PICK q \in Processes : at[q] \in {"unmark", "serve"}
          BY <5>5 DEF KeyOK, ScoreTells, Taken
        <5>7. at'[q] \in Running
          BY <1>3, <2>3, <5>6 DEF Running
        <5>8. InTime(k)'
          BY <1>1, <2>0 DEF KeyOK, InTime, Late
        <5> QED
          BY <5>7, <5>8, RunWatches
      <4>2. CASE ~Late(k, Refresh)
        <5>1. ~Late(k, Refresh + timer[p])'
          BY <1>0, <1>1, <1>3, <2>0, <2>3, <4>2 DEF Late
        <5> QED
          BY <1>3, <2>3, <5>1 DEF Watched
      <4> QED
        BY <4>1, <4>2
    <3> QED
      BY <1>0, <1>1, <1>3, <2>0, <2>3, <3>1, JobStep
  <2> QED
    BY <1>9, <2>1, <2>2, <2>3 DEF GetRecent
<1>10. CASE ClearRefresh(p)
  <2>1. Rests(p, "clear") /\ access' = access /\ waited' = waited /\ mark' = Rem(mark, Range(refresh[p]))
    BY <1>10 DEF ClearRefresh
  <2>2. mark'[k] >= mark[k]
    BY <1>0, <2>1 DEF Rem
  <2>3. Watched(k)'
    <3> SUFFICES ASSUME Late(k, 0), access[k] # Absent PROVE Watched(k)'
      BY <1>1, <2>1 DEF Watched, Late
    <3>1. at[p] = "clear" /\ accessed[p] = <<>>
      BY <1>3, <2>1 DEF RunsOK
    <3>2. k \notin Range(accessed[p])
      BY <3>1 DEF Range
    <3>3. ~Late(k, Refresh)
      BY <3>1, <3>2 DEF KeyOK, RunFinds
    <3>4. ~Late(k, Refresh + timer[p])'
      BY <1>0, <1>1, <1>3, <2>1, <3>3 DEF Late
    <3> QED
      BY <1>3, <2>1, <3>4 DEF Watched
  <2> QED
    BY <1>0, <1>1, <1>3, <2>1, <2>2, <2>3, JobStep
<1>11. CASE Mark(p)
  <2>1. /\ at[p] = "mark" /\ at'[p] \in {"serve", "unmark"} /\ \A q \in Processes : q # p => at'[q] = at[q]
        /\ access' = access /\ waited' = waited /\ accessed' = accessed /\ keys' = keys
        /\ mark' = Add(mark, Range(keys[p]))
    BY <1>11 DEF Mark, Goes, lists, Typed, JobsOK
  <2>2. mark'[k] >= mark[k] \/ Taken(k)'
    <3>1. CASE k \in Range(keys[p])
      BY <2>1, <3>1 DEF Taken
    <3>2. CASE k \notin Range(keys[p])
      BY <1>0, <2>1, <3>2 DEF Add
    <3> QED
      BY <3>1, <3>2
  <2>3. RunFinds(p, k)'
    BY <1>1, <2>1 DEF KeyOK, RunFinds, Running, Late
  <2>4. Watched(k)'
    BY <1>2, <2>1 DEF Running
  <2> QED
    BY <1>0, <1>1, <2>1, <2>2, <2>3, <2>4, JobStep
<1>12. CASE Unmark(p)
  <2>1. /\ at[p] = "unmark" /\ at'[p] = "serve" /\ \A q \in Processes : q # p => at'[q] = at[q]
        /\ access' = access /\ waited' = waited /\ accessed' = accessed /\ keys' = keys
        /\ mark' = Rem(mark, Range(keys[p]) \ Range(accessed[p]))
    BY <1>12 DEF Unmark, Goes, lists, Typed, JobsOK
  <2>2. mark'[k] >= mark[k]
    BY <1>0, <2>1 DEF Rem
  <2>3. RunFinds(p, k)'
    BY <1>1, <2>1 DEF KeyOK, RunFinds, Running, Late
  <2>4. Watched(k)'
    BY <1>2, <2>1 DEF Running
  <2> QED
    BY <1>0, <1>1, <2>1, <2>2, <2>3, <2>4, JobStep
<1>13. CASE Serve(p)
  <2>1. PICK gone \in SUBSET Range(keys[p]) : access' = Rem(access, gone) /\ mark' = Rem(mark, gone)
    BY <1>13 DEF Serve
  <2>2. /\ at[p] = "serve" /\ at'[p] = "expire" /\ \A q \in Processes : q # p => at'[q] = at[q]
        /\ \A q \in Processes : q # p => accessed'[q] = accessed[q] /\ keys'[q] = keys[q]
    BY <1>13 DEF Serve, Goes, Forgets, Typed, JobsOK, ListsOK
  <2>3. waited'[k] = IF k \in Range(keys[p]) THEN 0 ELSE waited[k]
    BY <1>13 DEF Serve
  <2>4. CASE k \in Range(keys[p])
    <3>1. waited'[k] <= faults' * Period
      BY <1>0, <1>1, <2>3, <2>4
    <3> QED
      BY <3>1, CalmKey
  <2>5. CASE k \notin Range(keys[p])
    <3>1. waited'[k] = waited[k]
      BY <2>3, <2>5
    <3>2. mark'[k] >= mark[k] /\ \A j \in Keys : access'[j] = access[j] \/ access'[j] = Absent
      BY <1>0, <2>1 DEF Rem
    <3>3. RunFinds(p, k)'
      BY <2>2 DEF RunFinds, Running
    <3>4. Watched(k)'
      BY <1>2, <2>2, <3>1 DEF Running
    <3> QED
      BY <1>1, <2>2, <2>5, <3>1, <3>2, <3>3, <3>4, JobStep
  <2> QED
    BY <2>4, <2>5
<1> QED
  BY <1>4, <1>5, <1>6, <1>7, <1>8, <1>9, <1>10, <1>11, <1>12, <1>13 DEF Step

\* A request for a key puts it at the end, and nothing before another.
LEMMA KeptByBump ==
  ASSUME Typed, Typed', NEW j \in Keys, BumpTTL(j), NEW k \in Keys, KeyOK(k)
  PROVE  KeyOK(k)'
<1>0. /\ waited[k] \in Nat /\ faults * Period \in Nat /\ Expire \in Nat /\ Absent \in Nat /\ Expire <= Absent
      /\ access[k] \in Nat /\ \A i \in Keys : access[i] \in Nat
  BY PeriodsAre, NumbersAre DEF Typed, SetsOK, RestOK
<1>1. /\ access' = Add(access, {j}) /\ waited' = [waited EXCEPT ![j] = 0]
      /\ mark' = mark /\ at' = at /\ timer' = timer /\ accessed' = accessed /\ keys' = keys /\ faults' = faults
  BY DEF BumpTTL, lists
<1>2. CASE k = j
  <2>1. waited'[k] <= faults' * Period
    BY <1>0, <1>1, <1>2 DEF Typed, RestOK
  <2> QED
    BY <2>1, CalmKey
<1>3. CASE k # j
  <2>1. waited'[k] = waited[k] /\ access'[k] = access[k] /\ access'[j] = 0
        /\ \A i \in Keys : i # j => access'[i] = access[i]
    BY <1>1, <1>3 DEF Add, Typed, RestOK
  <2>2. InTime(k)' /\ ScoreTells(k)' /\ Watched(k)'
    BY <1>1, <2>1 DEF KeyOK, InTime, ScoreTells, Taken, Watched, Late
  <2>3. ASSUME NEW q \in Processes PROVE RunFinds(q, k)'
    BY <1>1, <2>1 DEF KeyOK, RunFinds, Late
  <2>4. StaysAtHead(k)'
    <3> SUFFICES ASSUME Late(k, 0), ~(access[k] >= Expire) PROVE AtHead(k)'
      BY <1>1, <2>1 DEF StaysAtHead, Late
    <3>1. AtHead(k) /\ access'[k] # Absent
      BY <1>0, <2>1 DEF KeyOK, StaysAtHead
    <3>2. access[k] # 0
      BY DEF KeyOK, ScoreTells
    <3>3. \A i \in Keys : access'[i] # Absent /\ Before(access', i, k) => access[i] # Absent /\ Before(access, i, k)
      BY <1>0, <2>1, <3>2 DEF Before
    <3> QED
      BY <3>1, <3>3, HeadKept
  <2> QED
    BY <2>2, <2>3, <2>4 DEF KeyOK
<1> QED
  BY <1>2, <1>3

\* A key without a node goes, and the others are as before.
LEMMA KeptByNoNode ==
  ASSUME Typed, Typed', NEW j \in Keys, NoNode(j), NEW k \in Keys, KeyOK(k)
  PROVE  KeyOK(k)'
<1>0. /\ waited[k] \in Nat /\ faults * Period \in Nat /\ Expire \in Nat /\ Absent \in Nat /\ Expire <= Absent
      /\ access[k] \in Nat
  BY PeriodsAre, NumbersAre DEF Typed, SetsOK, RestOK
<1>1. /\ access' = Rem(access, {j}) /\ mark' = Rem(mark, {j}) /\ waited' = [waited EXCEPT ![j] = 0]
      /\ at' = at /\ timer' = timer /\ accessed' = accessed /\ keys' = keys /\ faults' = faults
  BY DEF NoNode, lists
<1>2. CASE k = j
  <2>1. waited'[k] <= faults' * Period
    BY <1>0, <1>1, <1>2 DEF Typed, RestOK
  <2> QED
    BY <2>1, CalmKey
<1>3. CASE k # j
  <2>1. /\ waited'[k] = waited[k] /\ access'[k] = access[k] /\ mark'[k] = mark[k] /\ access'[j] = Absent
        /\ \A i \in Keys : i # j => access'[i] = access[i]
    BY <1>1, <1>3 DEF Rem, Typed, RestOK
  <2>2. InTime(k)' /\ ScoreTells(k)' /\ Watched(k)'
    BY <1>1, <2>1 DEF KeyOK, InTime, ScoreTells, Taken, Watched, Late
  <2>3. ASSUME NEW q \in Processes PROVE RunFinds(q, k)'
    BY <1>1, <2>1 DEF KeyOK, RunFinds, Late
  <2>4. StaysAtHead(k)'
    <3> SUFFICES ASSUME Late(k, 0), ~(access[k] >= Expire) PROVE AtHead(k)'
      BY <1>1, <2>1 DEF StaysAtHead, Late
    <3>1. AtHead(k) /\ access'[k] # Absent
      BY <1>0, <2>1 DEF KeyOK, StaysAtHead
    <3>2. \A i \in Keys : access'[i] # Absent /\ Before(access', i, k) => access[i] # Absent /\ Before(access, i, k)
      BY <2>1 DEF Before
    <3> QED
      BY <3>1, <3>2, HeadKept
  <2> QED
    BY <2>2, <2>3, <2>4 DEF KeyOK
<1> QED
  BY <1>2, <1>3

\* Time passes while no run is under way: no key is taken then, so the scores tell
\* how long each has waited, and a job that has not found k due comes nearer to its
\* next run.
LEMMA KeptByTick ==
  ASSUME Typed, Typed', Tick, NEW k \in Keys, KeyOK(k)
  PROVE  KeyOK(k)'
<1>0. /\ waited[k] \in Nat /\ faults * Period \in Nat /\ Expire \in Nat /\ Refresh \in Nat /\ Interval \in Nat
      /\ MaxAge \in Nat /\ Absent = MaxAge + 1 /\ Expire <= MaxAge /\ Period \in Nat /\ Period <= MaxAge
      /\ Period = Refresh + Interval
      /\ access[k] \in Nat /\ mark[k] \in Nat /\ \A i \in Keys : access[i] \in Nat
  BY PeriodsAre, NumbersAre DEF Typed, SetsOK, RestOK, Period
<1>1. /\ \A q \in Processes : at[q] \notin Running /\ at'[q] = at[q]
      /\ \A q \in Processes : at[q] = "armed" => timer[q] < Interval /\ timer'[q] = timer[q] + 1 /\ timer[q] \in Nat
      /\ faults' = faults
  BY <1>0 DEF Tick, Typed, JobsOK
<1>2. /\ \A i \in Keys : access'[i] = IF access[i] < Expire THEN access[i] + 1 ELSE access[i]
      /\ mark'[k] = IF mark[k] < MaxAge THEN mark[k] + 1 ELSE mark[k]
  BY DEF Tick, Older
<1>3. waited'[k] = IF AtHead(k) /\ \E p \in Processes : at[p] = "armed" THEN waited[k] + 1 ELSE 0
  BY DEF Tick
<1>4. CASE ~(AtHead(k) /\ \E p \in Processes : at[p] = "armed")
  <2>1. waited'[k] <= faults' * Period
    BY <1>0, <1>1, <1>3, <1>4
  <2> QED
    BY <2>1, CalmKey
<1>5. CASE AtHead(k) /\ \E p \in Processes : at[p] = "armed"
  <2>1. waited'[k] = waited[k] + 1 /\ access[k] # Absent
    BY <1>3, <1>5 DEF AtHead
  <2>2. PICK r \in Processes : at[r] = "armed"
    BY <1>5
  <2>3. ~Taken(k)
    BY <1>1 DEF Taken, Running
  <2>4. PICK w \in Processes : at[w] = "armed" /\ waited[k] <= faults * Period + Refresh + timer[w]
    <3>1. CASE Late(k, 0)
      <4>1. PICK w \in Processes : at[w] \in {"armed"} \cup Running /\ ~Late(k, Refresh + timer[w])
        BY <2>1, <3>1 DEF KeyOK, Watched
      <4>2. at[w] = "armed" /\ timer[w] \in Nat
        BY <1>1, <4>1
      <4>3. waited[k] <= faults * Period + Refresh + timer[w]
        BY <1>0, <4>1, <4>2 DEF Late
      <4> QED
        BY <4>2, <4>3
    <3>2. CASE ~Late(k, 0)
      <4>1. timer[r] \in Nat /\ waited[k] <= faults * Period
        BY <1>0, <1>1, <2>2, <3>2 DEF Late
      <4>2. waited[k] <= faults * Period + Refresh + timer[r]
        BY <1>0, <4>1
      <4> QED
        BY <2>2, <4>2
    <3> QED
      BY <3>1, <3>2
  <2>5. timer[w] \in Nat /\ timer[w] < Interval /\ timer'[w] = timer[w] + 1 /\ at'[w] = "armed"
    BY <1>1, <2>4
  <2>6. ~Late(k, Refresh + timer[w])'
    <3>1. waited'[k] <= faults * Period + (Refresh + timer'[w])
      BY <1>0, <2>1, <2>4, <2>5
    <3> QED
      BY <1>0, <1>1, <2>1, <2>5, <3>1 DEF Late
  <2>7. Watched(k)'
    BY <2>5, <2>6 DEF Watched
  <2>8. waited'[k] <= faults * Period + Period
    BY <1>0, <2>1, <2>4, <2>5
  <2>9. InTime(k)'
    BY <1>0, <1>1, <2>1, <2>8 DEF InTime, Late
  <2>10. (Late(k, access[k]) => access[k] >= Expire)'
    <3> SUFFICES ASSUME waited'[k] > faults * Period + access'[k], access'[k] < Expire PROVE FALSE
      BY <1>0, <1>1, <1>2 DEF Late
    <3>1. access[k] < Expire /\ access'[k] = access[k] + 1
      BY <1>0, <1>2
    <3>2. Late(k, access[k])
      BY <1>0, <2>1, <3>1 DEF Late
    <3> QED
      BY <1>0, <3>1, <3>2 DEF KeyOK, ScoreTells
  <2>11. ~Late(k, mark[k])'
    <3> SUFFICES ASSUME waited'[k] > faults * Period + mark'[k] PROVE FALSE
      BY <1>1 DEF Late
    <3>1. ~Late(k, mark[k])
      BY <2>3 DEF KeyOK, ScoreTells
    <3>2. waited[k] <= faults * Period + mark[k]
      BY <1>0, <3>1 DEF Late
    <3> QED
      BY <1>0, <1>2, <2>1, <2>8, <3>2
  <2>12. StaysAtHead(k)'
    <3> SUFFICES ASSUME access'[k] < Expire PROVE AtHead(k)'
      BY <1>0, <1>2 DEF StaysAtHead
    <3>1. access[k] < Expire /\ access'[k] = access[k] + 1 /\ access'[k] # Absent
      BY <1>0, <1>2
    <3>2. ASSUME NEW i \in Keys, access'[i] # Absent, Before(access', i, k)
          PROVE  access[i] # Absent /\ Before(access, i, k)
      <4>1. access'[i] = IF access[i] < Expire THEN access[i] + 1 ELSE access[i]
        BY <1>2
      <4>2. access[i] # Absent
        BY <1>0, <3>2, <4>1
      <4> QED
        BY <1>0, <3>1, <3>2, <4>1, <4>2 DEF Before
    <3> QED
      BY <1>5, <3>1, <3>2, HeadKept
  <2>13. ASSUME NEW q \in Processes PROVE RunFinds(q, k)'
    <3>1. at'[q] \notin Running
      BY <1>1
    <3> QED
      BY <3>1 DEF RunFinds, Running
  <2> QED
    BY <2>7, <2>9, <2>10, <2>11, <2>12, <2>13 DEF KeyOK, ScoreTells
<1> QED
  BY <1>4, <1>5

\* Each step keeps every key in time.
LEMMA KeptStep == Typed /\ KeptInv /\ [Next]_vars => KeptInv'
<1> SUFFICES ASSUME Typed, KeptInv, [Next]_vars, NEW k \in Keys PROVE KeyOK(k)'
  BY RunsStep DEF KeptInv
<1>1. Typed' /\ RunsOK /\ RunsOK' /\ KeyOK(k) /\ InTime(k)
  BY TypedStep, RunsStep DEF KeptInv, KeyOK
<1>2. ASSUME NEW p \in Processes, Step(p) PROVE KeyOK(k)'
  BY <1>1, <1>2, KeptByJob
<1>3. ASSUME NEW p \in Processes, FailCall(p) \/ FailServe(p) \/ Close(p) \/ Crash(p) PROVE KeyOK(k)'
  <2>1. faults' = faults + 1 /\ waited' = waited
    BY <1>3 DEF FailCall, FailServe, Close, Crash, Fault
  <2> QED
    BY <1>1, <2>1, FaultStep
<1>4. ASSUME NEW j \in Keys, BumpTTL(j) PROVE KeyOK(k)'
  BY <1>1, <1>4, KeptByBump
<1>n. ASSUME NEW j \in Keys, NoNode(j) PROVE KeyOK(k)'
  BY <1>1, <1>n, KeptByNoNode
<1>5. CASE Tick
  BY <1>1, <1>5, KeptByTick
<1>6. CASE UNCHANGED vars
  <2>1. /\ access' = access /\ mark' = mark /\ at' = at /\ timer' = timer /\ accessed' = accessed
        /\ keys' = keys /\ waited' = waited /\ faults' = faults
    BY <1>6 DEF vars, sets, lists
  <2>2. AtHead(k) => AtHead(k)'
    BY <2>1 DEF AtHead, Before
  <2> QED
    BY <1>1, <2>1, <2>2 DEF KeyOK, InTime, ScoreTells, StaysAtHead, Watched, RunFinds, Taken, Late
<1> QED
  BY <1>1, <1>2, <1>3, <1>4, <1>n, <1>5, <1>6 DEF Next

\* At first no key has waited.
LEMMA KeptInit == Init => KeptInv
<1> SUFFICES ASSUME Init PROVE KeptInv
  OBVIOUS
<1>1. RunsOK
  BY DEF Init, RunsOK, Running
<1>2. ASSUME NEW k \in Keys PROVE KeyOK(k)
  <2>1. Typed /\ faults * Period \in Nat /\ Period \in Nat /\ Refresh \in Nat
    BY TypedInit, PeriodsAre, NumbersAre
  <2>2. waited[k] = 0 /\ access[k] \in Nat /\ mark[k] \in Nat
    BY <2>1 DEF Init, Typed, SetsOK
  <2>3. \A n \in Nat : ~Late(k, n)
    BY <2>1, <2>2 DEF Late
  <2>4. ~Late(k, 0) /\ ~Late(k, Refresh) /\ ~Late(k, Period) /\ ~Late(k, access[k]) /\ ~Late(k, mark[k])
    BY <2>1, <2>2, <2>3
  <2> QED
    BY <2>4 DEF KeyOK, InTime, ScoreTells, StaysAtHead, Watched, RunFinds
<1> QED
  BY <1>1, <1>2 DEF KeptInv

\* A key is served once a period, for any number of keys and processes, and any limit:
\* as long as it is among the `limit` keys not asked for longest, a job takes it within
\* fetchLastAccess and an interval, and each fault costs a period more
\* (FetchJob.ts:140-182).
THEOREM KeysKept == Spec => []Kept
<1>1. Typed /\ KeptInv => Kept
  <2> SUFFICES ASSUME Typed, KeptInv, NEW k \in Keys PROVE waited[k] <= (faults + 1) * (Refresh + Interval)
    BY DEF Kept
  <2>1. waited[k] \in Nat /\ faults * Period \in Nat /\ Period \in Nat
        /\ (faults + 1) * Period = faults * Period + Period
    BY PeriodsAre DEF Typed, RestOK
  <2>2. waited[k] <= faults * Period + Period
    BY <2>1 DEF KeptInv, KeyOK, InTime, Late
  <2> QED
    BY <2>1, <2>2 DEF Period
<1> QED
  BY <1>1, TypedInit, TypedStep, KeptInit, KeptStep, PTL DEF Spec
=============================================================================
