---------------------------- MODULE UpsertProofs ----------------------------
(***************************************************************************)
(* Proofs about Upsert.tla, for any nodes and relations, any finite number *)
(* of concurrent requests and any bound on failures.                       *)
(*                                                                         *)
(* CountInv bounds what was carried out and what is under way by the       *)
(* attempts that came so far; RelationInv follows the writes of a relation *)
(* from the creation on.  Without failures, CalmInv says of each stage what*)
(* the request knows of its nodes, and TotalInv that each write is done    *)
(* once, so that a depth is the number of the requests that counted on it. *)
(***************************************************************************)
EXTENDS Upsert, FiniteSetTheorems, TLAPS

Stages == {"new", "exists", "nodes", "edges", "missing", "found",
           "create", "increase", "acked", "rejected"}

\* TypeOK, for the stores that calls change and for what requests keep.
TablesType ==
  /\ data \subseteq Nodes
  /\ depth \in [Nodes \X Nodes -> Nat] /\ popDepth \in [Nodes \X Nodes -> Nat]
  /\ related \subseteq Nodes \X Nodes \X Relations
  /\ popRelated \subseteq Nodes \X Nodes \X Relations
  /\ knownNodes \subseteq Nodes /\ knownEdges \subseteq Nodes \X Nodes
  /\ nodeCount \in Int
  /\ applied \in [Requests -> [Places -> Nat]]

ControlType ==
  /\ body \in [Requests -> BodyType]
  /\ body \in [Requests -> Bodies]
  /\ stage \in [Requests -> Stages]
  /\ tries \in [Requests -> 0..2]
  /\ absent \in [Requests -> SUBSET Sides]
  /\ todo \in [Requests -> SUBSET Calls]
  /\ late \subseteq Requests \X (0..2) \X Calls
  /\ fails \in Nat
  /\ disturbed \subseteq Requests

Typed == TablesType /\ ControlType /\ edgeCount \in Nat

-----------------------------------------------------------------------------
(* Types.                                                                  *)

\* Every call is a pair of what is called and where.
LEMMA CallIs ==
  ASSUME NEW c \in Calls
  PROVE  /\ c = <<c[1], c[2]>>
         /\ c[1] \in {"exists", "insert", "fetch", "edges", "write"}
         /\ c[1] \in {"exists", "insert", "fetch"} => c[2] \in Sides
         /\ c[1] = "write" => c[2] \in Places
BY DEF Calls, Sides, Places

\* The two ends of a request are nodes.
LEMMA Ends ==
  ASSUME ControlType, NEW q \in Requests
  PROVE  /\ body[q] \in BodyType
         /\ body[q].left \in Nodes /\ body[q].right \in Nodes /\ body[q].rel \in Relations
         /\ \A s \in Sides : NodeOf(body[q], s) \in Nodes
         /\ Writes(body[q]) \subseteq Places
<1>1. body[q] \in BodyType
  BY DEF ControlType
<1>2. body[q].left \in Nodes /\ body[q].right \in Nodes /\ body[q].rel \in Relations
  BY <1>1 DEF BodyType
<1> QED
  BY <1>1, <1>2 DEF NodeOf, Writes, Places

\* The row and the column of the cell that a request writes at a place.
Near(q, p) == IF p = "right" THEN body[q].right ELSE body[q].left
Far(q, p) == IF p = "right" THEN body[q].left ELSE body[q].right
Cell(q, p) == <<Near(q, p), Far(q, p)>>

\* The four ways to write an edge cell.
LEMMA WriteMeans ==
  ASSUME ControlType, NEW q \in Requests, NEW p \in Places, WriteEdge(q, p)
  PROVE  /\ Cell(q, p) \in Nodes \X Nodes
         /\ depth' = IF body[q].mode = "depth" /\ p # "pop"
                     THEN [depth EXCEPT ![Cell(q, p)] = @ + 1] ELSE depth
         /\ popDepth' = IF body[q].mode = "depth" /\ p = "pop"
                        THEN [popDepth EXCEPT ![Cell(q, p)] = @ + 1] ELSE popDepth
         /\ related' = IF body[q].mode # "depth" /\ p # "pop"
                       THEN related \cup {<<Near(q, p), Far(q, p), body[q].rel>>} ELSE related
         /\ popRelated' = IF body[q].mode # "depth" /\ p = "pop"
                          THEN popRelated \cup {<<Near(q, p), Far(q, p), body[q].rel>>} ELSE popRelated
         /\ applied' = [applied EXCEPT ![q][p] = @ + 1]
         /\ UNCHANGED <<data, cache, counters>>
<1>1. Near(q, p) \in Nodes /\ Far(q, p) \in Nodes
  BY Ends DEF Near, Far
<1>2. Cell(q, p) \in Nodes \X Nodes
  BY <1>1 DEF Cell
<1>3. CASE body[q].mode = "depth"
  BY <1>2, <1>3 DEF WriteEdge, Cell, Near, Far
<1>4. CASE body[q].mode # "depth"
  BY <1>2, <1>4 DEF WriteEdge, Cell, Near, Far
<1> QED
  BY <1>3, <1>4

\* What a call does keeps the types of the stores.
LEMMA EffectTypes ==
  ASSUME TablesType, ControlType, NEW q \in Requests, NEW c \in Calls, Effect(q, c)
  PROVE  TablesType' /\ edgeCount' = edgeCount
<1> USE DEF TablesType, tables, cache, counters
<1>0. c[1] \in {"exists", "insert", "fetch", "edges", "write"}
  BY CallIs
<1>1. CASE c[1] = "exists"
  <2>1. NodeOf(body[q], c[2]) \in Nodes
    BY <1>1, CallIs, Ends
  <2> QED
    BY <1>1, <2>1 DEF Effect, FillExists
<1>2. CASE c[1] = "insert"
  <2>1. NodeOf(body[q], c[2]) \in Nodes
    BY <1>2, CallIs, Ends
  <2> QED
    BY <1>2, <2>1 DEF Effect, InsertNode
<1>3. CASE c[1] = "edges"
  BY <1>3, Ends DEF Effect, FillEdge
<1>4. CASE c[1] = "fetch"
  BY <1>4 DEF Effect
<1>5. CASE c[1] = "write"
  <2>1. c[2] \in Places /\ WriteEdge(q, c[2])
    BY <1>5, CallIs DEF Effect
  <2>2. Near(q, c[2]) \in Nodes /\ Far(q, c[2]) \in Nodes /\ body[q].rel \in Relations
    BY Ends DEF Near, Far
  <2>3. applied' \in [Requests -> [Places -> Nat]]
    BY <2>1 DEF WriteEdge
  <2>4. depth' \in [Nodes \X Nodes -> Nat] /\ popDepth' \in [Nodes \X Nodes -> Nat]
    <3>1. \A f \in [Nodes \X Nodes -> Nat], e \in Nodes \X Nodes :
            [f EXCEPT ![e] = @ + 1] \in [Nodes \X Nodes -> Nat]
      OBVIOUS
    <3>2. /\ [depth EXCEPT ![Cell(q, c[2])] = @ + 1] \in [Nodes \X Nodes -> Nat]
          /\ [popDepth EXCEPT ![Cell(q, c[2])] = @ + 1] \in [Nodes \X Nodes -> Nat]
      BY <2>1, <3>1, WriteMeans
    <3> QED
      BY <2>1, <3>2, WriteMeans
  <2>5. <<Near(q, c[2]), Far(q, c[2]), body[q].rel>> \in Nodes \X Nodes \X Relations
    BY <2>2
  <2>6. related' \subseteq Nodes \X Nodes \X Relations /\ popRelated' \subseteq Nodes \X Nodes \X Relations
    BY <2>1, <2>5, WriteMeans
  <2> QED
    BY <2>1, <2>3, <2>4, <2>6, WriteMeans
<1> QED
  BY <1>0, <1>1, <1>2, <1>3, <1>4, <1>5

\* So does a call that fails, carried out or not.
LEMMA PerhapsTypes ==
  ASSUME TablesType, ControlType, NEW q \in Requests, NEW c \in Calls, PerhapsEffect(q, c)
  PROVE  TablesType' /\ edgeCount' = edgeCount
<1>1. CASE Effect(q, c)
  BY <1>1, EffectTypes
<1>2. CASE UNCHANGED <<tables, cache, counters, applied>>
  BY <1>2 DEF TablesType, tables, cache, counters
<1> QED
  BY <1>1, <1>2 DEF PerhapsEffect

\* A request that moves to a stage, for what it keeps.
LEMMA EnterTypes ==
  ASSUME ControlType, NEW q \in Requests, NEW s \in Stages, NEW calls \in SUBSET Calls,
         Enter(q, s, calls), UNCHANGED <<body, tries, absent, late, disturbed>>, fails' \in Nat
  PROVE  ControlType'
BY DEF ControlType, Enter

\* An attempt that is given up leaves only calls that were made.
LEMMA GiveUpTypes ==
  ASSUME ControlType, NEW q \in Requests, NEW c, GiveUp(q, c), UNCHANGED disturbed, fails' \in Nat
  PROVE  ControlType'
<1>1. Abandoned(q, c) \subseteq Requests \X (0..2) \X Calls
  BY DEF Abandoned, ControlType
<1>2. late' \subseteq Requests \X (0..2) \X Calls
  BY <1>1 DEF GiveUp, ControlType
<1>3. ExistsCalls \subseteq Calls
  BY DEF ExistsCalls, Calls
<1>4. CASE tries[q] = 2
  BY <1>2, <1>4 DEF GiveUp, Enter, ControlType, Stages
<1>5. CASE tries[q] # 2
  <2>1. tries[q] + 1 \in 0..2
    BY <1>5 DEF ControlType
  <2> QED
    BY <1>2, <1>3, <1>5, <2>1 DEF GiveUp, Enter, ControlType, Stages
<1> QED
  BY <1>4, <1>5

\* A request that begins.
LEMMA BeginTypes ==
  ASSUME Typed, NEW q \in Requests, Begin(q)
  PROVE  Typed'
<1>1. ExistsCalls \subseteq Calls /\ "exists" \in Stages
  BY DEF ExistsCalls, Calls, Stages
<1>2. ControlType'
  BY <1>1, EnterTypes DEF Begin, Typed, ControlType
<1> QED
  BY <1>2 DEF Begin, Typed, TablesType, tables, cache, counters

\* A continuation.
LEMMA ProceedTypes ==
  ASSUME Typed, NEW q \in Requests, Proceed(q)
  PROVE  Typed'
<1> USE DEF Typed
<1>1. edgeCount' \in Nat /\ fails' \in Nat
  BY DEF Proceed, StartCreate, ControlType
<1>2. {<<"write", p>> : p \in Writes(body[q])} \in SUBSET Calls
  BY Ends DEF Calls
<1>3. {<<"insert", s>> : s \in absent[q]} \in SUBSET Calls
  BY DEF ControlType, Calls
<1>4. {<<"edges", "both">>} \in SUBSET Calls /\ {} \in SUBSET Calls
  BY DEF Calls
<1>5. \E s \in Stages, calls \in SUBSET Calls : Enter(q, s, calls)
  BY <1>2, <1>3, <1>4 DEF Proceed, StartCreate, Stages
<1>6. ControlType'
  BY <1>1, <1>5, EnterTypes DEF Proceed
<1> QED
  BY <1>1, <1>6 DEF Proceed, TablesType, tables, cache

\* An answer.
LEMMA AnswerTypes ==
  ASSUME Typed, NEW q \in Requests, NEW c \in todo[q], Answer(q, c)
  PROVE  Typed'
<1> USE DEF Typed
<1>0. c \in Calls
  BY DEF ControlType
<1>1. TablesType' /\ edgeCount' = edgeCount
  BY <1>0, EffectTypes DEF Answer
<1>2. c[1] = "insert" => <<"fetch", c[2]>> \in Calls
  BY <1>0, CallIs DEF Calls
<1>3. todo' \in [Requests -> SUBSET Calls]
  BY <1>0, <1>2 DEF Answer, ControlType
<1>4. absent' \in [Requests -> SUBSET Sides]
  <2>1. c[1] = "exists" => c[2] \in Sides
    BY <1>0, CallIs
  <2> QED
    BY <2>1 DEF Answer, ControlType
<1>5. stage' \in [Requests -> Stages]
  <2>1. "found" \in Stages /\ "missing" \in Stages
    BY DEF Stages
  <2> QED
    BY <2>1 DEF Answer, ControlType
<1> QED
  BY <1>1, <1>3, <1>4, <1>5 DEF Answer, ControlType

\* A failure.
LEMMA FailTypes ==
  ASSUME Typed, NEW q \in Requests, NEW c \in todo[q], Fail(q, c)
  PROVE  Typed'
<1> USE DEF Typed
<1>0. c \in Calls /\ fails' \in Nat /\ UNCHANGED disturbed
  BY DEF ControlType, Fail
<1>1. ASSUME GiveUp(q, c), UNCHANGED <<tables, cache, counters, applied>> PROVE Typed'
  BY <1>0, <1>1, GiveUpTypes DEF TablesType, tables, cache, counters
<1>2. ASSUME GiveUp(q, c), PerhapsEffect(q, c) PROVE Typed'
  BY <1>0, <1>2, GiveUpTypes, PerhapsTypes
<1>3. ASSUME c[1] = "insert", InsertUnnoticed(q, c) PROVE Typed'
  <2>1. NodeOf(body[q], c[2]) \in Nodes
    BY <1>0, <1>3, CallIs, Ends
  <2>2. TablesType' /\ edgeCount' \in Nat
    BY <1>3, <2>1 DEF InsertUnnoticed, TablesType, cache, counters
  <2> QED
    BY <1>0, <1>3, <2>2 DEF InsertUnnoticed, ControlType, control
<1>4. ASSUME EdgesUnknown(q) PROVE Typed'
  <2>1. "missing" \in Stages /\ {} \in SUBSET Calls
    BY DEF Stages
  <2>2. ControlType'
    BY <1>0, <1>4, <2>1, EnterTypes DEF EdgesUnknown
  <2> QED
    BY <1>4, <2>2 DEF EdgesUnknown, TablesType, tables, cache, counters
<1>5. ASSUME IncreaseUnnoticed(q, c) PROVE Typed'
  <2>1. TablesType' /\ edgeCount' = edgeCount
    BY <1>0, <1>5, PerhapsTypes DEF IncreaseUnnoticed
  <2>2. late' \subseteq Requests \X (0..2) \X Calls
    BY <1>5 DEF IncreaseUnnoticed, Abandoned, ControlType
  <2>3. "acked" \in Stages
    BY DEF Stages
  <2> QED
    BY <1>0, <1>5, <2>1, <2>2, <2>3 DEF IncreaseUnnoticed, Enter, ControlType
<1> QED
  BY <1>1, <1>2, <1>3, <1>4, <1>5 DEF Fail

\* A call that arrives late.
LEMMA ArriveTypes ==
  ASSUME Typed, NEW q \in Requests, Arrive(q)
  PROVE  Typed'
<1> USE DEF Typed
<1>1. PICK l \in late : l[1] = q /\ Effect(q, l[3]) /\ late' = late \ {l}
  BY DEF Arrive
<1>2. l[3] \in Calls
  BY DEF ControlType
<1>3. TablesType' /\ edgeCount' = edgeCount
  BY <1>1, <1>2, EffectTypes
<1> QED
  BY <1>1, <1>3 DEF Arrive, ControlType, control

\* A node that is removed, and entries that expire.
LEMMA OutsideTypes ==
  ASSUME Typed,
         \/ \E x \in Nodes : RemoveNode(x) \/ EvictNode(x)
         \/ \E x, y \in Nodes : EvictEdge(x, y)
  PROVE  Typed'
<1> USE DEF Typed, TablesType, ControlType
<1>1. ASSUME NEW x \in Nodes, RemoveNode(x) PROVE Typed'
  <2>1. depth' \in [Nodes \X Nodes -> Nat]
    BY <1>1 DEF RemoveNode
  <2>2. disturbed' \subseteq Requests
    BY <1>1 DEF RemoveNode
  <2> QED
    BY <1>1, <2>1, <2>2 DEF RemoveNode, cache, control
<1>2. ASSUME NEW x \in Nodes, EvictNode(x) PROVE Typed'
  BY <1>2 DEF EvictNode, tables, counters, control
<1>3. ASSUME NEW x \in Nodes, NEW y \in Nodes, EvictEdge(x, y) PROVE Typed'
  BY <1>3 DEF EvictEdge, tables, counters, control
<1> QED
  BY <1>1, <1>2, <1>3

\* The types hold at first, and every step keeps them.
LEMMA InitTyped == Init => Typed
<1> SUFFICES ASSUME Init PROVE Typed
  OBVIOUS
<1>1. body \in [Requests -> BodyType]
  BY UpsertAssumption DEF Init
<1> QED
  BY <1>1 DEF Init, Typed, TablesType, ControlType, Zero, Stages

\* Every step keeps the types.
LEMMA StepTyped == Typed /\ [Next]_vars => Typed'
<1> SUFFICES ASSUME Typed, [Next]_vars PROVE Typed'
  OBVIOUS
<1>1. CASE UNCHANGED vars
  BY <1>1 DEF vars, tables, cache, counters, control, Typed, TablesType, ControlType
<1>2. CASE Next
  BY <1>2, BeginTypes, ProceedTypes, AnswerTypes, FailTypes, ArriveTypes, OutsideTypes
     DEF Next, RequestStep
<1> QED
  BY <1>1, <1>2

\* So the state is typed for ever.
LEMMA AlwaysTyped == Spec => []Typed
BY InitTyped, StepTyped, PTL DEF Spec

\* The state of an upsert keeps its types, for any requests, nodes and failures.
THEOREM TypeCorrect == Spec => []TypeOK
<1>1. Typed => TypeOK
  BY DEF Typed, TablesType, ControlType, TypeOK, Stages
<1> QED
  BY <1>1, AlwaysTyped, PTL

-----------------------------------------------------------------------------
(* What a request awaits at each stage.                                    *)

\* The calls of a stage; an insertion is followed by the fetch of its node.
Awaits(s) ==
  CASE s = "exists" -> {"exists"}
    [] s = "nodes" -> {"insert", "fetch"}
    [] s = "edges" -> {"edges"}
    [] s \in {"create", "increase"} -> {"write"}
    [] OTHER -> {}

StageInv == \A q \in Requests : \A c \in todo[q] : c[1] \in Awaits(stage[q])

\* Every step keeps it.
LEMMA StepStage == Typed /\ StageInv /\ [Next]_vars => StageInv'
<1> SUFFICES ASSUME Typed, StageInv, [Next]_vars, NEW q \in Requests, NEW d \in todo'[q]
             PROVE  d[1] \in Awaits(stage'[q])
  BY DEF StageInv
<1> USE DEF Typed, ControlType
<1>0. ASSUME stage'[q] = stage[q], todo'[q] \subseteq todo[q] PROVE d[1] \in Awaits(stage'[q])
  BY <1>0 DEF StageInv
<1>1. CASE UNCHANGED vars
  BY <1>0, <1>1 DEF vars, control
<1>2. ASSUME NEW r \in Requests, Begin(r) PROVE d[1] \in Awaits(stage'[q])
  BY <1>0, <1>2 DEF Begin, Enter, ExistsCalls, Awaits
<1>3. ASSUME NEW r \in Requests, Proceed(r) PROVE d[1] \in Awaits(stage'[q])
  BY <1>0, <1>3 DEF Proceed, StartCreate, Enter, Awaits
<1>4. ASSUME NEW r \in Requests, NEW c \in todo[r], Answer(r, c) PROVE d[1] \in Awaits(stage'[q])
  <2>2. CASE q # r
    BY <1>0, <1>4, <2>2 DEF Answer
  <2>3. CASE q = r /\ c[1] = "edges"
    <3>1. stage[q] = "edges" /\ todo[q] \subseteq {<<"edges", "both">>} /\ c = <<"edges", "both">>
      BY <1>4, <2>3 DEF StageInv, Awaits, Calls
    <3> QED
      BY <1>4, <2>3, <3>1 DEF Answer
  <2>4. CASE q = r /\ c[1] = "insert"
    <3>1. stage[q] = "nodes" /\ stage' = stage
      BY <1>4, <2>4 DEF StageInv, Awaits, Answer
    <3>2. d \in todo[q] \/ d = <<"fetch", c[2]>>
      BY <1>4, <2>4 DEF Answer
    <3> QED
      BY <3>1, <3>2 DEF StageInv, Awaits
  <2>5. CASE q = r /\ c[1] \notin {"edges", "insert"}
    BY <1>0, <1>4, <2>5 DEF Answer
  <2> QED
    BY <2>2, <2>3, <2>4, <2>5
<1>5. ASSUME NEW r \in Requests, Arrive(r) PROVE d[1] \in Awaits(stage'[q])
  BY <1>0, <1>5 DEF Arrive, control
<1>6. ASSUME NEW r \in Requests, NEW c \in todo[r], Fail(r, c) PROVE d[1] \in Awaits(stage'[q])
  <2>1. ASSUME GiveUp(r, c) PROVE d[1] \in Awaits(stage'[q])
    BY <1>0, <2>1 DEF GiveUp, Enter, ExistsCalls, Awaits
  <2>2. ASSUME InsertUnnoticed(r, c) PROVE d[1] \in Awaits(stage'[q])
    BY <1>0, <2>2 DEF InsertUnnoticed, control
  <2>3. ASSUME EdgesUnknown(r) PROVE d[1] \in Awaits(stage'[q])
    BY <1>0, <2>3 DEF EdgesUnknown, Enter
  <2>4. ASSUME IncreaseUnnoticed(r, c) PROVE d[1] \in Awaits(stage'[q])
    BY <1>0, <2>4 DEF IncreaseUnnoticed, Enter
  <2> QED
    BY <1>6, <2>1, <2>2, <2>3, <2>4 DEF Fail
<1>7. ASSUME \/ \E x \in Nodes : RemoveNode(x) \/ EvictNode(x)
             \/ \E x, y \in Nodes : EvictEdge(x, y)
      PROVE  d[1] \in Awaits(stage'[q])
  BY <1>0, <1>7 DEF RemoveNode, EvictNode, EvictEdge, control
<1> QED
  BY <1>1, <1>2, <1>3, <1>4, <1>5, <1>6, <1>7 DEF Next, RequestStep

\* Requests keep to themselves.
LEMMA OthersKeep ==
  ASSUME Typed, NEW q \in Requests, NEW r \in Requests, r # q,
         Begin(r) \/ RequestStep(r) \/ Arrive(r) \/ \E c \in todo[r] : Fail(r, c)
  PROVE  todo'[q] = todo[q] /\ stage'[q] = stage[q] /\ tries'[q] = tries[q] /\ absent'[q] = absent[q]
<1> USE DEF Typed, ControlType
<1>1. ASSUME NEW c, Fail(r, c) PROVE todo'[q] = todo[q] /\ stage'[q] = stage[q] /\ tries'[q] = tries[q]
                                     /\ absent'[q] = absent[q]
  BY <1>1 DEF Fail, GiveUp, InsertUnnoticed, EdgesUnknown, IncreaseUnnoticed, Enter, control
<1>2. ASSUME NEW c \in todo[r], Answer(r, c) PROVE todo'[q] = todo[q] /\ stage'[q] = stage[q]
                                               /\ tries'[q] = tries[q] /\ absent'[q] = absent[q]
  BY <1>2 DEF Answer
<1>3. ASSUME Begin(r) PROVE todo'[q] = todo[q] /\ stage'[q] = stage[q] /\ tries'[q] = tries[q]
                            /\ absent'[q] = absent[q]
  BY <1>3 DEF Begin, Enter
<1>4. ASSUME Proceed(r) PROVE todo'[q] = todo[q] /\ stage'[q] = stage[q] /\ tries'[q] = tries[q]
                              /\ absent'[q] = absent[q]
  BY <1>4 DEF Proceed, StartCreate, Enter
<1>5. ASSUME Arrive(r) PROVE todo'[q] = todo[q] /\ stage'[q] = stage[q] /\ tries'[q] = tries[q]
                             /\ absent'[q] = absent[q]
  BY <1>5 DEF Arrive, control
<1> QED
  BY <1>1, <1>2, <1>3, <1>4, <1>5 DEF RequestStep

-----------------------------------------------------------------------------
(* How often a write is carried out.                                       *)

W(p) == <<"write", p>>
Issuing == {"create", "increase"}

\* The attempts of q that have made their writes.
Begun(q) == tries[q] + IF stage[q] \in Issuing \cup Over THEN 1 ELSE 0

\* Its writes at p that are under way.
Awaited(q, p) == IF W(p) \in todo[q] THEN 1 ELSE 0
Late(q, p, t) == IF <<q, t, W(p)>> \in late THEN 1 ELSE 0

\* Each attempt makes a write once, so what was carried out and what is under
\* way are no more than the attempts that came so far.
CountInv(q, p) ==
  /\ applied[q][p] + Awaited(q, p) + Late(q, p, 0) + Late(q, p, 1) + Late(q, p, 2) <= Begun(q)
  /\ \A t \in 0..2 : <<q, t, W(p)>> \in late => t < Begun(q)
  /\ W(p) \in todo[q] => stage[q] \in Issuing /\ <<q, tries[q], W(p)>> \notin late

\* A call is carried out for one request and one place.
LEMMA EffectCounts ==
  ASSUME TablesType, NEW r \in Requests, NEW c \in Calls, Effect(r, c), NEW q \in Requests, NEW p \in Places
  PROVE  applied'[q][p] = applied[q][p] + IF r = q /\ c = W(p) THEN 1 ELSE 0
<1>0. applied[q][p] \in Nat
  BY DEF TablesType
<1>1. CASE c[1] = "write"
  <2>1. c = W(c[2]) /\ c[2] \in Places /\ applied' = [applied EXCEPT ![r][c[2]] = @ + 1]
    BY <1>1, CallIs DEF Effect, WriteEdge, W
  <2>2. c = W(p) <=> c[2] = p
    BY <2>1 DEF W
  <2> QED
    BY <1>0, <2>1, <2>2 DEF TablesType
<1>2. CASE c[1] # "write"
  <2>1. applied' = applied
    BY <1>2 DEF Effect, FillExists, InsertNode, FillEdge
  <2> QED
    BY <1>0, <1>2, <2>1 DEF W
<1> QED
  BY <1>1, <1>2

\* Nothing happens to the writes of q at p.
LEMMA CountKept ==
  ASSUME Typed, Typed', NEW q \in Requests, NEW p \in Places, CountInv(q, p),
         applied'[q][p] = applied[q][p],
         W(p) \in todo'[q] => W(p) \in todo[q] /\ stage'[q] \in Issuing /\ tries'[q] = tries[q],
         \A t \in 0..2 : <<q, t, W(p)>> \in late' => <<q, t, W(p)>> \in late,
         Begun(q) <= Begun(q)'
  PROVE  CountInv(q, p)'
<1>1. applied[q][p] \in Nat /\ tries[q] \in 0..2 /\ tries'[q] \in 0..2
  BY DEF Typed, TablesType, ControlType
<1>2. Awaited(q, p)' <= Awaited(q, p) /\ \A t \in 0..2 : Late(q, p, t)' <= Late(q, p, t)
  BY DEF Awaited, Late
<1>3. \A t \in 0..2 : Late(q, p, t) \in 0..1 /\ Late(q, p, t)' \in 0..1
  BY DEF Late
<1>4. Awaited(q, p) \in 0..1 /\ Awaited(q, p)' \in 0..1 /\ Begun(q) \in Nat /\ Begun(q)' \in Nat
  BY <1>1 DEF Awaited, Begun
<1>5. /\ Late(q, p, 0)' <= Late(q, p, 0) /\ Late(q, p, 1)' <= Late(q, p, 1)
      /\ Late(q, p, 2)' <= Late(q, p, 2)
      /\ Late(q, p, 0) \in 0..1 /\ Late(q, p, 1) \in 0..1 /\ Late(q, p, 2) \in 0..1
      /\ Late(q, p, 0)' \in 0..1 /\ Late(q, p, 1)' \in 0..1 /\ Late(q, p, 2)' \in 0..1
  BY <1>2, <1>3
<1>6. applied'[q][p] + Awaited(q, p)' + Late(q, p, 0)' + Late(q, p, 1)' + Late(q, p, 2)' <= Begun(q)'
  BY <1>1, <1>2, <1>4, <1>5 DEF CountInv
<1>7. \A t \in 0..2 : <<q, t, W(p)>> \in late' => t < Begun(q)'
  BY <1>4 DEF CountInv
<1> QED
  BY <1>1, <1>6, <1>7 DEF CountInv

\* A write of q at p is over, carried out or not.
LEMMA CountPaid ==
  ASSUME Typed, Typed', NEW q \in Requests, NEW p \in Places, CountInv(q, p),
         applied'[q][p] \in applied[q][p]..(applied[q][p] + 1),
         \/ W(p) \in todo[q] /\ late' = late
         \/ \E t \in 0..2 : <<q, t, W(p)>> \in late /\ late' = late \ {<<q, t, W(p)>>}
                            /\ UNCHANGED <<todo, stage, tries>>,
         W(p) \in todo[q] /\ late' = late =>
           W(p) \notin todo'[q] /\ Begun(q) <= Begun(q)'
  PROVE  CountInv(q, p)'
<1>1. applied[q][p] \in Nat /\ tries[q] \in 0..2 /\ tries'[q] \in 0..2 /\ applied'[q][p] \in Nat
  BY DEF Typed, TablesType, ControlType
<1>2. Awaited(q, p) \in 0..1 /\ Awaited(q, p)' \in 0..1 /\ Begun(q) \in Nat /\ Begun(q)' \in Nat
  BY <1>1 DEF Awaited, Begun
<1>3. /\ Late(q, p, 0) \in 0..1 /\ Late(q, p, 1) \in 0..1 /\ Late(q, p, 2) \in 0..1
      /\ Late(q, p, 0)' \in 0..1 /\ Late(q, p, 1)' \in 0..1 /\ Late(q, p, 2)' \in 0..1
  BY DEF Late
<1>4. CASE W(p) \in todo[q] /\ late' = late
  <2>1. /\ Late(q, p, 0)' = Late(q, p, 0) /\ Late(q, p, 1)' = Late(q, p, 1) /\ Late(q, p, 2)' = Late(q, p, 2)
        /\ Awaited(q, p) = 1 /\ Awaited(q, p)' = 0
    BY <1>4 DEF Late, Awaited
  <2>2. applied'[q][p] + Awaited(q, p)' + Late(q, p, 0)' + Late(q, p, 1)' + Late(q, p, 2)' <= Begun(q)'
    BY <1>1, <1>2, <1>3, <1>4, <2>1 DEF CountInv
  <2>3. \A t \in 0..2 : <<q, t, W(p)>> \in late' => t < Begun(q)'
    BY <1>2, <1>4 DEF CountInv
  <2> QED
    BY <1>4, <2>2, <2>3 DEF CountInv
<1>5. ASSUME NEW t \in 0..2, <<q, t, W(p)>> \in late, late' = late \ {<<q, t, W(p)>>}, UNCHANGED <<todo, stage, tries>>
      PROVE  CountInv(q, p)'
  <2>1. Awaited(q, p)' = Awaited(q, p) /\ Begun(q)' = Begun(q)
    BY <1>5 DEF Awaited, Begun
  <2>2. \A u \in 0..2 : Late(q, p, u)' = IF u = t THEN 0 ELSE Late(q, p, u)
    BY <1>5 DEF Late
  <2>3. Late(q, p, t) = 1
    BY <1>5 DEF Late
  <2>4. Late(q, p, 0)' + Late(q, p, 1)' + Late(q, p, 2)' = Late(q, p, 0) + Late(q, p, 1) + Late(q, p, 2) - 1
    <3>1. CASE t = 0
      BY <1>3, <2>2, <2>3, <3>1
    <3>2. CASE t = 1
      BY <1>3, <2>2, <2>3, <3>2
    <3>3. CASE t = 2
      BY <1>3, <2>2, <2>3, <3>3
    <3> QED
      BY <3>1, <3>2, <3>3
  <2>5. applied'[q][p] + Awaited(q, p)' + Late(q, p, 0)' + Late(q, p, 1)' + Late(q, p, 2)' <= Begun(q)'
    BY <1>1, <1>2, <1>3, <2>1, <2>4 DEF CountInv
  <2> QED
    BY <1>1, <1>5, <2>1, <2>5 DEF CountInv
<1> QED
  BY <1>4, <1>5

\* What another request does leaves the writes of q alone.
LEMMA OthersCount ==
  ASSUME Typed, Typed', NEW q \in Requests, NEW p \in Places, CountInv(q, p), NEW r \in Requests, r # q,
         Begin(r) \/ RequestStep(r) \/ Arrive(r) \/ \E c \in todo[r] : Fail(r, c)
  PROVE  CountInv(q, p)'
<1>0. \A c \in Calls : Effect(r, c) => applied'[q][p] = applied[q][p]
  BY EffectCounts DEF Typed, TablesType
<1>1. \A c \in Calls : PerhapsEffect(r, c) => applied'[q][p] = applied[q][p]
  BY <1>0 DEF PerhapsEffect
<1>2. \A c \in todo[r] : c \in Calls
  BY DEF Typed, ControlType
<1>3. \A c : \A t \in 0..2 : <<q, t, W(p)>> \notin Abandoned(r, c)
  BY DEF Abandoned
<1> DEFINE Same == /\ applied'[q][p] = applied[q][p]
                   /\ \A t \in 0..2 : <<q, t, W(p)>> \in late' => <<q, t, W(p)>> \in late
<1>4. ASSUME Begin(r) \/ Proceed(r) PROVE Same
  BY <1>4 DEF Begin, Proceed
<1>5. ASSUME NEW c \in todo[r], Answer(r, c) PROVE Same
  BY <1>0, <1>2, <1>5 DEF Answer
<1>6. ASSUME Arrive(r) PROVE Same
  <2>1. PICK l \in late : l[1] = r /\ Effect(r, l[3]) /\ late' = late \ {l}
    BY <1>6 DEF Arrive
  <2>2. l[3] \in Calls
    BY DEF Typed, ControlType
  <2> QED
    BY <1>0, <2>1, <2>2
<1>7. ASSUME NEW c \in todo[r], Fail(r, c) PROVE Same
  <2>1. applied'[q][p] = applied[q][p]
    BY <1>1, <1>2, <1>7 DEF Fail, InsertUnnoticed, EdgesUnknown, IncreaseUnnoticed
  <2>2. late' \subseteq late \cup Abandoned(r, c)
    BY <1>7 DEF Fail, GiveUp, InsertUnnoticed, EdgesUnknown, IncreaseUnnoticed
  <2> QED
    BY <1>3, <2>1, <2>2
<1>8. Same
  BY <1>4, <1>5, <1>6, <1>7 DEF RequestStep
<1>9. todo'[q] = todo[q] /\ stage'[q] = stage[q] /\ tries'[q] = tries[q]
  BY OthersKeep
<1>10. Begun(q)' = Begun(q) /\ Begun(q) \in Nat
  BY <1>9 DEF Begun, Typed, ControlType
<1>11. W(p) \in todo'[q] => W(p) \in todo[q] /\ stage'[q] \in Issuing /\ tries'[q] = tries[q]
  BY <1>9 DEF CountInv
<1>12. Begun(q) <= Begun(q)'
  BY <1>10
<1> QED
  BY <1>8, <1>11, <1>12, CountKept

\* q makes its writes.
LEMMA CountIssued ==
  ASSUME Typed, Typed', NEW q \in Requests, NEW p \in Places, CountInv(q, p),
         UNCHANGED <<applied, tries, late>>, todo[q] = {},
         stage[q] \notin Issuing \cup Over, stage'[q] \in Issuing
  PROVE  CountInv(q, p)'
<1>1. applied[q][p] \in Nat /\ tries[q] \in 0..2
  BY DEF Typed, TablesType, ControlType
<1>2. Begun(q) = tries[q] /\ Begun(q)' = tries[q] + 1
  BY <1>1 DEF Begun
<1>3. Awaited(q, p) = 0 /\ Awaited(q, p)' \in 0..1
  BY DEF Awaited
<1>4. /\ Late(q, p, 0)' = Late(q, p, 0) /\ Late(q, p, 1)' = Late(q, p, 1) /\ Late(q, p, 2)' = Late(q, p, 2)
      /\ Late(q, p, 0) \in 0..1 /\ Late(q, p, 1) \in 0..1 /\ Late(q, p, 2) \in 0..1
  BY DEF Late
<1>5. applied'[q][p] + Awaited(q, p)' + Late(q, p, 0)' + Late(q, p, 1)' + Late(q, p, 2)' <= Begun(q)'
  BY <1>1, <1>2, <1>3, <1>4 DEF CountInv
<1>6. \A t \in 0..2 : <<q, t, W(p)>> \in late => t < tries[q]
  BY <1>2 DEF CountInv
<1>7. \A t \in 0..2 : <<q, t, W(p)>> \in late' => t < Begun(q)'
  BY <1>1, <1>2, <1>6
<1>8. <<q, tries'[q], W(p)>> \notin late'
  BY <1>1, <1>6
<1> QED
  BY <1>5, <1>7, <1>8 DEF CountInv

\* q stops waiting at the failing call c: what it awaited beside it is late.
LEMMA CountLeft ==
  ASSUME Typed, Typed', NEW q \in Requests, NEW p \in Places, CountInv(q, p), NEW c \in todo[q],
         W(p) \notin todo'[q], late' = late \cup Abandoned(q, c), Begun(q) <= Begun(q)',
         applied'[q][p] \in Nat,
         applied'[q][p] <= applied[q][p] + 1, c # W(p) => applied'[q][p] = applied[q][p]
  PROVE  CountInv(q, p)'
<1>1. applied[q][p] \in Nat /\ tries[q] \in 0..2 /\ tries'[q] \in 0..2
  BY DEF Typed, TablesType, ControlType
<1>2. Awaited(q, p) \in 0..1 /\ Awaited(q, p)' = 0 /\ Begun(q) \in Nat /\ Begun(q)' \in Nat
  BY <1>1 DEF Awaited, Begun
<1>3. /\ Late(q, p, 0) \in 0..1 /\ Late(q, p, 1) \in 0..1 /\ Late(q, p, 2) \in 0..1
      /\ Late(q, p, 0)' \in 0..1 /\ Late(q, p, 1)' \in 0..1 /\ Late(q, p, 2)' \in 0..1
  BY DEF Late
<1>4. \A t \in 0..2 : <<q, t, W(p)>> \in Abandoned(q, c) <=> t = tries[q] /\ W(p) \in todo[q] /\ W(p) # c
  BY DEF Abandoned
<1>5. CASE W(p) \in todo[q] /\ W(p) # c
  <2>1. Awaited(q, p) = 1 /\ Late(q, p, tries[q]) = 0 /\ tries[q] < Begun(q)
    BY <1>1, <1>5 DEF Awaited, Late, CountInv, Begun
  <2>2. \A t \in 0..2 : Late(q, p, t)' = IF t = tries[q] THEN 1 ELSE Late(q, p, t)
    BY <1>4, <1>5 DEF Late
  <2>3. Late(q, p, 0)' + Late(q, p, 1)' + Late(q, p, 2)' = Late(q, p, 0) + Late(q, p, 1) + Late(q, p, 2) + 1
    <3>1. CASE tries[q] = 0
      BY <1>3, <2>1, <2>2, <3>1
    <3>2. CASE tries[q] = 1
      BY <1>3, <2>1, <2>2, <3>2
    <3>3. CASE tries[q] = 2
      BY <1>3, <2>1, <2>2, <3>3
    <3> QED
      BY <1>1, <3>1, <3>2, <3>3
  <2>4. applied'[q][p] + Awaited(q, p)' + Late(q, p, 0)' + Late(q, p, 1)' + Late(q, p, 2)' <= Begun(q)'
    BY <1>1, <1>2, <1>3, <1>5, <2>1, <2>3 DEF CountInv
  <2>5. \A t \in 0..2 : <<q, t, W(p)>> \in late' => t < Begun(q)'
    BY <1>2, <1>4, <2>1 DEF CountInv
  <2> QED
    BY <2>4, <2>5 DEF CountInv
<1>6. CASE W(p) \notin todo[q] \/ W(p) = c
  <2>1. \A t \in 0..2 : <<q, t, W(p)>> \in late' <=> <<q, t, W(p)>> \in late
    BY <1>4, <1>6
  <2>2. Late(q, p, 0)' = Late(q, p, 0) /\ Late(q, p, 1)' = Late(q, p, 1) /\ Late(q, p, 2)' = Late(q, p, 2)
    BY <2>1 DEF Late
  <2>3. applied'[q][p] <= applied[q][p] + Awaited(q, p)
    BY <1>1, <1>6 DEF Awaited
  <2>4. applied'[q][p] + Awaited(q, p)' + Late(q, p, 0)' + Late(q, p, 1)' + Late(q, p, 2)' <= Begun(q)'
    BY <1>1, <1>2, <1>3, <2>2, <2>3 DEF CountInv
  <2>5. \A t \in 0..2 : <<q, t, W(p)>> \in late' => t < Begun(q)'
    BY <1>2, <2>1 DEF CountInv
  <2> QED
    BY <2>4, <2>5 DEF CountInv
<1> QED
  BY <1>5, <1>6

\* What q does itself.
LEMMA OwnCount ==
  ASSUME Typed, Typed', StageInv, NEW q \in Requests, NEW p \in Places, CountInv(q, p),
         Begin(q) \/ RequestStep(q) \/ Arrive(q) \/ \E c \in todo[q] : Fail(q, c)
  PROVE  CountInv(q, p)'
<1> USE DEF Typed, ControlType
<1>0. applied[q][p] \in Nat /\ applied'[q][p] \in Nat /\ tries[q] \in 0..2 /\ tries'[q] \in 0..2
  BY DEF TablesType
<1>a. \A c \in Calls : Effect(q, c) => applied'[q][p] = applied[q][p] + IF c = W(p) THEN 1 ELSE 0
  BY EffectCounts
<1>b. W(p) \in todo[q] => stage[q] \in Issuing
  BY DEF CountInv
<1>1. ASSUME Begin(q) PROVE CountInv(q, p)'
  <2>1. W(p) \notin todo'[q]
    BY <1>1 DEF Begin, Enter, ExistsCalls, W
  <2>2. Begun(q) <= Begun(q)'
    BY <1>0, <1>1 DEF Begin, Enter, Begun, Issuing, Over
  <2> QED
    BY <1>1, <2>1, <2>2, CountKept DEF Begin
<1>2. ASSUME Proceed(q) PROVE CountInv(q, p)'
  <2>0. UNCHANGED <<applied, tries, late>> /\ todo[q] = {}
    BY <1>2 DEF Proceed
  <2>1. CASE stage'[q] \in Issuing
    <3>1. stage[q] \notin Issuing \cup Over
      BY <1>2, <2>1 DEF Proceed, Enter, StartCreate, Issuing, Over
    <3> QED
      BY <2>0, <2>1, <3>1, CountIssued
  <2>2. CASE stage'[q] \notin Issuing
    <3>1. W(p) \notin todo'[q]
      BY <1>2, <2>2 DEF Proceed, Enter, StartCreate, Issuing, W
    <3>2. stage[q] \in Issuing \cup Over => stage'[q] \in Issuing \cup Over
      BY <1>2 DEF Proceed, Enter, StartCreate, Issuing, Over
    <3>3. Begun(q) <= Begun(q)'
      BY <1>0, <2>0, <3>2 DEF Begun
    <3> QED
      BY <2>0, <3>1, <3>3, CountKept
  <2> QED
    BY <2>1, <2>2
<1>3. ASSUME NEW c \in todo[q], Answer(q, c) PROVE CountInv(q, p)'
  <2>0. c \in Calls /\ Effect(q, c) /\ UNCHANGED <<tries, late>>
    BY <1>3 DEF Answer
  <2>1. applied'[q][p] = applied[q][p] + IF c = W(p) THEN 1 ELSE 0
    BY <1>a, <2>0
  <2>2. W(p) \in todo'[q] => W(p) \in todo[q] /\ c # W(p)
    BY <1>3 DEF Answer, W
  <2>3. c[1] = "edges" => stage[q] = "edges" /\ stage'[q] \in {"found", "missing"}
    BY <1>3 DEF Answer, StageInv, Awaits
  <2>4. c[1] # "edges" => stage' = stage
    BY <1>3 DEF Answer
  <2>5. Begun(q) <= Begun(q)'
    BY <1>0, <2>0, <2>3, <2>4 DEF Begun, Issuing, Over
  <2>6. W(p) \in todo[q] => stage'[q] \in Issuing
    BY <1>b, <2>3, <2>4 DEF Issuing
  <2>7. CASE c = W(p)
    <3>1. applied'[q][p] \in applied[q][p]..(applied[q][p] + 1)
      BY <1>0, <2>1, <2>7
    <3> QED
      BY <2>0, <2>2, <2>5, <2>7, <3>1, CountPaid
  <2>8. CASE c # W(p)
    <3>1. applied'[q][p] = applied[q][p]
      BY <1>0, <2>1, <2>8
    <3> QED
      BY <2>0, <2>2, <2>5, <2>6, <3>1, CountKept
  <2> QED
    BY <2>7, <2>8
<1>4. ASSUME Arrive(q) PROVE CountInv(q, p)'
  <2>1. PICK l \in late : l[1] = q /\ Effect(q, l[3]) /\ late' = late \ {l}
    BY <1>4 DEF Arrive
  <2>2. l[2] \in 0..2 /\ l[3] \in Calls /\ l = <<q, l[2], l[3]>>
    BY <2>1
  <2>3. UNCHANGED <<todo, stage, tries>>
    BY <1>4 DEF Arrive, control
  <2>4. Begun(q) <= Begun(q)'
    BY <1>0, <2>3 DEF Begun
  <2>5. CASE l[3] = W(p)
    <3>1. applied'[q][p] \in applied[q][p]..(applied[q][p] + 1)
      BY <1>0, <1>a, <2>1, <2>2
    <3>2. late' # late
      BY <2>1
    <3> QED
      BY <2>1, <2>2, <2>3, <2>5, <3>1, <3>2, CountPaid
  <2>6. CASE l[3] # W(p)
    <3>1. applied'[q][p] = applied[q][p]
      BY <1>0, <1>a, <2>1, <2>2, <2>6
    <3> QED
      BY <1>b, <2>1, <2>3, <2>4, <3>1, CountKept
  <2> QED
    BY <2>5, <2>6
<1>5. ASSUME NEW c \in todo[q], Fail(q, c) PROVE CountInv(q, p)'
  <2>0. c \in Calls
    OBVIOUS
  <2> DEFINE Leaves == \/ GiveUp(q, c)
                       \/ /\ Enter(q, "acked", {}) /\ tries' = tries
                          /\ late' = late \cup Abandoned(q, c)
             Once == applied'[q][p] <= applied[q][p] + 1 /\ (c # W(p) => applied'[q][p] = applied[q][p])
  <2>1. ASSUME Leaves, Once
        PROVE  CountInv(q, p)'
    <3>1. W(p) \notin todo'[q] /\ late' = late \cup Abandoned(q, c)
      BY <2>1 DEF GiveUp, Enter, ExistsCalls, W
    <3>2. Begun(q) <= Begun(q)'
      <4>1. \/ stage'[q] \in Over /\ tries'[q] = tries[q]
            \/ tries'[q] = tries[q] + 1
        BY <2>1 DEF GiveUp, Enter, Over
      <4> QED
        BY <1>0, <4>1 DEF Begun
    <3> QED
      BY <1>0, <2>1, <3>1, <3>2, CountLeft
  <2>a. GiveUp(q, c) => Leaves
    BY DEF Leaves
  <2>b. IncreaseUnnoticed(q, c) => Leaves
    BY DEF IncreaseUnnoticed
  <2>2. ASSUME c[1] # "write", GiveUp(q, c), UNCHANGED <<tables, cache, counters, applied>> PROVE CountInv(q, p)'
    <3>1. Once
      BY <1>0, <2>2 DEF W
    <3> HIDE DEF Leaves, Once
    <3> QED
      BY <2>1, <2>2, <2>a, <3>1
  <2>3. PerhapsEffect(q, c) => Once
    <3>1. Effect(q, c) => Once
      BY <1>0, <1>a, <2>0
    <3>2. UNCHANGED <<tables, cache, counters, applied>> => Once
      BY <1>0
    <3> QED
      BY <3>1, <3>2 DEF PerhapsEffect
  <2> HIDE DEF Leaves, Once
  <2>4. ASSUME GiveUp(q, c), PerhapsEffect(q, c) PROVE CountInv(q, p)'
    BY <2>1, <2>3, <2>4, <2>a
  <2>5. ASSUME IncreaseUnnoticed(q, c) PROVE CountInv(q, p)'
    BY <2>1, <2>3, <2>5, <2>b DEF IncreaseUnnoticed
  <2>6. ASSUME c[1] = "insert", InsertUnnoticed(q, c) PROVE CountInv(q, p)'
    <3>1. todo'[q] \subseteq todo[q] /\ UNCHANGED <<stage, tries, late, applied>>
      BY <2>6 DEF InsertUnnoticed, control
    <3>2. Begun(q) <= Begun(q)'
      BY <1>0, <3>1 DEF Begun
    <3> QED
      BY <1>b, <3>1, <3>2, CountKept
  <2>7. ASSUME c[1] = "edges", EdgesUnknown(q) PROVE CountInv(q, p)'
    <3>1. stage[q] = "edges" /\ stage'[q] = "missing" /\ W(p) \notin todo'[q] /\ UNCHANGED <<tries, late, applied>>
      BY <2>7 DEF EdgesUnknown, Enter, StageInv, Awaits
    <3>2. Begun(q) <= Begun(q)'
      BY <1>0, <3>1 DEF Begun, Issuing, Over
    <3> QED
      BY <3>1, <3>2, CountKept
  <2> QED
    BY <1>5, <2>2, <2>4, <2>5, <2>6, <2>7 DEF Fail
<1> QED
  BY <1>1, <1>2, <1>3, <1>4, <1>5 DEF RequestStep

\* What happens beside the requests does not matter.
LEMMA OutsideCount ==
  ASSUME Typed, Typed', NEW q \in Requests, NEW p \in Places, CountInv(q, p),
         UNCHANGED <<control, todo, late, applied>>
  PROVE  CountInv(q, p)'
<1>1. Begun(q) <= Begun(q)'
  BY DEF control, Begun, Typed, ControlType
<1> QED
  BY <1>1, CountKept DEF control, CountInv

Counted == \A q \in Requests, p \in Places : CountInv(q, p)

\* No step makes a write once too often.
LEMMA StepCounted == Typed /\ StageInv /\ Counted /\ [Next]_vars => Counted'
<1> SUFFICES ASSUME Typed, StageInv, Counted, [Next]_vars, NEW q \in Requests, NEW p \in Places
             PROVE  CountInv(q, p)'
  BY DEF Counted
<1>0. Typed' /\ CountInv(q, p)
  BY StepTyped DEF Counted
<1>1. ASSUME UNCHANGED <<control, todo, late, applied>> PROVE CountInv(q, p)'
  BY <1>0, <1>1, OutsideCount
<1>2. CASE UNCHANGED vars
  BY <1>1, <1>2 DEF vars
<1>3. ASSUME NEW r \in Requests, Begin(r) \/ RequestStep(r) \/ Arrive(r) \/ \E c \in todo[r] : Fail(r, c)
      PROVE  CountInv(q, p)'
  BY <1>0, <1>3, OwnCount, OthersCount
<1>4. ASSUME \/ \E x \in Nodes : RemoveNode(x) \/ EvictNode(x)
             \/ \E x, y \in Nodes : EvictEdge(x, y)
      PROVE  CountInv(q, p)'
  BY <1>1, <1>4 DEF RemoveNode, EvictNode, EvictEdge
<1> QED
  BY <1>2, <1>3, <1>4 DEF Next

\* Retries and the calls of given-up attempts that arrive late carry out each
\* write of a request three times at most, for any requests and failures.
THEOREM WrittenThrice == Spec => []AtMostThrice
<1>1. Init => StageInv /\ Counted
  <2> SUFFICES ASSUME Init PROVE StageInv /\ Counted
    OBVIOUS
  <2>1. StageInv
    BY DEF Init, StageInv
  <2>2. ASSUME NEW q \in Requests, NEW p \in Places PROVE CountInv(q, p)
    BY DEF Init, CountInv, Awaited, Late, Begun, Issuing, Over
  <2> QED
    BY <2>1, <2>2 DEF Counted
<1>2. Typed /\ Counted => AtMostThrice
  <2> SUFFICES ASSUME Typed, Counted, NEW q \in Requests, NEW p \in Places
               PROVE  applied[q][p] <= 3
    BY DEF AtMostThrice
  <2>0. applied[q][p] \in Nat /\ tries[q] \in 0..2 /\ CountInv(q, p)
    BY DEF Typed, TablesType, ControlType, Counted
  <2>1. Begun(q) \in 0..3
    BY <2>0 DEF Begun
  <2>2. /\ Late(q, p, 0) \in 0..1 /\ Late(q, p, 1) \in 0..1 /\ Late(q, p, 2) \in 0..1
        /\ Awaited(q, p) \in 0..1
    BY DEF Late, Awaited
  <2> QED
    BY <2>0, <2>1, <2>2 DEF CountInv
<1> QED
  BY <1>1, <1>2, AlwaysTyped, StepStage, StepCounted, PTL DEF Spec

-----------------------------------------------------------------------------
(* What an acknowledgement means.                                          *)

\* Bodies never change, and what was carried out stays so.
LEMMA Monotone ==
  ASSUME Typed, [Next]_vars
  PROVE  /\ body' = body
         /\ \A q \in Requests, p \in Places : applied'[q][p] \in Nat /\ applied[q][p] <= applied'[q][p]
<1> USE DEF Typed
<1>0. \A q \in Requests, p \in Places : applied[q][p] \in Nat
  BY DEF TablesType
<1> DEFINE Grows == \A q \in Requests, p \in Places : applied'[q][p] \in Nat /\ applied[q][p] <= applied'[q][p]
<1>1. applied' = applied => Grows
  BY <1>0
<1>2. ASSUME NEW r \in Requests, NEW c \in Calls, Effect(r, c) PROVE Grows
  <2> SUFFICES ASSUME NEW q \in Requests, NEW p \in Places
               PROVE  applied'[q][p] \in Nat /\ applied[q][p] <= applied'[q][p]
    OBVIOUS
  <2>1. applied'[q][p] = applied[q][p] + IF r = q /\ c = W(p) THEN 1 ELSE 0
    BY <1>2, EffectCounts
  <2> QED
    BY <1>0, <2>1
<1> HIDE DEF Grows
<1>3. ASSUME NEW r \in Requests, NEW c \in Calls, PerhapsEffect(r, c) PROVE Grows
  BY <1>1, <1>2, <1>3 DEF PerhapsEffect
<1>4. \A r \in Requests : todo[r] \subseteq Calls
  BY DEF ControlType
<1>5. CASE UNCHANGED vars
  BY <1>1, <1>5 DEF vars, control, Grows
<1>6. ASSUME NEW r \in Requests, Begin(r) \/ Proceed(r) PROVE body' = body /\ Grows
  BY <1>1, <1>6 DEF Begin, Proceed
<1>7. ASSUME NEW r \in Requests, NEW c \in todo[r], Answer(r, c) PROVE body' = body /\ Grows
  BY <1>2, <1>4, <1>7 DEF Answer
<1>8. ASSUME NEW r \in Requests, NEW c \in todo[r], Fail(r, c) PROVE body' = body /\ Grows
  BY <1>1, <1>3, <1>4, <1>8 DEF Fail, GiveUp, InsertUnnoticed, EdgesUnknown, IncreaseUnnoticed, control
<1>9. ASSUME NEW r \in Requests, Arrive(r) PROVE body' = body /\ Grows
  <2>1. PICK l \in late : Effect(r, l[3]) /\ UNCHANGED control
    BY <1>9 DEF Arrive
  <2>2. l[3] \in Calls
    BY DEF ControlType
  <2> QED
    BY <1>2, <2>1, <2>2 DEF control
<1>10. ASSUME \/ \E x \in Nodes : RemoveNode(x) \/ EvictNode(x)
              \/ \E x, y \in Nodes : EvictEdge(x, y)
       PROVE  body' = body /\ Grows
  BY <1>1, <1>10 DEF RemoveNode, EvictNode, EvictEdge, control
<1>11. body' = body /\ Grows
  BY <1>5, <1>6, <1>7, <1>8, <1>9, <1>10 DEF Next, RequestStep, vars, control, Grows
<1> QED
  BY <1>11 DEF Grows

\* A relation is created, never increased, and its writes are carried out or
\* awaited from then on.
RelationInv(q) ==
  body[q].mode = "relation" =>
    /\ stage[q] \notin {"edges", "missing", "found", "increase"}
    /\ stage[q] \in {"create", "acked"} =>
         \A p \in Writes(body[q]) :
           applied[q][p] >= 1 \/ (stage[q] = "create" /\ W(p) \in todo[q])

\* No step acknowledges a relation that is not written.
LEMMA StepRelation ==
  Typed /\ StageInv /\ (\A q \in Requests : RelationInv(q)) /\ [Next]_vars
    => (\A q \in Requests : RelationInv(q))'
<1> SUFFICES ASSUME Typed, StageInv, \A q \in Requests : RelationInv(q), [Next]_vars, NEW q \in Requests
             PROVE  RelationInv(q)'
  OBVIOUS
<1> SUFFICES ASSUME body[q].mode = "relation" PROVE RelationInv(q)'
  BY Monotone DEF RelationInv
<1>0. /\ RelationInv(q) /\ body' = body /\ Writes(body[q]) \subseteq Places
      /\ \A p \in Places : applied[q][p] \in Nat /\ applied'[q][p] \in Nat /\ applied[q][p] <= applied'[q][p]
  BY Monotone, Ends DEF Typed, TablesType
<1>1. ASSUME stage'[q] = stage[q], todo[q] \subseteq todo'[q] PROVE RelationInv(q)'
  BY <1>0, <1>1 DEF RelationInv
<1>2. ASSUME stage'[q] \in {"exists", "rejected", "nodes"} PROVE RelationInv(q)'
  BY <1>2 DEF RelationInv
<1>3. \A c \in todo[q] : c[1] # "edges" /\ stage[q] # "increase"
  BY <1>0 DEF StageInv, RelationInv, Awaits
<1>4. ASSUME Begin(q) PROVE RelationInv(q)'
  BY <1>2, <1>4 DEF Begin, Enter, Typed, ControlType
<1>5. ASSUME Proceed(q) PROVE RelationInv(q)'
  <2>1. \/ stage'[q] = "nodes"
        \/ stage'[q] = "create" /\ todo'[q] = {W(p) : p \in Writes(body[q])}
        \/ stage[q] = "create" /\ stage'[q] = "acked" /\ todo[q] = {}
    BY <1>0, <1>5 DEF Proceed, StartCreate, Enter, RelationInv, Typed, ControlType, W
  <2>2. CASE stage'[q] = "nodes"
    BY <1>2, <2>2
  <2>3. CASE stage'[q] = "create" /\ todo'[q] = {W(p) : p \in Writes(body[q])}
    BY <1>0, <2>3 DEF RelationInv
  <2>4. CASE stage[q] = "create" /\ stage'[q] = "acked" /\ todo[q] = {}
    BY <1>0, <2>4 DEF RelationInv
  <2> QED
    BY <2>1, <2>2, <2>3, <2>4
<1>6. ASSUME NEW c \in todo[q], Answer(q, c) PROVE RelationInv(q)'
  <2>1. stage' = stage /\ todo[q] \ {c} \subseteq todo'[q] /\ Effect(q, c) /\ c \in Calls
    BY <1>3, <1>6 DEF Answer, Typed, ControlType
  <2>2. \A p \in Places : c = W(p) => applied'[q][p] >= 1
    <3> SUFFICES ASSUME NEW p \in Places, c = W(p) PROVE applied'[q][p] >= 1
      OBVIOUS
    <3>1. applied'[q][p] = applied[q][p] + 1
      BY <2>1, EffectCounts DEF Typed
    <3> QED
      BY <1>0, <3>1
  <2> QED
    BY <1>0, <2>1, <2>2 DEF RelationInv
<1>7. ASSUME Arrive(q) PROVE RelationInv(q)'
  BY <1>1, <1>7 DEF Arrive, control
<1>8. ASSUME NEW c \in todo[q], Fail(q, c) PROVE RelationInv(q)'
  <2>1. GiveUp(q, c) => stage'[q] \in {"exists", "rejected"}
    BY DEF GiveUp, Enter, Typed, ControlType
  <2>2. InsertUnnoticed(q, c) => stage' = stage
    BY DEF InsertUnnoticed, control
  <2>3. c[1] = "insert" => stage[q] = "nodes"
    BY DEF StageInv, Awaits
  <2> QED
    BY <1>2, <1>3, <1>8, <2>1, <2>2, <2>3 DEF Fail
<1>9. ASSUME NEW r \in Requests, r # q,
             Begin(r) \/ RequestStep(r) \/ Arrive(r) \/ \E c \in todo[r] : Fail(r, c)
      PROVE  RelationInv(q)'
  BY <1>1, <1>9, OthersKeep
<1>10. ASSUME \/ \E x \in Nodes : RemoveNode(x) \/ EvictNode(x)
              \/ \E x, y \in Nodes : EvictEdge(x, y)
       PROVE  RelationInv(q)'
  BY <1>1, <1>10 DEF RemoveNode, EvictNode, EvictEdge, control
<1>11. CASE UNCHANGED vars
  BY <1>1, <1>11 DEF vars, control
<1> QED
  BY <1>4, <1>5, <1>6, <1>7, <1>8, <1>9, <1>10, <1>11 DEF Next, RequestStep

\* An acknowledged upsert in relation mode has written all its edge cells,
\* whatever failed, was retried or arrived late.
THEOREM AcknowledgedIsWritten == Spec => []RelationWritten
<1>1. Init => StageInv /\ \A q \in Requests : RelationInv(q)
  BY DEF Init, StageInv, RelationInv
<1>2. (\A q \in Requests : RelationInv(q)) => RelationWritten
  BY DEF RelationInv, RelationWritten
<1> QED
  BY <1>1, <1>2, AlwaysTyped, StepStage, StepRelation, PTL DEF Spec

-----------------------------------------------------------------------------
(* Without failures and removals: nodes before edges.                      *)

Calm == fails = 0 /\ ~Removals

\* What request q knows of its nodes.
NodesInv(q) ==
  /\ stage[q] = "exists" => \A s \in Sides :
       <<"exists", s>> \in todo[q] \/ s \in absent[q] \/ NodeOf(body[q], s) \in data
  /\ stage[q] = "nodes" => \A s \in Sides : <<"insert", s>> \in todo[q] \/ NodeOf(body[q], s) \in data
  /\ stage[q] \in {"edges", "missing", "found", "create", "increase"} =>
       \A s \in Sides : NodeOf(body[q], s) \in data

Headed ==
  \A x, y \in Nodes :
    (depth[<<x, y>>] > 0 \/ \E r \in Relations : <<x, y, r>> \in related) => {x, y} \subseteq data

CalmInv == Calm => /\ late = {} /\ knownNodes \subseteq data /\ Headed
                   /\ \A q \in Requests : NodesInv(q)

\* As long as nothing fails, requests begin, go on and get answers.
LEMMA CalmSteps ==
  ASSUME Typed, CalmInv, [Next]_vars, Calm'
  PROVE  /\ Calm /\ late' = {}
         /\ \/ UNCHANGED vars
            \/ \E r \in Requests : Begin(r) \/ Proceed(r) \/ \E c \in todo[r] : Answer(r, c)
            \/ \E x \in Nodes : EvictNode(x)
            \/ \E x, y \in Nodes : EvictEdge(x, y)
<1> USE DEF Calm
<1>0. fails \in Nat /\ fails' \in Nat
  BY StepTyped DEF Typed, ControlType
<1>1. \A r \in Requests : \A c \in todo[r] : ~Fail(r, c)
  BY <1>0 DEF Fail
<1>2. \A x \in Nodes : ~RemoveNode(x)
  BY DEF RemoveNode
<1>3. ASSUME fails = 0 PROVE \A r \in Requests : ~Arrive(r)
  BY <1>3 DEF CalmInv, Arrive
<1>4. CASE UNCHANGED vars
  BY <1>4 DEF vars, CalmInv
<1>5. CASE Next
  <2>1. fails = 0
    BY <1>1, <1>2, <1>5 DEF Next, RequestStep, Begin, Proceed, Answer, Arrive, EvictNode, EvictEdge
  <2>2. \/ \E r \in Requests : Begin(r) \/ Proceed(r) \/ \E c \in todo[r] : Answer(r, c)
        \/ \E x \in Nodes : EvictNode(x)
        \/ \E x, y \in Nodes : EvictEdge(x, y)
    BY <1>1, <1>2, <1>3, <1>5, <2>1 DEF Next, RequestStep
  <2>3. late' = late
    BY <2>2 DEF Begin, Proceed, Answer, EvictNode, EvictEdge
  <2> QED
    BY <2>1, <2>2, <2>3 DEF CalmInv
<1> QED
  BY <1>4, <1>5

\* Rows that exist have been created.
LEMMA ExistsMeans ==
  ASSUME Headed, NEW x \in Nodes, RowExists(x)
  PROVE  x \in data
BY DEF Headed, RowExists

\* A call that is carried out puts no edge before its nodes.
LEMMA HeadedStep ==
  ASSUME Typed, StageInv, CalmInv, Calm, NEW r \in Requests, NEW c \in todo[r], Answer(r, c)
  PROVE  data \subseteq data' /\ knownNodes' \subseteq data' /\ Headed'
<1>0. c \in Calls /\ Effect(r, c) /\ knownNodes \subseteq data /\ Headed /\ NodesInv(r)
  BY DEF Answer, Typed, ControlType, CalmInv
<1>1. c[1] \in {"exists", "insert", "fetch", "edges", "write"}
  BY <1>0, CallIs
<1>2. CASE c[1] = "exists"
  <2>1. NodeOf(body[r], c[2]) \in Nodes
    BY <1>0, <1>2, CallIs, Ends DEF Typed
  <2> QED
    BY <1>0, <1>2, <2>1, ExistsMeans DEF Effect, FillExists, Headed, tables
<1>3. CASE c[1] = "insert"
  BY <1>0, <1>3 DEF Effect, InsertNode, Headed, cache
<1>4. CASE c[1] \in {"fetch", "edges"}
  BY <1>0, <1>4 DEF Effect, FillEdge, Headed, tables, cache
<1>5. CASE c[1] = "write"
  <2> DEFINE p == c[2]
  <2>1. p \in Places /\ WriteEdge(r, p)
    BY <1>0, <1>5, CallIs DEF Effect
  <2>2. stage[r] \in {"create", "increase"}
    BY <1>5 DEF StageInv, Awaits
  <2>3. NodeOf(body[r], "left") \in data /\ NodeOf(body[r], "right") \in data
    BY <1>0, <2>2 DEF NodesInv, Sides
  <2>4. Near(r, p) \in data /\ Far(r, p) \in data
    BY <2>3 DEF Near, Far, NodeOf
  <2>5. data' = data /\ knownNodes' = knownNodes
    BY <2>1 DEF WriteEdge, cache
  <2>6. ASSUME NEW x \in Nodes, NEW y \in Nodes, depth'[<<x, y>>] > 0 PROVE {x, y} \subseteq data
    <3>1. depth'[<<x, y>>] = depth[<<x, y>>] \/ <<x, y>> = Cell(r, p)
      BY <2>1, WriteMeans DEF Typed, TablesType
    <3>2. CASE <<x, y>> = Cell(r, p)
      BY <2>4, <3>2 DEF Cell
    <3>3. CASE depth'[<<x, y>>] = depth[<<x, y>>]
      BY <1>0, <2>6, <3>3 DEF Headed
    <3> QED
      BY <3>1, <3>2, <3>3
  <2>7. ASSUME NEW x \in Nodes, NEW y \in Nodes, NEW rel \in Relations, <<x, y, rel>> \in related'
        PROVE  {x, y} \subseteq data
    <3>1. <<x, y, rel>> \in related \/ (x = Near(r, p) /\ y = Far(r, p))
      BY <2>1, <2>7, WriteMeans DEF Typed
    <3> QED
      BY <1>0, <2>4, <3>1 DEF Headed
  <2> QED
    BY <1>0, <2>5, <2>6, <2>7 DEF Headed
<1> QED
  BY <1>1, <1>2, <1>3, <1>4, <1>5

\* Nodes that are there stay there.
LEMMA NodesKept ==
  ASSUME NEW q \in Requests, NodesInv(q), data \subseteq data', body' = body,
         todo'[q] = todo[q], stage'[q] = stage[q], absent'[q] = absent[q]
  PROVE  NodesInv(q)'
BY DEF NodesInv

\* What request r learns of its nodes, as it goes on.
LEMMA NodesStep ==
  ASSUME Typed, StageInv, CalmInv, Calm, NEW r \in Requests,
         Begin(r) \/ Proceed(r) \/ \E c \in todo[r] : Answer(r, c)
  PROVE  NodesInv(r)' /\ data \subseteq data'
<1> USE DEF Typed, ControlType
<1>0. NodesInv(r) /\ Headed /\ knownNodes \subseteq data
  BY DEF CalmInv
<1>1. CASE Begin(r)
  BY <1>1 DEF Begin, Enter, ExistsCalls, NodesInv, tables
<1>2. CASE Proceed(r)
  <2>1. data' = data /\ body' = body /\ todo[r] = {}
    BY <1>2 DEF Proceed, tables
  <2>2. CASE stage[r] = "exists"
    <3>1. stage'[r] = "nodes" /\ todo'[r] = {<<"insert", s>> : s \in absent[r]}
      BY <1>2, <2>2 DEF Proceed, Enter
    <3> QED
      BY <1>0, <2>1, <2>2, <3>1 DEF NodesInv
  <2>3. CASE stage[r] # "exists"
    <3>1. /\ stage[r] \in {"nodes", "missing", "found", "create", "increase"}
          /\ stage'[r] \in {"edges", "create", "increase", "acked"}
      BY <1>2, <2>3 DEF Proceed, Enter, StartCreate
    <3> QED
      BY <1>0, <2>1, <3>1 DEF NodesInv
  <2> QED
    BY <2>1, <2>2, <2>3
<1>3. ASSUME NEW c \in todo[r], Answer(r, c) PROVE NodesInv(r)' /\ data \subseteq data'
  <2>0. data \subseteq data' /\ body' = body /\ c \in Calls
    BY <1>3, HeadedStep DEF Answer
  <2>1. CASE c[1] = "exists"
    <3>1. stage[r] = "exists" /\ stage' = stage /\ todo'[r] = todo[r] \ {c} /\ c = <<"exists", c[2]>>
      BY <1>3, <2>0, <2>1, CallIs DEF Answer, StageInv, Awaits
    <3>2. absent[r] \subseteq absent'[r] /\ (c[2] \in absent'[r] \/ NodeOf(body[r], c[2]) \in data)
      <4>1. c[2] \in Sides /\ NodeOf(body[r], c[2]) \in Nodes
        BY <2>0, <2>1, CallIs, Ends
      <4> QED
        BY <1>0, <1>3, <2>1, <4>1, ExistsMeans DEF Answer
    <3> QED
      BY <1>0, <2>0, <3>1, <3>2 DEF NodesInv
  <2>2. CASE c[1] = "insert"
    <3>1. stage[r] = "nodes" /\ stage' = stage /\ todo[r] \ {c} \subseteq todo'[r] /\ c = <<"insert", c[2]>>
      BY <1>3, <2>0, <2>2, CallIs DEF Answer, StageInv, Awaits
    <3>2. NodeOf(body[r], c[2]) \in data'
      BY <1>3, <2>2 DEF Answer, Effect, InsertNode
    <3> QED
      BY <1>0, <2>0, <3>1, <3>2 DEF NodesInv
  <2>3. CASE c[1] = "fetch"
    <3>1. stage[r] = "nodes" /\ stage' = stage /\ todo[r] \ {c} \subseteq todo'[r]
      BY <1>3, <2>3 DEF Answer, StageInv, Awaits
    <3> QED
      BY <1>0, <2>0, <2>3, <3>1 DEF NodesInv
  <2>4. CASE c[1] = "edges"
    <3>1. stage[r] = "edges" /\ stage'[r] \in {"found", "missing"}
      BY <1>3, <2>4 DEF Answer, StageInv, Awaits
    <3> QED
      BY <1>0, <2>0, <3>1 DEF NodesInv
  <2>5. CASE c[1] = "write"
    <3>1. stage[r] \in {"create", "increase"} /\ stage' = stage
      BY <1>3, <2>5 DEF Answer, StageInv, Awaits
    <3> QED
      BY <1>0, <2>0, <3>1 DEF NodesInv
  <2> QED
    BY <2>0, <2>1, <2>2, <2>3, <2>4, <2>5, CallIs
<1> QED
  BY <1>1, <1>2, <1>3

\* As long as nothing fails, no step takes a node for created that is not.
LEMMA StepCalm == Typed /\ StageInv /\ CalmInv /\ [Next]_vars => CalmInv'
<1> SUFFICES ASSUME Typed, StageInv, CalmInv, [Next]_vars, Calm'
             PROVE  late' = {} /\ knownNodes' \subseteq data' /\ Headed' /\ \A q \in Requests : NodesInv(q)'
  BY DEF CalmInv
<1>0. Calm /\ late' = {} /\ body' = body
  BY CalmSteps, Monotone
<1>a. knownNodes \subseteq data /\ Headed /\ \A q \in Requests : NodesInv(q)
  BY <1>0 DEF CalmInv
<1> DEFINE Good == knownNodes' \subseteq data' /\ Headed' /\ \A q \in Requests : NodesInv(q)'
<1>1. ASSUME tables' = tables, knownNodes' \subseteq knownNodes, UNCHANGED <<control, todo>> PROVE Good
  BY <1>0, <1>a, <1>1, NodesKept DEF Headed, tables, control
<1>2. ASSUME NEW r \in Requests, Begin(r) \/ Proceed(r) \/ \E c \in todo[r] : Answer(r, c) PROVE Good
  <2>1. NodesInv(r)' /\ data \subseteq data'
    BY <1>0, <1>2, NodesStep
  <2>2. ASSUME NEW q \in Requests, q # r PROVE NodesInv(q)'
    BY <1>0, <1>2, <1>a, <2>1, <2>2, OthersKeep, NodesKept DEF RequestStep
  <2>3. knownNodes' \subseteq data' /\ Headed'
    <3>1. CASE Begin(r) \/ Proceed(r)
      BY <1>a, <3>1 DEF Begin, Proceed, tables, cache, Headed
    <3>2. CASE \E c \in todo[r] : Answer(r, c)
      BY <1>0, <3>2, HeadedStep
    <3> QED
      BY <1>2, <3>1, <3>2
  <2> QED
    BY <2>1, <2>2, <2>3
<1>3. ASSUME NEW x \in Nodes, EvictNode(x) PROVE Good
  BY <1>1, <1>3 DEF EvictNode
<1>4. ASSUME NEW x \in Nodes, NEW y \in Nodes, EvictEdge(x, y) PROVE Good
  BY <1>1, <1>4 DEF EvictEdge
<1>5. ASSUME UNCHANGED vars PROVE Good
  BY <1>1, <1>5 DEF vars, cache
<1> HIDE DEF Good
<1>6. Good
  BY <1>2, <1>3, <1>4, <1>5, CalmSteps
<1> QED
  BY <1>0, <1>6 DEF Good

\* Nothing is there at first.
LEMMA InitCalm == Init => StageInv /\ CalmInv
BY DEF Init, StageInv, CalmInv, Headed, NodesInv, Zero

\* Without failures, an edge cell is on a row, and names a node, that has been
\* created, however any number of requests race.
THEOREM NodesBeforeEdges == Spec => []NoHeadless
<1>1. CalmInv => NoHeadless
  BY DEF CalmInv, Calm, Headed, NoHeadless
<1> QED
  BY <1>1, InitCalm, AlwaysTyped, StepStage, StepCalm, PTL DEF Spec

-----------------------------------------------------------------------------
(* Without failures and removals: depths are exact.                        *)

\* The depth upserts that have counted on cell ed#y of row x, by the place.
Counters(p, x, y) == {q \in Requests :
  applied[q][p] = 1 /\ body[q].mode = "depth" /\ Cell(q, p) = <<x, y>>}

\* A request that nothing disturbs carries out each of its writes once.
OnceInv(q) ==
  /\ stage[q] # "rejected"
  /\ \A p \in Places :
       /\ W(p) \in todo[q] => p \in Writes(body[q])
       /\ applied[q][p] = IF p \in Writes(body[q]) /\ W(p) \notin todo[q] /\ stage[q] \in Issuing \cup Over
                          THEN 1 ELSE 0

Summed ==
  \A x, y \in Nodes :
    depth[<<x, y>>] = Cardinality(Counters("left", x, y)) + Cardinality(Counters("right", x, y))

TotalInv == Calm => Summed /\ \A q \in Requests : OnceInv(q)

\* A write counts at its cell and at no other.
LEMMA SummedStep ==
  ASSUME Typed, Summed, NEW r \in Requests, NEW p \in Places, applied[r][p] = 0, WriteEdge(r, p), body' = body
  PROVE  Summed'
<1> SUFFICES ASSUME NEW x \in Nodes, NEW y \in Nodes
             PROVE  depth'[<<x, y>>] = Cardinality(Counters("left", x, y)') + Cardinality(Counters("right", x, y)')
  BY DEF Summed
<1> DEFINE hits == body[r].mode = "depth" /\ Cell(r, p) = <<x, y>>
<1>1. applied' = [applied EXCEPT ![r][p] = 1] /\ applied \in [Requests -> [Places -> Nat]]
  BY WriteMeans DEF Typed, TablesType
<1>2. \A q \in Requests, s \in Places : Cell(q, s)' = Cell(q, s)
  BY DEF Cell, Near, Far
<1>3. \A s \in Places : Counters(s, x, y)' = IF s = p /\ hits THEN Counters(s, x, y) \cup {r} ELSE Counters(s, x, y)
  <2> SUFFICES ASSUME NEW s \in Places, NEW q \in Requests
               PROVE  q \in Counters(s, x, y)' <=> q \in Counters(s, x, y) \/ (q = r /\ s = p /\ hits)
    BY DEF Counters
  <2>1. CASE q = r /\ s = p
    BY <1>1, <1>2, <2>1 DEF Counters
  <2>2. CASE ~(q = r /\ s = p)
    <3>1. applied'[q][s] = applied[q][s]
      BY <1>1, <2>2
    <3> QED
      BY <1>2, <2>2, <3>1 DEF Counters
  <2> QED
    BY <2>1, <2>2
<1>4. r \notin Counters(p, x, y)
  BY DEF Counters
<1>5. \A s \in Places : IsFiniteSet(Counters(s, x, y)) /\ Cardinality(Counters(s, x, y)) \in Nat
  <2> SUFFICES ASSUME NEW s \in Places
               PROVE  IsFiniteSet(Counters(s, x, y)) /\ Cardinality(Counters(s, x, y)) \in Nat
    OBVIOUS
  <2>1. Counters(s, x, y) \in SUBSET Requests /\ IsFiniteSet(Requests)
    BY UpsertAssumption DEF Counters
  <2> HIDE DEF Counters
  <2>2. IsFiniteSet(Counters(s, x, y))
    BY <2>1, FS_Subset
  <2> QED
    BY <2>2, FS_CardinalityType
<1>6. Cardinality(Counters(p, x, y) \cup {r}) = Cardinality(Counters(p, x, y)) + 1
  <2>1. IsFiniteSet(Counters(p, x, y))
    BY <1>5
  <2> QED
    BY <1>4, <2>1, FS_AddElement
<1>7. depth[<<x, y>>] = Cardinality(Counters("left", x, y)) + Cardinality(Counters("right", x, y))
  BY DEF Summed
<1>8. depth'[<<x, y>>] = IF hits /\ p # "pop" THEN depth[<<x, y>>] + 1 ELSE depth[<<x, y>>]
  <2>1. depth \in [Nodes \X Nodes -> Nat] /\ <<x, y>> \in Nodes \X Nodes /\ Cell(r, p) \in Nodes \X Nodes
    BY WriteMeans DEF Typed, TablesType
  <2>2. CASE body[r].mode = "depth" /\ p # "pop"
    <3>1. depth' = [depth EXCEPT ![Cell(r, p)] = @ + 1]
      BY <2>2, WriteMeans DEF Typed
    <3> QED
      BY <2>1, <2>2, <3>1
  <2>3. CASE ~(body[r].mode = "depth" /\ p # "pop")
    <3>1. depth' = depth
      BY <2>3, WriteMeans DEF Typed
    <3> QED
      BY <2>3, <3>1
  <2> QED
    BY <2>2, <2>3
<1> HIDE DEF hits
<1>9. "left" \in Places /\ "right" \in Places /\ p \in {"left", "right", "pop"}
  BY DEF Places
<1>10. CASE hits /\ p = "left"
  <2>1. /\ Counters("left", x, y)' = Counters("left", x, y) \cup {r}
        /\ Counters("right", x, y)' = Counters("right", x, y)
    BY <1>3, <1>9, <1>10
  <2>2. Cardinality(Counters("left", x, y)') = Cardinality(Counters("left", x, y)) + 1
    BY <1>6, <1>10, <2>1
  <2>3. depth'[<<x, y>>] = depth[<<x, y>>] + 1
    BY <1>8, <1>10
  <2>4. Cardinality(Counters("left", x, y)) \in Nat /\ Cardinality(Counters("right", x, y)) \in Nat
    BY <1>5, <1>9
  <2> QED
    BY <1>7, <2>1, <2>2, <2>3, <2>4
<1>11. CASE hits /\ p = "right"
  <2>1. /\ Counters("right", x, y)' = Counters("right", x, y) \cup {r}
        /\ Counters("left", x, y)' = Counters("left", x, y)
    BY <1>3, <1>9, <1>11
  <2>2. Cardinality(Counters("right", x, y)') = Cardinality(Counters("right", x, y)) + 1
    BY <1>6, <1>11, <2>1
  <2>3. depth'[<<x, y>>] = depth[<<x, y>>] + 1
    BY <1>8, <1>11
  <2>4. Cardinality(Counters("left", x, y)) \in Nat /\ Cardinality(Counters("right", x, y)) \in Nat
    BY <1>5, <1>9
  <2> QED
    BY <1>7, <2>1, <2>2, <2>3, <2>4
<1>12. CASE ~hits \/ p = "pop"
  BY <1>3, <1>7, <1>8, <1>9, <1>12
<1> QED
  BY <1>9, <1>10, <1>11, <1>12

\* Depths, bodies and what was carried out are all that the sums are about.
LEMMA SummedKept ==
  ASSUME Summed, UNCHANGED <<depth, body, applied>>
  PROVE  Summed'
<1>1. \A p, x, y : Counters(p, x, y)' = Counters(p, x, y)
  BY DEF Counters, Cell, Near, Far
<1> QED
  BY <1>1 DEF Summed

\* Request r goes on, and has done each write once or has still to do it.
LEMMA OnceStep ==
  ASSUME Typed, StageInv, NEW r \in Requests, OnceInv(r),
         Begin(r) \/ Proceed(r) \/ \E c \in todo[r] : Answer(r, c)
  PROVE  OnceInv(r)'
<1> USE DEF Typed, ControlType
<1>0. body' = body
  BY DEF Begin, Proceed, Answer
<1>1. stage'[r] # "rejected"
  BY DEF Begin, Proceed, StartCreate, Answer, Enter, OnceInv
<1>2. SUFFICES ASSUME NEW p \in Places
               PROVE  /\ W(p) \in todo'[r] => p \in Writes(body[r])
                      /\ applied'[r][p] = IF /\ p \in Writes(body[r]) /\ W(p) \notin todo'[r]
                                             /\ stage'[r] \in Issuing \cup Over
                                          THEN 1 ELSE 0
  BY <1>0, <1>1 DEF OnceInv
<1>3. /\ W(p) \in todo[r] => p \in Writes(body[r])
      /\ applied[r][p] = IF p \in Writes(body[r]) /\ W(p) \notin todo[r] /\ stage[r] \in Issuing \cup Over
                         THEN 1 ELSE 0
  BY DEF OnceInv
<1>4. CASE Begin(r)
  <2>1. /\ stage[r] = "new" /\ stage'[r] = "exists" /\ applied' = applied
        /\ W(p) \notin todo'[r]
    BY <1>4 DEF Begin, Enter, ExistsCalls, W
  <2> QED
    BY <1>3, <2>1 DEF Issuing, Over
<1>5. CASE Proceed(r)
  <2>0. applied' = applied /\ todo[r] = {}
    BY <1>5 DEF Proceed
  <2>1. \/ stage'[r] \in {"nodes", "edges"} /\ stage[r] \in {"exists", "nodes"} /\ W(p) \notin todo'[r]
        \/ /\ stage[r] \in {"nodes", "missing", "found"} /\ stage'[r] \in Issuing
           /\ todo'[r] = {<<"write", s>> : s \in Writes(body[r])}
        \/ stage[r] \in Issuing /\ stage'[r] = "acked" /\ todo'[r] = {}
    BY <1>5 DEF Proceed, StartCreate, Enter, Issuing, W
  <2>2. CASE stage'[r] \in {"nodes", "edges"} /\ stage[r] \in {"exists", "nodes"} /\ W(p) \notin todo'[r]
    BY <1>3, <2>0, <2>2 DEF Issuing, Over
  <2>3. CASE /\ stage[r] \in {"nodes", "missing", "found"} /\ stage'[r] \in Issuing
             /\ todo'[r] = {<<"write", s>> : s \in Writes(body[r])}
    <3>1. W(p) \in todo'[r] <=> p \in Writes(body[r])
      BY <2>3 DEF W
    <3>2. stage[r] \notin Issuing \cup Over
      BY <2>3 DEF Issuing, Over
    <3> QED
      BY <1>3, <2>0, <3>1, <3>2
  <2>4. CASE stage[r] \in Issuing /\ stage'[r] = "acked" /\ todo'[r] = {}
    BY <1>3, <2>0, <2>4 DEF Over
  <2> QED
    BY <2>1, <2>2, <2>3, <2>4
<1>6. ASSUME NEW c \in todo[r], Answer(r, c)
      PROVE  /\ W(p) \in todo'[r] => p \in Writes(body[r])
             /\ applied'[r][p] = IF /\ p \in Writes(body[r]) /\ W(p) \notin todo'[r]
                                    /\ stage'[r] \in Issuing \cup Over
                                 THEN 1 ELSE 0
  <2>1. applied'[r][p] = applied[r][p] + IF c = W(p) THEN 1 ELSE 0
    BY <1>6, EffectCounts DEF Answer
  <2>2. W(p) \in todo'[r] <=> W(p) \in todo[r] /\ c # W(p)
    BY <1>6 DEF Answer, W
  <2>3. stage'[r] \in Issuing \cup Over <=> stage[r] \in Issuing \cup Over
    <3>1. CASE c[1] = "edges"
      BY <1>6, <3>1 DEF Answer, StageInv, Awaits, Issuing, Over
    <3>2. CASE c[1] # "edges"
      BY <1>6, <3>2 DEF Answer
    <3> QED
      BY <3>1, <3>2
  <2>4. W(p) \in todo[r] => stage[r] \in Issuing \cup Over
    BY DEF StageInv, Awaits, W, Issuing
  <2>5. CASE c = W(p)
    <3>1. applied[r][p] = 0 /\ p \in Writes(body[r])
      BY <1>3, <1>6, <2>5
    <3> QED
      BY <1>6, <2>1, <2>2, <2>3, <2>4, <2>5, <3>1
  <2>6. CASE c # W(p)
    <3>1. applied'[r][p] = applied[r][p]
      BY <2>1, <2>6 DEF TablesType
    <3> QED
      BY <1>3, <2>2, <2>3, <2>6, <3>1
  <2> QED
    BY <2>5, <2>6
<1> QED
  BY <1>4, <1>5, <1>6

\* A request of which nothing is carried out and that stays where it is.
LEMMA OnceKept ==
  ASSUME NEW q \in Requests, OnceInv(q), body' = body, stage'[q] = stage[q], todo'[q] = todo[q],
         \A p \in Places : applied'[q][p] = applied[q][p]
  PROVE  OnceInv(q)'
BY DEF OnceInv

\* As long as nothing fails, each step keeps the sums.
LEMMA StepTotal == Typed /\ StageInv /\ CalmInv /\ TotalInv /\ [Next]_vars => TotalInv'
<1> SUFFICES ASSUME Typed, StageInv, CalmInv, TotalInv, [Next]_vars, Calm'
             PROVE  Summed' /\ \A q \in Requests : OnceInv(q)'
  BY DEF TotalInv
<1>0. Calm /\ body' = body /\ Summed /\ \A q \in Requests : OnceInv(q)
  BY CalmSteps, Monotone DEF TotalInv
<1> DEFINE Good == Summed' /\ \A q \in Requests : OnceInv(q)'
<1>1. ASSUME UNCHANGED <<depth, applied, stage, todo>> PROVE Good
  BY <1>0, <1>1, SummedKept, OnceKept
<1>2. ASSUME NEW r \in Requests, Begin(r) \/ Proceed(r) \/ \E c \in todo[r] : Answer(r, c) PROVE Good
  <2>1. ASSUME NEW q \in Requests, q # r PROVE OnceInv(q)'
    <3>1. \A p \in Places : applied'[q][p] = applied[q][p]
      <4>1. CASE Begin(r) \/ Proceed(r)
        BY <4>1 DEF Begin, Proceed
      <4>2. ASSUME NEW c \in todo[r], Answer(r, c), NEW p \in Places PROVE applied'[q][p] = applied[q][p]
        <5>1. c \in Calls /\ Effect(r, c)
          BY <4>2 DEF Answer, Typed, ControlType
        <5> QED
          BY <2>1, <5>1, EffectCounts DEF Typed, TablesType
      <4> QED
        BY <1>2, <4>1, <4>2
    <3>2. stage'[q] = stage[q] /\ todo'[q] = todo[q]
      BY <1>2, <2>1, OthersKeep DEF RequestStep
    <3> QED
      BY <1>0, <3>1, <3>2, OnceKept
  <2>2. OnceInv(r)'
    BY <1>0, <1>2, OnceStep
  <2>3. Summed'
    <3>1. CASE Begin(r) \/ Proceed(r)
      BY <1>0, <3>1, SummedKept DEF Begin, Proceed, tables
    <3>2. ASSUME NEW c \in todo[r], Answer(r, c), c[1] # "write" PROVE Summed'
      BY <1>0, <3>2, SummedKept DEF Answer, Effect, FillExists, InsertNode, FillEdge, tables
    <3>3. ASSUME NEW c \in todo[r], Answer(r, c), c[1] = "write" PROVE Summed'
      <4>1. c \in Calls
        BY DEF Typed, ControlType
      <4>2. c = W(c[2]) /\ c[2] \in Places /\ WriteEdge(r, c[2])
        BY <3>3, <4>1, CallIs DEF Answer, Effect, W
      <4>3. applied[r][c[2]] = 0
        BY <1>0, <4>2 DEF OnceInv
      <4> QED
        BY <1>0, <4>2, <4>3, SummedStep
    <3> QED
      BY <1>2, <3>1, <3>2, <3>3
  <2> QED
    BY <2>1, <2>2, <2>3
<1>3. ASSUME NEW x \in Nodes, EvictNode(x) PROVE Good
  BY <1>1, <1>3 DEF EvictNode, tables, control
<1>4. ASSUME NEW x \in Nodes, NEW y \in Nodes, EvictEdge(x, y) PROVE Good
  BY <1>1, <1>4 DEF EvictEdge, tables, control
<1>5. ASSUME UNCHANGED vars PROVE Good
  BY <1>1, <1>5 DEF vars, tables, control
<1> HIDE DEF Good
<1>6. Good
  BY <1>2, <1>3, <1>4, <1>5, CalmSteps
<1> QED
  BY <1>6 DEF Good

\* The sums are zero at first.
LEMMA InitTotal == Init => TotalInv
<1> SUFFICES ASSUME Init PROVE Summed /\ \A q \in Requests : OnceInv(q)
  BY DEF TotalInv
<1>1. ASSUME NEW q \in Requests PROVE OnceInv(q)
  BY DEF Init, OnceInv, Issuing, Over
<1>2. \A x, y \in Nodes : Counters("left", x, y) = {} /\ Counters("right", x, y) = {}
  BY DEF Init, Counters, Places
<1>3. \A x, y \in Nodes : depth[<<x, y>>] = 0
  BY DEF Init, Zero
<1> QED
  BY <1>1, <1>2, <1>3, FS_EmptySet DEF Summed

\* Every depth upsert counts exactly once on both of its rows, however any number
\* of requests race to create the same nodes and the same edge.
THEOREM DepthsExact == Spec => []DepthTotals
<1>1. Typed /\ StageInv /\ TotalInv => DepthTotals
  <2> SUFFICES ASSUME Typed, StageInv, TotalInv, Settled, Calm, NEW x \in Nodes, NEW y \in Nodes
               PROVE  depth[<<x, y>>] = Cardinality(CountedFrom(x, y)) + Cardinality(CountedTo(x, y))
    BY DEF DepthTotals, Calm
  <2>1. ASSUME NEW q \in Requests, NEW p \in Places
        PROVE  applied[q][p] = 1 <=> p \in Writes(body[q]) /\ stage[q] = "acked"
    <3>1. OnceInv(q) /\ stage[q] \in Over \cup {"new"}
      BY DEF TotalInv, Settled
    <3>2. stage[q] = "acked" => W(p) \notin todo[q]
      BY DEF StageInv, Awaits
    <3>3. stage[q] = "acked" \/ stage[q] = "new"
      BY <3>1 DEF OnceInv, Over
    <3>4. CASE stage[q] = "new"
      BY <3>1, <3>4 DEF OnceInv, Issuing, Over
    <3>5. CASE stage[q] = "acked"
      BY <3>1, <3>2, <3>5 DEF OnceInv, Issuing, Over
    <3> QED
      BY <3>3, <3>4, <3>5
  <2>2. Counters("left", x, y) = CountedFrom(x, y)
    BY <2>1 DEF Counters, CountedFrom, Cell, Near, Far, Places
  <2>3. Counters("right", x, y) = CountedTo(x, y)
    BY <2>1 DEF Counters, CountedTo, Cell, Near, Far, Places
  <2> QED
    BY <2>2, <2>3 DEF TotalInv, Summed
<1> QED
  BY <1>1, InitCalm, InitTotal, AlwaysTyped, StepStage, StepCalm, StepTotal, PTL DEF Spec

=============================================================================
