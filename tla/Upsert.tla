------------------------------- MODULE Upsert -------------------------------
(***************************************************************************)
(* The singular-relation upsert: GraphAccess.runUpsertRelationWithRetry,   *)
(* upsertSingleEdgeRelationBetweenNodes, and what they call in             *)
(* NodeHandler.ts, for concurrent requests in one server process.          *)
(*                                                                         *)
(* An upsert makes sure that its two nodes exist, and then writes one edge *)
(* as a cell on each node's row (or a row of the popnode table in place of *)
(* the right cell).  In depth mode the cells are counters.  Nothing is a   *)
(* transaction: every stage issues its calls in parallel and awaits them   *)
(* with Bluebird.all.  When a call rejects, the upsert starts over at once *)
(* while the other calls of the stage are still under way (`late`).        *)
(***************************************************************************)
EXTENDS Integers, FiniteSets

CONSTANTS Nodes,     \* node identifiers
          Relations, \* edge relations; 0 is the default of edgeExistsId
          Requests,  \* the upserts of one behaviour
          Bodies,    \* what a request may ask for, see BodyType
          LeftEdge, RightEdge,  \* config.database.leftNodeEdge, rightNodeEdge
          Removals,  \* whether DELETE /node is used
          Evictions, \* whether entries of the in-memory cache expire
          MaxFails   \* bound: calls that fail in one behaviour

BodyType == [left : Nodes, right : Nodes, mode : {"depth", "relation"},
             rel : Relations, popular : BOOLEAN]

ASSUME UpsertAssumption ==
  /\ IsFiniteSet(Requests)
  /\ 0 \in Relations
  /\ Bodies \subseteq BodyType
  /\ LeftEdge \in BOOLEAN /\ RightEdge \in BOOLEAN
  /\ Removals \in BOOLEAN /\ Evictions \in BOOLEAN
  /\ MaxFails \in Nat

VARIABLES
  data,        \* nodes table: the rows with a data cell, written by createNode
  depth,       \* nodes table: cell ed#y of row x, 0 when there is none
  related,     \* nodes table: <<x, y, r>>, cell ec#y#r of row x
  popDepth,    \* popnodes table: column depth of row x#y, 0 when there is none
  popRelated,  \* popnodes table: rows x#y#r
  knownNodes,  \* cache: keys gnbpf:exists:node:x that hold true
  knownEdges,  \* cache: keys gnbpf:identifier:x:y:0
  nodeCount, edgeCount,  \* metadata: what the counters were raised to
  body, stage, tries,    \* request -> its body, where it is, its retries
  absent,      \* request -> the sides whose node it has found missing
  todo,        \* request -> the calls it awaits
  late,        \* calls of attempts that were given up: <<request, try, call>>
  fails,       \* how much of the bound is used
  applied,     \* history: request -> edge call -> how often it was carried out
  disturbed    \* history: the requests that a removed node concerns

tables == <<data, depth, related, popDepth, popRelated>>
cache == <<knownNodes, knownEdges>>
counters == <<nodeCount, edgeCount>>
control == <<body, stage, tries, absent>>
vars == <<tables, cache, counters, control, todo, late, fails, applied, disturbed>>

Sides == {"left", "right"}
Places == {"left", "right", "pop"}
Calls == {<<"exists", s>> : s \in Sides} \cup {<<"insert", s>> : s \in Sides}
         \cup {<<"fetch", s>> : s \in Sides} \cup {<<"edges", "both">>}
         \cup {<<"write", p>> : p \in Places}

Over == {"acked", "rejected"}

NodeOf(b, side) == IF side = "left" THEN b.left ELSE b.right

\* A row of the nodes table exists once it has any cell.
RowExists(x) ==
  \/ x \in data
  \/ \E y \in Nodes : depth[<<x, y>>] > 0 \/ \E r \in Relations : <<x, y, r>> \in related

\* edgeExistsId: the default relation, whichever the request is about, and both
\* rows only if leftNodeEdge.
EdgeInTable(x, y) ==
  /\ LeftEdge
  /\ \/ depth[<<x, y>>] > 0 \/ <<x, y, 0>> \in related
     \/ depth[<<y, x>>] > 0 \/ <<y, x, 0>> \in related

\* The edge cells that a request writes.
Writes(b) ==
  (IF LeftEdge THEN {"left"} ELSE {})
    \cup (IF RightEdge THEN IF b.popular THEN {"pop"} ELSE {"right"} ELSE {})

Zero == [e \in Nodes \X Nodes |-> 0]

Init ==
  /\ data = {} /\ related = {} /\ popRelated = {}
  /\ depth = Zero /\ popDepth = Zero
  /\ knownNodes = {} /\ knownEdges = {}
  /\ nodeCount = 0 /\ edgeCount = 0
  /\ body \in [Requests -> Bodies]
  /\ stage = [q \in Requests |-> "new"]
  /\ tries = [q \in Requests |-> 0]
  /\ absent = [q \in Requests |-> {}]
  /\ todo = [q \in Requests |-> {}]
  /\ late = {}
  /\ fails = 0
  /\ applied = [q \in Requests |-> [p \in Places |-> 0]]
  /\ disturbed = {}

-----------------------------------------------------------------------------
(* What the calls do to tables, cache and counters.                        *)

\* Broken on purpose: a negative answer is cached like a positive one.
FillExistsAlways(x) ==
  /\ knownNodes' = knownNodes \cup {x}
  /\ UNCHANGED <<tables, knownEdges, counters, applied>>

\* doesNodeExist, on a cache miss.
FillExists(x) ==
  /\ knownNodes' = IF RowExists(x) THEN knownNodes \cup {x} ELSE knownNodes
  /\ UNCHANGED <<tables, knownEdges, counters, applied>>

\* The insertion in createNode; its row may well be there already.
InsertNode(x) ==
  /\ data' = data \cup {x}
  /\ nodeCount' = nodeCount + 1
  /\ UNCHANGED <<depth, related, popDepth, popRelated, cache, edgeCount, applied>>

\* edgeExistsId, on a cache miss.
FillEdge(x, y) ==
  /\ knownEdges' = IF EdgeInTable(x, y) THEN knownEdges \cup {<<x, y>>} ELSE knownEdges
  /\ UNCHANGED <<tables, knownNodes, counters, applied>>

\* Broken on purpose: creation saves a depth of 1 where it should increment.
WriteEdgeSaved(q, place) ==
  LET b == body[q]
      x == IF place = "right" THEN b.right ELSE b.left
      y == IF place = "right" THEN b.left ELSE b.right
  IN /\ b.mode = "depth"
     /\ IF place = "pop"
        THEN popDepth' = [popDepth EXCEPT ![<<x, y>>] = @ + 1] /\ depth' = depth
        ELSE /\ depth' = [depth EXCEPT ![<<x, y>>] = IF stage[q] = "create" THEN 1 ELSE @ + 1]
             /\ popDepth' = popDepth
     /\ applied' = [applied EXCEPT ![q][place] = @ + 1]
     /\ UNCHANGED <<data, related, popRelated, cache, counters>>

\* One edge cell: incremented in depth mode (createEdgeWithId and
\* increaseEdgeDepthById alike), saved otherwise.
WriteEdge(q, place) ==
  LET b == body[q]
      x == IF place = "right" THEN b.right ELSE b.left
      y == IF place = "right" THEN b.left ELSE b.right
  IN /\ IF b.mode = "depth"
        THEN /\ IF place = "pop"
                THEN popDepth' = [popDepth EXCEPT ![<<x, y>>] = @ + 1] /\ depth' = depth
                ELSE depth' = [depth EXCEPT ![<<x, y>>] = @ + 1] /\ popDepth' = popDepth
             /\ UNCHANGED <<related, popRelated>>
        ELSE /\ IF place = "pop"
                THEN popRelated' = popRelated \cup {<<x, y, b.rel>>} /\ related' = related
                ELSE related' = related \cup {<<x, y, b.rel>>} /\ popRelated' = popRelated
             /\ UNCHANGED <<depth, popDepth>>
     /\ applied' = [applied EXCEPT ![q][place] = @ + 1]
     /\ UNCHANGED <<data, cache, counters>>

\* The effect of call c of request q when it is carried out.
Effect(q, c) ==
  \/ c[1] = "exists" /\ FillExists(NodeOf(body[q], c[2]))
  \/ c[1] = "insert" /\ InsertNode(NodeOf(body[q], c[2]))
  \/ c[1] = "edges" /\ FillEdge(body[q].left, body[q].right)
  \/ c[1] = "write" /\ WriteEdge(q, c[2])
  \/ c[1] = "fetch" /\ UNCHANGED <<tables, cache, counters, applied>>

-----------------------------------------------------------------------------
(* The course of a request.                                                *)

Enter(q, s, calls) ==
  /\ stage' = [stage EXCEPT ![q] = s]
  /\ todo' = [todo EXCEPT ![q] = calls]

ExistsCalls == {<<"exists", s>> : s \in Sides}

Begin(q) ==
  /\ stage[q] = "new"
  /\ Enter(q, "exists", ExistsCalls)
  /\ UNCHANGED <<tables, cache, counters, body, tries, absent, late, fails, applied, disturbed>>

\* A call is carried out and answered; createNode then reads its node back.
Answer(q, c) ==
  /\ c \in todo[q]
  /\ Effect(q, c)
  /\ todo' = [todo EXCEPT ![q] =
                (@ \ {c}) \cup IF c[1] = "insert" THEN {<<"fetch", c[2]>>} ELSE {}]
  /\ absent' = IF /\ c[1] = "exists"
                  /\ LET x == NodeOf(body[q], c[2]) IN ~RowExists(x) /\ x \notin knownNodes
               THEN [absent EXCEPT ![q] = @ \cup {c[2]}] ELSE absent
  /\ stage' = IF c[1] = "edges"
              THEN [stage EXCEPT ![q] =
                      IF \/ <<body[q].left, body[q].right>> \in knownEdges
                         \/ EdgeInTable(body[q].left, body[q].right)
                      THEN "found" ELSE "missing"]
              ELSE stage
  /\ UNCHANGED <<body, tries, late, fails, disturbed>>

\* Broken on purpose: a new edge lowers the count.
StartCreateMinus(q) ==
  /\ Enter(q, "create", {<<"write", p>> : p \in Writes(body[q])})
  /\ edgeCount' = edgeCount - 1

\* createEdgeWithId counts the edge before it awaits the writes.
StartCreate(q) ==
  /\ Enter(q, "create", {<<"write", p>> : p \in Writes(body[q])})
  /\ edgeCount' = edgeCount + 1

\* The continuation of an await whose calls are all answered.
Proceed(q) ==
  /\ todo[q] = {}
  /\ \/ /\ stage[q] = "exists"
        /\ Enter(q, "nodes", {<<"insert", s>> : s \in absent[q]})
        /\ UNCHANGED edgeCount
     \/ /\ stage[q] = "nodes" /\ body[q].mode = "relation"
        /\ StartCreate(q)
     \/ /\ stage[q] = "nodes" /\ body[q].mode = "depth"
        /\ Enter(q, "edges", {<<"edges", "both">>})
        /\ UNCHANGED edgeCount
     \/ /\ stage[q] = "missing"
        /\ StartCreate(q)
     \/ /\ stage[q] = "found"
        /\ Enter(q, "increase", {<<"write", p>> : p \in Writes(body[q])})
        /\ UNCHANGED edgeCount
     \/ /\ stage[q] \in {"create", "increase"}
        /\ Enter(q, "acked", {})
        /\ UNCHANGED edgeCount
  /\ UNCHANGED <<tables, cache, nodeCount, body, tries, absent, late, fails, applied, disturbed>>

-----------------------------------------------------------------------------
(* Failures.  A failing call is not carried out, or is but its answer is   *)
(* lost (deadline exceeded).                                               *)

PerhapsEffect(q, c) ==
  \/ Effect(q, c)
  \/ UNCHANGED <<tables, cache, counters, applied>>

\* The calls beside c are under way still, and nobody waits for them.
Abandoned(q, c) == {<<q, tries[q], d>> : d \in todo[q] \ {c}}

\* Broken on purpose: three retries.
GiveUpLater(q, c) ==
  /\ late' = late \cup Abandoned(q, c)
  /\ IF tries[q] = 3
     THEN /\ Enter(q, "rejected", {})
          /\ UNCHANGED <<tries, absent>>
     ELSE /\ Enter(q, "exists", ExistsCalls)
          /\ tries' = [tries EXCEPT ![q] = @ + 1]
          /\ absent' = [absent EXCEPT ![q] = {}]
  /\ UNCHANGED body

\* The upsert rejects at call c: up to two retries, at once.
GiveUp(q, c) ==
  /\ late' = late \cup Abandoned(q, c)
  /\ IF tries[q] = 2
     THEN /\ Enter(q, "rejected", {})
          /\ UNCHANGED <<tries, absent>>
     ELSE /\ Enter(q, "exists", ExistsCalls)
          /\ tries' = [tries EXCEPT ![q] = @ + 1]
          /\ absent' = [absent EXCEPT ![q] = {}]
  /\ UNCHANGED body

\* Broken on purpose: the error is swallowed and no answer given.
EdgesUnanswered(q) ==
  /\ <<body[q].left, body[q].right>> \notin knownEdges
  /\ Enter(q, "edges", {})
  /\ UNCHANGED <<tables, cache, counters, body, tries, absent, late, applied>>

\* getAnyTypeOfEdges swallows its errors: the edge counts as missing.
EdgesUnknown(q) ==
  /\ <<body[q].left, body[q].right>> \notin knownEdges
  /\ Enter(q, "missing", {})
  /\ UNCHANGED <<tables, cache, counters, body, tries, absent, late, applied>>

\* createNode returns its error as a value: the upsert goes on.
InsertUnnoticed(q, c) ==
  /\ \/ UNCHANGED data
     \/ data' = data \cup {NodeOf(body[q], c[2])}
  /\ todo' = [todo EXCEPT ![q] = @ \ {c}]
  /\ UNCHANGED <<depth, related, popDepth, popRelated, cache, counters, control, late, applied>>

\* increaseEdgeDepthById catches the rejection and answers success: false, which
\* the upsert does not look at; the other increment goes on by itself.
IncreaseUnnoticed(q, c) ==
  /\ late' = late \cup Abandoned(q, c)
  /\ Enter(q, "acked", {})
  /\ PerhapsEffect(q, c)
  /\ UNCHANGED <<body, tries, absent>>

\* Broken on purpose: createEdgeWithId catches its errors like the increase does.
FailUnnoticed(q, c) ==
  /\ c \in todo[q]
  /\ fails < MaxFails
  /\ fails' = fails + 1
  /\ UNCHANGED disturbed
  /\ c[1] = "write" /\ IncreaseUnnoticed(q, c)

Fail(q, c) ==
  /\ c \in todo[q]
  /\ fails < MaxFails
  /\ fails' = fails + 1
  /\ UNCHANGED disturbed
  /\ \/ /\ \/ c[1] = "fetch"
           \/ c[1] = "exists" /\ NodeOf(body[q], c[2]) \notin knownNodes
        /\ GiveUp(q, c)
        /\ UNCHANGED <<tables, cache, counters, applied>>
     \/ c[1] = "insert" /\ InsertUnnoticed(q, c)
     \/ c[1] = "edges" /\ EdgesUnknown(q)
     \/ c[1] = "write" /\ stage[q] = "create" /\ GiveUp(q, c) /\ PerhapsEffect(q, c)
     \/ c[1] = "write" /\ stage[q] = "increase" /\ IncreaseUnnoticed(q, c)

\* A call of an attempt that was given up is carried out after all.
Arrive(q) ==
  \E l \in late :
    /\ l[1] = q
    /\ Effect(q, l[3])
    /\ late' = late \ {l}
    /\ UNCHANGED <<control, todo, fails, disturbed>>

-----------------------------------------------------------------------------
(* What else happens to the tables and the cache.                          *)

Concerns(q, x) == x \in {body[q].left, body[q].right}

\* removeNode: the row goes with its edge cells; nothing is done about
\* gnbpf:exists:node:x.  A removal in the midst of an upsert disturbs every other
\* upsert of the node as well: an edge cell that follows makes it a row again.
RemoveNode(x) ==
  /\ Removals /\ RowExists(x)
  /\ data' = data \ {x}
  /\ depth' = [e \in Nodes \X Nodes |-> IF e[1] = x THEN 0 ELSE depth[e]]
  /\ related' = {e \in related : e[1] # x}
  /\ nodeCount' = nodeCount - 1
  /\ disturbed' = disturbed \cup
       {q \in Requests : Concerns(q, x) /\
          \/ stage[q] # "new"
          \/ \E p \in Requests : Concerns(p, x) /\ stage[p] \notin Over \cup {"new"}}
  /\ UNCHANGED <<popDepth, popRelated, cache, edgeCount, control, todo, late, fails, applied>>

EvictNode(x) ==
  /\ Evictions /\ x \in knownNodes
  /\ knownNodes' = knownNodes \ {x}
  /\ UNCHANGED <<tables, knownEdges, counters, control, todo, late, fails, applied, disturbed>>

EvictEdge(x, y) ==
  /\ Evictions /\ <<x, y>> \in knownEdges
  /\ knownEdges' = knownEdges \ {<<x, y>>}
  /\ UNCHANGED <<tables, knownNodes, counters, control, todo, late, fails, applied, disturbed>>

-----------------------------------------------------------------------------
RequestStep(q) == Proceed(q) \/ \E c \in todo[q] : Answer(q, c)

Next ==
  \/ \E q \in Requests :
       \/ Begin(q) \/ RequestStep(q) \/ Arrive(q)
       \/ \E c \in todo[q] : Fail(q, c)
  \/ \E x \in Nodes : RemoveNode(x) \/ EvictNode(x)
  \/ \E x, y \in Nodes : EvictEdge(x, y)

Spec == Init /\ [][Next]_vars

\* A call is answered in the end, and an await goes on; nobody need call.
FairSpec == Spec /\ \A q \in Requests : WF_vars(RequestStep(q)) /\ WF_vars(Arrive(q))

-----------------------------------------------------------------------------
(* Properties                                                              *)

\* The type of the state.
TypeOK ==
  /\ data \subseteq Nodes
  /\ depth \in [Nodes \X Nodes -> Nat] /\ popDepth \in [Nodes \X Nodes -> Nat]
  /\ related \subseteq Nodes \X Nodes \X Relations
  /\ popRelated \subseteq Nodes \X Nodes \X Relations
  /\ knownNodes \subseteq Nodes /\ knownEdges \subseteq Nodes \X Nodes
  /\ nodeCount \in Int /\ edgeCount \in Nat
  /\ body \in [Requests -> Bodies]
  /\ stage \in [Requests -> {"new", "exists", "nodes", "edges", "missing", "found",
                             "create", "increase", "acked", "rejected"}]
  /\ tries \in [Requests -> 0..2]
  /\ absent \in [Requests -> SUBSET Sides]
  /\ todo \in [Requests -> SUBSET Calls]
  /\ late \subseteq Requests \X (0..2) \X Calls
  /\ fails \in Nat
  /\ applied \in [Requests -> [Places -> Nat]]
  /\ disturbed \subseteq Requests

Settled == late = {} /\ \A q \in Requests : stage[q] \in Over \cup {"new"}

\* The acknowledged depth upserts that count on cell ed#y of row x, from the left
\* and from the right.
CountedFrom(x, y) == {q \in Requests :
  stage[q] = "acked" /\ body[q].mode = "depth" /\ "left" \in Writes(body[q])
  /\ body[q].left = x /\ body[q].right = y}
CountedTo(x, y) == {q \in Requests :
  stage[q] = "acked" /\ body[q].mode = "depth" /\ "right" \in Writes(body[q])
  /\ body[q].right = x /\ body[q].left = y}

\* Every depth upsert counts exactly once on both of its rows, however the
\* requests race to create the same nodes and the same edge, whether or not the
\* cache knows of it: "not existing" is decided long before the write, and is
\* harmless because creation and increase are the same increment.
DepthTotals ==
  (Settled /\ fails = 0 /\ ~Removals) =>
    \A x, y \in Nodes :
      depth[<<x, y>>] = Cardinality(CountedFrom(x, y)) + Cardinality(CountedTo(x, y))

\* Without failures, an edge cell is on a row, and names a node, that has been
\* created, at every moment: createNode is awaited before the edge is written,
\* and neither a racing request's edge cell nor the cache lets it be skipped.
NoHeadless ==
  (fails = 0 /\ ~Removals) =>
    \A x, y \in Nodes :
      (depth[<<x, y>>] > 0 \/ \E r \in Relations : <<x, y, r>> \in related)
        => {x, y} \subseteq data

\* Retries and the calls of given-up attempts that arrive late carry out each
\* write of a request three times at most.
AtMostThrice == \A q \in Requests, p \in Places : applied[q][p] <= 3

\* An acknowledged upsert in relation mode has written all its edge cells,
\* whatever failed and was retried.
RelationWritten ==
  \A q \in Requests :
    (stage[q] = "acked" /\ body[q].mode = "relation") =>
      \A p \in Writes(body[q]) : applied[q][p] >= 1

\* Every upsert that begins is answered: retries are bounded, nothing waits for
\* the calls of an attempt that was given up.
Answered == \A q \in Requests : stage[q] # "new" ~> stage[q] \in Over

\* docs/fast-relation-creation.md: "If any node does not exist, it will be created".
\* Every request is excepted that a node is taken from, and those that find the row
\* which an edge cell of such a request has brought back.
WillBeCreated ==
  \A q \in Requests :
    (fails = 0 /\ stage[q] = "acked" /\ q \notin disturbed)
      => {body[q].left, body[q].right} \subseteq data
=============================================================================
