---------------------------- MODULE StoreProofs -----------------------------
(***************************************************************************)
(* Proofs about Store: its types, that the copies of the cache are what    *)
(* the node table has, whatever overlaps, but where the code keeps a copy  *)
(* over a write or reads beside one, and that the cells a cached edge      *)
(* names are on the rows of its ends, but where the code removes cells     *)
(* behind the cache's back.                                                *)
(***************************************************************************)
EXTENDS Store, TLAPS

-----------------------------------------------------------------------------
(* What a request awaits fits what it was asked.                           *)

NodeOp(names) == [name : names, x : Nodes]
CreateOp == [name : {"createNode"}, x : Nodes, data : Data]
FindOp == {o \in [name : {"getEdge", "removeEdge"}, x : Nodes, y : Nodes] : o.x # o.y}
LinkOp == [name : {"createEdge"}, x : Nodes, y : Nodes, kind : Kinds, by : {1}, popular : BOOLEAN]
    \cup [name : {"depth"}, x : Nodes, y : Nodes, kind : {"ed"}, by : {1, -1}, popular : BOOLEAN]

Single(r, steps) == \E s \in steps : calls[r] = {<<s, op[r].x>>}

Finds(r) ==
  /\ op[r] \in FindOp
  /\ \/ calls[r] \subseteq {<<"find", op[r].x>>, <<"find", op[r].y>>}
     \/ calls[r] = {<<"named", op[r].x>>}
     \/ /\ op[r].name = "removeEdge"
        /\ calls[r] \subseteq {<<"cut", op[r].x>>, <<"cut", op[r].y>>}

Purges(r) ==
  /\ op[r] \in NodeOp({"removeNodeComplete"})
  /\ \/ Single(r, {"check", "look", "read", "fill"})
     \/ calls[r] \subseteq {<<"drop", op[r].x>>} \cup (Kinds \X Nodes)

Links(r) ==
  /\ op[r] \in LinkOp
  /\ calls[r] \subseteq {<<"write", op[r].x>>, <<"write", op[r].y>>, <<"pop", op[r].x>>}

Fits(r) ==
  \/ calls[r] # {} /\ Finds(r)
  \/ /\ named[r] = {}
     /\ \/ calls[r] = {}
        \/ op[r] \in NodeOp({"getNode"}) /\ Single(r, {"read", "fill"})
        \/ op[r] \in CreateOp /\ Single(r, {"insert", "look", "read", "fill"})
        \/ op[r] \in NodeOp({"removeNode"}) /\ Single(r, {"ask", "drop"})
        \/ Purges(r)
        \/ Links(r)

FitsInv == \A r \in Requests : Fits(r)

\* The types of what most actions leave alone.
TablesOK == row \in [Nodes -> Row] /\ pop \subseteq Kinds \X Nodes \X Nodes
CacheOK == memory \in [Nodes -> Row] /\ known \in [Edges -> SUBSET (Sides \X Kinds)]
RequestsOK ==
  /\ op \in [Requests -> Op]
  /\ calls \in [Requests -> SUBSET (Steps \X Nodes)]
  /\ seen \in [Requests -> Row]
  /\ named \in [Requests -> SUBSET (Sides \X Kinds)]
HistoryOK ==
  /\ stale \subseteq Nodes /\ staleEdge \subseteq Edges
  /\ torn \subseteq SUBSET Nodes /\ orphan \subseteq Nodes \X Nodes
Typed == TablesOK /\ CacheOK /\ RequestsOK /\ events \in 0..MaxEvents /\ HistoryOK

\* The named parts are the type of the state.
LEMMA TypedIs == Typed <=> TypeOK
BY DEF Typed, TablesOK, CacheOK, RequestsOK, HistoryOK, TypeOK

\* A row that does not exist is a row.
LEMMA EmptyRow == Empty \in Row
BY DEF Empty, Row

\* A free request has an operation too.
LEMMA IdleOp == Idle \in Op
BY DEF Op

\* The operations of each kind are operations.
LEMMA OpsOf ==
  /\ \A n \in {"getNode", "removeNode", "removeNodeComplete"} : NodeOp({n}) \subseteq Op
  /\ CreateOp \subseteq Op /\ FindOp \subseteq Op /\ LinkOp \subseteq Op
BY DEF Op, NodeOp, CreateOp, FindOp, LinkOp

\* A request that neither asks nor hears anything fits as before.
LEMMA FitsOther ==
  ASSUME NEW q \in Requests, Fits(q),
         calls'[q] = calls[q], op'[q] = op[q], named'[q] = named[q]
  PROVE  Fits(q)'
BY DEF Fits, Finds, Purges, Links, Single

\* What Begin and Goes do.
LEMMA BeginEffect ==
  ASSUME NEW r \in Requests, NEW o \in Op, NEW first \in SUBSET (Steps \X Nodes),
         Typed, Begin(r, o, first)
  PROVE  /\ calls' \in [Requests -> SUBSET (Steps \X Nodes)] /\ op' \in [Requests -> Op]
         /\ events' \in 0..MaxEvents
         /\ calls[r] = {} /\ calls'[r] = first /\ op'[r] = o
         /\ \A q \in Requests : q # r => calls'[q] = calls[q] /\ op'[q] = op[q]
<1>1. events' \in 0..MaxEvents
  BY StoreAssumption DEF Begin, Typed
<1> QED
  BY <1>1 DEF Begin, Typed, RequestsOK

\* What goes on in one request leaves the others alone.
LEMMA GoesEffect ==
  ASSUME NEW r \in Requests, NEW c, NEW next \in SUBSET (Steps \X Nodes),
         Typed, Goes(r, c, next)
  PROVE  /\ calls' \in [Requests -> SUBSET (Steps \X Nodes)] /\ op' \in [Requests -> Op]
         /\ c \in calls[r] /\ calls'[r] = (calls[r] \ {c}) \cup next
         /\ calls'[r] # {} => op'[r] = op[r]
         /\ \A q \in Requests : q # r => calls'[q] = calls[q] /\ op'[q] = op[q]
BY IdleOp DEF Goes, Typed, RequestsOK

\* The history variables keep their types.
LEMMA HistoryTypes ==
  ASSUME HistoryOK
  PROVE  /\ \A r \in Requests : \A W, kept \in SUBSET Nodes :
                Sent(r, W, kept) => stale' \in SUBSET Nodes
         /\ \A r \in Requests : \A gone, kept \in SUBSET Edges :
                Unnamed(r, gone, kept) => staleEdge' \in SUBSET Edges
         /\ \A x \in Nodes : Asked(x) => stale' \in SUBSET Nodes
         /\ \A x \in Nodes : AllOf(x) \in SUBSET Edges /\ PairsOf(x) \in SUBSET (SUBSET Nodes)
BY DEF HistoryOK, Sent, Unnamed, Asked, AllOf, PairsOf

\* A cache without some copies is a cache.
LEMMA DropTypes ==
  ASSUME NEW D, CacheOK, Drop(D)
  PROVE  /\ memory' \in [Nodes -> Row]
         /\ \A x \in Nodes : memory'[x] = IF x \in D THEN Empty ELSE memory[x]
BY EmptyRow DEF Drop, CacheOK

\* So is one without the names of an edge.
LEMMA UnlinkTypes ==
  ASSUME NEW r \in Requests, NEW x \in Nodes, NEW y \in Nodes, <<x, y>> \in Edges,
         CacheOK, HistoryOK, Unlink(r, x, y)
  PROVE  known' \in [Edges -> SUBSET (Sides \X Kinds)] /\ HistoryOK'
<1>1. known' \in [Edges -> SUBSET (Sides \X Kinds)]
  BY DEF Unlink, CacheOK
<1>2. <<y, x>> \in Edges
  BY DEF Edges
<1>3. stale' \in SUBSET Nodes
  BY HistoryTypes DEF Unlink
<1>4. staleEdge' \in SUBSET Edges
  BY <1>2, HistoryTypes DEF Unlink
<1>5. torn' \subseteq SUBSET Nodes /\ orphan' \subseteq Nodes \X Nodes
  BY DEF Unlink, HistoryOK
<1> QED
  BY <1>1, <1>3, <1>4, <1>5 DEF HistoryOK

\* Each step keeps the types, and what requests await fits what they were asked.
LEMMA RouteTypes ==
  ASSUME Typed, FitsInv, NEW r \in Requests, Routes(r)
  PROVE  Typed' /\ FitsInv'
<1> USE DEF HistoryOK, TablesOK, CacheOK
<1>0. ASSUME NEW o \in Op, NEW first \in SUBSET (Steps \X Nodes), Begin(r, o, first),
             named' \in [Requests -> SUBSET (Sides \X Kinds)],
             \A q \in Requests : q # r => named'[q] = named[q], Fits(r)',
             CacheOK', HistoryOK'
      PROVE  Typed' /\ FitsInv'
  <2>1. /\ calls' \in [Requests -> SUBSET (Steps \X Nodes)] /\ op' \in [Requests -> Op]
        /\ events' \in 0..MaxEvents
        /\ \A q \in Requests : q # r => calls'[q] = calls[q] /\ op'[q] = op[q]
    BY <1>0, BeginEffect
  <2>2. Typed'
    BY <1>0, <2>1 DEF Typed, RequestsOK, Begin, tables
  <2>3. ASSUME NEW q \in Requests, q # r PROVE Fits(q)'
    BY <1>0, <2>1, <2>3, FitsOther DEF FitsInv
  <2> QED
    BY <1>0, <2>2, <2>3 DEF FitsInv
<1>a. named[r] = {} \/ calls[r] # {}
  BY DEF FitsInv, Fits
<1>1. ASSUME NEW x \in Nodes, GetNode(r, x) PROVE Typed' /\ FitsInv'
  <2> DEFINE o == [name |-> "getNode", x |-> x]
  <2>1. o \in NodeOp({"getNode"}) /\ o \in Op
    BY OpsOf DEF NodeOp
  <2>2. {<<"read", x>>} \in SUBSET (Steps \X Nodes)
    BY DEF Steps
  <2>3. Begin(r, o, {<<"read", x>>}) /\ named' = named
    BY <1>1 DEF GetNode
  <2>4. calls[r] = {} /\ calls'[r] = {<<"read", x>>} /\ op'[r] = o
    BY <2>1, <2>2, <2>3, BeginEffect
  <2>5. Fits(r)'
    BY <1>a, <2>1, <2>3, <2>4 DEF Fits, Single
  <2>6. CacheOK' /\ HistoryOK'
    BY <1>1, HistoryTypes DEF GetNode, cache, Typed
  <2> QED
    BY <1>0, <2>1, <2>2, <2>3, <2>5, <2>6 DEF Typed, RequestsOK
<1>2. ASSUME NEW x \in Nodes, NEW d \in Data, CreateNode(r, x, d) PROVE Typed' /\ FitsInv'
  <2> DEFINE o == [name |-> "createNode", x |-> x, data |-> d]
  <2>1. o \in CreateOp /\ o \in Op
    BY OpsOf DEF CreateOp
  <2>2. {<<"insert", x>>} \in SUBSET (Steps \X Nodes)
    BY DEF Steps
  <2>3. Begin(r, o, {<<"insert", x>>}) /\ named' = named
    BY <1>2 DEF CreateNode
  <2>4. calls[r] = {} /\ calls'[r] = {<<"insert", x>>} /\ op'[r] = o
    BY <2>1, <2>2, <2>3, BeginEffect
  <2>5. Fits(r)'
    BY <1>a, <2>1, <2>3, <2>4 DEF Fits, Single
  <2>6. CacheOK' /\ HistoryOK'
    BY <1>2, HistoryTypes DEF CreateNode, cache, Typed
  <2> QED
    BY <1>0, <2>1, <2>2, <2>3, <2>5, <2>6 DEF Typed, RequestsOK
<1>3. ASSUME NEW x \in Nodes, RemoveNode(r, x) PROVE Typed' /\ FitsInv'
  <2> DEFINE o == [name |-> "removeNode", x |-> x]
  <2>1. o \in NodeOp({"removeNode"}) /\ o \in Op
    BY OpsOf DEF NodeOp
  <2>2. {<<"ask", x>>} \in SUBSET (Steps \X Nodes)
    BY DEF Steps
  <2>3. Begin(r, o, {<<"ask", x>>}) /\ named' = named
    BY <1>3 DEF RemoveNode
  <2>4. calls[r] = {} /\ calls'[r] = {<<"ask", x>>} /\ op'[r] = o
    BY <2>1, <2>2, <2>3, BeginEffect
  <2>5. Fits(r)'
    BY <1>a, <2>1, <2>3, <2>4 DEF Fits, Single
  <2>6. CacheOK'
    BY <1>3, DropTypes DEF RemoveNode, Typed
  <2>7. HistoryOK'
    BY <1>3, HistoryTypes DEF RemoveNode, Typed
  <2> QED
    BY <1>0, <2>1, <2>2, <2>3, <2>5, <2>6, <2>7 DEF Typed, RequestsOK
<1>4. ASSUME NEW x \in Nodes, RemoveNodeComplete(r, x) PROVE Typed' /\ FitsInv'
  <2> DEFINE o == [name |-> "removeNodeComplete", x |-> x]
  <2>1. o \in NodeOp({"removeNodeComplete"}) /\ o \in Op
    BY OpsOf DEF NodeOp
  <2>2. {<<"check", x>>} \in SUBSET (Steps \X Nodes)
    BY DEF Steps
  <2>3. Begin(r, o, {<<"check", x>>}) /\ named' = named
    BY <1>4 DEF RemoveNodeComplete
  <2>4. calls[r] = {} /\ calls'[r] = {<<"check", x>>} /\ op'[r] = o
    BY <2>1, <2>2, <2>3, BeginEffect
  <2>5. Fits(r)'
    BY <1>a, <2>1, <2>3, <2>4 DEF Fits, Purges, Single
  <2>6. CacheOK' /\ HistoryOK'
    BY <1>4 DEF RemoveNodeComplete, cache, history, Typed
  <2> QED
    BY <1>0, <2>1, <2>2, <2>3, <2>5, <2>6 DEF Typed, RequestsOK
<1>b. ASSUME NEW x \in Nodes, NEW y \in Nodes, NEW o \in LinkOp, o.x = x, o.y = y,
             Begin(r, o, EdgeCalls(o)), named' = named, Drop({x}) \/ Drop({x, y}), known' = known,
             NEW W \in SUBSET Nodes, NEW kept \in SUBSET Nodes, Sent(r, W, kept),
             Apart(o), PopLate(o), staleEdge' = staleEdge
      PROVE  Typed' /\ FitsInv'
  <2>1. o \in Op /\ EdgeCalls(o) \in SUBSET (Steps \X Nodes)
    BY <1>b, OpsOf DEF EdgeCalls, Steps
  <2>2. calls[r] = {} /\ calls'[r] = EdgeCalls(o) /\ op'[r] = o
    BY <1>b, <2>1, BeginEffect
  <2>3. Fits(r)'
    BY <1>a, <1>b, <2>2 DEF Fits, Links, EdgeCalls
  <2>4. CacheOK'
    BY <1>b, DropTypes DEF Typed
  <2>5. stale' \subseteq Nodes /\ torn' \subseteq SUBSET Nodes /\ orphan' \subseteq Nodes \X Nodes
    BY <1>b, HistoryTypes DEF Apart, PopLate, Typed
  <2> QED
    BY <1>0, <1>b, <2>1, <2>3, <2>4, <2>5 DEF Typed, RequestsOK
<1>5. ASSUME NEW x \in Nodes, NEW y \in Nodes, NEW k \in Kinds, NEW p \in BOOLEAN, CreateEdge(r, x, y, k, p)
      PROVE  Typed' /\ FitsInv'
  <2> DEFINE o == [name |-> "createEdge", x |-> x, y |-> y, kind |-> k, by |-> 1, popular |-> p]
  <2> DEFINE W == IF p THEN {x} ELSE {x, y}
  <2>1. o \in LinkOp /\ o.x = x /\ o.y = y
    BY DEF LinkOp
  <2>2. /\ Begin(r, o, EdgeCalls(o)) /\ named' = named /\ known' = known /\ staleEdge' = staleEdge
        /\ Drop(W) /\ Sent(r, W, {}) /\ Apart(o) /\ PopLate(o)
    BY <1>5 DEF CreateEdge
  <2>3. W \in SUBSET Nodes /\ W \in {{x}, {x, y}}
    OBVIOUS
  <2> HIDE DEF o, W
  <2> QED
    BY <1>b, <2>1, <2>2, <2>3
<1>6. ASSUME NEW x \in Nodes, NEW y \in Nodes, NEW by \in {1, -1}, NEW p \in BOOLEAN, Depth(r, x, y, by, p)
      PROVE  Typed' /\ FitsInv'
  <2> DEFINE o == [name |-> "depth", x |-> x, y |-> y, kind |-> "ed", by |-> by, popular |-> p]
  <2> DEFINE W == IF p THEN {x} ELSE {x, y}
  <2>1. o \in LinkOp /\ o.x = x /\ o.y = y
    BY DEF LinkOp
  <2>2. /\ Begin(r, o, EdgeCalls(o)) /\ named' = named /\ known' = known /\ staleEdge' = staleEdge
        /\ Drop({x}) /\ Sent(r, W, {y}) /\ Apart(o) /\ PopLate(o)
    BY <1>6 DEF Depth
  <2>3. W \in SUBSET Nodes
    OBVIOUS
  <2> HIDE DEF o, W
  <2> QED
    BY <1>b, <2>1, <2>2, <2>3
<1>7. ASSUME NEW x \in Nodes, NEW y \in Nodes, NEW name \in {"getEdge", "removeEdge"}, <<x, y>> \in Edges,
             Find(r, x, y, name)
      PROVE  Typed' /\ FitsInv'
  <2> DEFINE o == [name |-> name, x |-> x, y |-> y]
  <2> DEFINE first == {<<"find", x>>, <<"find", y>>}
  <2>1. o \in FindOp /\ o \in Op
    BY <1>7, OpsOf DEF FindOp, Edges
  <2>2. first \in SUBSET (Steps \X Nodes)
    BY DEF Steps
  <2>3. Begin(r, o, first) /\ named' = named
    BY <1>7 DEF Find
  <2>4. calls[r] = {} /\ calls'[r] = first /\ op'[r] = o
    BY <2>1, <2>2, <2>3, BeginEffect
  <2>5. Fits(r)'
    BY <2>1, <2>4 DEF Fits, Finds
  <2>6. CacheOK' /\ HistoryOK'
    BY <1>7 DEF Find, cache, Typed
  <2> QED
    BY <1>0, <2>1, <2>2, <2>3, <2>5, <2>6 DEF Typed, RequestsOK
<1>8. ASSUME NEW x \in Nodes, NEW y \in Nodes, <<x, y>> \in Edges, RemoveEdgeHit(r, x, y)
      PROVE  Typed' /\ FitsInv'
  <2> DEFINE o == [name |-> "removeEdge", x |-> x, y |-> y]
  <2> DEFINE first == {<<"cut", x>>, <<"cut", y>>}
  <2>1. o \in FindOp /\ o \in Op
    BY <1>8, OpsOf DEF FindOp, Edges
  <2>2. first \in SUBSET (Steps \X Nodes)
    BY DEF Steps
  <2>3. Begin(r, o, first) /\ named' = [named EXCEPT ![r] = known[<<x, y>>]] /\ Unlink(r, x, y) /\ memory' = memory
    BY <1>8 DEF RemoveEdgeHit
  <2>4. calls[r] = {} /\ calls'[r] = first /\ op'[r] = o
    BY <2>1, <2>2, <2>3, BeginEffect
  <2>5. Fits(r)'
    BY <2>1, <2>4 DEF Fits, Finds
  <2>6. CacheOK' /\ HistoryOK'
    BY <1>8, <2>3, UnlinkTypes DEF Typed
  <2>7. named' \in [Requests -> SUBSET (Sides \X Kinds)] /\ \A q \in Requests : q # r => named'[q] = named[q]
    BY <1>8, <2>3 DEF Typed, RequestsOK
  <2> QED
    BY <1>0, <2>1, <2>2, <2>3, <2>5, <2>6, <2>7
<1> QED
  BY <1>1, <1>2, <1>3, <1>4, <1>5, <1>6, <1>7, <1>8 DEF Routes, NodeRoutes, EdgeRoutes, Edges

\* What a call that is under way says of its request.
LEMMA ReadCall ==
  ASSUME NEW r \in Requests, NEW x \in Nodes, FitsInv, NEW s \in {"read", "fill"}, <<s, x>> \in calls[r]
  PROVE  /\ calls[r] = {<<s, x>>} /\ op[r].x = x /\ named[r] = {}
         /\ \/ op[r] \in NodeOp({"getNode"}) \/ op[r] \in CreateOp
            \/ op[r] \in NodeOp({"removeNodeComplete"})
BY DEF FitsInv, Fits, Finds, Purges, Links, Single, Kinds

\* Which operation makes which call, one lemma per call.
LEMMA LookCall ==
  ASSUME NEW r \in Requests, NEW x \in Nodes, FitsInv, <<"look", x>> \in calls[r]
  PROVE  /\ calls[r] = {<<"look", x>>} /\ op[r].x = x /\ named[r] = {}
         /\ op[r] \in CreateOp \/ op[r] \in NodeOp({"removeNodeComplete"})
BY DEF FitsInv, Fits, Finds, Purges, Links, Single, Kinds

\* Only createNode inserts.
LEMMA InsertCall ==
  ASSUME NEW r \in Requests, NEW x \in Nodes, FitsInv, <<"insert", x>> \in calls[r]
  PROVE  calls[r] = {<<"insert", x>>} /\ op[r].x = x /\ named[r] = {} /\ op[r] \in CreateOp
BY DEF FitsInv, Fits, Finds, Purges, Links, Single, Kinds

\* Only removeNode asks.
LEMMA AskCall ==
  ASSUME NEW r \in Requests, NEW x \in Nodes, FitsInv, <<"ask", x>> \in calls[r]
  PROVE  /\ calls[r] = {<<"ask", x>>} /\ op[r].x = x /\ named[r] = {}
         /\ op[r] \in NodeOp({"removeNode"})
BY DEF FitsInv, Fits, Finds, Purges, Links, Single, Kinds

\* Only removeNodeComplete checks.
LEMMA CheckCall ==
  ASSUME NEW r \in Requests, NEW x \in Nodes, FitsInv, <<"check", x>> \in calls[r]
  PROVE  /\ calls[r] = {<<"check", x>>} /\ op[r].x = x /\ named[r] = {}
         /\ op[r] \in NodeOp({"removeNodeComplete"})
BY DEF FitsInv, Fits, Finds, Purges, Links, Single, Kinds

\* Only removals of nodes drop rows.
LEMMA DropCall ==
  ASSUME NEW r \in Requests, NEW x \in Nodes, FitsInv, NEW s \in {"drop"} \cup Kinds, <<s, x>> \in calls[r]
  PROVE  /\ named[r] = {}
         /\ \/ /\ op[r] \in NodeOp({"removeNode"}) /\ op[r].x = x
               /\ s = "drop" /\ calls[r] = {<<s, x>>}
            \/ /\ op[r] \in NodeOp({"removeNodeComplete"})
               /\ calls[r] \subseteq {<<"drop", op[r].x>>} \cup (Kinds \X Nodes)
BY DEF FitsInv, Fits, Finds, Purges, Links, Single, Kinds

\* Only edges and depths write cells.
LEMMA LinkCall ==
  ASSUME NEW r \in Requests, NEW x \in Nodes, FitsInv, NEW s \in {"write", "pop"}, <<s, x>> \in calls[r]
  PROVE  named[r] = {} /\ Links(r) /\ x \in {op[r].x, op[r].y}
BY DEF FitsInv, Fits, Finds, Purges, Links, Single, Kinds

\* Only lookups and removals of edges find.
LEMMA FindCall ==
  ASSUME NEW r \in Requests, NEW x \in Nodes, FitsInv, <<"find", x>> \in calls[r]
  PROVE  /\ op[r] \in FindOp /\ x \in {op[r].x, op[r].y}
         /\ calls[r] \subseteq {<<"find", op[r].x>>, <<"find", op[r].y>>}
BY DEF FitsInv, Fits, Finds, Purges, Links, Single, Kinds

\* The same of their continuation.
LEMMA NamedCall ==
  ASSUME NEW r \in Requests, NEW x \in Nodes, FitsInv, <<"named", x>> \in calls[r]
  PROVE  op[r] \in FindOp /\ x = op[r].x /\ calls[r] = {<<"named", x>>}
BY DEF FitsInv, Fits, Finds, Purges, Links, Single, Kinds

\* Only removals of edges cut.
LEMMA CutCall ==
  ASSUME NEW r \in Requests, NEW x \in Nodes, FitsInv, <<"cut", x>> \in calls[r]
  PROVE  /\ op[r] \in FindOp /\ op[r].name = "removeEdge" /\ x \in {op[r].x, op[r].y}
         /\ calls[r] \subseteq {<<"cut", op[r].x>>, <<"cut", op[r].y>>}
BY DEF FitsInv, Fits, Finds, Purges, Links, Single, Kinds

\* What Purge and the two ways of Unlink leave typed.
LEMMA PurgeTypes ==
  ASSUME NEW r \in Requests, NEW x \in Nodes, NEW copy \in Row, NEW c, Typed, Purge(r, c, x, copy)
  PROVE  /\ {<<"drop", x>>} \cup Shown(copy) \in SUBSET (Steps \X Nodes)
         /\ Shown(copy) \subseteq Kinds \X Nodes
         /\ memory' \in [Nodes -> Row] /\ HistoryOK'
<1>1. Shown(copy) \subseteq Kinds \X Nodes
  BY DEF Shown, Row
<1>2. {<<"drop", x>>} \cup Shown(copy) \in SUBSET (Steps \X Nodes)
  BY <1>1 DEF Steps
<1>3. memory' \in [Nodes -> Row]
  BY DropTypes DEF Purge, Typed
<1>4. stale' \in SUBSET Nodes /\ staleEdge' \in SUBSET Edges
  BY HistoryTypes DEF Purge, Typed
<1>5. torn' \subseteq SUBSET Nodes
  BY HistoryTypes DEF Purge, Typed, HistoryOK
<1>6. orphan' \subseteq Nodes \X Nodes
  <2> DEFINE left == {y \in Nodes : x \in stale \/ PopWriting(x, y) \/ <<"ed", y>> \in copy.cells \ Shown(copy)}
  <2>1. orphan' = orphan \cup {<<x, y>> : y \in left}
    BY DEF Purge
  <2>2. left \subseteq Nodes
    OBVIOUS
  <2> HIDE DEF left
  <2> QED
    BY <2>1, <2>2 DEF Typed, HistoryOK
<1> QED
  BY <1>6, <1>1, <1>2, <1>3, <1>4, <1>5 DEF HistoryOK

\* What a call does to the tables keeps their types.
LEMMA EffectTypes ==
  ASSUME NEW r \in Requests, NEW s \in Writes, NEW x \in Nodes, Typed, FitsInv,
         <<s, x>> \in calls[r], Effect(r, s, x)
  PROVE  TablesOK'
<1> USE DEF TablesOK, Typed
<1>a. /\ row[x] \in Row
      /\ \A R \in Row : [row EXCEPT ![x] = R] \in [Nodes -> Row]
  OBVIOUS
<1>1. CASE s = "insert" /\ row' = [row EXCEPT ![x].data = op[r].data] /\ UNCHANGED pop
  <2>1. op[r].data \in Data
    BY <1>1, InsertCall DEF CreateOp
  <2>2. [row[x] EXCEPT !.data = op[r].data] \in Row
    BY <1>a, <2>1 DEF Row
  <2> QED
    BY <1>1, <1>a, <2>2
<1>2. CASE s = "write" /\ row' = Written(op[r], x) /\ UNCHANGED pop
  <2>1. op[r] \in LinkOp
    BY <1>2, LinkCall DEF Links
  <2>2. op[r].kind \in Kinds /\ op[r].by \in Int /\ Other(op[r], x) \in Nodes
    BY <2>1 DEF LinkOp, Other, Kinds
  <2> DEFINE y == Other(op[r], x)
  <2> DEFINE o == op[r]
  <2>3. row[x].depth \in [Nodes -> Int] /\ row[x].cells \subseteq Kinds \X Nodes
    BY <1>a DEF Row
  <2> DEFINE d == IF o.kind = "ed" THEN row[x].depth[y] + o.by ELSE row[x].depth[y]
  <2> DEFINE R == [row[x] EXCEPT !.cells = @ \cup {<<o.kind, y>>}, !.depth[y] = d]
  <2>4. d \in Int
    BY <2>2, <2>3
  <2>5. R \in Row
    <3> HIDE DEF d, y, o
    <3>1. y \in Nodes /\ o.kind \in Kinds
      BY <2>2 DEF y, o
    <3>2. [row[x].depth EXCEPT ![y] = d] \in [Nodes -> Int]
      BY <2>3, <2>4, <3>1
    <3>3. R = [row[x] EXCEPT !.cells = row[x].cells \cup {<<o.kind, y>>},
                             !.depth = [row[x].depth EXCEPT ![y] = d]]
      BY <1>a, <2>3, <3>1 DEF Row
    <3>4. row[x].cells \cup {<<o.kind, y>>} \subseteq Kinds \X Nodes
      BY <2>3, <3>1
    <3> QED
      BY <1>a, <3>2, <3>3, <3>4 DEF Row
  <2>6. Written(op[r], x) = [row EXCEPT ![x] = R]
    BY <1>a, <2>3 DEF Written
  <2> HIDE DEF R
  <2> QED
    BY <1>2, <1>a, <2>5, <2>6
<1>3. CASE s = "cut" /\ pop' = pop /\ \E cells : row' = Without(cells, x)
  <2> PICK cells : row' = Without(cells, x)
    BY <1>3
  <2> DEFINE D == [y \in Nodes |-> IF <<"ed", y>> \in cells THEN 0 ELSE row[x].depth[y]]
  <2> DEFINE R == [row[x] EXCEPT !.cells = @ \ cells, !.depth = D]
  <2>1. D \in [Nodes -> Int]
    BY <1>a DEF Row
  <2>2. R \in Row
    BY <1>a, <2>1 DEF Row
  <2>3. Without(cells, x) = [row EXCEPT ![x] = R]
    BY <1>a DEF Without
  <2> HIDE DEF R
  <2> QED
    BY <1>3, <1>a, <2>2, <2>3
<1>4. CASE s = "drop" /\ row' = [row EXCEPT ![x] = Empty] /\ UNCHANGED pop
  BY <1>4, <1>a, EmptyRow
<1>5. CASE s = "pop" /\ pop' = pop \cup {<<op[r].kind, x, op[r].y>>} /\ UNCHANGED row
  <2>1. op[r] \in LinkOp
    BY <1>5, LinkCall DEF Links
  <2>2. op[r].kind \in Kinds /\ op[r].y \in Nodes
    BY <2>1 DEF LinkOp, Kinds
  <2> QED
    BY <1>5, <2>2
<1>6. CASE s \in Kinds /\ pop' = pop \ {<<s, op[r].x, x>>} /\ UNCHANGED row
  BY <1>6
<1> QED
  BY <1>1, <1>2, <1>3, <1>4, <1>5, <1>6 DEF Effect

\* An answer keeps the types.
LEMMA AnswerTypes ==
  ASSUME Typed, FitsInv, NEW r \in Requests, Answers(r)
  PROVE  Typed' /\ FitsInv'
<1>0. ASSUME NEW c, NEW next \in SUBSET (Steps \X Nodes), Goes(r, c, next),
             Fits(r)', TablesOK', CacheOK', HistoryOK', events' \in 0..MaxEvents,
             seen' \in [Requests -> Row], named' \in [Requests -> SUBSET (Sides \X Kinds)],
             \A q \in Requests : q # r => named'[q] = named[q]
      PROVE  Typed' /\ FitsInv'
  <2>1. /\ calls' \in [Requests -> SUBSET (Steps \X Nodes)] /\ op' \in [Requests -> Op]
        /\ \A q \in Requests : q # r => calls'[q] = calls[q] /\ op'[q] = op[q]
    BY <1>0, GoesEffect
  <2>2. Typed'
    BY <1>0, <2>1 DEF Typed, RequestsOK
  <2>3. ASSUME NEW q \in Requests, q # r PROVE Fits(q)'
    BY <1>0, <2>1, <2>3, FitsOther DEF FitsInv
  <2> QED
    BY <1>0, <2>2, <2>3 DEF FitsInv
<1>a. events \in 0..MaxEvents /\ seen \in [Requests -> Row] /\ named \in [Requests -> SUBSET (Sides \X Kinds)]
  BY DEF Typed, RequestsOK
<1>b. ASSUME events' = events + 1, events < MaxEvents PROVE events' \in 0..MaxEvents
  BY <1>a, <1>b, StoreAssumption
<1>1. ASSUME NEW x \in Nodes, Read(r, x) PROVE Typed' /\ FitsInv'
  <2> DEFINE next == {<<"fill", x>>}
  <2>1. next \in SUBSET (Steps \X Nodes) /\ Goes(r, <<"read", x>>, next) /\ named' = named
    BY <1>1 DEF Read, Steps
  <2>a. <<"read", x>> \in calls[r]
    BY <2>1 DEF Goes
  <2>b. /\ calls[r] = {<<"read", x>>} /\ op[r].x = x /\ named[r] = {}
        /\ \/ op[r] \in NodeOp({"getNode"}) \/ op[r] \in CreateOp
           \/ op[r] \in NodeOp({"removeNodeComplete"})
    BY <2>a, ReadCall
  <2>2. calls'[r] = next /\ op'[r] = op[r]
    BY <2>1, <2>b, GoesEffect
  <2>3. Fits(r)'
    BY <2>1, <2>2, <2>b DEF Fits, Purges, Single
  <2>4. TablesOK' /\ CacheOK' /\ HistoryOK' /\ events' \in 0..MaxEvents /\ seen' \in [Requests -> Row]
    BY <1>1, <1>a DEF Read, Typed, TablesOK, CacheOK, HistoryOK, tables, cache, history
  <2> QED
    BY <1>0, <1>a, <2>1, <2>3, <2>4
<1>2. ASSUME NEW x \in Nodes, NEW copy \in Row, NEW s \in {"look", "fill"}, Purge(r, <<s, x>>, x, copy),
             op[r].name = "removeNodeComplete", seen' \in [Requests -> Row],
             UNCHANGED <<tables, known, named, events>>
      PROVE  Typed' /\ FitsInv'
  <2> DEFINE next == {<<"drop", x>>} \cup Shown(copy)
  <2>1. next \in SUBSET (Steps \X Nodes) /\ Goes(r, <<s, x>>, next)
    BY <1>2, PurgeTypes DEF Purge
  <2>a. <<s, x>> \in calls[r]
    BY <2>1 DEF Goes
  <2>b. /\ calls[r] = {<<s, x>>} /\ op[r].x = x /\ named[r] = {}
        /\ \/ op[r] \in NodeOp({"getNode"}) \/ op[r] \in CreateOp
           \/ op[r] \in NodeOp({"removeNodeComplete"})
    <3>1. CASE s = "look"
      BY <2>a, <3>1, LookCall
    <3>2. CASE s = "fill"
      BY <2>a, <3>2, ReadCall
    <3> QED
      BY <3>1, <3>2
  <2>c. calls'[r] = (calls[r] \ {<<s, x>>}) \cup next /\ (calls'[r] # {} => op'[r] = op[r])
    BY <2>1, GoesEffect
  <2>2. calls'[r] = next /\ op'[r] = op[r]
    BY <2>b, <2>c
  <2>3. op[r] \in NodeOp({"removeNodeComplete"})
    BY <1>2, <2>b DEF CreateOp, NodeOp
  <2>4. Fits(r)'
    <3>1. Shown(copy) \subseteq Kinds \X Nodes
      BY <1>2, PurgeTypes
    <3> QED
      BY <1>2, <2>2, <2>3, <2>b, <3>1 DEF Fits, Purges
  <2>5. CacheOK' /\ HistoryOK'
    BY <1>2, PurgeTypes DEF Typed, CacheOK
  <2>6. TablesOK' /\ events' = events /\ named' = named
    BY <1>2 DEF Typed, TablesOK, tables
  <2> HIDE DEF next
  <2> QED
    BY <1>0, <1>2, <1>a, <2>1, <2>4, <2>5, <2>6
<1>3. ASSUME NEW x \in Nodes, Fill(r, x) PROVE Typed' /\ FitsInv'
  <2>1. seen' \in [Requests -> Row] /\ UNCHANGED <<tables, known, named, events>>
    BY <1>3, <1>a, EmptyRow DEF Fill
  <2>2. CASE Goes(r, <<"fill", x>>, {}) /\ memory' = (IF seen[r] = Empty THEN memory ELSE [memory EXCEPT ![x] = seen[r]])
             /\ UNCHANGED history
    <3>a. <<"fill", x>> \in calls[r]
      BY <2>2 DEF Goes
    <3>b. calls[r] = {<<"fill", x>>} /\ named[r] = {}
      BY <3>a, ReadCall
    <3>1. calls'[r] = {} /\ named[r] = {}
      BY <2>2, <3>b, GoesEffect
    <3>2. Fits(r)'
      BY <2>1, <3>1 DEF Fits
    <3>3. CacheOK'
      BY <1>a, <2>1, <2>2 DEF Typed, CacheOK
    <3>4. TablesOK' /\ HistoryOK'
      BY <2>1, <2>2 DEF Typed, TablesOK, HistoryOK, tables, history
    <3> QED
      BY <1>0, <1>a, <2>1, <2>2, <3>2, <3>3, <3>4
  <2>3. CASE op[r].name = "removeNodeComplete" /\ Purge(r, <<"fill", x>>, x, seen[r])
    BY <1>2, <1>a, <2>1, <2>3
  <2> QED
    BY <1>3, <2>2, <2>3 DEF Fill
<1>4. ASSUME NEW x \in Nodes, Look(r, x) PROVE Typed' /\ FitsInv'
  <2>1. UNCHANGED <<tables, known, seen, named, events>>
    BY <1>4 DEF Look
  <2>2. CASE Goes(r, <<"look", x>>, {<<"read", x>>}) /\ Asked(x) /\ UNCHANGED <<memory, staleEdge, torn, orphan>>
    <3>1. {<<"read", x>>} \in SUBSET (Steps \X Nodes)
      BY DEF Steps
    <3>a. <<"look", x>> \in calls[r]
      BY <2>2 DEF Goes
    <3>b. /\ calls[r] = {<<"look", x>>} /\ op[r].x = x /\ named[r] = {}
          /\ op[r] \in CreateOp \/ op[r] \in NodeOp({"removeNodeComplete"})
      BY <3>a, LookCall
    <3>2. calls'[r] = {<<"read", x>>} /\ op'[r] = op[r]
      BY <2>2, <3>1, <3>b, GoesEffect
    <3>3. Fits(r)'
      BY <2>1, <3>2, <3>b DEF Fits, Purges, Single
    <3>4. TablesOK' /\ CacheOK' /\ HistoryOK'
      BY <2>1, <2>2, HistoryTypes DEF Typed, TablesOK, CacheOK, HistoryOK, tables
    <3> QED
      BY <1>0, <1>a, <2>1, <2>2, <3>1, <3>3, <3>4
  <2>3. CASE Goes(r, <<"look", x>>, {}) /\ UNCHANGED <<memory, history>>
    <3>a. <<"look", x>> \in calls[r]
      BY <2>3 DEF Goes
    <3>b. calls[r] = {<<"look", x>>} /\ named[r] = {}
      BY <3>a, LookCall
    <3>1. calls'[r] = {} /\ named[r] = {}
      BY <2>3, <3>b, GoesEffect
    <3>2. Fits(r)'
      BY <2>1, <3>1 DEF Fits
    <3>3. TablesOK' /\ CacheOK' /\ HistoryOK'
      BY <2>1, <2>3 DEF Typed, TablesOK, CacheOK, HistoryOK, tables, history
    <3> QED
      BY <1>0, <1>a, <2>1, <2>3, <3>2, <3>3
  <2>4. CASE op[r].name = "removeNodeComplete" /\ Purge(r, <<"look", x>>, x, memory[x])
    <3>1. memory[x] \in Row
      BY DEF Typed, CacheOK
    <3> QED
      BY <1>2, <1>a, <2>1, <2>4, <3>1
  <2> QED
    BY <1>4, <2>2, <2>3, <2>4 DEF Look
<1>5. ASSUME NEW x \in Nodes, Exists(r, x) PROVE Typed' /\ FitsInv'
  <2>1. UNCHANGED <<tables, cache, seen, named, events, history>>
    BY <1>5 DEF Exists
  <2>2. ASSUME NEW s \in {"ask", "check"}, NEW next \in SUBSET (Steps \X Nodes), Goes(r, <<s, x>>, next),
               next = {} \/ (s = "ask" /\ next = {<<"drop", x>>}) \/ (s = "check" /\ next = {<<"look", x>>})
        PROVE  Typed' /\ FitsInv'
    <3>a. <<s, x>> \in calls[r]
      BY <2>2 DEF Goes
    <3>2. s = "ask" => calls[r] = {<<s, x>>} /\ op[r].x = x /\ named[r] = {} /\ op[r] \in NodeOp({"removeNode"})
      BY <3>a, AskCall
    <3>3. s = "check" => calls[r] = {<<s, x>>} /\ op[r].x = x /\ named[r] = {} /\ op[r] \in NodeOp({"removeNodeComplete"})
      BY <3>a, CheckCall
    <3>b. calls'[r] = (calls[r] \ {<<s, x>>}) \cup next /\ (calls'[r] # {} => op'[r] = op[r])
      BY <2>2, GoesEffect
    <3>1. calls'[r] = next /\ (next # {} => op'[r] = op[r])
      BY <3>2, <3>3, <3>b
    <3>4. Fits(r)'
      BY <2>1, <2>2, <3>1, <3>2, <3>3 DEF Fits, Purges, Single
    <3>5. TablesOK' /\ CacheOK' /\ HistoryOK'
      BY <2>1 DEF Typed, TablesOK, CacheOK, HistoryOK, tables, cache, history
    <3> QED
      BY <1>0, <1>a, <2>1, <2>2, <3>4, <3>5
  <2>3. {} \in SUBSET (Steps \X Nodes) /\ {<<"drop", x>>} \in SUBSET (Steps \X Nodes) /\ {<<"look", x>>} \in SUBSET (Steps \X Nodes)
    BY DEF Steps
  <2>4. CASE Goes(r, <<"ask", x>>, IF row[x] = Empty THEN {} ELSE {<<"drop", x>>})
    BY <2>2, <2>3, <2>4
  <2>5. CASE Goes(r, <<"check", x>>, IF row[x] = Empty THEN {} ELSE {<<"look", x>>})
    BY <2>2, <2>3, <2>5
  <2> QED
    BY <1>5, <2>4, <2>5 DEF Exists
<1>6. ASSUME NEW x \in Nodes, Found(r, x) PROVE Typed' /\ FitsInv'
  <2> DEFINE last == calls[r] = {<<"find", x>>}
  <2> DEFINE next == IF last THEN {<<"named", op[r].x>>} ELSE {}
  <2>1. op[r] \in FindOp /\ x \in {op[r].x, op[r].y} /\ calls[r] \subseteq {<<"find", op[r].x>>, <<"find", op[r].y>>}
    BY <1>6, FindCall DEF Found
  <2>2. next \in SUBSET (Steps \X Nodes) /\ Goes(r, <<"find", x>>, next)
    BY <1>6, <2>1 DEF Found, Steps, FindOp
  <2>3. calls'[r] # {} /\ op'[r] = op[r] /\ calls'[r] = (calls[r] \ {<<"find", x>>}) \cup next
    BY <2>2, GoesEffect
  <2>4. Fits(r)'
    BY <2>1, <2>3 DEF Fits, Finds
  <2>5. /\ named' \in [Requests -> SUBSET (Sides \X Kinds)]
        /\ \A q \in Requests : q # r => named'[q] = named[q]
    <3> DEFINE on == {k \in Kinds : <<k, Other(op[r], x)>> \in row[x].cells}
    <3> DEFINE new == {<<Side(op[r], x), k>> : k \in (IF "ec" \in on THEN {"ec"} ELSE on)}
    <3>1. named' = [named EXCEPT ![r] = @ \cup new]
      BY <1>6 DEF Found
    <3>2. new \subseteq Sides \X Kinds
      <4>1. (IF "ec" \in on THEN {"ec"} ELSE on) \subseteq Kinds
        BY DEF Kinds
      <4>2. Side(op[r], x) \in Sides
        BY DEF Side, Sides
      <4> HIDE DEF on
      <4> QED
        BY <4>1, <4>2
    <3> HIDE DEF new
    <3> QED
      BY <1>a, <3>1, <3>2
  <2>6. TablesOK' /\ CacheOK' /\ HistoryOK' /\ events' = events /\ seen' = seen
    BY <1>6 DEF Found, Typed, TablesOK, CacheOK, HistoryOK, tables, cache, history
  <2> HIDE DEF next
  <2> QED
    BY <1>0, <1>a, <2>2, <2>4, <2>5, <2>6
<1>7. ASSUME NEW x \in Nodes, Named(r, x) PROVE Typed' /\ FitsInv'
  <2> DEFINE y == op[r].y
  <2>1. op[r] \in FindOp /\ x = op[r].x /\ calls[r] = {<<"named", x>>}
    BY <1>7, NamedCall DEF Named
  <2>2. UNCHANGED <<tables, memory, seen, events>>
    BY <1>7 DEF Named
  <2>3. CASE /\ Goes(r, <<"named", x>>, {}) /\ UNCHANGED history
             /\ known' = IF named[r] = {} THEN known ELSE [known EXCEPT ![<<x, y>>] = named[r]]
             /\ named' = [named EXCEPT ![r] = {}]
    <3>1. calls'[r] = {} /\ named'[r] = {}
      BY <1>a, <2>1, <2>3, GoesEffect
    <3>2. Fits(r)'
      BY <3>1 DEF Fits
    <3>3. CacheOK'
      BY <1>a, <2>2, <2>3 DEF Typed, CacheOK
    <3>4. TablesOK' /\ HistoryOK'
      BY <2>2, <2>3 DEF Typed, TablesOK, HistoryOK, tables, history
    <3>5. named' \in [Requests -> SUBSET (Sides \X Kinds)] /\ \A q \in Requests : q # r => named'[q] = named[q]
      BY <1>a, <2>3
    <3> QED
      BY <1>0, <1>a, <2>2, <2>3, <3>2, <3>3, <3>4, <3>5
  <2>4. CASE /\ op[r].name = "removeEdge" /\ named' = named
             /\ Goes(r, <<"named", x>>, {<<"cut", x>>, <<"cut", y>>}) /\ Unlink(r, x, y)
    <3> DEFINE next == {<<"cut", x>>, <<"cut", y>>}
    <3>1. next \in SUBSET (Steps \X Nodes)
      BY <2>1 DEF Steps, FindOp
    <3>2. calls'[r] = next /\ op'[r] = op[r]
      BY <2>1, <2>4, <3>1, GoesEffect
    <3>3. Fits(r)'
      BY <2>1, <2>4, <3>2 DEF Fits, Finds
    <3>4. known' \in [Edges -> SUBSET (Sides \X Kinds)] /\ HistoryOK'
      <4>1. y \in Nodes /\ <<x, y>> \in Edges
        BY <2>1 DEF FindOp, Edges
      <4> QED
        BY <2>4, <4>1, UnlinkTypes DEF Typed
    <3>5. TablesOK' /\ CacheOK'
      BY <2>2, <3>4 DEF Typed, TablesOK, CacheOK, tables
    <3>6. Goes(r, <<"named", x>>, next)
      BY <2>4
    <3> HIDE DEF next
    <3> QED
      BY <1>0, <1>a, <2>2, <2>4, <3>1, <3>3, <3>4, <3>5, <3>6
  <2> QED
    BY <1>7, <2>3, <2>4 DEF Named
<1>8. ASSUME NEW s \in Writes, NEW x \in Nodes, <<s, x>> \in calls[r],
             calls'[r] \subseteq calls[r] \/ (s = "insert" /\ calls'[r] = {<<"look", x>>}),
             calls'[r] # {} => op'[r] = op[r], Forget(r)
      PROVE  /\ Fits(r)'
             /\ named' \in [Requests -> SUBSET (Sides \X Kinds)]
             /\ \A q \in Requests : q # r => named'[q] = named[q]
  <2>1. /\ named' \in [Requests -> SUBSET (Sides \X Kinds)]
        /\ \A q \in Requests : q # r => named'[q] = named[q]
        /\ named'[r] = IF calls'[r] = {} THEN {} ELSE named[r]
    BY <1>8, <1>a DEF Forget
  <2>2. ASSUME calls'[r] = {} PROVE Fits(r)'
    BY <2>1, <2>2 DEF Fits
  <2>3. ASSUME calls'[r] # {} /\ s = "insert" PROVE Fits(r)'
    <3>1. calls[r] = {<<"insert", x>>} /\ op[r].x = x /\ named[r] = {} /\ op[r] \in CreateOp
      BY <1>8, <2>3, InsertCall
    <3>2. calls'[r] = {<<"insert", x>>} \/ calls'[r] = {<<"look", x>>}
      BY <1>8, <2>3, <3>1
    <3> QED
      BY <1>8, <2>1, <2>3, <3>1, <3>2 DEF Fits, Single
  <2>4. ASSUME calls'[r] # {} /\ s \in {"drop"} \cup Kinds PROVE Fits(r)'
    <3>0. calls'[r] \subseteq calls[r] /\ op'[r] = op[r]
      BY <1>8, <2>4 DEF Kinds
    <3>1. \/ /\ op[r] \in NodeOp({"removeNodeComplete"})
             /\ calls'[r] \subseteq {<<"drop", op[r].x>>} \cup (Kinds \X Nodes)
          \/ op[r] \in NodeOp({"removeNode"}) /\ calls'[r] = {<<"drop", x>>} /\ op[r].x = x
      <4>1. CASE op[r] \in NodeOp({"removeNode"}) /\ op[r].x = x /\ s = "drop" /\ calls[r] = {<<s, x>>}
        BY <2>4, <3>0, <4>1
      <4>2. CASE op[r] \in NodeOp({"removeNodeComplete"}) /\ calls[r] \subseteq {<<"drop", op[r].x>>} \cup (Kinds \X Nodes)
        <5> DEFINE B == {<<"drop", op[r].x>>} \cup (Kinds \X Nodes)
        <5>1. calls[r] \subseteq B
          BY <4>2
        <5> HIDE DEF B
        <5>2. calls'[r] \subseteq B
          BY <3>0, <5>1
        <5> QED
          BY <4>2, <5>2 DEF B
      <4> QED
        BY <1>8, <2>4, <4>1, <4>2, DropCall
    <3>2. named[r] = {} /\ named'[r] = {}
      BY <1>8, <2>1, <2>4, DropCall
    <3>3. CASE op[r] \in NodeOp({"removeNodeComplete"}) /\ calls'[r] \subseteq {<<"drop", op[r].x>>} \cup (Kinds \X Nodes)
      <4>1. Purges(r)'
        BY <3>0, <3>3 DEF Purges
      <4> QED
        BY <3>2, <4>1 DEF Fits
    <3>4. CASE op[r] \in NodeOp({"removeNode"}) /\ calls'[r] = {<<"drop", x>>} /\ op[r].x = x
      <4>1. op'[r] \in NodeOp({"removeNode"}) /\ Single(r, {"ask", "drop"})'
        BY <3>0, <3>4 DEF Single
      <4> QED
        BY <3>2, <4>1 DEF Fits
    <3> QED
      BY <3>1, <3>3, <3>4
  <2>5. ASSUME calls'[r] # {} /\ s \in {"write", "pop"} PROVE Fits(r)'
    <3>1. named[r] = {} /\ Links(r)
      BY <1>8, <2>5, LinkCall
    <3> QED
      BY <1>8, <2>1, <2>5, <3>1 DEF Fits, Links
  <2>6. ASSUME calls'[r] # {} /\ s = "cut" PROVE Fits(r)'
    <3>1. op[r] \in FindOp /\ op[r].name = "removeEdge" /\ calls[r] \subseteq {<<"cut", op[r].x>>, <<"cut", op[r].y>>}
      BY <1>8, <2>6, CutCall
    <3>2. calls'[r] \subseteq calls[r] /\ op'[r] = op[r]
      BY <1>8, <2>6
    <3> DEFINE B == {<<"cut", op[r].x>>, <<"cut", op[r].y>>}
    <3>4. calls'[r] \subseteq B
      <4>1. calls[r] \subseteq B
        BY <3>1
      <4> HIDE DEF B
      <4> QED
        BY <3>2, <4>1
    <3>3. Finds(r)'
      BY <3>1, <3>2, <3>4 DEF Finds, FindOp
    <3> QED
      BY <2>6, <3>3 DEF Fits
  <2>7. Fits(r)'
    BY <2>2, <2>3, <2>4, <2>5, <2>6 DEF Writes
  <2> QED
    BY <2>1, <2>7
<1>9. ASSUME NEW s \in Writes, NEW x \in Nodes, Write(r, s, x) PROVE Typed' /\ FitsInv'
  <2> DEFINE next == IF s = "insert" THEN {<<"look", x>>} ELSE {}
  <2>1. next \in SUBSET (Steps \X Nodes) /\ Goes(r, <<s, x>>, next) /\ Forget(r) /\ Effect(r, s, x)
    BY <1>9 DEF Write, Steps
  <2>2. <<s, x>> \in calls[r] /\ calls'[r] = (calls[r] \ {<<s, x>>}) \cup next /\ (calls'[r] # {} => op'[r] = op[r])
    BY <2>1, GoesEffect
  <2>3. s = "insert" => calls[r] = {<<s, x>>}
    BY <2>2, InsertCall
  <2>4. /\ Fits(r)'
        /\ named' \in [Requests -> SUBSET (Sides \X Kinds)]
        /\ \A q \in Requests : q # r => named'[q] = named[q]
    BY <1>8, <2>1, <2>2, <2>3
  <2>5. TablesOK'
    BY <2>1, <2>2, EffectTypes
  <2>6. CacheOK' /\ HistoryOK' /\ seen' = seen /\ events' = events
    BY <1>9 DEF Write, Typed, CacheOK, HistoryOK, cache, history
  <2> HIDE DEF next
  <2> QED
    BY <1>0, <1>a, <2>1, <2>4, <2>5, <2>6
<1>10. ASSUME NEW s \in Writes, NEW x \in Nodes, FailWrite(r, s, x) PROVE Typed' /\ FitsInv'
  <2>1. /\ {} \in SUBSET (Steps \X Nodes) /\ Goes(r, <<s, x>>, {}) /\ Forget(r)
        /\ Effect(r, s, x) \/ UNCHANGED tables
        /\ events' = events + 1 /\ events < MaxEvents
        /\ UNCHANGED <<cache, seen, stale, staleEdge>>
    BY <1>10 DEF FailWrite
  <2>2. <<s, x>> \in calls[r] /\ calls'[r] \subseteq calls[r] /\ (calls'[r] # {} => op'[r] = op[r])
    BY <2>1, GoesEffect
  <2>3. /\ Fits(r)'
        /\ named' \in [Requests -> SUBSET (Sides \X Kinds)]
        /\ \A q \in Requests : q # r => named'[q] = named[q]
    BY <1>8, <2>1, <2>2
  <2>4. TablesOK'
    <3>1. CASE Effect(r, s, x)
      BY <2>2, <3>1, EffectTypes
    <3>2. CASE UNCHANGED tables
      BY <3>2 DEF tables, Typed, TablesOK
    <3> QED
      BY <2>1, <3>1, <3>2
  <2>6. torn' \subseteq SUBSET Nodes
    BY <1>10, HistoryTypes DEF FailWrite, Typed, HistoryOK
  <2>7. orphan' \subseteq Nodes \X Nodes
    <3>1. orphan' \subseteq orphan \cup ({op[r].x} \X Nodes)
      BY <1>10 DEF FailWrite
    <3>2. s \in {"write"} \cup Kinds => op[r].x \in Nodes
      BY <2>2, LinkCall, DropCall DEF Links, LinkOp, NodeOp
    <3>3. s \notin {"write"} \cup Kinds => orphan' = orphan
      BY <1>10 DEF FailWrite
    <3> QED
      BY <3>1, <3>2, <3>3 DEF Typed, HistoryOK
  <2>8. CacheOK' /\ HistoryOK' /\ seen' = seen
    BY <2>1, <2>6, <2>7 DEF Typed, CacheOK, HistoryOK, cache
  <2> QED
    BY <1>0, <1>a, <1>b, <2>1, <2>3, <2>4, <2>8
<1>11. ASSUME NEW s \in {"read", "find", "ask", "check"}, NEW x \in Nodes, FailRead(r, s, x) PROVE Typed' /\ FitsInv'
  <2> DEFINE last == calls[r] = {<<"find", x>>}
  <2> DEFINE next == IF last THEN {<<"named", op[r].x>>} ELSE {}
  <2>1. /\ Goes(r, <<s, x>>, next) /\ <<s, x>> \in calls[r]
        /\ events' = events + 1 /\ events < MaxEvents
        /\ UNCHANGED <<tables, cache, seen, named, stale, staleEdge, orphan>>
    BY <1>11 DEF FailRead, Goes
  <2>2. s = "find" => op[r] \in FindOp /\ calls[r] \subseteq {<<"find", op[r].x>>, <<"find", op[r].y>>}
    BY <2>1, FindCall
  <2>3. s # "find" => next = {} /\ calls[r] = {<<s, x>>} /\ named[r] = {}
    <3>1. s = "read" => calls[r] = {<<s, x>>} /\ named[r] = {}
      BY <2>1, ReadCall
    <3>2. s = "ask" => calls[r] = {<<s, x>>} /\ named[r] = {}
      BY <2>1, AskCall
    <3>3. s = "check" => calls[r] = {<<s, x>>} /\ named[r] = {}
      BY <2>1, CheckCall
    <3>4. s # "find" => calls[r] = {<<s, x>>} /\ named[r] = {} /\ <<s, x>> # <<"find", x>>
      BY <3>1, <3>2, <3>3
    <3> QED
      BY <3>4
  <2>4. next \in SUBSET (Steps \X Nodes)
    BY <2>2, <2>3 DEF Steps, FindOp
  <2>5. calls'[r] = (calls[r] \ {<<s, x>>}) \cup next /\ (calls'[r] # {} => op'[r] = op[r])
    BY <2>1, <2>4, GoesEffect
  <2>6. Fits(r)'
    <3>1. CASE s = "find"
      <4>1. calls'[r] # {} /\ op'[r] = op[r]
        BY <2>1, <2>5, <3>1
      <4> QED
        BY <2>1, <2>2, <2>5, <3>1, <4>1 DEF Fits, Finds
    <3>2. CASE s # "find"
      BY <2>1, <2>3, <2>5, <3>2 DEF Fits
    <3> QED
      BY <3>1, <3>2
  <2>7. torn' \subseteq SUBSET Nodes
    BY <1>11, HistoryTypes DEF FailRead, Typed, HistoryOK
  <2>8. TablesOK' /\ CacheOK' /\ HistoryOK' /\ seen' = seen /\ named' = named
    BY <2>1, <2>7 DEF Typed, TablesOK, CacheOK, HistoryOK, cache, tables
  <2> HIDE DEF next
  <2> QED
    BY <1>0, <1>a, <1>b, <2>1, <2>4, <2>6, <2>8
<1> QED
  BY <1>1, <1>3, <1>4, <1>5, <1>6, <1>7, <1>9, <1>10, <1>11 DEF Answers

\* Types, with what requests await.
LEMMA TypesStep ==
  Typed /\ FitsInv /\ [Next]_vars => Typed' /\ FitsInv'
<1> SUFFICES ASSUME Typed, FitsInv, [Next]_vars PROVE Typed' /\ FitsInv'
  OBVIOUS
<1>0. ASSUME UNCHANGED <<tables, requests, events, torn, orphan>>, CacheOK',
             stale' \subseteq stale, staleEdge' \subseteq staleEdge
      PROVE  Typed' /\ FitsInv'
  <2>1. \A q \in Requests : Fits(q)'
    BY <1>0, FitsOther DEF FitsInv, requests
  <2> QED
    BY <1>0, <2>1 DEF FitsInv, Typed, TablesOK, RequestsOK, HistoryOK, tables, requests
<1>1. ASSUME NEW r \in Requests, Routes(r) PROVE Typed' /\ FitsInv'
  BY <1>1, RouteTypes
<1>2. ASSUME NEW r \in Requests, Answers(r) PROVE Typed' /\ FitsInv'
  BY <1>2, AnswerTypes
<1>3. ASSUME NEW x \in Nodes, EvictNode(x) PROVE Typed' /\ FitsInv'
  <2>1. CacheOK'
    BY <1>3, DropTypes DEF EvictNode, Typed, CacheOK
  <2> QED
    BY <1>0, <1>3, <2>1 DEF EvictNode
<1>4. ASSUME NEW e \in Edges, EvictEdge(e) PROVE Typed' /\ FitsInv'
  <2>1. CacheOK'
    BY <1>4 DEF EvictEdge, Typed, CacheOK
  <2> QED
    BY <1>0, <1>4, <2>1 DEF EvictEdge
<1>5. CASE UNCHANGED vars
  <2>1. CacheOK'
    BY <1>5 DEF vars, cache, Typed, CacheOK
  <2> QED
    BY <1>0, <1>5, <2>1 DEF vars, history
<1> QED
  BY <1>1, <1>2, <1>3, <1>4, <1>5 DEF Next, Evict

\* The types hold at first.
LEMMA InitTypes == Init => Typed /\ FitsInv
<1> SUFFICES ASSUME Init PROVE Typed /\ FitsInv
  OBVIOUS
<1>1. TablesOK /\ CacheOK
  BY EmptyRow DEF Init, TablesOK, CacheOK
<1>2. RequestsOK /\ HistoryOK
  BY EmptyRow, IdleOp DEF Init, RequestsOK, HistoryOK
<1>3. FitsInv
  BY DEF Init, FitsInv, Fits
<1>4. events \in 0..MaxEvents
  BY StoreAssumption DEF Init
<1> QED
  BY <1>1, <1>2, <1>3, <1>4 DEF Typed

\* The type invariant: requests, tables, caches and history keep their types.
THEOREM TypeCorrect == Spec => []TypeOK
BY InitTypes, TypesStep, TypedIs, PTL DEF Spec

-----------------------------------------------------------------------------
(* Fresh.                                                                  *)

\* The copy of x, and the answers on their way to become it, are the row; while
\* the row is written there is neither.
Coherent(x) ==
  /\ memory[x] # Empty => memory[x] = row[x]
  /\ \A r \in Requests : <<"fill", x>> \in calls[r] => seen[r] = row[x]
  /\ Writing(x) => memory[x] = Empty /\ ~Reading(Requests, x)

FreshInv == \A x \in Nodes \ stale : Coherent(x)

WriteSteps == {"insert", "write", "cut", "ask", "drop"}
ReadSteps == {"read", "fill"}

\* What it means that a row is written, by request.
LEMMA WritingIs ==
  ASSUME NEW x
  PROVE  /\ Writing(x) <=> \E r \in Requests, s \in WriteSteps : <<s, x>> \in calls[r]
         /\ Writing(x)' <=> \E r \in Requests, s \in WriteSteps : <<s, x>> \in calls'[r]
BY DEF Writing, Dropping, WriteSteps

\* What it means that a row is read, by request.
LEMMA ReadingIs ==
  ASSUME NEW x
  PROVE  /\ Reading(Requests, x) <=> \E r \in Requests, s \in ReadSteps : <<s, x>> \in calls[r]
         /\ Reading(Requests, x)' <=> \E r \in Requests, s \in ReadSteps : <<s, x>> \in calls'[r]
BY DEF Reading, ReadSteps

\* Nothing new happens to x.
CalmAt(x) ==
  /\ row'[x] = row[x]
  /\ memory'[x] = memory[x] \/ memory'[x] = Empty
  /\ \A q \in Requests : <<"fill", x>> \in calls'[q] => <<"fill", x>> \in calls[q] /\ seen'[q] = seen[q]
  /\ \A q \in Requests : <<"read", x>> \in calls'[q] => <<"read", x>> \in calls[q]
  /\ \A q \in Requests, s \in WriteSteps :
        <<s, x>> \in calls'[q] => \E t \in WriteSteps : <<t, x>> \in calls[q]

\* A step that leaves cache, tables and calls of a row alone keeps its copy.
LEMMA Calm ==
  ASSUME NEW x \in Nodes, Coherent(x), CalmAt(x)
  PROVE  Coherent(x)'
<1>1. Writing(x)' => Writing(x)
  BY WritingIs DEF CalmAt
<1>2. Reading(Requests, x)' => Reading(Requests, x)
  BY ReadingIs DEF ReadSteps, CalmAt
<1> QED
  BY <1>1, <1>2 DEF Coherent, CalmAt

\* There is no copy of x, and nobody reads it.
LEMMA Clear ==
  ASSUME NEW x \in Nodes, memory'[x] = Empty,
         \A q \in Requests, s \in ReadSteps : <<s, x>> \notin calls'[q]
  PROVE  Coherent(x)'
<1>1. ~Reading(Requests, x)'
  BY ReadingIs
<1> QED
  BY <1>1 DEF Coherent, ReadSteps

\* Request r sends writes to the rows of W and reads none itself.
LEMMA SendStep ==
  ASSUME FreshInv, NEW r \in Requests, NEW W, NEW kept, NEW x \in Nodes, x \notin stale', Sent(r, W, kept),
         row' = row, memory'[x] = memory[x] \/ memory'[x] = Empty, x \in W /\ x \notin kept => memory'[x] = Empty,
         \A q \in Requests : q # r => calls'[q] = calls[q] /\ seen'[q] = seen[q],
         \A s \in ReadSteps : <<s, x>> \notin calls'[r],
         x \notin W => \A s \in WriteSteps : <<s, x>> \in calls'[r] => \E t \in WriteSteps : <<t, x>> \in calls[r]
  PROVE  Coherent(x)'
<1>1. CASE x \in W
  <2>1. ~Reading(Requests \ {r}, x) /\ (x \in kept => memory[x] = Empty)
    BY <1>1 DEF Sent
  <2>2. \A q \in Requests, s \in ReadSteps : <<s, x>> \notin calls'[q]
    BY <2>1 DEF Reading, ReadSteps
  <2>3. memory'[x] = Empty
    BY <1>1, <2>1
  <2> QED
    BY <2>2, <2>3, Clear
<1>2. CASE x \notin W
  <2>1. Coherent(x)
    BY <1>2 DEF Sent, FreshInv
  <2>2. \A q \in Requests, s \in WriteSteps : <<s, x>> \in calls'[q] => \E t \in WriteSteps : <<t, x>> \in calls[q]
    BY <1>2
  <2>3. \A q \in Requests :
          /\ <<"fill", x>> \in calls'[q] => <<"fill", x>> \in calls[q] /\ seen'[q] = seen[q]
          /\ <<"read", x>> \in calls'[q] => <<"read", x>> \in calls[q]
    BY DEF ReadSteps
  <2>4. CalmAt(x)
    BY <2>2, <2>3 DEF CalmAt
  <2> QED
    BY <2>1, <2>4, Calm
<1> QED
  BY <1>1, <1>2

\* Request r asks for the row of y.
LEMMA AskStep ==
  ASSUME FreshInv, NEW r \in Requests, NEW y \in Nodes, Asked(y), calls'[r] = {<<"read", y>>},
         memory[y] = Empty, UNCHANGED <<row, memory, seen>>,
         \A q \in Requests : q # r => calls'[q] = calls[q],
         NEW x \in Nodes, x \notin stale'
  PROVE  Coherent(x)'
<1>1. Coherent(x)
  BY DEF Asked, FreshInv
<1>2. CASE x # y
  <2>1. CalmAt(x)
    BY <1>2 DEF CalmAt, WriteSteps
  <2> QED
    BY <1>1, <2>1, Calm
<1>3. CASE x = y
  <2>1. ~Writing(x)
    BY <1>3 DEF Asked
  <2>2. ~Writing(x)'
    BY <2>1, WritingIs DEF WriteSteps
  <2>3. \A q \in Requests : <<"fill", x>> \in calls'[q] => <<"fill", x>> \in calls[q]
    OBVIOUS
  <2> QED
    BY <1>1, <1>3, <2>2, <2>3 DEF Coherent
<1> QED
  BY <1>2, <1>3

\* A call that reads or writes no row ends, and perhaps begins others like it.
LEMMA OtherStep ==
  ASSUME FreshInv, NEW r \in Requests, NEW x \in Nodes, x \notin stale', stale' = stale, row'[x] = row[x],
         memory'[x] = memory[x], seen' = seen,
         \A q \in Requests : q # r => calls'[q] = calls[q],
         \A s \in WriteSteps \cup ReadSteps : <<s, x>> \in calls'[r] =>
             IF s \in WriteSteps THEN \E t \in WriteSteps : <<t, x>> \in calls[r] ELSE <<s, x>> \in calls[r]
  PROVE  Coherent(x)'
<1>1. Coherent(x)
  BY DEF FreshInv
<1>2. \A q \in Requests, s \in WriteSteps : <<s, x>> \in calls'[q] => \E t \in WriteSteps : <<t, x>> \in calls[q]
  OBVIOUS
<1>3. \A q \in Requests, s \in ReadSteps : <<s, x>> \in calls'[q] => <<s, x>> \in calls[q]
  BY DEF ReadSteps, WriteSteps
<1>4. CalmAt(x)
  BY <1>2, <1>3 DEF CalmAt, ReadSteps
<1> QED
  BY <1>1, <1>4, Calm

\* The effect of a write on x.
LEMMA RowAfter ==
  ASSUME Typed, NEW r \in Requests, NEW s \in Writes, NEW x \in Nodes, Effect(r, s, x), NEW y \in Nodes
  PROVE  /\ y # x => row'[y] = row[y]
         /\ s \notin WriteSteps => row' = row
<1>1. \A R : y # x => [row EXCEPT ![x] = R][y] = row[y]
  BY DEF Typed, TablesOK
<1>2. ASSUME s = "write" PROVE y # x => row'[y] = row[y]
  <2>1. row' = Written(op[r], x)
    BY <1>2 DEF Effect, Kinds
  <2> QED
    BY <2>1 DEF Written, Typed, TablesOK
<1>3. ASSUME s = "cut" PROVE y # x => row'[y] = row[y]
  <2>1. \E cells : row' = Without(cells, x)
    BY <1>3 DEF Effect, Kinds
  <2> QED
    BY <2>1 DEF Without, Typed, TablesOK
<1>4. ASSUME s \in {"insert", "drop"} PROVE y # x => row'[y] = row[y]
  BY <1>4 DEF Effect, Kinds, Typed, TablesOK
<1>5. ASSUME s \in {"pop"} \cup Kinds PROVE row' = row
  BY <1>5 DEF Effect, Kinds
<1> QED
  BY <1>2, <1>3, <1>4, <1>5 DEF Writes, WriteSteps

\* A request that comes in keeps copies fresh.
LEMMA RouteFresh ==
  ASSUME Typed, FitsInv, FreshInv, NEW r \in Requests, Routes(r), NEW x \in Nodes, x \notin stale'
  PROVE  Coherent(x)'
<1>0. ASSUME NEW o, NEW first, Begin(r, o, first)
      PROVE  /\ calls[r] = {} /\ calls'[r] = first /\ row' = row /\ seen' = seen
             /\ \A q \in Requests : q # r => calls'[q] = calls[q]
  BY <1>0 DEF Begin, tables, Typed, RequestsOK
<1>1. ASSUME NEW y \in Nodes, GetNode(r, y) PROVE Coherent(x)'
  <2>1. Begin(r, [name |-> "getNode", x |-> y], {<<"read", y>>}) /\ Asked(y) /\ memory[y] = Empty /\ memory' = memory
    BY <1>1 DEF GetNode, cache
  <2>2. /\ calls'[r] = {<<"read", y>>} /\ row' = row /\ seen' = seen
        /\ \A q \in Requests : q # r => calls'[q] = calls[q]
    BY <1>0, <2>1
  <2> QED
    BY <2>1, <2>2, AskStep
<1>2. ASSUME NEW y \in Nodes, NEW d \in Data, CreateNode(r, y, d) PROVE Coherent(x)'
  <2>1. /\ Begin(r, [name |-> "createNode", x |-> y, data |-> d], {<<"insert", y>>})
        /\ Sent(r, {y}, {y}) /\ memory' = memory
    BY <1>2 DEF CreateNode, cache
  <2>2. /\ calls'[r] = {<<"insert", y>>} /\ row' = row /\ seen' = seen
        /\ \A q \in Requests : q # r => calls'[q] = calls[q]
    BY <1>0, <2>1
  <2>3. \A s \in ReadSteps : <<s, x>> \notin calls'[r]
    BY <2>2 DEF ReadSteps
  <2>4. x \notin {y} => \A s \in WriteSteps : <<s, x>> \in calls'[r] => \E t \in WriteSteps : <<t, x>> \in calls[r]
    BY <2>2
  <2> QED
    BY <2>1, <2>2, <2>3, <2>4, SendStep
<1>3. ASSUME NEW y \in Nodes, RemoveNode(r, y) PROVE Coherent(x)'
  <2>1. Begin(r, [name |-> "removeNode", x |-> y], {<<"ask", y>>}) /\ Sent(r, {y}, {}) /\ Drop({y})
    BY <1>3 DEF RemoveNode
  <2>2. /\ calls'[r] = {<<"ask", y>>} /\ row' = row /\ seen' = seen
        /\ \A q \in Requests : q # r => calls'[q] = calls[q]
    BY <1>0, <2>1
  <2>3. \A s \in ReadSteps : <<s, x>> \notin calls'[r]
    BY <2>2 DEF ReadSteps
  <2>4. x \notin {y} => \A s \in WriteSteps : <<s, x>> \in calls'[r] => \E t \in WriteSteps : <<t, x>> \in calls[r]
    BY <2>2
  <2>5. memory'[x] = IF x \in {y} THEN Empty ELSE memory[x]
    BY <2>1, DropTypes DEF Typed
  <2> QED
    BY <2>1, <2>2, <2>3, <2>4, <2>5, SendStep
<1>4. ASSUME NEW y \in Nodes, RemoveNodeComplete(r, y) PROVE Coherent(x)'
  <2>1. Begin(r, [name |-> "removeNodeComplete", x |-> y], {<<"check", y>>}) /\ stale' = stale /\ memory' = memory
    BY <1>4 DEF RemoveNodeComplete, cache, history
  <2>2. /\ calls'[r] = {<<"check", y>>} /\ row' = row /\ seen' = seen
        /\ \A q \in Requests : q # r => calls'[q] = calls[q]
    BY <1>0, <2>1
  <2> QED
    BY <2>1, <2>2, OtherStep DEF ReadSteps, WriteSteps
<1>b. ASSUME NEW o, NEW y, NEW z, o.x = y, o.y = z, NEW D, Drop(D), NEW W, NEW kept, Begin(r, o, EdgeCalls(o)),
             W = (IF o.popular THEN {y} ELSE {y, z}), Sent(r, W, kept), W \ kept \subseteq D
      PROVE  Coherent(x)'
  <2>1. /\ calls'[r] = EdgeCalls(o) /\ row' = row /\ seen' = seen
        /\ \A q \in Requests : q # r => calls'[q] = calls[q]
    BY <1>0, <1>b
  <2>2. \A s \in ReadSteps : <<s, x>> \notin calls'[r]
    BY <2>1 DEF ReadSteps, EdgeCalls
  <2>3. x \notin W => \A s \in WriteSteps : <<s, x>> \notin calls'[r]
    BY <1>b, <2>1 DEF WriteSteps, EdgeCalls
  <2>4. memory'[x] = IF x \in D THEN Empty ELSE memory[x]
    BY <1>b, DropTypes DEF Typed
  <2>5. x \in W /\ x \notin kept => memory'[x] = Empty
    BY <1>b, <2>4
  <2> QED
    BY <1>b, <2>1, <2>2, <2>3, <2>4, <2>5, SendStep
<1>5. ASSUME NEW y \in Nodes, NEW z \in Nodes, NEW k \in Kinds, NEW p \in BOOLEAN, CreateEdge(r, y, z, k, p)
      PROVE  Coherent(x)'
  <2> DEFINE o == [name |-> "createEdge", x |-> y, y |-> z, kind |-> k, by |-> 1, popular |-> p]
  <2> DEFINE W == IF p THEN {y} ELSE {y, z}
  <2>1. Begin(r, o, EdgeCalls(o)) /\ Drop(W) /\ Sent(r, W, {})
    BY <1>5 DEF CreateEdge
  <2>2. o.x = y /\ o.y = z /\ o.popular = p
    OBVIOUS
  <2>3. W = (IF o.popular THEN {y} ELSE {y, z}) /\ W \ {} \subseteq W
    BY <2>2
  <2> HIDE DEF o, W
  <2> QED
    BY <1>b, <2>1, <2>2, <2>3
<1>6. ASSUME NEW y \in Nodes, NEW z \in Nodes, NEW by \in {1, -1}, NEW p \in BOOLEAN, Depth(r, y, z, by, p)
      PROVE  Coherent(x)'
  <2> DEFINE o == [name |-> "depth", x |-> y, y |-> z, kind |-> "ed", by |-> by, popular |-> p]
  <2> DEFINE W == IF p THEN {y} ELSE {y, z}
  <2>1. Begin(r, o, EdgeCalls(o)) /\ Drop({y}) /\ Sent(r, W, {z})
    BY <1>6 DEF Depth
  <2>2. o.x = y /\ o.y = z /\ o.popular = p
    OBVIOUS
  <2>3. W = (IF o.popular THEN {y} ELSE {y, z}) /\ W \ {z} \subseteq {y}
    BY <2>2
  <2> HIDE DEF o, W
  <2> QED
    BY <1>b, <2>1, <2>2, <2>3
<1>7. ASSUME NEW y \in Nodes, NEW z \in Nodes, NEW name, Find(r, y, z, name) PROVE Coherent(x)'
  <2>1. Begin(r, [name |-> name, x |-> y, y |-> z], {<<"find", y>>, <<"find", z>>}) /\ stale' = stale /\ memory' = memory
    BY <1>7 DEF Find, cache
  <2>2. /\ calls'[r] = {<<"find", y>>, <<"find", z>>} /\ row' = row /\ seen' = seen
        /\ \A q \in Requests : q # r => calls'[q] = calls[q]
    BY <1>0, <2>1
  <2> QED
    BY <2>1, <2>2, OtherStep DEF ReadSteps, WriteSteps
<1>8. ASSUME NEW y \in Nodes, NEW z \in Nodes, RemoveEdgeHit(r, y, z) PROVE Coherent(x)'
  <2>1. /\ Begin(r, [name |-> "removeEdge", x |-> y, y |-> z], {<<"cut", y>>, <<"cut", z>>})
        /\ Sent(r, {y, z}, {y, z}) /\ memory' = memory
    BY <1>8 DEF RemoveEdgeHit, Unlink
  <2>2. /\ calls'[r] = {<<"cut", y>>, <<"cut", z>>} /\ row' = row /\ seen' = seen
        /\ \A q \in Requests : q # r => calls'[q] = calls[q]
    BY <1>0, <2>1
  <2>3. \A s \in ReadSteps : <<s, x>> \notin calls'[r]
    BY <2>2 DEF ReadSteps
  <2>4. x \notin {y, z} => \A s \in WriteSteps : <<s, x>> \notin calls'[r]
    BY <2>2
  <2> QED
    BY <2>1, <2>2, <2>3, <2>4, SendStep
<1> QED
  BY <1>1, <1>2, <1>3, <1>4, <1>5, <1>6, <1>7, <1>8 DEF Routes, NodeRoutes, EdgeRoutes, Edges

\* So does an answer.
LEMMA AnswerFresh ==
  ASSUME Typed, FitsInv, FreshInv, NEW r \in Requests, Answers(r), NEW x \in Nodes, x \notin stale'
  PROVE  Coherent(x)'
<1>0. ASSUME NEW c, NEW next, Goes(r, c, next)
      PROVE  /\ c \in calls[r] /\ calls'[r] = (calls[r] \ {c}) \cup next
             /\ \A q \in Requests : q # r => calls'[q] = calls[q]
  BY <1>0 DEF Goes, Typed, RequestsOK
<1>1. ASSUME NEW y \in Nodes, Read(r, y) PROVE Coherent(x)'
  <2>1. /\ Goes(r, <<"read", y>>, {<<"fill", y>>}) /\ UNCHANGED <<row, memory, stale>>
        /\ seen' = [seen EXCEPT ![r] = row[y]]
    BY <1>1 DEF Read, tables, cache, history
  <2>2. calls[r] = {<<"read", y>>}
    BY <1>0, <2>1, ReadCall
  <2>3. calls'[r] = {<<"fill", y>>} /\ \A q \in Requests : q # r => calls'[q] = calls[q]
    BY <1>0, <2>1, <2>2
  <2>4. seen'[r] = row[y] /\ \A q \in Requests : q # r => seen'[q] = seen[q]
    BY <2>1 DEF Typed, RequestsOK
  <2>5. Coherent(x)
    BY <2>1 DEF FreshInv
  <2>6. Writing(x)' => Writing(x)
    BY <2>3, WritingIs DEF WriteSteps
  <2>7. Reading(Requests, x)' => Reading(Requests, x)
    BY <2>2, <2>3, ReadingIs DEF ReadSteps
  <2> QED
    BY <2>1, <2>3, <2>4, <2>5, <2>6, <2>7 DEF Coherent
<1>2. ASSUME NEW y \in Nodes, NEW copy \in Row, NEW s \in {"look", "fill"}, Purge(r, <<s, y>>, y, copy),
             \A q \in Requests : q # r => seen'[q] = seen[q], row' = row
      PROVE  Coherent(x)'
  <2>1. Goes(r, <<s, y>>, {<<"drop", y>>} \cup Shown(copy)) /\ Drop({y}) /\ Sent(r, {y}, {})
    BY <1>2 DEF Purge
  <2>2. calls[r] = {<<s, y>>}
    <3>1. <<s, y>> \in calls[r]
      BY <1>0, <2>1
    <3>2. CASE s = "look"
      BY <3>1, <3>2, LookCall
    <3>3. CASE s = "fill"
      BY <3>1, <3>3, ReadCall
    <3> QED
      BY <3>2, <3>3
  <2>3. calls'[r] = {<<"drop", y>>} \cup Shown(copy) /\ \A q \in Requests : q # r => calls'[q] = calls[q]
    BY <1>0, <2>1, <2>2
  <2>4. Shown(copy) \subseteq Kinds \X Nodes
    BY <1>2, PurgeTypes
  <2>5. \A t \in ReadSteps : <<t, x>> \notin calls'[r]
    BY <2>3, <2>4 DEF ReadSteps, Kinds
  <2>6. x \notin {y} => \A t \in WriteSteps : <<t, x>> \notin calls'[r]
    BY <2>3, <2>4 DEF WriteSteps, Kinds
  <2>7. memory'[x] = IF x \in {y} THEN Empty ELSE memory[x]
    BY <2>1, DropTypes DEF Typed
  <2> QED
    BY <1>2, <2>1, <2>3, <2>5, <2>6, <2>7, SendStep
<1>3. ASSUME NEW y \in Nodes, Fill(r, y) PROVE Coherent(x)'
  <2>1. seen' = [seen EXCEPT ![r] = Empty] /\ row' = row
    BY <1>3 DEF Fill, tables
  <2>2. \A q \in Requests : q # r => seen'[q] = seen[q]
    BY <2>1 DEF Typed, RequestsOK
  <2>3. CASE Goes(r, <<"fill", y>>, {}) /\ memory' = (IF seen[r] = Empty THEN memory ELSE [memory EXCEPT ![y] = seen[r]])
             /\ UNCHANGED history
    <3>1. <<"fill", y>> \in calls[r] /\ calls[r] = {<<"fill", y>>}
      BY <1>0, <2>3, ReadCall
    <3>2. calls'[r] = {} /\ \A q \in Requests : q # r => calls'[q] = calls[q]
      BY <1>0, <2>3, <3>1
    <3>3. Coherent(x) /\ stale' = stale
      BY <2>3 DEF FreshInv, history
    <3>4. CASE x # y
      <4>1. memory'[x] = memory[x]
        BY <2>3, <3>4 DEF Typed, CacheOK
      <4>2. CalmAt(x)
        BY <2>1, <2>2, <3>2, <4>1 DEF CalmAt
      <4> QED
        BY <3>3, <4>2, Calm
    <3>5. CASE x = y
      <4>1. seen[r] = row[x] /\ ~Writing(x)
        <5>1. Reading(Requests, x)
          BY <3>1, <3>5, ReadingIs DEF ReadSteps
        <5> QED
          BY <3>1, <3>3, <3>5, <5>1 DEF Coherent
      <4>2. ~Writing(x)'
        BY <3>2, <4>1, WritingIs
      <4>3. memory'[x] = memory[x] \/ memory'[x] = row[x]
        BY <2>3, <3>5, <4>1 DEF Typed, CacheOK
      <4> QED
        BY <2>1, <2>2, <3>2, <3>3, <4>2, <4>3 DEF Coherent
    <3> QED
      BY <3>4, <3>5
  <2>4. CASE Purge(r, <<"fill", y>>, y, seen[r])
    <3>1. seen[r] \in Row
      BY DEF Typed, RequestsOK
    <3> QED
      BY <1>2, <2>1, <2>2, <2>4, <3>1
  <2> QED
    BY <1>3, <2>3, <2>4 DEF Fill
<1>4. ASSUME NEW y \in Nodes, Look(r, y) PROVE Coherent(x)'
  <2>1. UNCHANGED <<row, seen>>
    BY <1>4 DEF Look, tables
  <2>2. CASE memory[y] = Empty /\ Goes(r, <<"look", y>>, {<<"read", y>>}) /\ Asked(y) /\ memory' = memory
    <3>1. calls[r] = {<<"look", y>>}
      BY <1>0, <2>2, LookCall
    <3>2. calls'[r] = {<<"read", y>>} /\ \A q \in Requests : q # r => calls'[q] = calls[q]
      BY <1>0, <2>2, <3>1
    <3> QED
      BY <2>1, <2>2, <3>2, AskStep
  <2>3. CASE Goes(r, <<"look", y>>, {}) /\ UNCHANGED <<memory, history>>
    <3>1. /\ calls'[r] \subseteq calls[r] /\ stale' = stale
          /\ \A q \in Requests : q # r => calls'[q] = calls[q]
      BY <1>0, <2>3 DEF history
    <3> QED
      BY <2>1, <2>3, <3>1, OtherStep
  <2>4. CASE Purge(r, <<"look", y>>, y, memory[y])
    <3>1. memory[y] \in Row
      BY DEF Typed, CacheOK
    <3> QED
      BY <1>2, <2>1, <2>4, <3>1
  <2> QED
    BY <1>4, <2>2, <2>3, <2>4 DEF Look
<1>5. ASSUME NEW y \in Nodes, Exists(r, y) PROVE Coherent(x)'
  <2>1. UNCHANGED <<row, memory, seen, stale>>
    BY <1>5 DEF Exists, tables, cache, history
  <2>2. /\ \A q \in Requests : q # r => calls'[q] = calls[q]
        /\ \A s \in WriteSteps : <<s, x>> \in calls'[r] => \E t \in WriteSteps : <<t, x>> \in calls[r]
        /\ \A s \in ReadSteps : <<s, x>> \in calls'[r] => <<s, x>> \in calls[r]
    <3>1. CASE Goes(r, <<"ask", y>>, IF row[y] = Empty THEN {} ELSE {<<"drop", y>>})
      BY <1>0, <3>1 DEF WriteSteps, ReadSteps
    <3>2. CASE Goes(r, <<"check", y>>, IF row[y] = Empty THEN {} ELSE {<<"look", y>>})
      BY <1>0, <3>2 DEF WriteSteps, ReadSteps
    <3> QED
      BY <1>5, <3>1, <3>2 DEF Exists
  <2> QED
    BY <2>1, <2>2, OtherStep DEF WriteSteps, ReadSteps
<1>6. ASSUME NEW y \in Nodes, Found(r, y) PROVE Coherent(x)'
  <2>1. UNCHANGED <<row, memory, seen, stale>>
    BY <1>6 DEF Found, tables, cache, history
  <2>2. /\ \A q \in Requests : q # r => calls'[q] = calls[q]
        /\ \A s \in WriteSteps \cup ReadSteps : <<s, x>> \in calls'[r] => <<s, x>> \in calls[r]
    BY <1>0, <1>6 DEF Found, WriteSteps, ReadSteps
  <2> QED
    BY <2>1, <2>2, OtherStep
<1>7. ASSUME NEW y \in Nodes, Named(r, y) PROVE Coherent(x)'
  <2>1. UNCHANGED <<row, memory, seen>>
    BY <1>7 DEF Named, tables
  <2>2. calls[r] = {<<"named", y>>}
    BY <1>7, NamedCall DEF Named
  <2>3. CASE Goes(r, <<"named", y>>, {}) /\ UNCHANGED history
    <3>1. calls'[r] = {} /\ stale' = stale /\ \A q \in Requests : q # r => calls'[q] = calls[q]
      BY <1>0, <2>2, <2>3 DEF history
    <3> QED
      BY <2>1, <3>1, OtherStep
  <2>4. CASE Goes(r, <<"named", y>>, {<<"cut", y>>, <<"cut", op[r].y>>}) /\ Unlink(r, y, op[r].y)
    <3> DEFINE z == op[r].y
    <3>1. calls'[r] = {<<"cut", y>>, <<"cut", z>>} /\ \A q \in Requests : q # r => calls'[q] = calls[q]
      BY <1>0, <2>2, <2>4
    <3>2. Sent(r, {y, z}, {y, z})
      BY <2>4 DEF Unlink
    <3>3. \A s \in ReadSteps : <<s, x>> \notin calls'[r]
      BY <3>1 DEF ReadSteps
    <3>4. x \notin {y, z} => \A s \in WriteSteps : <<s, x>> \notin calls'[r]
      BY <3>1
    <3> HIDE DEF z
    <3> QED
      BY <2>1, <3>1, <3>2, <3>3, <3>4, SendStep
  <2> QED
    BY <1>7, <2>3, <2>4 DEF Named
<1>8. ASSUME NEW s \in Writes, NEW y \in Nodes, NEW next, Goes(r, <<s, y>>, next), next \subseteq {<<"look", y>>},
             Effect(r, s, y) \/ UNCHANGED tables, UNCHANGED <<memory, seen, stale>>
      PROVE  Coherent(x)'
  <2>1. /\ <<s, y>> \in calls[r]
        /\ \A q \in Requests : q # r => calls'[q] = calls[q]
        /\ \A t \in WriteSteps \cup ReadSteps : <<t, x>> \in calls'[r] => <<t, x>> \in calls[r]
    BY <1>0, <1>8 DEF WriteSteps, ReadSteps
  <2>2. CASE row'[x] = row[x]
    BY <1>8, <2>1, <2>2, OtherStep
  <2>3. CASE row'[x] # row[x]
    <3>1. x = y /\ s \in WriteSteps
      BY <1>8, <2>3, RowAfter DEF tables
    <3>2. Writing(x)
      BY <2>1, <3>1, WritingIs DEF WriteSteps
    <3>3. Coherent(x)
      BY <1>8 DEF FreshInv
    <3>4. memory'[x] = Empty /\ ~Reading(Requests, x)
      BY <1>8, <3>2, <3>3 DEF Coherent
    <3>5. \A q \in Requests, t \in ReadSteps : <<t, x>> \notin calls'[q]
      BY <2>1, <3>4, ReadingIs
    <3> QED
      BY <3>4, <3>5, Clear
  <2> QED
    BY <2>2, <2>3
<1>9. ASSUME NEW s \in Writes, NEW y \in Nodes, Write(r, s, y) PROVE Coherent(x)'
  BY <1>8, <1>9 DEF Write, cache, history
<1>10. ASSUME NEW s \in Writes, NEW y \in Nodes, FailWrite(r, s, y) PROVE Coherent(x)'
  BY <1>8, <1>10 DEF FailWrite, cache
<1>11. ASSUME NEW s \in {"read", "find", "ask", "check"}, NEW y \in Nodes, FailRead(r, s, y) PROVE Coherent(x)'
  <2>1. UNCHANGED <<row, memory, seen, stale>>
    BY <1>11 DEF FailRead, tables, cache
  <2>2. /\ \A q \in Requests : q # r => calls'[q] = calls[q]
        /\ \A t \in WriteSteps \cup ReadSteps : <<t, x>> \in calls'[r] => <<t, x>> \in calls[r]
    BY <1>0, <1>11 DEF FailRead, WriteSteps, ReadSteps
  <2> QED
    BY <2>1, <2>2, OtherStep
<1> QED
  BY <1>1, <1>3, <1>4, <1>5, <1>6, <1>7, <1>9, <1>10, <1>11 DEF Answers

\* Nothing is cached or read at first.
LEMMA InitFresh == Init => FreshInv
<1> SUFFICES ASSUME Init PROVE FreshInv
  OBVIOUS
<1> QED
  BY WritingIs DEF Init, FreshInv, Coherent

\* Every step keeps the copies that are not stale.
LEMMA FreshStep ==
  Typed /\ FitsInv /\ FreshInv /\ [Next]_vars => FreshInv'
<1> SUFFICES ASSUME Typed, FitsInv, FreshInv, [Next]_vars, NEW x \in Nodes, x \notin stale'
             PROVE  Coherent(x)'
  BY DEF FreshInv
<1>0. ASSUME UNCHANGED <<row, seen, calls>>, memory'[x] = memory[x], x \notin stale PROVE Coherent(x)'
  <2>1. Coherent(x) /\ CalmAt(x)
    BY <1>0 DEF FreshInv, CalmAt
  <2> QED
    BY <2>1, Calm
<1>1. ASSUME NEW r \in Requests, Routes(r) PROVE Coherent(x)'
  BY <1>1, RouteFresh
<1>2. ASSUME NEW r \in Requests, Answers(r) PROVE Coherent(x)'
  BY <1>2, AnswerFresh
<1>3. ASSUME NEW y \in Nodes, EvictNode(y) PROVE Coherent(x)'
  <2>1. memory'[x] = IF x \in {y} THEN Empty ELSE memory[x]
    BY <1>3, DropTypes DEF EvictNode, Typed
  <2>2. UNCHANGED <<row, seen, calls>>
    BY <1>3 DEF EvictNode, tables, requests
  <2>3. CASE x \notin stale
    <3>1. Coherent(x) /\ CalmAt(x)
      BY <2>1, <2>2, <2>3 DEF FreshInv, CalmAt
    <3> QED
      BY <3>1, Calm
  <2>4. CASE x \in stale
    <3>1. x = y /\ ~Reading(Requests, x)
      BY <1>3, <2>4 DEF EvictNode
    <3>2. \A q \in Requests, s \in ReadSteps : <<s, x>> \notin calls'[q]
      BY <2>2, <3>1, ReadingIs
    <3> QED
      BY <2>1, <3>1, <3>2, Clear
  <2> QED
    BY <2>3, <2>4
<1>4. ASSUME NEW e \in Edges, EvictEdge(e) PROVE Coherent(x)'
  BY <1>0, <1>4 DEF EvictEdge, tables, requests
<1>5. CASE UNCHANGED vars
  BY <1>0, <1>5 DEF vars, tables, cache, requests, history
<1> QED
  BY <1>1, <1>2, <1>3, <1>4, <1>5 DEF Next, Evict

\* A cached copy is the row, whatever fills and writes overlap: stale are only the
\* nodes that were read beside a write, or written by an operation that drops no
\* copy.
THEOREM CopiesFresh == Spec => []Fresh
<1>1. FreshInv => Fresh
  BY DEF FreshInv, Fresh, Coherent
<1> QED
  BY InitFresh, InitTypes, <1>1, FreshStep, TypesStep, PTL DEF Spec

-----------------------------------------------------------------------------
(* The names of cached edges: the inductive invariant.                     *)

Near(e, side) == IF side = "left" THEN e[1] ELSE e[2]
Far(e, side) == IF side = "left" THEN e[2] ELSE e[1]

\* The names that the rows of the ends have cells for.
Has(e) == {c \in Sides \X Kinds : <<c[2], Far(e, c[1])>> \in row[Near(e, c[1])].cells}

\* Request q looks for e, or is about to remove cells of it.
Seeks(q, e) ==
  /\ \E s \in {"find", "named"}, z \in Nodes : <<s, z>> \in calls[q]
  /\ op[q].x = e[1] /\ op[q].y = e[2]

Cuts(q, e) ==
  \/ \E s \in {"ask", "drop"} : <<s, e[1]>> \in calls[q] \/ <<s, e[2]>> \in calls[q]
  \/ /\ <<"cut", e[1]>> \in calls[q] \/ <<"cut", e[2]>> \in calls[q]
     /\ {op[q].x, op[q].y} = {e[1], e[2]}

CutAt(e) == \E q \in Requests : Cuts(q, e)

\* The names of e that are cached, and those a lookup has found, are on the rows;
\* while cells of e go there are neither.
Sound(e) ==
  /\ known[e] \subseteq Has(e)
  /\ \A q \in Requests : Seeks(q, e) => named[q] \subseteq Has(e)
  /\ CutAt(e) => known[e] = {} /\ \A q \in Requests : ~Seeks(q, e)

EdgeInv == \A e \in Edges \ staleEdge : Sound(e)

-----------------------------------------------------------------------------
(* What keeps it.                                                          *)

\* The operators of the model say the same of an edge.
LEMMA FindingIs ==
  ASSUME Typed, FitsInv, NEW e \in Edges
  PROVE  /\ \A Q \in SUBSET Requests : \A q \in Q : Seeks(q, e) => Finding(Q, e[1], e[2])
         /\ CutAt(e) => Cutting(e[1], e[2])
<1>0. e = <<e[1], e[2]>> /\ e[1] \in Nodes /\ e[2] \in Nodes
  BY DEF Edges
<1>1. ASSUME NEW q \in Requests, op[q] \in FindOp PROVE op[q] # Idle /\ "y" \in DOMAIN op[q]
  <2>1. op[q].name \in {"getEdge", "removeEdge"} /\ Idle.name = "idle"
    BY <1>1 DEF FindOp, Idle
  <2> QED
    BY <1>1, <2>1 DEF FindOp
<1>2. ASSUME NEW Q \in SUBSET Requests, NEW q \in Q, Seeks(q, e) PROVE Finding(Q, e[1], e[2])
  <2>1. op[q] \in FindOp
    BY <1>2, FindCall, NamedCall DEF Seeks
  <2>2. q \in Between(e[1], e[2])
    BY <1>1, <1>2, <2>1 DEF Between, Seeks
  <2> QED
    BY <1>2, <2>2 DEF Finding, Awaits, Seeks
<1>3. ASSUME NEW q \in Requests, Cuts(q, e) PROVE Cutting(e[1], e[2])
  <2>1. CASE \E s \in {"ask", "drop"} : <<s, e[1]>> \in calls[q] \/ <<s, e[2]>> \in calls[q]
    BY <2>1 DEF Cutting, Dropping
  <2>2. CASE /\ <<"cut", e[1]>> \in calls[q] \/ <<"cut", e[2]>> \in calls[q]
             /\ {op[q].x, op[q].y} = {e[1], e[2]}
    <3>1. op[q] \in FindOp
      BY <1>0, <2>2, CutCall
    <3>2. q \in Between(e[1], e[2])
      BY <1>1, <2>2, <3>1 DEF Between
    <3> QED
      BY <1>0, <2>2, <3>2 DEF Cutting, Awaits
  <2> QED
    BY <1>3, <2>1, <2>2 DEF Cuts
<1> QED
  BY <1>2, <1>3 DEF CutAt

\* An edge stays sound when a step of r takes no cells of it away, or knows that
\* they go, and finds only names that are there.
LEMMA StaysSound ==
  ASSUME NEW e \in Edges, NEW r \in Requests, Sound(e),
         \A q \in Requests : q # r => calls'[q] = calls[q] /\ op'[q] = op[q] /\ named'[q] = named[q],
         known'[e] \subseteq known[e] \/ (~CutAt(e) /\ known'[e] \subseteq Has(e)),
         CutAt(e) \/ Has(e) \subseteq Has(e)',
         Seeks(r, e)' => Seeks(r, e) /\ named'[r] \subseteq named[r] \cup Has(e),
         Cuts(r, e)' => Cuts(r, e)
  PROVE  Sound(e)'
<1>1. \A q \in Requests : Cuts(q, e)' => Cuts(q, e)
  BY DEF Cuts
<1>2. CutAt(e)' => CutAt(e)
  BY <1>1 DEF CutAt
<1>3. \A q \in Requests : Seeks(q, e)' => Seeks(q, e) /\ named'[q] \subseteq named[q] \cup Has(e)
  BY DEF Seeks
<1>4. CASE CutAt(e)
  BY <1>3, <1>4 DEF Sound
<1>5. CASE ~CutAt(e)
  <2>1. Has(e) \subseteq Has(e)'
    BY <1>5
  <2>2. known'[e] \subseteq Has(e)'
    BY <2>1 DEF Sound
  <2>3. \A q \in Requests : Seeks(q, e)' => named'[q] \subseteq Has(e)'
    BY <1>3, <2>1 DEF Sound
  <2> QED
    BY <1>2, <1>5, <2>2, <2>3 DEF Sound
<1> QED
  BY <1>4, <1>5

\* An edge that is neither cached nor looked for is sound.
LEMMA ForgottenSound ==
  ASSUME NEW e \in Edges, known'[e] = {}, \A q \in Requests : ~Seeks(q, e)'
  PROVE  Sound(e)'
BY DEF Sound

\* What Unnamed says of an edge that is not stale after it.
LEMMA UnnamedMeans ==
  ASSUME Typed, FitsInv, NEW r \in Requests, NEW gone, NEW kept, Unnamed(r, gone, kept),
         NEW e \in Edges, e \notin staleEdge'
  PROVE  /\ e \notin gone => e \notin staleEdge
         /\ e \in gone => \A q \in Requests : q # r => ~Seeks(q, e)
         /\ e \in gone /\ e \in kept => known[e] = {}
<1>1. \A q \in Requests : q # r /\ Seeks(q, e) => Finding(Requests \ {r}, e[1], e[2])
  BY FindingIs
<1> QED
  BY <1>1 DEF Unnamed

\* Which cells a write takes away.
LEMMA CellsAfter ==
  ASSUME Typed, FitsInv, NEW r \in Requests, NEW s \in Writes, NEW x \in Nodes, <<s, x>> \in calls[r],
         Effect(r, s, x), NEW y \in Nodes, NEW k \in Kinds, NEW z \in Nodes, <<k, z>> \in row[y].cells
  PROVE  \/ <<k, z>> \in row'[y].cells
         \/ y = x /\ (s = "drop" \/ (s = "cut" /\ z = Other(op[r], x)))
<1>1. CASE y # x \/ s \notin WriteSteps
  BY <1>1, RowAfter
<1>2. CASE y = x /\ s = "insert"
  <2>1. row' = [row EXCEPT ![x].data = op[r].data]
    BY <1>2 DEF Effect, Kinds
  <2> QED
    BY <1>2, <2>1 DEF Typed, TablesOK, Row
<1>3. CASE y = x /\ s = "write"
  <2>1. row' = Written(op[r], x)
    BY <1>3 DEF Effect, Kinds
  <2>2. row[x].cells \subseteq row'[x].cells
    BY <2>1 DEF Written, Typed, TablesOK, Row
  <2> QED
    BY <1>3, <2>2
<1>4. CASE y = x /\ s = "cut"
  <2> DEFINE C == {<<l, Other(op[r], x)>> : l \in {l \in Kinds : <<Side(op[r], x), l>> \in named[r]}}
  <2>1. row' = Without(C, x)
    BY <1>4 DEF Effect, Kinds
  <2>2. <<k, z>> \in C => z = Other(op[r], x)
    OBVIOUS
  <2> HIDE DEF C
  <2>3. row'[x].cells = row[x].cells \ C
    BY <2>1 DEF Without, Typed, TablesOK, Row
  <2> QED
    BY <1>4, <2>2, <2>3
<1>5. CASE y = x /\ s = "drop"
  BY <1>5
<1> QED
  BY <1>1, <1>2, <1>3, <1>4, <1>5 DEF WriteSteps, Writes, Kinds

\* A write leaves what the rows have of an edge, unless r cuts it.
LEMMA HasAfter ==
  ASSUME Typed, FitsInv, NEW r \in Requests, NEW s \in Writes, NEW x \in Nodes, <<s, x>> \in calls[r],
         Effect(r, s, x), NEW e \in Edges
  PROVE  CutAt(e) \/ Has(e) \subseteq Has(e)'
<1> SUFFICES ASSUME ~Cuts(r, e), NEW c \in Has(e) PROVE c \in Has(e)'
  BY DEF CutAt
<1> DEFINE y == Near(e, c[1])
<1> DEFINE z == Far(e, c[1])
<1>1. /\ c \in Sides \X Kinds /\ c[2] \in Kinds /\ <<c[2], z>> \in row[y].cells
      /\ y \in Nodes /\ z \in Nodes /\ {y, z} = {e[1], e[2]} /\ y # z
  BY DEF Has, Near, Far, Sides, Edges
<1>2. ASSUME y = x, s = "drop" PROVE FALSE
  BY <1>1, <1>2 DEF Cuts
<1>3. ASSUME y = x, s = "cut", z = Other(op[r], x) PROVE FALSE
  <2>1. x \in {op[r].x, op[r].y}
    BY <1>3, CutCall
  <2>2. {op[r].x, op[r].y} = {x, z}
    BY <1>3, <2>1 DEF Other
  <2> QED
    BY <1>1, <1>3, <2>2 DEF Cuts
<1>4. <<c[2], z>> \in row'[y].cells
  <2> DEFINE k == c[2]
  <2>1. k \in Kinds /\ <<k, z>> \in row[y].cells
    BY <1>1
  <2>2. y \in Nodes /\ z \in Nodes
    BY <1>1
  <2>3. <<k, z>> \in row'[y].cells
    <3> HIDE DEF y, z, k
    <3> QED
      BY <1>2, <1>3, <2>1, <2>2, CellsAfter
  <2> QED
    BY <2>3
<1> QED
  BY <1>1, <1>4 DEF Has

-----------------------------------------------------------------------------
(* The steps.                                                              *)

\* What Begin and Goes do to the requests.
LEMMA BeginMeans ==
  ASSUME Typed, NEW r \in Requests, NEW o, NEW first, Begin(r, o, first)
  PROVE  /\ calls[r] = {} /\ calls'[r] = first /\ op'[r] = o /\ row' = row
         /\ \A q \in Requests : q # r => calls'[q] = calls[q] /\ op'[q] = op[q]
BY DEF Begin, tables, Typed, RequestsOK

\* The same of a request that goes on.
LEMMA GoesMeans ==
  ASSUME Typed, NEW r \in Requests, NEW c, NEW next, Goes(r, c, next)
  PROVE  /\ c \in calls[r] /\ calls'[r] = (calls[r] \ {c}) \cup next
         /\ calls'[r] # {} => op'[r] = op[r]
         /\ \A q \in Requests : q # r => calls'[q] = calls[q] /\ op'[q] = op[q]
BY DEF Goes, Typed, RequestsOK

\* A request begins that neither looks for e nor cuts it.
LEMMA BeginSound ==
  ASSUME Typed, NEW e \in Edges, Sound(e), NEW r \in Requests, NEW o, NEW first, Begin(r, o, first),
         \A q \in Requests : q # r => named'[q] = named[q], known'[e] = known[e],
         ~Seeks(r, e)', ~Cuts(r, e)'
  PROVE  Sound(e)'
<1>1. row' = row /\ \A q \in Requests : q # r => calls'[q] = calls[q] /\ op'[q] = op[q]
  BY BeginMeans
<1>2. Has(e)' = Has(e)
  BY <1>1 DEF Has
<1> QED
  BY <1>1, <1>2, StaysSound

\* What r calls next looks for e, or cuts it, only if r does already.
Alike(r, next) ==
  /\ \A s \in {"find", "named"}, z \in Nodes : <<s, z>> \in next =>
        \E t \in {"find", "named"}, w \in Nodes : <<t, w>> \in calls[r]
  /\ \A s \in {"ask", "drop"}, z \in Nodes : <<s, z>> \in next => <<"ask", z>> \in calls[r]
  /\ \A z \in Nodes : <<"cut", z>> \notin next

\* A call of r ends, and takes away no cells it was not known to.
LEMMA GoesSound ==
  ASSUME Typed, NEW e \in Edges, Sound(e), NEW r \in Requests, NEW c, NEW next, Goes(r, c, next),
         Alike(r, next), \A q \in Requests : q # r => named'[q] = named[q],
         named'[r] \subseteq named[r] \/ (Seeks(r, e)' => named'[r] \subseteq named[r] \cup Has(e)),
         known'[e] \subseteq known[e] \/ (~CutAt(e) /\ known'[e] \subseteq Has(e)),
         CutAt(e) \/ Has(e) \subseteq Has(e)'
  PROVE  Sound(e)'
<1>1. /\ calls'[r] = (calls[r] \ {c}) \cup next
      /\ calls'[r] # {} => op'[r] = op[r]
      /\ \A q \in Requests : q # r => calls'[q] = calls[q] /\ op'[q] = op[q]
  BY GoesMeans
<1>2. Seeks(r, e)' => Seeks(r, e)
  BY <1>1 DEF Seeks, Alike
<1>3. e[1] \in Nodes /\ e[2] \in Nodes
  BY DEF Edges
<1>4. Cuts(r, e)' => Cuts(r, e)
  BY <1>1, <1>3 DEF Cuts, Alike
<1> QED
  BY <1>1, <1>2, <1>4, StaysSound

\* The edges of y that are not stale are forgotten when the row goes.
LEMMA RowGoes ==
  ASSUME Typed, FitsInv, EdgeInv, NEW r \in Requests, NEW y \in Nodes, Unnamed(r, AllOf(y), AllOf(y)),
         NEW e \in Edges, e \notin staleEdge', known' = known, row' = row,
         \A q \in Requests : q # r => calls'[q] = calls[q] /\ op'[q] = op[q] /\ named'[q] = named[q],
         ~Seeks(r, e)',
         \A s \in {"ask", "drop", "cut"}, z \in Nodes : <<s, z>> \in calls'[r] => z = y
  PROVE  Sound(e)'
<1>1. CASE e \in AllOf(y)
  <2>1. known[e] = {} /\ \A q \in Requests : q # r => ~Seeks(q, e)
    BY <1>1, UnnamedMeans
  <2>2. \A q \in Requests : ~Seeks(q, e)'
    BY <2>1 DEF Seeks
  <2> QED
    BY <2>1, <2>2, ForgottenSound
<1>2. CASE e \notin AllOf(y)
  <2>1. e \notin staleEdge
    BY <1>2, UnnamedMeans
  <2>2. Sound(e) /\ Has(e)' = Has(e)
    BY <2>1 DEF EdgeInv, Has
  <2>3. e[1] \in Nodes /\ e[2] \in Nodes /\ y # e[1] /\ y # e[2]
    BY <1>2 DEF AllOf, Edges
  <2>4. ~Cuts(r, e)'
    BY <2>3 DEF Cuts
  <2> QED
    BY <2>2, <2>4, StaysSound
<1> QED
  BY <1>1, <1>2

\* The same for an edge that r has the names of.
LEMMA EdgeGoes ==
  ASSUME Typed, FitsInv, EdgeInv, NEW r \in Requests, NEW y \in Nodes, NEW z \in Nodes, <<y, z>> \in Edges,
         Unlink(r, y, z), NEW e \in Edges, e \notin staleEdge', row' = row,
         \A q \in Requests : q # r => calls'[q] = calls[q] /\ op'[q] = op[q] /\ named'[q] = named[q],
         calls'[r] = {<<"cut", y>>, <<"cut", z>>}, op'[r].x = y, op'[r].y = z
  PROVE  Sound(e)'
<1> DEFINE gone == {<<y, z>>, <<z, y>>}
<1>1. Unnamed(r, gone, {<<z, y>>}) /\ known' = [known EXCEPT ![<<y, z>>] = {}]
  BY DEF Unlink
<1>2. ~Seeks(r, e)'
  BY DEF Seeks
<1>3. CASE e \in gone
  <2>1. \A q \in Requests : q # r => ~Seeks(q, e)
    BY <1>1, <1>3, UnnamedMeans
  <2>2. \A q \in Requests : ~Seeks(q, e)'
    BY <1>2, <2>1 DEF Seeks
  <2>3. known'[e] = {}
    <3>1. CASE e = <<y, z>>
      BY <1>1, <3>1 DEF Typed, CacheOK
    <3>2. CASE e = <<z, y>>
      <4>1. known[e] = {}
        BY <1>1, <1>3, <3>2, UnnamedMeans
      <4> QED
        BY <1>1, <4>1 DEF Typed, CacheOK
    <3> QED
      BY <1>3, <3>1, <3>2
  <2> QED
    BY <2>2, <2>3, ForgottenSound
<1>4. CASE e \notin gone
  <2>1. e \notin staleEdge
    BY <1>1, <1>4, UnnamedMeans
  <2>2. Sound(e) /\ Has(e)' = Has(e)
    BY <2>1 DEF EdgeInv, Has
  <2>3. e = <<e[1], e[2]>>
    BY DEF Edges
  <2>4. ~Cuts(r, e)'
    BY <1>4, <2>3 DEF Cuts
  <2>5. known'[e] = known[e]
    BY <1>1, <1>4 DEF Typed, CacheOK
  <2> QED
    BY <1>2, <2>2, <2>4, <2>5, StaysSound
<1> QED
  BY <1>3, <1>4

\* A request that comes in keeps the edges sound.
LEMMA RouteSound ==
  ASSUME Typed, FitsInv, EdgeInv, NEW r \in Requests, Routes(r), NEW e \in Edges, e \notin staleEdge'
  PROVE  Sound(e)'
<1>0. e[1] \in Nodes /\ e[2] \in Nodes /\ e = <<e[1], e[2]>> /\ e[1] # e[2]
  BY DEF Edges
<1>s. ASSUME NEW o, NEW first, Begin(r, o, first), UNCHANGED <<named, known, staleEdge>>,
             \A s \in {"find", "named", "ask", "drop", "cut"}, z \in Nodes : <<s, z>> \notin first
      PROVE  Sound(e)'
  <2>1. calls'[r] = first
    BY <1>s, BeginMeans
  <2>2. ~Seeks(r, e)' /\ ~Cuts(r, e)'
    BY <1>0, <1>s, <2>1 DEF Seeks, Cuts
  <2>3. Sound(e)
    BY <1>s DEF EdgeInv
  <2> QED
    BY <1>s, <2>2, <2>3, BeginSound
<1>1. ASSUME NEW y \in Nodes, GetNode(r, y) PROVE Sound(e)'
  BY <1>s, <1>1 DEF GetNode, cache
<1>2. ASSUME NEW y \in Nodes, NEW d \in Data, CreateNode(r, y, d) PROVE Sound(e)'
  BY <1>s, <1>2 DEF CreateNode, cache
<1>3. ASSUME NEW y \in Nodes, RemoveNode(r, y) PROVE Sound(e)'
  <2>1. /\ Begin(r, [name |-> "removeNode", x |-> y], {<<"ask", y>>})
        /\ Unnamed(r, AllOf(y), AllOf(y)) /\ UNCHANGED <<known, named>>
    BY <1>3 DEF RemoveNode
  <2>2. /\ calls'[r] = {<<"ask", y>>} /\ row' = row
        /\ \A q \in Requests : q # r => calls'[q] = calls[q] /\ op'[q] = op[q] /\ named'[q] = named[q]
    BY <2>1, BeginMeans
  <2>3. ~Seeks(r, e)' /\ \A s \in {"ask", "drop", "cut"}, z \in Nodes : <<s, z>> \in calls'[r] => z = y
    BY <2>2 DEF Seeks
  <2> QED
    BY <2>1, <2>2, <2>3, RowGoes
<1>4. ASSUME NEW y \in Nodes, RemoveNodeComplete(r, y) PROVE Sound(e)'
  BY <1>s, <1>4 DEF RemoveNodeComplete, cache, history
<1>5. ASSUME NEW y \in Nodes, NEW z \in Nodes, NEW k \in Kinds, NEW p \in BOOLEAN, CreateEdge(r, y, z, k, p)
      PROVE  Sound(e)'
  <2> DEFINE o == [name |-> "createEdge", x |-> y, y |-> z, kind |-> k, by |-> 1, popular |-> p]
  <2>1. Begin(r, o, EdgeCalls(o)) /\ UNCHANGED <<named, known, staleEdge>>
    BY <1>5 DEF CreateEdge
  <2> HIDE DEF o
  <2> QED
    BY <1>s, <2>1 DEF EdgeCalls
<1>6. ASSUME NEW y \in Nodes, NEW z \in Nodes, NEW by \in {1, -1}, NEW p \in BOOLEAN, Depth(r, y, z, by, p)
      PROVE  Sound(e)'
  <2> DEFINE o == [name |-> "depth", x |-> y, y |-> z, kind |-> "ed", by |-> by, popular |-> p]
  <2>1. Begin(r, o, EdgeCalls(o)) /\ UNCHANGED <<named, known, staleEdge>>
    BY <1>6 DEF Depth
  <2> HIDE DEF o
  <2> QED
    BY <1>s, <2>1 DEF EdgeCalls
<1>7. ASSUME NEW y \in Nodes, NEW z \in Nodes, NEW name, <<y, z>> \in Edges, Find(r, y, z, name) PROVE Sound(e)'
  <2> DEFINE o == [name |-> name, x |-> y, y |-> z]
  <2>1. Begin(r, o, {<<"find", y>>, <<"find", z>>}) /\ UNCHANGED <<named, known>>
    BY <1>7 DEF Find, cache
  <2>2. /\ calls[r] = {} /\ calls'[r] = {<<"find", y>>, <<"find", z>>} /\ op'[r] = o /\ row' = row
        /\ \A q \in Requests : q # r => calls'[q] = calls[q] /\ op'[q] = op[q]
    BY <2>1, BeginMeans
  <2>3. named[r] = {}
    BY <2>2 DEF FitsInv, Fits
  <2>4. ~Cuts(r, e)'
    BY <2>2 DEF Cuts
  <2>5. e \notin staleEdge
    BY <1>7 DEF Find
  <2>6. Sound(e)
    BY <2>5 DEF EdgeInv
  <2>7. CASE e # <<y, z>>
    <3>1. ~Seeks(r, e)'
      BY <1>0, <2>2, <2>7 DEF Seeks
    <3> QED
      BY <2>1, <2>4, <2>6, <3>1, BeginSound
  <2>8. CASE e = <<y, z>>
    <3>1. ~Cutting(y, z)
      BY <1>7, <2>8 DEF Find
    <3>2. ~CutAt(e)
      BY <2>8, <3>1, FindingIs
    <3>3. ~CutAt(e)'
      BY <2>2, <2>4, <3>2 DEF CutAt, Cuts
    <3>4. Has(e)' = Has(e)
      BY <2>2 DEF Has
    <3>5. \A q \in Requests : Seeks(q, e)' => named'[q] \subseteq Has(e)
      BY <2>1, <2>2, <2>3, <2>6 DEF Sound, Seeks
    <3> QED
      BY <2>1, <2>6, <3>3, <3>4, <3>5 DEF Sound
  <2> QED
    BY <2>7, <2>8
<1>8. ASSUME NEW y \in Nodes, NEW z \in Nodes, <<y, z>> \in Edges, RemoveEdgeHit(r, y, z) PROVE Sound(e)'
  <2> DEFINE o == [name |-> "removeEdge", x |-> y, y |-> z]
  <2>1. /\ Begin(r, o, {<<"cut", y>>, <<"cut", z>>}) /\ Unlink(r, y, z)
        /\ named' = [named EXCEPT ![r] = known[<<y, z>>]]
    BY <1>8 DEF RemoveEdgeHit
  <2>2. /\ calls'[r] = {<<"cut", y>>, <<"cut", z>>} /\ op'[r] = o /\ row' = row
        /\ \A q \in Requests : q # r => calls'[q] = calls[q] /\ op'[q] = op[q]
    BY <2>1, BeginMeans
  <2>3. \A q \in Requests : q # r => named'[q] = named[q]
    BY <2>1 DEF Typed, RequestsOK
  <2>4. op'[r].x = y /\ op'[r].y = z
    BY <2>2
  <2> QED
    BY <1>8, <2>1, <2>2, <2>3, <2>4, EdgeGoes
<1> QED
  BY <1>1, <1>2, <1>3, <1>4, <1>5, <1>6, <1>7, <1>8 DEF Routes, NodeRoutes, EdgeRoutes, Edges

\* An answer, or a call that fails, keeps the edges sound.
LEMMA AnswerSound ==
  ASSUME Typed, FitsInv, EdgeInv, NEW r \in Requests, Answers(r), NEW e \in Edges, e \notin staleEdge'
  PROVE  Sound(e)'
<1>0. e[1] \in Nodes /\ e[2] \in Nodes /\ e = <<e[1], e[2]>> /\ e[1] # e[2]
  BY DEF Edges
<1>s. ASSUME NEW c, NEW next, Goes(r, c, next), Alike(r, next), UNCHANGED <<row, named, known, staleEdge>>
      PROVE  Sound(e)'
  <2>1. Sound(e) /\ Has(e)' = Has(e)
    BY <1>s DEF EdgeInv, Has
  <2> QED
    BY <1>s, <2>1, GoesSound
<1>1. ASSUME NEW y \in Nodes, Read(r, y) PROVE Sound(e)'
  <2>1. Alike(r, {<<"fill", y>>})
    BY DEF Alike
  <2> QED
    BY <1>s, <1>1, <2>1 DEF Read, tables, cache, history
<1>2. ASSUME NEW y \in Nodes, NEW copy \in Row, NEW s \in {"look", "fill"}, Purge(r, <<s, y>>, y, copy),
             UNCHANGED <<row, known, named>>
      PROVE  Sound(e)'
  <2>1. Goes(r, <<s, y>>, {<<"drop", y>>} \cup Shown(copy)) /\ Unnamed(r, AllOf(y), AllOf(y))
    BY <1>2 DEF Purge
  <2>2. calls[r] = {<<s, y>>}
    <3>1. <<s, y>> \in calls[r]
      BY <2>1, GoesMeans
    <3>2. CASE s = "look"
      BY <3>1, <3>2, LookCall
    <3>3. CASE s = "fill"
      BY <3>1, <3>3, ReadCall
    <3> QED
      BY <3>2, <3>3
  <2>3. /\ calls'[r] = {<<"drop", y>>} \cup Shown(copy)
        /\ \A q \in Requests : q # r => calls'[q] = calls[q] /\ op'[q] = op[q]
    BY <2>1, <2>2, GoesMeans
  <2>4. Shown(copy) \subseteq Kinds \X Nodes
    BY <1>2, PurgeTypes
  <2>5. ~Seeks(r, e)' /\ \A t \in {"ask", "drop", "cut"}, z \in Nodes : <<t, z>> \in calls'[r] => z = y
    BY <2>3, <2>4 DEF Seeks, Kinds
  <2> QED
    BY <1>2, <2>1, <2>3, <2>5, RowGoes
<1>3. ASSUME NEW y \in Nodes, Fill(r, y) PROVE Sound(e)'
  <2>1. UNCHANGED <<row, known, named>>
    BY <1>3 DEF Fill, tables
  <2>2. CASE Goes(r, <<"fill", y>>, {}) /\ UNCHANGED history
    <3>1. Alike(r, {})
      BY DEF Alike
    <3> QED
      BY <1>s, <2>1, <2>2, <3>1 DEF history
  <2>3. CASE Purge(r, <<"fill", y>>, y, seen[r])
    <3>1. seen[r] \in Row
      BY DEF Typed, RequestsOK
    <3> QED
      BY <1>2, <2>1, <2>3, <3>1
  <2> QED
    BY <1>3, <2>2, <2>3 DEF Fill
<1>4. ASSUME NEW y \in Nodes, Look(r, y) PROVE Sound(e)'
  <2>1. UNCHANGED <<row, known, named>>
    BY <1>4 DEF Look, tables
  <2>2. CASE \E next \in {{}, {<<"read", y>>}} : Goes(r, <<"look", y>>, next) /\ UNCHANGED staleEdge
    <3>1. Alike(r, {}) /\ Alike(r, {<<"read", y>>})
      BY DEF Alike
    <3> QED
      BY <1>s, <2>1, <2>2, <3>1
  <2>3. CASE Purge(r, <<"look", y>>, y, memory[y])
    <3>1. memory[y] \in Row
      BY DEF Typed, CacheOK
    <3> QED
      BY <1>2, <2>1, <2>3, <3>1
  <2> QED
    BY <1>4, <2>2, <2>3 DEF Look, history
<1>5. ASSUME NEW y \in Nodes, Exists(r, y) PROVE Sound(e)'
  <2>1. UNCHANGED <<row, known, named, staleEdge>>
    BY <1>5 DEF Exists, tables, cache, history
  <2>2. CASE Goes(r, <<"ask", y>>, IF row[y] = Empty THEN {} ELSE {<<"drop", y>>})
    <3>1. <<"ask", y>> \in calls[r]
      BY <2>2, GoesMeans
    <3>2. Alike(r, {}) /\ Alike(r, {<<"drop", y>>})
      BY <3>1 DEF Alike
    <3> QED
      BY <1>s, <2>1, <2>2, <3>2
  <2>3. CASE Goes(r, <<"check", y>>, IF row[y] = Empty THEN {} ELSE {<<"look", y>>})
    <3>1. Alike(r, {}) /\ Alike(r, {<<"look", y>>})
      BY DEF Alike
    <3> QED
      BY <1>s, <2>1, <2>3, <3>1
  <2> QED
    BY <1>5, <2>2, <2>3 DEF Exists
<1>6. ASSUME NEW y \in Nodes, Found(r, y) PROVE Sound(e)'
  <2> DEFINE o == op[r]
  <2> DEFINE next == IF calls[r] = {<<"find", y>>} THEN {<<"named", o.x>>} ELSE {}
  <2>1. /\ Goes(r, <<"find", y>>, next) /\ UNCHANGED <<row, known, staleEdge>>
        /\ \E S \in SUBSET {k \in Kinds : <<k, Other(o, y)>> \in row[y].cells} :
              named' = [named EXCEPT ![r] = @ \cup {<<Side(o, y), k>> : k \in S}]
    BY <1>6 DEF Found, tables, cache, history
  <2>2. <<"find", y>> \in calls[r]
    BY <1>6 DEF Found
  <2>3. o \in FindOp /\ y \in {o.x, o.y} /\ o.x # o.y
    BY <2>2, FindCall DEF FindOp
  <2>4. Alike(r, next)
    BY <2>2 DEF Alike
  <2>5. Sound(e) /\ Has(e)' = Has(e)
    BY <2>1 DEF EdgeInv, Has
  <2>6. \A q \in Requests : q # r => named'[q] = named[q]
    BY <2>1 DEF Typed, RequestsOK
  <2>7. ASSUME Seeks(r, e)' PROVE named'[r] \subseteq named[r] \cup Has(e)
    <3>1. PICK S \in SUBSET {k \in Kinds : <<k, Other(o, y)>> \in row[y].cells} :
              named' = [named EXCEPT ![r] = @ \cup {<<Side(o, y), k>> : k \in S}]
      BY <2>1
    <3>2. named'[r] = named[r] \cup {<<Side(o, y), k>> : k \in S}
      BY <3>1 DEF Typed, RequestsOK
    <3>3. o.x = e[1] /\ o.y = e[2]
      <4>1. calls'[r] # {}
        BY <2>7 DEF Seeks
      <4> HIDE DEF next
      <4>2. op'[r] = op[r]
        BY <2>1, <4>1, GoesMeans
      <4> QED
        BY <2>7, <4>2 DEF Seeks
    <3>4. Side(o, y) \in Sides /\ Near(e, Side(o, y)) = y /\ Far(e, Side(o, y)) = Other(o, y)
      BY <2>3, <3>3 DEF Side, Sides, Near, Far, Other
    <3>5. ASSUME NEW k \in S PROVE <<Side(o, y), k>> \in Has(e)
      <4> DEFINE c == <<Side(o, y), k>>
      <4>1. c \in Sides \X Kinds /\ c[1] = Side(o, y) /\ c[2] = k
        BY <3>1, <3>4
      <4>2. <<c[2], Far(e, c[1])>> \in row[Near(e, c[1])].cells
        BY <3>1, <3>4, <4>1
      <4> HIDE DEF c
      <4>3. c \in Has(e)
        BY <4>1, <4>2 DEF Has
      <4> QED
        BY <4>3 DEF c
    <3> QED
      BY <3>2, <3>5
  <2> HIDE DEF next
  <2> QED
    BY <2>1, <2>4, <2>5, <2>6, <2>7, GoesSound
<1>7. ASSUME NEW y \in Nodes, Named(r, y) PROVE Sound(e)'
  <2> DEFINE z == op[r].y
  <2>0. row' = row /\ <<"named", y>> \in calls[r]
    BY <1>7 DEF Named, tables
  <2>1. op[r] \in FindOp /\ y = op[r].x /\ calls[r] = {<<"named", y>>}
    BY <2>0, NamedCall
  <2>2. z \in Nodes /\ y # z /\ <<y, z>> \in Edges
    BY <2>1 DEF FindOp, Edges
  <2>3. CASE /\ Goes(r, <<"named", y>>, {}) /\ UNCHANGED history
             /\ known' = IF named[r] = {} THEN known ELSE [known EXCEPT ![<<y, z>>] = named[r]]
             /\ named' = [named EXCEPT ![r] = {}]
    <3>1. Sound(e) /\ Has(e)' = Has(e)
      BY <2>0, <2>3 DEF EdgeInv, Has, history
    <3>2. named'[r] = {} /\ \A q \in Requests : q # r => named'[q] = named[q]
      BY <2>3 DEF Typed, RequestsOK
    <3>3. Alike(r, {})
      BY DEF Alike
    <3>4. known'[e] \subseteq known[e] \/ (~CutAt(e) /\ known'[e] \subseteq Has(e))
      <4>1. CASE e # <<y, z>>
        <5>1. known'[e] = known[e]
          BY <2>3, <4>1 DEF Typed, CacheOK
        <5> QED
          BY <5>1
      <4>2. CASE e = <<y, z>>
        <5>1. Seeks(r, e)
          BY <2>1, <4>2 DEF Seeks
        <5>2. ~CutAt(e) /\ named[r] \subseteq Has(e)
          BY <3>1, <5>1 DEF Sound
        <5>3. known'[e] = known[e] \/ known'[e] = named[r]
          BY <2>3, <4>2 DEF Typed, CacheOK
        <5> QED
          BY <5>2, <5>3
      <4> QED
        BY <4>1, <4>2
    <3> QED
      BY <2>3, <3>1, <3>2, <3>3, <3>4, GoesSound
  <2>4. CASE /\ Goes(r, <<"named", y>>, {<<"cut", y>>, <<"cut", z>>}) /\ Unlink(r, y, z) /\ UNCHANGED named
    <3>1. /\ calls'[r] = {<<"cut", y>>, <<"cut", z>>}
          /\ \A q \in Requests : q # r => calls'[q] = calls[q] /\ op'[q] = op[q]
      BY <2>1, <2>4, GoesMeans
    <3>2. op'[r] = op[r]
      BY <2>4, <3>1, GoesMeans
    <3>3. op'[r].x = y /\ op'[r].y = z
      BY <2>1, <3>2
    <3> HIDE DEF z
    <3> QED
      BY <2>0, <2>2, <2>4, <3>1, <3>3, EdgeGoes
  <2> QED
    BY <1>7, <2>3, <2>4 DEF Named
<1>8. ASSUME NEW s \in Writes, NEW y \in Nodes, NEW next, Goes(r, <<s, y>>, next), next \subseteq {<<"look", y>>},
             Effect(r, s, y) \/ UNCHANGED tables, UNCHANGED <<known, staleEdge>>, Forget(r)
      PROVE  Sound(e)'
  <2>1. <<s, y>> \in calls[r]
    BY <1>8, GoesMeans
  <2>2. Sound(e)
    BY <1>8 DEF EdgeInv
  <2>3. named'[r] \subseteq named[r] /\ \A q \in Requests : q # r => named'[q] = named[q]
    BY <1>8 DEF Forget, Typed, RequestsOK
  <2>4. Alike(r, next)
    BY <1>8 DEF Alike
  <2>5. CutAt(e) \/ Has(e) \subseteq Has(e)'
    <3>1. CASE Effect(r, s, y)
      BY <2>1, <3>1, HasAfter
    <3>2. CASE UNCHANGED tables
      BY <3>2 DEF tables, Has
    <3> QED
      BY <1>8, <3>1, <3>2
  <2> QED
    BY <1>8, <2>2, <2>3, <2>4, <2>5, GoesSound
<1>9. ASSUME NEW s \in Writes, NEW y \in Nodes, Write(r, s, y) PROVE Sound(e)'
  BY <1>8, <1>9 DEF Write, cache, history
<1>10. ASSUME NEW s \in Writes, NEW y \in Nodes, FailWrite(r, s, y) PROVE Sound(e)'
  BY <1>8, <1>10 DEF FailWrite, cache
<1>11. ASSUME NEW s \in {"read", "find", "ask", "check"}, NEW y \in Nodes, FailRead(r, s, y) PROVE Sound(e)'
  <2> DEFINE next == IF calls[r] = {<<"find", y>>} THEN {<<"named", op[r].x>>} ELSE {}
  <2>1. Goes(r, <<s, y>>, next) /\ UNCHANGED <<row, named, known, staleEdge>>
    BY <1>11 DEF FailRead, tables, cache
  <2>2. Alike(r, next)
    BY DEF Alike
  <2> HIDE DEF next
  <2> QED
    BY <1>s, <2>1, <2>2
<1> QED
  BY <1>1, <1>3, <1>4, <1>5, <1>6, <1>7, <1>9, <1>10, <1>11 DEF Answers

\* The cells a cached edge names are on the rows of its ends: stale are only the
\* edges that were looked for while their cells went, and those whose cells went
\* with a node or in the name of the reversed edge.
THEOREM EdgesSound == Spec => []EdgeSound
<1>1. Init => EdgeInv
  BY DEF Init, EdgeInv, Sound, Seeks, CutAt, Cuts, Edges
<1>2. Typed /\ FitsInv /\ EdgeInv /\ [Next]_vars => EdgeInv'
  <2> SUFFICES ASSUME Typed, FitsInv, EdgeInv, [Next]_vars, NEW e \in Edges, e \notin staleEdge'
               PROVE  Sound(e)'
    BY DEF EdgeInv
  <2>0. ASSUME UNCHANGED <<row, calls, op, named>>, known'[e] \subseteq known[e], e \notin staleEdge
        PROVE  Sound(e)'
    <3>1. Sound(e)
      BY <2>0 DEF EdgeInv
    <3> QED
      BY <2>0, <3>1 DEF Sound, Has, Seeks, CutAt, Cuts
  <2>1. ASSUME NEW r \in Requests, Routes(r) PROVE Sound(e)'
    BY <2>1, RouteSound
  <2>2. ASSUME NEW r \in Requests, Answers(r) PROVE Sound(e)'
    BY <2>2, AnswerSound
  <2>3. ASSUME NEW x \in Nodes, EvictNode(x) PROVE Sound(e)'
    BY <2>0, <2>3 DEF EvictNode, tables, requests
  <2>4. ASSUME NEW f \in Edges, EvictEdge(f) PROVE Sound(e)'
    <3>1. UNCHANGED <<row, calls, op, named>> /\ known'[e] \subseteq known[e]
      BY <2>4 DEF EvictEdge, tables, requests, Typed, CacheOK
    <3>2. CASE e \notin staleEdge
      BY <2>0, <3>1, <3>2
    <3>3. CASE e \in staleEdge
      <4>1. e = f /\ ~Finding(Requests, e[1], e[2])
        BY <2>4, <3>3 DEF EvictEdge
      <4>2. \A q \in Requests : ~Seeks(q, e)
        BY <4>1, FindingIs
      <4>3. known'[e] = {}
        BY <2>4, <4>1 DEF EvictEdge, Typed, CacheOK
      <4> QED
        BY <3>1, <4>2, <4>3, ForgottenSound DEF Seeks
    <3> QED
      BY <3>2, <3>3
  <2>5. CASE UNCHANGED vars
    BY <2>0, <2>5 DEF vars, tables, cache, requests, history
  <2> QED
    BY <2>1, <2>2, <2>3, <2>4, <2>5 DEF Next, Evict
<1>3. EdgeInv => EdgeSound
  BY DEF EdgeInv, EdgeSound, Sound, Has, Near, Far
<1>4. Init => Typed /\ FitsInv
  BY InitTypes
<1> QED
  BY <1>1, <1>2, <1>3, <1>4, TypesStep, PTL DEF Spec
=============================================================================
