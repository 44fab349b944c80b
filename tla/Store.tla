------------------------------- MODULE Store --------------------------------
(***************************************************************************)
(* The node and edge store: the operations of graph/NodeHandler.ts behind  *)
(* the routes /node, /edge and DELETE /access, on the node table, the      *)
(* popnode table and the in-memory cache of the process (InMemory.ts).     *)
(*                                                                         *)
(* A row has the data of its node and the cells of its edges: ed#y, a      *)
(* counter, or ec#y#r, here with one relation r.  The cache has copies of  *)
(* whole rows and, for the two ends of an edge in either order, the names  *)
(* of its cells.  Copies are dropped when a write is sent, not when it is  *)
(* done, some writes drop none, and an entry that is read lives on.  Left  *)
(* out: counters and TTLs (Metadata, TtlIndex), existence keys (Upsert),   *)
(* writers of other processes, edges of a node with itself.                *)
(***************************************************************************)
EXTENDS Integers

CONSTANTS
    Nodes,     \* node identifiers
    Data,      \* what POST /node saves on a row
    None,      \* no data
    Requests,  \* the operations under way at once
    MaxEvents  \* bound: operations and failing calls of one behaviour

ASSUME StoreAssumption == None \notin Data /\ MaxEvents \in Nat

VARIABLES
    row,       \* node table: node -> data, cells and depths
    pop,       \* popnode table: rows <<kind, x, y>>
    memory,    \* cache, gnbpf:identifier:x -> a copy of the row, or Empty
    known,     \* cache, gnbpf:identifier:x:y:r -> cells by side, {} when absent
    op,        \* request -> what it was asked
    calls,     \* request -> the steps it awaits: pairs <<step, node>>
    seen,      \* request -> the row it has read
    named,     \* request -> the cells of its edge it has read of
    events,    \* how much of the bound is used
    stale,     \* history: nodes whose copy a write overlapped or did not drop
    staleEdge, \* history: the same for known
    torn,      \* history: pairs whose two ends were not written alike
    orphan     \* history: popnode rows left behind, see PopOwned

tables == <<row, pop>>
cache == <<memory, known>>
requests == <<op, calls, seen, named>>
history == <<stale, staleEdge, torn, orphan>>
vars == <<tables, cache, requests, events, history>>

Kinds == {"ed", "ec"}
Sides == {"left", "right"}
Edges == {e \in Nodes \X Nodes : e[1] # e[2]}
Row == [data : Data \cup {None}, cells : SUBSET (Kinds \X Nodes), depth : [Nodes -> Int]]
Empty == [data |-> None, cells |-> {}, depth |-> [y \in Nodes |-> 0]]

Idle == [name |-> "idle"]
Op == {Idle}
    \cup [name : {"getNode", "removeNode", "removeNodeComplete"}, x : Nodes]
    \cup [name : {"createNode"}, x : Nodes, data : Data]
    \cup [name : {"getEdge", "removeEdge"}, x : Nodes, y : Nodes]
    \cup [name : {"createEdge"}, x : Nodes, y : Nodes, kind : Kinds, by : {1}, popular : BOOLEAN]
    \cup [name : {"depth"}, x : Nodes, y : Nodes, kind : {"ed"}, by : {1, -1}, popular : BOOLEAN]

(* The calls on x a request can await.  A cell <<kind, y>> among them is   *)
(* the removal of a popnode row.                                           *)
Steps == {"read", "fill", "look", "insert", "write", "pop", "find", "named", "cut",
          "ask", "check", "drop"} \cup Kinds

(* The types of the state. *)
TypeOK ==
    /\ row \in [Nodes -> Row] /\ memory \in [Nodes -> Row]
    /\ pop \subseteq Kinds \X Nodes \X Nodes
    /\ known \in [Edges -> SUBSET (Sides \X Kinds)]
    /\ op \in [Requests -> Op]
    /\ calls \in [Requests -> SUBSET (Steps \X Nodes)]
    /\ seen \in [Requests -> Row]
    /\ named \in [Requests -> SUBSET (Sides \X Kinds)]
    /\ events \in 0..MaxEvents
    /\ stale \subseteq Nodes /\ staleEdge \subseteq Edges
    /\ torn \subseteq SUBSET Nodes /\ orphan \subseteq Nodes \X Nodes

Init ==
    /\ row = [x \in Nodes |-> Empty] /\ memory = row
    /\ pop = {}
    /\ known = [e \in Edges |-> {}]
    /\ op = [r \in Requests |-> Idle]
    /\ calls = [r \in Requests |-> {}]
    /\ seen = [r \in Requests |-> Empty]
    /\ named = [r \in Requests |-> {}]
    /\ events = 0
    /\ stale = {} /\ staleEdge = {} /\ torn = {} /\ orphan = {}

----------------------------------------------------------------------------
(* What is under way: Q are the requests that count.                       *)

Awaits(r, steps) == \E s \in steps, x \in Nodes : <<s, x>> \in calls[r]
Reading(Q, x) == \E r \in Q, s \in {"read", "fill"} : <<s, x>> \in calls[r]
Dropping(x) == \E r \in Requests, s \in {"ask", "drop"} : <<s, x>> \in calls[r]
Writing(x) == \/ Dropping(x)
              \/ \E r \in Requests, s \in {"insert", "write", "cut"} : <<s, x>> \in calls[r]

Between(x, y) == {r \in Requests : op[r] # Idle /\ "y" \in DOMAIN op[r] /\ {op[r].x, op[r].y} = {x, y}}
Finding(Q, x, y) == \E r \in Q \cap Between(x, y) :
                        op[r].x = x /\ Awaits(r, {"find", "named"})
FindingPair(Q, x, y) == Finding(Q, x, y) \/ Finding(Q, y, x)
WritingPair(x, y) == \E r \in Between(x, y) : Awaits(r, {"write", "pop"})
Cutting(x, y) == \/ Dropping(x) \/ Dropping(y)
                 \/ \E r \in Between(x, y) : Awaits(r, {"cut"})
PopWriting(x, y) == \E r \in Between(x, y) : op[r].x = x /\ Awaits(r, {"write", "pop"}) /\ op[r].popular

AllOf(x) == {e \in Edges : x \in {e[1], e[2]}}
PairsOf(x) == {{x, y} : y \in Nodes}

----------------------------------------------------------------------------
(* Parts of the operations.                                                *)

(* A free request takes an operation and makes its first calls. *)
Begin(r, o, first) ==
    /\ calls[r] = {}
    /\ events < MaxEvents /\ events' = events + 1
    /\ op' = [op EXCEPT ![r] = o]
    /\ calls' = [calls EXCEPT ![r] = first]
    /\ UNCHANGED <<tables, seen>>

(* The call c of r has been answered, and r makes the calls in next: an    *)
(* operation that awaits nothing any more is over.                         *)
Goes(r, c, next) ==
    LET left == (calls[r] \ {c}) \cup next IN
    /\ c \in calls[r]
    /\ calls' = [calls EXCEPT ![r] = left]
    /\ op' = IF left = {} THEN [op EXCEPT ![r] = Idle] ELSE op

(* History: writes to the rows of W are sent by r, and the code leaves the *)
(* cached copies of kept.                                                  *)
Sent(r, W, kept) ==
    stale' = (stale \ W) \cup {x \in W : \/ Reading(Requests \ {r}, x)
                                         \/ x \in kept /\ (x \in stale \/ memory[x] # Empty)}

(* History: a row is asked for, while a write to it may be on its way. *)
Asked(x) == stale' = IF Writing(x) THEN stale \cup {x} ELSE stale

(* History: cells of the edges in gone are about to go; the code leaves    *)
(* the cached names of kept.                                               *)
Unnamed(r, gone, kept) ==
    staleEdge' = (staleEdge \ gone) \cup
        {e \in gone : \/ Finding(Requests \ {r}, e[1], e[2])
                      \/ e \in kept /\ (e \in staleEdge \/ known[e] # {})}

(* Broken on purpose: a dropped entry stays, as a null. *)
DropNull(D) == memory' = [x \in Nodes |-> IF x \in D THEN None ELSE memory[x]]

Drop(D) == memory' = [x \in Nodes |-> IF x \in D THEN Empty ELSE memory[x]]

----------------------------------------------------------------------------
(* Nodes.                                                                  *)

(* getNodeByIdentifier: a hit changes nothing. *)
GetNode(r, x) ==
    /\ memory[x] = Empty
    /\ Begin(r, [name |-> "getNode", x |-> x], {<<"read", x>>})
    /\ Asked(x)
    /\ UNCHANGED <<cache, named, staleEdge, torn, orphan>>

(* The database serves row.get(). *)
Read(r, x) ==
    /\ Goes(r, <<"read", x>>, {<<"fill", x>>})
    /\ seen' = [seen EXCEPT ![r] = row[x]]
    /\ UNCHANGED <<tables, cache, named, events, history>>

(* createNode: the copy of an older row stays. *)
CreateNode(r, x, d) ==
    /\ Begin(r, [name |-> "createNode", x |-> x, data |-> d], {<<"insert", x>>})
    /\ Sent(r, {x}, {x})
    /\ UNCHANGED <<cache, named, staleEdge, torn, orphan>>

(* removeNode: it drops the copy, asks for the row, then deletes it, but   *)
(* not the other ends of its edges, nor their popnode rows.                *)
RemoveNode(r, x) ==
    /\ Begin(r, [name |-> "removeNode", x |-> x], {<<"ask", x>>})
    /\ Drop({x})
    /\ Sent(r, {x}, {}) /\ Unnamed(r, AllOf(x), AllOf(x))
    /\ torn' = torn \cup PairsOf(x)
    /\ orphan' = orphan \cup ({x} \X Nodes)
    /\ UNCHANGED <<known, named>>

(* removeNodeComplete: it asks whether the row exists, then for its copy.  *)
RemoveNodeComplete(r, x) ==
    /\ Begin(r, [name |-> "removeNodeComplete", x |-> x], {<<"check", x>>})
    /\ UNCHANGED <<cache, named, history>>

(* The database answers removeNode's, or removeNodeComplete's, row.get().  *)
Exists(r, x) ==
    /\ \/ Goes(r, <<"ask", x>>, IF row[x] = Empty THEN {} ELSE {<<"drop", x>>})
       \/ Goes(r, <<"check", x>>, IF row[x] = Empty THEN {} ELSE {<<"look", x>>})
    /\ UNCHANGED <<tables, cache, seen, named, events, history>>

(* Broken on purpose: only the depth edges. *)
ShownDepths(copy) == {c \in copy.cells : c[1] = "ed" /\ copy.depth[c[2]] # 0}

(* The edges a copy shows: getRow() skips a value that is zero. *)
Shown(copy) == {c \in copy.cells : c[1] = "ed" => copy.depth[c[2]] # 0}

(* The rest of removeNodeComplete: the copy is dropped, the row and the    *)
(* popnode rows of the edges on the copy are deleted.                      *)
Purge(r, c, x, copy) ==
    /\ Goes(r, c, {<<"drop", x>>} \cup Shown(copy))
    /\ Drop({x})
    /\ Sent(r, {x}, {}) /\ Unnamed(r, AllOf(x), AllOf(x))
    /\ torn' = torn \cup PairsOf(x)
    /\ orphan' = orphan \cup {<<x, y>> : y \in {z \in Nodes :
                    x \in stale \/ PopWriting(x, z) \/ <<"ed", z>> \in copy.cells \ Shown(copy)}}

(* getNodeByIdentifier in createNode and removeNodeComplete. *)
Look(r, x) ==
    /\ \/ /\ memory[x] = Empty
          /\ Goes(r, <<"look", x>>, {<<"read", x>>})
          /\ Asked(x)
          /\ UNCHANGED <<memory, staleEdge, torn, orphan>>
       \/ /\ memory[x] # Empty /\ op[r].name = "createNode"
          /\ Goes(r, <<"look", x>>, {})
          /\ UNCHANGED <<memory, history>>
       \/ /\ memory[x] # Empty /\ op[r].name = "removeNodeComplete"
          /\ Purge(r, <<"look", x>>, x, memory[x])
    /\ UNCHANGED <<tables, known, seen, named, events>>

(* The answer to row.get() comes in: a row that exists is cached.          *)
Fill(r, x) ==
    /\ seen' = [seen EXCEPT ![r] = Empty]
    /\ \/ /\ op[r].name # "removeNodeComplete" \/ seen[r] = Empty
          /\ Goes(r, <<"fill", x>>, {})
          /\ memory' = IF seen[r] = Empty THEN memory ELSE [memory EXCEPT ![x] = seen[r]]
          /\ UNCHANGED history
       \/ /\ op[r].name = "removeNodeComplete" /\ seen[r] # Empty
          /\ Purge(r, <<"fill", x>>, x, seen[r])
    /\ UNCHANGED <<tables, known, named, events>>

----------------------------------------------------------------------------
(* Edges.                                                                  *)

(* The two calls of a depth or an edge: on the left row and on the right   *)
(* row or, for a popular right node, on the popnode row.                   *)
EdgeCalls(o) == {<<"write", o.x>>, IF o.popular THEN <<"pop", o.x>> ELSE <<"write", o.y>>}

(* History: the ends of the pair may be written or read differently. *)
Apart(o) == torn' = IF o.popular \/ FindingPair(Requests, o.x, o.y) \/ Cutting(o.x, o.y)
                    THEN torn \cup {{o.x, o.y}} ELSE torn

PopLate(o) == orphan' = IF o.popular /\ Dropping(o.x) THEN orphan \cup {<<o.x, o.y>>} ELSE orphan

(* Broken on purpose: the right copy stays. *)
CreateEdgeKeepsRight(r, x, y, kind, popular) ==
    LET o == [name |-> "createEdge", x |-> x, y |-> y, kind |-> kind, by |-> 1, popular |-> popular]
        W == IF popular THEN {x} ELSE {x, y}
    IN  /\ Begin(r, o, EdgeCalls(o))
        /\ Drop({x})
        /\ Sent(r, W, {}) /\ Apart(o) /\ PopLate(o)
        /\ UNCHANGED <<known, named, staleEdge>>

(* createEdgeWithId. *)
CreateEdge(r, x, y, kind, popular) ==
    LET o == [name |-> "createEdge", x |-> x, y |-> y, kind |-> kind, by |-> 1, popular |-> popular]
        W == IF popular THEN {x} ELSE {x, y}
    IN  /\ Begin(r, o, EdgeCalls(o))
        /\ Drop(W)
        /\ Sent(r, W, {}) /\ Apart(o) /\ PopLate(o)
        /\ UNCHANGED <<known, named, staleEdge>>

(* increaseEdgeDepthById and decreaseEdgeDepthById: the left copy is       *)
(* dropped twice, the right one stays.                                     *)
Depth(r, x, y, by, popular) ==
    LET o == [name |-> "depth", x |-> x, y |-> y, kind |-> "ed", by |-> by, popular |-> popular]
        W == IF popular THEN {x} ELSE {x, y}
    IN  /\ Begin(r, o, EdgeCalls(o))
        /\ Drop({x})
        /\ Sent(r, W, {y}) /\ Apart(o) /\ PopLate(o)
        /\ UNCHANGED <<known, named, staleEdge>>

(* edgeExistsId asks for the first cell of the edge on both rows. *)
Find(r, x, y, name) ==
    /\ known[<<x, y>>] = {}
    /\ Begin(r, [name |-> name, x |-> x, y |-> y], {<<"find", x>>, <<"find", y>>})
    /\ staleEdge' = IF Cutting(x, y) THEN staleEdge \cup {<<x, y>>} ELSE staleEdge
    /\ torn' = IF Cutting(x, y) \/ WritingPair(x, y) THEN torn \cup {{x, y}} ELSE torn
    /\ UNCHANGED <<cache, named, stale, orphan>>

Other(o, x) == IF x = o.x THEN o.y ELSE o.x
Side(o, x) == IF x = o.x THEN "left" ELSE "right"

(* The database serves one of the two: ec# comes before ed#. *)
Found(r, x) ==
    LET o == op[r]
        on == {k \in Kinds : <<k, Other(o, x)>> \in row[x].cells}
        last == calls[r] = {<<"find", x>>}
    IN  /\ <<"find", x>> \in calls[r]
        /\ Goes(r, <<"find", x>>, IF last THEN {<<"named", o.x>>} ELSE {})
        /\ named' = [named EXCEPT ![r] = @ \cup
             {<<Side(o, x), k>> : k \in (IF "ec" \in on THEN {"ec"} ELSE on)}]
        /\ UNCHANGED <<tables, cache, seen, events, history>>

(* Broken on purpose: the entry stays. *)
UnlinkKeeps(r, x, y) ==
    /\ Sent(r, {x, y}, {x, y}) /\ Unnamed(r, {<<x, y>>, <<y, x>>}, {<<y, x>>})
    /\ torn' = IF WritingPair(x, y) \/ FindingPair(Requests \ {r}, x, y)
               THEN torn \cup {{x, y}} ELSE torn
    /\ orphan' = orphan \cup {<<x, y>>, <<y, x>>}
    /\ UNCHANGED known

(* removeEdgeByIds, once it has the names: the entry is dropped, and each  *)
(* row loses the cells that were found on it; the copies of the rows stay. *)
Unlink(r, x, y) ==
    /\ known' = [known EXCEPT ![<<x, y>>] = {}]
    /\ Sent(r, {x, y}, {x, y}) /\ Unnamed(r, {<<x, y>>, <<y, x>>}, {<<y, x>>})
    /\ torn' = IF WritingPair(x, y) \/ FindingPair(Requests \ {r}, x, y)
               THEN torn \cup {{x, y}} ELSE torn
    /\ orphan' = orphan \cup {<<x, y>>, <<y, x>>}

RemoveEdgeHit(r, x, y) ==
    /\ known[<<x, y>>] # {}
    /\ Begin(r, [name |-> "removeEdge", x |-> x, y |-> y], {<<"cut", x>>, <<"cut", y>>})
    /\ named' = [named EXCEPT ![r] = known[<<x, y>>]]
    /\ Unlink(r, x, y)
    /\ UNCHANGED memory

(* Both answers are in: the names are cached, and getEdge is over. *)
Named(r, x) ==
    LET y == op[r].y
    IN  /\ <<"named", x>> \in calls[r]
        /\ \/ /\ op[r].name = "getEdge" \/ named[r] = {}
              /\ Goes(r, <<"named", x>>, {})
              /\ known' = IF named[r] = {} THEN known ELSE [known EXCEPT ![<<x, y>>] = named[r]]
              /\ named' = [named EXCEPT ![r] = {}]
              /\ UNCHANGED history
           \/ /\ op[r].name = "removeEdge" /\ named[r] # {}
              /\ Goes(r, <<"named", x>>, {<<"cut", x>>, <<"cut", y>>})
              /\ Unlink(r, x, y)
              /\ UNCHANGED named
        /\ UNCHANGED <<tables, memory, seen, events>>

----------------------------------------------------------------------------
(* The database takes a write, or fails.                                   *)

(* Broken on purpose: the right row is always counted up. *)
WrittenUp(o, x) ==
    [row EXCEPT ![x].cells = @ \cup {<<o.kind, Other(o, x)>>},
                ![x].depth[Other(o, x)] = IF o.kind # "ed" THEN @ ELSE IF x = o.x THEN @ + o.by ELSE @ + 1]

Written(o, x) == [row EXCEPT ![x].cells = @ \cup {<<o.kind, Other(o, x)>>},
                             ![x].depth[Other(o, x)] = IF o.kind = "ed" THEN @ + o.by ELSE @]
Without(cells, x) == [row EXCEPT
    ![x].cells = @ \ cells,
    ![x].depth = [y \in Nodes |-> IF <<"ed", y>> \in cells THEN 0 ELSE row[x].depth[y]]]

(* What the call <<s, x>> of r does to the tables. *)
Effect(r, s, x) ==
    \/ /\ s = "insert"
       /\ row' = [row EXCEPT ![x].data = op[r].data] /\ UNCHANGED pop
    \/ /\ s = "write"
       /\ row' = Written(op[r], x) /\ UNCHANGED pop
    \/ /\ s = "cut"
       /\ row' = Without({<<k, Other(op[r], x)>> : k \in
                    {k \in Kinds : <<Side(op[r], x), k>> \in named[r]}}, x)
       /\ UNCHANGED pop
    \/ /\ s = "drop"
       /\ row' = [row EXCEPT ![x] = Empty] /\ UNCHANGED pop
    \/ /\ s = "pop"
       /\ pop' = pop \cup {<<op[r].kind, x, op[r].y>>} /\ UNCHANGED row
    \/ /\ s \in Kinds
       /\ pop' = pop \ {<<s, op[r].x, x>>} /\ UNCHANGED row

Writes == {"insert", "write", "cut", "drop", "pop"} \cup Kinds

(* A request forgets the names when its last cut is done. *)
Forget(r) == named' = IF calls'[r] = {} THEN [named EXCEPT ![r] = {}] ELSE named

Write(r, s, x) ==
    /\ Goes(r, <<s, x>>, IF s = "insert" THEN {<<"look", x>>} ELSE {})
    /\ Effect(r, s, x) /\ Forget(r)
    /\ UNCHANGED <<cache, seen, events, history>>

(* A write fails, done or not; the other calls of the request go on, and   *)
(* createNode returns the error.                                           *)
FailWrite(r, s, x) ==
    /\ events < MaxEvents /\ events' = events + 1
    /\ Goes(r, <<s, x>>, {})
    /\ Effect(r, s, x) \/ UNCHANGED tables
    /\ Forget(r)
    /\ torn' = IF s \in {"write", "cut"} THEN torn \cup PairsOf(x) ELSE torn
    /\ orphan' = IF s \in {"write"} \cup Kinds THEN orphan \cup ({op[r].x} \X Nodes) ELSE orphan
    /\ UNCHANGED <<cache, seen, stale, staleEdge>>

(* A read fails: the operation ends, or has not found its edge there. *)
FailRead(r, s, x) ==
    /\ events < MaxEvents /\ events' = events + 1
    /\ Goes(r, <<s, x>>, IF calls[r] = {<<"find", x>>} THEN {<<"named", op[r].x>>} ELSE {})
    /\ torn' = IF s = "find" THEN torn \cup PairsOf(x) ELSE torn
    /\ UNCHANGED <<tables, cache, seen, named, stale, staleEdge, orphan>>

(* An entry of the cache runs out. *)
EvictNode(x) ==
    /\ memory[x] # Empty
    /\ Drop({x})
    /\ stale' = IF Reading(Requests, x) THEN stale ELSE stale \ {x}
    /\ UNCHANGED <<tables, known, requests, events, staleEdge, torn, orphan>>

EvictEdge(e) ==
    /\ known[e] # {}
    /\ known' = [known EXCEPT ![e] = {}]
    /\ staleEdge' = IF Finding(Requests, e[1], e[2]) THEN staleEdge ELSE staleEdge \ {e}
    /\ UNCHANGED <<tables, memory, requests, events, stale, torn, orphan>>

(* Requests come in: routes/node.ts, DELETE /access, and routes/edge.ts,   *)
(* where PUT hands over its relation as isPopularRightNode.                *)
NodeRoutes(r) ==
    \/ \E x \in Nodes : GetNode(r, x) \/ RemoveNode(r, x) \/ RemoveNodeComplete(r, x)
    \/ \E x \in Nodes, d \in Data : CreateNode(r, x, d)

EdgeRoutes(r) ==
    \E e \in Edges : \/ RemoveEdgeHit(r, e[1], e[2])
                     \/ \E name \in {"getEdge", "removeEdge"} : Find(r, e[1], e[2], name)
                     \/ \E k \in Kinds, p \in BOOLEAN : CreateEdge(r, e[1], e[2], k, p)
                     \/ \E by \in {1, -1}, p \in BOOLEAN : Depth(r, e[1], e[2], by, p)

Routes(r) == NodeRoutes(r) \/ EdgeRoutes(r)

Answers(r) ==
    \/ \E x \in Nodes : Read(r, x) \/ Fill(r, x) \/ Look(r, x) \/ Exists(r, x)
    \/ \E x \in Nodes : Found(r, x) \/ Named(r, x)
    \/ \E s \in Writes, x \in Nodes : Write(r, s, x) \/ FailWrite(r, s, x)
    \/ \E s \in {"read", "find", "ask", "check"}, x \in Nodes : FailRead(r, s, x)

Evict == (\E x \in Nodes : EvictNode(x)) \/ (\E e \in Edges : EvictEdge(e))

Next == (\E r \in Requests : Routes(r) \/ Answers(r)) \/ Evict
Spec == Init /\ [][Next]_vars

----------------------------------------------------------------------------
(* Properties.                                                             *)

(* A cached copy is the row, unless a read and a write of it overlapped or *)
(* a write that drops no copy was sent: createNode over an older row, the  *)
(* right row of a depth, both rows of removeEdge (NodeHandler.ts:519, :718,*)
(* :642, :830).  Every other write leaves no copy behind.                  *)
Fresh == \A x \in Nodes \ stale : memory[x] # Empty => memory[x] = row[x]

(* The cells a cached edge names are on the rows of its ends, unless they  *)
(* went with a node, in the name of the reversed edge, or while they were  *)
(* looked for (NodeHandler.ts:307, :643, :750).                            *)
EdgeSound ==
    \A e \in Edges \ staleEdge : \A c \in known[e] :
        LET end == IF c[1] = "left" THEN e ELSE <<e[2], e[1]>>
        IN  <<c[2], end[2]>> \in row[end[1]].cells

(* When nothing is on its way, the rows of two nodes have the same edges   *)
(* and depths between them, however depths, creations and removals were    *)
(* interleaved: but for popular right nodes, removed nodes, calls that     *)
(* failed, and a removal or a lookup that overlapped a write of the same   *)
(* edge (NodeHandler.ts:349-400, :645-676).                                *)
EndsAgree ==
    \A e \in Edges :
        LET x == e[1]
            y == e[2]
        IN  {x, y} \in torn \/ WritingPair(x, y) \/ Cutting(x, y)
            \/ /\ row[x].depth[y] = row[y].depth[x]
               /\ \A k \in Kinds : <<k, y>> \in row[x].cells <=> <<k, x>> \in row[y].cells

(* A popnode row has its edge on the left row: removeNodeComplete deletes  *)
(* them together, whichever copy it read them from.  Left behind are those *)
(* of removeEdge and removeNode, of a depth of zero, of a copy that was    *)
(* stale, of a failed call and of a write during the removal               *)
(* (NodeHandler.ts:773-786, :801).                                         *)
PopOwned ==
    \A p \in pop :
        \/ <<p[1], p[3]>> \in row[p[2]].cells
        \/ <<p[2], p[3]>> \in orphan
        \/ PopWriting(p[2], p[3])
        \/ \E r \in Requests : op[r] # Idle /\ op[r].x = p[2] /\ <<p[1], p[3]>> \in calls[r]

=============================================================================
