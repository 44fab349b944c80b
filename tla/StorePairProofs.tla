-------------------------- MODULE StorePairProofs ---------------------------
(***************************************************************************)
(* Proofs about the edges of Store: no popnode row outlives its edge, and  *)
(* the two ends of an edge have the same, whatever creations, depths,      *)
(* lookups, removals and failures overlap, but where the code leaves a row *)
(* behind or tears a pair.                                                 *)
(***************************************************************************)
EXTENDS StoreProofs, FiniteSetTheorems

-----------------------------------------------------------------------------
(* The inductive invariant, for a left node x and a popular right node y.  *)

\* Request q has not done all of an edge of kind k from x to y.
Puts(q, x, y, k) ==
  /\ <<"write", x>> \in calls[q] \/ <<"pop", x>> \in calls[q]
  /\ op[q] \in LinkOp /\ op[q].popular
  /\ op[q].x = x /\ op[q].y = y /\ op[q].kind = k

\* Request q will remove the popnode row of that edge.
Clears(q, x, y, k) == <<k, y>> \in calls[q] /\ op[q].x = x

Going(x) == \E q \in Requests : <<"drop", x>> \in calls[q]

\* A popnode row has its edge on the left row, which is not about to go, or the
\* edge is being written, or the popnode row is being removed.  No edge is being
\* written to a row that goes, and of one that is, the left cell is there unless
\* it is awaited.  What orphans the pair is not under way.
Owned(x, y) ==
  /\ \A k \in Kinds : <<k, x, y>> \in pop =>
        \/ <<k, y>> \in row[x].cells /\ ~Going(x)
        \/ \E q \in Requests : Puts(q, x, y, k)
        \/ \E q \in Requests : Clears(q, x, y, k)
  /\ Going(x) => \A q \in Requests, k \in Kinds : ~Puts(q, x, y, k)
  /\ \A q \in Requests, k \in Kinds :
        Puts(q, x, y, k) /\ <<"write", x>> \notin calls[q] => <<k, y>> \in row[x].cells
  /\ \A q \in Requests : <<"ask", x>> \notin calls[q]
  /\ \A q \in Requests, z \in {x, y} : <<"cut", z>> \in calls[q] => {op[q].x, op[q].y} # {x, y}

PopInv == \A x, y \in Nodes : <<x, y>> \notin orphan => Owned(x, y)

-----------------------------------------------------------------------------
(* What keeps it.                                                          *)

\* What Begin and Goes do to the requests.
LEMMA BeginDoes ==
  ASSUME Typed, NEW r \in Requests, NEW o, NEW first, Begin(r, o, first)
  PROVE  /\ calls[r] = {} /\ calls'[r] = first /\ op'[r] = o /\ row' = row /\ pop' = pop
         /\ \A q \in Requests : q # r => calls'[q] = calls[q] /\ op'[q] = op[q]
BY DEF Begin, tables, Typed, RequestsOK

\* The same of a request that goes on.
LEMMA GoesDoes ==
  ASSUME Typed, NEW r \in Requests, NEW c, NEW next, Goes(r, c, next)
  PROVE  /\ c \in calls[r] /\ calls'[r] = (calls[r] \ {c}) \cup next
         /\ calls'[r] # {} => op'[r] = op[r]
         /\ \A q \in Requests : q # r => calls'[q] = calls[q] /\ op'[q] = op[q]
BY DEF Goes, Typed, RequestsOK

\* A step of r that does nothing to the pair keeps it owned.
LEMMA StaysOwned ==
  ASSUME NEW x \in Nodes, NEW y \in Nodes, Owned(x, y), NEW r \in Requests,
         \A q \in Requests : q # r => calls'[q] = calls[q] /\ op'[q] = op[q],
         \A k \in Kinds : <<k, x, y>> \in pop' =>
            <<k, x, y>> \in pop /\ (Clears(r, x, y, k) => Clears(r, x, y, k)'),
         Going(x) \/ \A k \in Kinds : <<k, y>> \in row[x].cells => <<k, y>> \in row'[x].cells,
         \A k \in Kinds : /\ Puts(r, x, y, k)' <=> Puts(r, x, y, k)
                          /\ Puts(r, x, y, k) /\ <<"write", x>> \in calls[r] => <<"write", x>> \in calls'[r],
         <<"drop", x>> \in calls'[r] => <<"drop", x>> \in calls[r],
         <<"ask", x>> \notin calls'[r],
         \A z \in {x, y} : <<"cut", z>> \in calls'[r] => {op'[r].x, op'[r].y} # {x, y}
  PROVE  Owned(x, y)'
<1>1. \A q \in Requests, k \in Kinds : Puts(q, x, y, k)' <=> Puts(q, x, y, k)
  BY DEF Puts
<1>2. \A q \in Requests, k \in Kinds :
        q # r => (Clears(q, x, y, k)' <=> Clears(q, x, y, k))
  BY DEF Clears
<1>3. Going(x)' => Going(x)
  BY DEF Going
<1>4. ASSUME NEW k \in Kinds, <<k, x, y>> \in pop'
      PROVE  \/ <<k, y>> \in row'[x].cells /\ ~Going(x)'
             \/ \E q \in Requests : Puts(q, x, y, k)'
             \/ \E q \in Requests : Clears(q, x, y, k)'
  <2>1. CASE <<k, y>> \in row[x].cells /\ ~Going(x)
    BY <1>3, <2>1
  <2>2. CASE \E q \in Requests : Puts(q, x, y, k)
    BY <1>1, <2>2
  <2>3. CASE \E q \in Requests : Clears(q, x, y, k)
    BY <1>2, <1>4, <2>3
  <2> QED
    BY <1>4, <2>1, <2>2, <2>3 DEF Owned
<1>5. ASSUME NEW q \in Requests, NEW k \in Kinds, Puts(q, x, y, k)', <<"write", x>> \notin calls'[q]
      PROVE  <<k, y>> \in row'[x].cells
  <2>1. Puts(q, x, y, k) /\ ~Going(x)
    BY <1>1, <1>5 DEF Owned
  <2>2. <<"write", x>> \notin calls[q]
    BY <1>5, <2>1
  <2> QED
    BY <2>1, <2>2 DEF Owned
<1> QED
  BY <1>1, <1>3, <1>4, <1>5 DEF Owned

\* A request begins that has nothing to do with the pair.
LEMMA BeginOwned ==
  ASSUME Typed, NEW x \in Nodes, NEW y \in Nodes, Owned(x, y), NEW r \in Requests, NEW o, NEW first,
         Begin(r, o, first), \A k \in Kinds : ~Puts(r, x, y, k)',
         <<"drop", x>> \notin first, <<"ask", x>> \notin first,
         \A z \in {x, y} : <<"cut", z>> \in first => {o.x, o.y} # {x, y}
  PROVE  Owned(x, y)'
<1>1. /\ calls[r] = {} /\ calls'[r] = first /\ op'[r] = o /\ row' = row /\ pop' = pop
      /\ \A q \in Requests : q # r => calls'[q] = calls[q] /\ op'[q] = op[q]
  BY BeginDoes
<1>2. \A k \in Kinds : ~Puts(r, x, y, k) /\ ~Clears(r, x, y, k)
  BY <1>1 DEF Puts, Clears
<1> QED
  BY <1>1, <1>2, StaysOwned

\* A request goes on that neither writes nor removes.
LEMMA GoesOwned ==
  ASSUME Typed, NEW x \in Nodes, NEW y \in Nodes, Owned(x, y), NEW r \in Requests, NEW c, NEW next,
         Goes(r, c, next), UNCHANGED tables,
         c \notin {<<"write", x>>, <<"pop", x>>} \cup (Kinds \X Nodes),
         \A s \in {"drop", "ask", "write", "pop"} : <<s, x>> \notin next,
         \A z \in {x, y} : <<"cut", z>> \in next => {op[r].x, op[r].y} # {x, y}
  PROVE  Owned(x, y)'
<1>1. /\ c \in calls[r] /\ calls'[r] = (calls[r] \ {c}) \cup next
      /\ calls'[r] # {} => op'[r] = op[r]
      /\ \A q \in Requests : q # r => calls'[q] = calls[q] /\ op'[q] = op[q]
  BY GoesDoes
<1>2. row' = row /\ pop' = pop
  BY DEF tables
<1>3. \A k \in Kinds : Puts(r, x, y, k)' <=> Puts(r, x, y, k)
  BY <1>1 DEF Puts
<1>4. \A k \in Kinds : Clears(r, x, y, k) => Clears(r, x, y, k)'
  BY <1>1 DEF Clears
<1>5. <<"write", x>> \in calls[r] => <<"write", x>> \in calls'[r]
  BY <1>1
<1>6. \A z \in {x, y} : <<"cut", z>> \in calls'[r] => {op'[r].x, op'[r].y} # {x, y}
  BY <1>1 DEF Owned
<1> QED
  BY <1>1, <1>2, <1>3, <1>4, <1>5, <1>6, StaysOwned DEF Owned

-----------------------------------------------------------------------------
(* The steps.                                                              *)

\* An edge or a depth is begun.
LEMMA LinkOwned ==
  ASSUME Typed, NEW x \in Nodes, NEW y \in Nodes, Owned(x, y), NEW r \in Requests, NEW o \in LinkOp,
         Begin(r, o, EdgeCalls(o)), PopLate(o), <<x, y>> \notin orphan'
  PROVE  Owned(x, y)'
<1>1. /\ calls[r] = {} /\ calls'[r] = EdgeCalls(o) /\ op'[r] = o /\ row' = row /\ pop' = pop
      /\ \A q \in Requests : q # r => calls'[q] = calls[q] /\ op'[q] = op[q]
  BY BeginDoes
<1>2. \A s \in {"drop", "ask", "cut"} \cup Kinds, z \in Nodes : <<s, z>> \notin EdgeCalls(o)
  BY DEF EdgeCalls, Kinds
<1>3. CASE ~(o.popular /\ o.x = x /\ o.y = y)
  <2>1. \A k \in Kinds : ~Puts(r, x, y, k)'
    BY <1>1, <1>3 DEF Puts
  <2> QED
    BY <1>2, <2>1, BeginOwned
<1>4. CASE o.popular /\ o.x = x /\ o.y = y
  <2>1. ~Going(x)
    BY <1>4 DEF PopLate, Dropping, Going
  <2>2. ~Going(x)'
    BY <1>1, <1>2, <2>1 DEF Going
  <2>3. <<"write", x>> \in calls'[r]
    BY <1>1, <1>4 DEF EdgeCalls
  <2>4. \A q \in Requests, k \in Kinds :
          q # r => (Puts(q, x, y, k)' <=> Puts(q, x, y, k)) /\ (Clears(q, x, y, k)' <=> Clears(q, x, y, k))
    BY <1>1 DEF Puts, Clears
  <2>5. \A k \in Kinds : ~Puts(r, x, y, k) /\ ~Clears(r, x, y, k)
    BY <1>1 DEF Puts, Clears
  <2>6. ASSUME NEW k \in Kinds, <<k, x, y>> \in pop'
        PROVE  \/ <<k, y>> \in row'[x].cells /\ ~Going(x)'
               \/ \E q \in Requests : Puts(q, x, y, k)'
               \/ \E q \in Requests : Clears(q, x, y, k)'
    <3>1. \/ <<k, y>> \in row[x].cells
          \/ \E q \in Requests : Puts(q, x, y, k)
          \/ \E q \in Requests : Clears(q, x, y, k)
      BY <1>1, <2>6 DEF Owned
    <3>2. CASE <<k, y>> \in row[x].cells
      BY <1>1, <2>2, <3>2
    <3>3. CASE \E q \in Requests : Puts(q, x, y, k)
      BY <2>4, <2>5, <3>3
    <3>4. CASE \E q \in Requests : Clears(q, x, y, k)
      BY <2>4, <2>5, <3>4
    <3> QED
      BY <3>1, <3>2, <3>3, <3>4
  <2>7. ASSUME NEW q \in Requests, NEW k \in Kinds, Puts(q, x, y, k)', <<"write", x>> \notin calls'[q]
        PROVE  <<k, y>> \in row'[x].cells
    <3>1. q # r
      BY <2>3, <2>7
    <3>2. Puts(q, x, y, k) /\ <<"write", x>> \notin calls[q]
      BY <1>1, <2>4, <2>7, <3>1
    <3> QED
      BY <1>1, <3>2 DEF Owned
  <2>8. \A q \in Requests : <<"ask", x>> \notin calls'[q]
    BY <1>1, <1>2 DEF Owned
  <2>9. \A q \in Requests, z \in {x, y} : <<"cut", z>> \in calls'[q] => {op'[q].x, op'[q].y} # {x, y}
    BY <1>1, <1>2 DEF Owned
  <2> QED
    BY <2>2, <2>6, <2>7, <2>8, <2>9 DEF Owned
<1> QED
  BY <1>3, <1>4

\* A request that comes in keeps the pair owned.
LEMMA RouteOwned ==
  ASSUME Typed, PopInv, NEW r \in Requests, Routes(r),
         NEW x \in Nodes, NEW y \in Nodes, <<x, y>> \notin orphan'
  PROVE  Owned(x, y)'
<1>0. <<x, y>> \notin orphan => Owned(x, y)
  BY DEF PopInv
<1>s. ASSUME NEW o, NEW first, Begin(r, o, first), <<x, y>> \notin orphan,
             \A s \in {"write", "pop", "drop", "ask"} : <<s, x>> \notin first,
             \A z \in {x, y} : <<"cut", z>> \in first => {o.x, o.y} # {x, y}
      PROVE  Owned(x, y)'
  <2>1. \A k \in Kinds : ~Puts(r, x, y, k)'
    BY <1>s, BeginDoes DEF Puts
  <2> QED
    BY <1>0, <1>s, <2>1, BeginOwned
<1>1. ASSUME NEW z \in Nodes, GetNode(r, z) PROVE Owned(x, y)'
  BY <1>s, <1>1 DEF GetNode
<1>2. ASSUME NEW z \in Nodes, NEW d \in Data, CreateNode(r, z, d) PROVE Owned(x, y)'
  BY <1>s, <1>2 DEF CreateNode
<1>3. ASSUME NEW z \in Nodes, RemoveNode(r, z) PROVE Owned(x, y)'
  <2>1. z # x /\ <<x, y>> \notin orphan
    BY <1>3 DEF RemoveNode
  <2> QED
    BY <1>s, <1>3, <2>1 DEF RemoveNode
<1>4. ASSUME NEW z \in Nodes, RemoveNodeComplete(r, z) PROVE Owned(x, y)'
  BY <1>s, <1>4 DEF RemoveNodeComplete, history
<1>5. ASSUME NEW e \in Edges, NEW k \in Kinds, NEW p \in BOOLEAN, CreateEdge(r, e[1], e[2], k, p)
      PROVE  Owned(x, y)'
  <2> DEFINE o == [name |-> "createEdge", x |-> e[1], y |-> e[2], kind |-> k, by |-> 1, popular |-> p]
  <2>1. Begin(r, o, EdgeCalls(o)) /\ PopLate(o)
    BY <1>5 DEF CreateEdge
  <2>2. o \in LinkOp
    BY DEF LinkOp, Edges
  <2> HIDE DEF o
  <2>3. <<x, y>> \notin orphan
    BY <2>1 DEF PopLate
  <2> QED
    BY <1>0, <2>1, <2>2, <2>3, LinkOwned
<1>6. ASSUME NEW e \in Edges, NEW by \in {1, -1}, NEW p \in BOOLEAN, Depth(r, e[1], e[2], by, p)
      PROVE  Owned(x, y)'
  <2> DEFINE o == [name |-> "depth", x |-> e[1], y |-> e[2], kind |-> "ed", by |-> by, popular |-> p]
  <2>1. Begin(r, o, EdgeCalls(o)) /\ PopLate(o)
    BY <1>6 DEF Depth
  <2>2. o \in LinkOp
    BY DEF LinkOp, Edges
  <2> HIDE DEF o
  <2>3. <<x, y>> \notin orphan
    BY <2>1 DEF PopLate
  <2> QED
    BY <1>0, <2>1, <2>2, <2>3, LinkOwned
<1>7. ASSUME NEW e \in Edges, NEW name, Find(r, e[1], e[2], name) PROVE Owned(x, y)'
  BY <1>s, <1>7 DEF Find
<1>8. ASSUME NEW e \in Edges, RemoveEdgeHit(r, e[1], e[2]) PROVE Owned(x, y)'
  <2>1. /\ Begin(r, [name |-> "removeEdge", x |-> e[1], y |-> e[2]], {<<"cut", e[1]>>, <<"cut", e[2]>>})
        /\ orphan' = orphan \cup {e, <<e[2], e[1]>>}
    BY <1>8 DEF RemoveEdgeHit, Unlink, Edges
  <2>2. {e[1], e[2]} # {x, y}
    BY <2>1 DEF Edges
  <2> QED
    BY <1>s, <2>1, <2>2
<1> QED
  BY <1>1, <1>2, <1>3, <1>4, <1>5, <1>6, <1>7, <1>8 DEF Routes, NodeRoutes, EdgeRoutes

\* removeNodeComplete has its copy of the row: it removes what the copy shows.
LEMMA PurgeOwned ==
  ASSUME Typed, FitsInv, FreshInv, NEW r \in Requests, NEW z \in Nodes, NEW s \in {"look", "fill"},
         NEW copy \in Row, Purge(r, <<s, z>>, z, copy), UNCHANGED tables,
         calls[r] = {<<s, z>>}, op[r].x = z, z \notin stale => copy = row[z],
         NEW x \in Nodes, NEW y \in Nodes, Owned(x, y), <<x, y>> \notin orphan'
  PROVE  Owned(x, y)'
<1> DEFINE next == {<<"drop", z>>} \cup Shown(copy)
<1>1. Goes(r, <<s, z>>, next)
  BY DEF Purge
<1>2. Shown(copy) \subseteq Kinds \X Nodes
  BY PurgeTypes
<1>3. CASE z # x
  <2>1. /\ \A t \in {"drop", "ask", "write", "pop"} : <<t, x>> \notin next
        /\ \A w \in {x, y} : <<"cut", w>> \notin next
    BY <1>2, <1>3 DEF Kinds
  <2> HIDE DEF next
  <2>2. <<s, z>> \notin {<<"write", x>>, <<"pop", x>>} \cup (Kinds \X Nodes)
    BY DEF Kinds
  <2> QED
    BY <1>1, <2>1, <2>2, GoesOwned
<1>4. CASE z = x
  <2>1. /\ x \notin stale /\ ~PopWriting(x, y) /\ <<"ed", y>> \notin copy.cells \ Shown(copy)
        /\ <<x, y>> \notin orphan
    BY <1>4 DEF Purge
  <2>2. /\ calls'[r] = next
        /\ \A q \in Requests : q # r => calls'[q] = calls[q] /\ op'[q] = op[q]
    BY <1>1, GoesDoes
  <2>3. op'[r] = op[r]
    BY <1>1, <2>2, GoesDoes
  <2>4. row' = row /\ pop' = pop
    BY DEF tables
  <2>5. \A q \in Requests, k \in Kinds : ~Puts(q, x, y, k)
    <3> SUFFICES ASSUME NEW q \in Requests, NEW k \in Kinds, Puts(q, x, y, k) PROVE FALSE
      OBVIOUS
    <3>1. op[q] # Idle /\ "y" \in DOMAIN op[q]
      <4>1. op[q].name \in {"createEdge", "depth"} /\ Idle.name = "idle"
        BY DEF Puts, LinkOp, Idle
      <4> QED
        BY <4>1 DEF Puts, LinkOp
    <3>2. q \in Between(x, y)
      BY <3>1 DEF Between, Puts
    <3> QED
      BY <2>1, <3>2 DEF PopWriting, Awaits, Puts
  <2>6. \A q \in Requests, k \in Kinds : ~Puts(q, x, y, k)'
    BY <1>2, <2>2, <2>5 DEF Puts, Kinds
  <2>7. ASSUME NEW k \in Kinds, <<k, x, y>> \in pop' PROVE \E q \in Requests : Clears(q, x, y, k)'
    <3>1. CASE <<k, y>> \in row[x].cells
      <4>1. <<k, y>> \in Shown(copy)
        BY <1>4, <2>1, <3>1 DEF Shown, Kinds
      <4> QED
        BY <1>4, <2>2, <2>3, <4>1 DEF Clears
    <3>2. CASE \E q \in Requests : Clears(q, x, y, k)
      <4>1. ~Clears(r, x, y, k)
        BY DEF Clears, Kinds
      <4> QED
        BY <2>2, <3>2, <4>1 DEF Clears
    <3> QED
      BY <2>4, <2>5, <2>7, <3>1, <3>2 DEF Owned
  <2>8. \A q \in Requests : <<"ask", x>> \notin calls'[q]
    BY <1>2, <2>2 DEF Owned, Kinds
  <2>9. \A q \in Requests, w \in {x, y} : <<"cut", w>> \in calls'[q] => {op'[q].x, op'[q].y} # {x, y}
    BY <1>2, <2>2 DEF Owned, Kinds
  <2> QED
    BY <2>6, <2>7, <2>8, <2>9 DEF Owned
<1> QED
  BY <1>3, <1>4

\* Only an edge to a popular right node writes a popnode row.
PopularInv == \A q \in Requests, z \in Nodes : <<"pop", z>> \in calls[q] => op[q].popular

\* What a write does to the cells of x.
LEMMA CellsKept ==
  ASSUME Typed, FitsInv, NEW r \in Requests, NEW s \in Writes, NEW z \in Nodes, <<s, z>> \in calls[r],
         Effect(r, s, z), NEW x \in Nodes, NEW y \in Nodes, Owned(x, y), s # "drop" \/ z # x
  PROVE  \A k \in Kinds : <<k, y>> \in row[x].cells => <<k, y>> \in row'[x].cells
<1>0. row \in [Nodes -> Row]
  BY DEF Typed, TablesOK
<1>1. CASE z # x \/ s \in {"pop"} \cup Kinds
  <2>1. row'[x] = row[x]
    BY <1>1, RowAfter DEF WriteSteps, Kinds
  <2> QED
    BY <2>1
<1>2. CASE z = x /\ s = "insert"
  BY <1>0, <1>2 DEF Effect, Kinds, Row
<1>3. CASE z = x /\ s = "write"
  <2>1. row' = Written(op[r], x)
    BY <1>3 DEF Effect, Kinds
  <2>2. row'[x].cells = row[x].cells \cup {<<op[r].kind, Other(op[r], x)>>}
    BY <1>0, <2>1 DEF Written, Row
  <2> QED
    BY <2>2
<1>4. CASE z = x /\ s = "cut"
  <2>1. {op[r].x, op[r].y} # {x, y} /\ x \in {op[r].x, op[r].y}
    BY <1>4, CutCall DEF Owned
  <2>2. Other(op[r], x) # y
    BY <2>1 DEF Other
  <2>3. PICK K \in SUBSET Kinds : row' = Without({<<k, Other(op[r], x)>> : k \in K}, x)
    BY <1>4 DEF Effect, Kinds
  <2>4. row'[x].cells = row[x].cells \ {<<k, Other(op[r], x)>> : k \in K}
    BY <1>0, <2>3 DEF Without, Row
  <2> QED
    BY <2>2, <2>4
<1> QED
  BY <1>1, <1>2, <1>3, <1>4 DEF Writes

\* A write that is no part of an edge of the pair, done or not.
LEMMA WriteStays ==
  ASSUME Typed, FitsInv, PopularInv, NEW x \in Nodes, NEW y \in Nodes, Owned(x, y),
         NEW r \in Requests, NEW s \in Writes, NEW z \in Nodes, NEW next,
         Goes(r, <<s, z>>, next), next \subseteq {<<"look", z>>},
         Effect(r, s, z) \/ (UNCHANGED tables /\ (s \in Kinds => op[r].x # x)),
         s \in {"write", "pop"} => ~(op[r].popular /\ op[r].x = x /\ op[r].y = y)
  PROVE  Owned(x, y)'
<1>1. /\ <<s, z>> \in calls[r] /\ calls'[r] = (calls[r] \ {<<s, z>>}) \cup next
      /\ calls'[r] # {} => op'[r] = op[r]
      /\ \A q \in Requests : q # r => calls'[q] = calls[q] /\ op'[q] = op[q]
  BY GoesDoes
<1>2. \A k \in Kinds : Puts(r, x, y, k) => s \notin {"write", "pop"}
  BY DEF Puts
<1>3. \A t \in Steps \ {"look"}, w \in Nodes : <<t, w>> # <<s, z>> => (<<t, w>> \in calls'[r] <=> <<t, w>> \in calls[r])
  BY <1>1
<1>4. \A k \in Kinds : Puts(r, x, y, k)' <=> Puts(r, x, y, k)
  <2> SUFFICES ASSUME NEW k \in Kinds PROVE Puts(r, x, y, k)' <=> Puts(r, x, y, k)
    OBVIOUS
  <2>1. CASE s \in {"write", "pop"}
    <3>1. ~Puts(r, x, y, k)
      BY <1>2, <2>1
    <3>2. ASSUME Puts(r, x, y, k)' PROVE FALSE
      BY <1>1, <2>1, <3>2 DEF Puts
    <3> QED
      BY <3>1, <3>2
  <2>2. CASE s \notin {"write", "pop"}
    <3>1. \A t \in {"write", "pop"} : <<t, x>> \in calls'[r] <=> <<t, x>> \in calls[r]
      BY <1>1, <2>2
    <3> QED
      BY <1>1, <3>1 DEF Puts
  <2> QED
    BY <2>1, <2>2
<1>5. \A k \in Kinds : Puts(r, x, y, k) /\ <<"write", x>> \in calls[r] => <<"write", x>> \in calls'[r]
  BY <1>1, <1>2
<1>6. ASSUME NEW k \in Kinds, <<k, x, y>> \in pop'
      PROVE  <<k, x, y>> \in pop /\ (Clears(r, x, y, k) => Clears(r, x, y, k)')
  <2>1. <<k, x, y>> \in pop
    <3>1. CASE s = "pop" /\ Effect(r, s, z)
      <4>1. pop' = pop \cup {<<op[r].kind, z, op[r].y>>}
        BY <3>1 DEF Effect, Kinds
      <4>2. op[r].popular /\ z = op[r].x
        BY <1>1, <3>1, LinkCall DEF PopularInv, Links
      <4> QED
        BY <1>6, <3>1, <4>1, <4>2
    <3>2. CASE ~(s = "pop" /\ Effect(r, s, z))
      <4>1. pop' \subseteq pop
        BY <3>2 DEF Effect, tables
      <4> QED
        BY <1>6, <4>1
    <3> QED
      BY <3>1, <3>2
  <2>2. ASSUME Clears(r, x, y, k) PROVE Clears(r, x, y, k)'
    <3>1. <<k, y>> # <<s, z>>
      <4> SUFFICES ASSUME k = s, y = z PROVE FALSE
        OBVIOUS
      <4>1. Effect(r, s, z) /\ op[r].x = x
        BY <2>2 DEF Clears
      <4>2. pop' = pop \ {<<s, x, z>>}
        BY <4>1 DEF Effect, Kinds
      <4> QED
        BY <1>6, <4>2
    <3> QED
      BY <1>1, <2>2, <3>1 DEF Clears
  <2> QED
    BY <2>1, <2>2
<1>7. Going(x) \/ \A k \in Kinds : <<k, y>> \in row[x].cells => <<k, y>> \in row'[x].cells
  <2>1. CASE UNCHANGED tables
    BY <2>1 DEF tables
  <2>2. CASE Effect(r, s, z) /\ (s # "drop" \/ z # x)
    BY <1>1, <2>2, CellsKept
  <2>3. CASE s = "drop" /\ z = x
    BY <1>1, <2>3 DEF Going
  <2> QED
    BY <2>1, <2>2, <2>3
<1>8. \A w \in {x, y} : <<"cut", w>> \in calls'[r] => {op'[r].x, op'[r].y} # {x, y}
  BY <1>1 DEF Owned
<1>9. <<"ask", x>> \notin calls'[r] /\ (<<"drop", x>> \in calls'[r] => <<"drop", x>> \in calls[r])
  BY <1>1 DEF Owned
<1> QED
  BY <1>1, <1>4, <1>5, <1>6, <1>7, <1>8, <1>9, StaysOwned

\* One of the two writes of an edge from x to the popular y is done: the left cell
\* stays for as long as the popnode row does.
LEMMA EdgeWritten ==
  ASSUME Typed, FitsInv, PopularInv, NEW x \in Nodes, NEW y \in Nodes, Owned(x, y),
         NEW r \in Requests, NEW s \in {"write", "pop"}, NEW z \in Nodes,
         Goes(r, <<s, z>>, {}), Effect(r, s, z) \/ (s = "pop" /\ UNCHANGED tables),
         op[r].popular, op[r].x = x, op[r].y = y
  PROVE  Owned(x, y)'
<1>1. /\ <<s, z>> \in calls[r] /\ calls'[r] = calls[r] \ {<<s, z>>}
      /\ calls'[r] # {} => op'[r] = op[r]
      /\ \A q \in Requests : q # r => calls'[q] = calls[q] /\ op'[q] = op[q]
  BY GoesDoes
<1>2. Links(r) /\ op[r] \in LinkOp /\ op[r].kind \in Kinds
  BY <1>1, LinkCall DEF Links, LinkOp, Kinds
<1>3. \A k \in Kinds : ~Clears(r, x, y, k) /\ ~Clears(r, x, y, k)'
  BY <1>1, <1>2 DEF Links, Clears, Kinds
<1>4. ASSUME z # x PROVE Owned(x, y)'
  <2>1. s = "write" /\ row'[x] = row[x] /\ pop' = pop
    <3>1. s = "write"
      BY <1>1, <1>2, <1>4 DEF Links
    <3>2. row'[x] = row[x]
      BY <1>4, <3>1, RowAfter DEF Writes
    <3> QED
      BY <3>1, <3>2 DEF Effect, Kinds
  <2>2. \A k \in Kinds : Puts(r, x, y, k)' <=> Puts(r, x, y, k)
    BY <1>1, <1>4 DEF Puts
  <2>3. <<"write", x>> \in calls[r] => <<"write", x>> \in calls'[r]
    BY <1>1, <1>4
  <2>4. \A w \in {x, y} : <<"cut", w>> \notin calls'[r] /\ <<"drop", x>> \notin calls'[r] /\ <<"ask", x>> \notin calls'[r]
    BY <1>1, <1>2 DEF Links
  <2> QED
    BY <1>1, <1>3, <2>1, <2>2, <2>3, <2>4, StaysOwned
<1>5. ASSUME z = x PROVE Owned(x, y)'
  <2> DEFINE k0 == op[r].kind
  <2>1. Puts(r, x, y, k0) /\ ~Going(x)
    BY <1>1, <1>2, <1>5 DEF Puts, Owned
  <2>2. ~Going(x)'
    BY <1>1, <2>1 DEF Going
  <2>3. \A k \in Kinds : <<k, y>> \in row[x].cells => <<k, y>> \in row'[x].cells
    <3>1. CASE Effect(r, s, z)
      BY <1>1, <3>1, CellsKept DEF Writes
    <3>2. CASE UNCHANGED tables
      BY <3>2 DEF tables
    <3> QED
      BY <3>1, <3>2
  <2>4. <<"write", x>> \in calls'[r] \/ <<k0, y>> \in row'[x].cells
    <3>1. CASE s = "write"
      <4>1. row' = Written(op[r], x)
        BY <1>5, <3>1 DEF Effect, Kinds
      <4>2. Other(op[r], x) = y
        BY DEF Other
      <4>3. row'[x].cells = row[x].cells \cup {<<k0, y>>}
        BY <4>1, <4>2 DEF Written, Row, Typed, TablesOK
      <4> QED
        BY <4>3
    <3>2. CASE s = "pop"
      BY <1>1, <1>2, <2>1, <2>3, <3>2 DEF Owned
    <3> QED
      BY <3>1, <3>2
  <2>5. \A k \in Kinds : k = k0 /\ <<"write", x>> \in calls'[r] => Puts(r, x, y, k)'
    BY <1>1, <1>2 DEF Puts
  <2>6. \A k \in Kinds : k # k0 => ~Puts(r, x, y, k) /\ (<<k, x, y>> \in pop' => <<k, x, y>> \in pop)
    BY <1>2 DEF Puts, Effect, Kinds, tables
  <2>7. \A q \in Requests, k \in Kinds :
          q # r => (Puts(q, x, y, k)' <=> Puts(q, x, y, k)) /\ (Clears(q, x, y, k)' <=> Clears(q, x, y, k))
    BY <1>1 DEF Puts, Clears
  <2>8. \A k \in Kinds : Puts(r, x, y, k)' => k = k0
    BY <1>1 DEF Puts
  <2> HIDE DEF k0
  <2>9. ASSUME NEW k \in Kinds, <<k, x, y>> \in pop'
        PROVE  \/ <<k, y>> \in row'[x].cells /\ ~Going(x)'
               \/ \E q \in Requests : Puts(q, x, y, k)'
               \/ \E q \in Requests : Clears(q, x, y, k)'
    <3>1. CASE k = k0
      BY <2>2, <2>4, <2>5, <3>1
    <3>2. CASE k # k0
      <4>1. \/ <<k, y>> \in row[x].cells
            \/ \E q \in Requests : Puts(q, x, y, k)
            \/ \E q \in Requests : Clears(q, x, y, k)
        BY <2>6, <2>9, <3>2 DEF Owned
      <4>2. CASE <<k, y>> \in row[x].cells
        BY <2>2, <2>3, <4>2
      <4>3. CASE \E q \in Requests : Puts(q, x, y, k)
        BY <2>6, <2>7, <3>2, <4>3
      <4>4. CASE \E q \in Requests : Clears(q, x, y, k)
        BY <1>3, <2>7, <4>4
      <4> QED
        BY <4>1, <4>2, <4>3, <4>4
    <3> QED
      BY <3>1, <3>2
  <2>10. ASSUME NEW q \in Requests, NEW k \in Kinds, Puts(q, x, y, k)', <<"write", x>> \notin calls'[q]
         PROVE  <<k, y>> \in row'[x].cells
    <3>1. CASE q = r
      BY <2>4, <2>8, <2>10, <3>1
    <3>2. CASE q # r
      <4>1. Puts(q, x, y, k) /\ <<"write", x>> \notin calls[q]
        BY <1>1, <2>7, <2>10, <3>2
      <4> QED
        BY <2>3, <4>1 DEF Owned
    <3> QED
      BY <3>1, <3>2
  <2>11. \A q \in Requests : <<"ask", x>> \notin calls'[q]
    BY <1>1 DEF Owned
  <2>12. \A q \in Requests, w \in {x, y} : <<"cut", w>> \in calls'[q] => {op'[q].x, op'[q].y} # {x, y}
    BY <1>1 DEF Owned
  <2> QED
    BY <2>2, <2>9, <2>10, <2>11, <2>12 DEF Owned
<1> QED
  BY <1>4, <1>5

\* An answer keeps the pair owned.
LEMMA AnswerOwned ==
  ASSUME Typed, FitsInv, FreshInv, PopInv, PopularInv, NEW r \in Requests, Answers(r),
         NEW x \in Nodes, NEW y \in Nodes, <<x, y>> \notin orphan'
  PROVE  Owned(x, y)'
<1>0. ASSUME orphan \subseteq orphan' PROVE Owned(x, y)
  BY <1>0 DEF PopInv
<1>a. ASSUME NEW s \in {"read", "fill", "look", "ask", "check", "find", "named"}, NEW z \in Nodes, NEW next,
             Goes(r, <<s, z>>, next), UNCHANGED tables, orphan \subseteq orphan',
             \A t \in {"drop", "ask", "write", "pop"} : <<t, x>> \notin next,
             \A w \in {x, y} : <<"cut", w>> \in next => {op[r].x, op[r].y} # {x, y}
      PROVE  Owned(x, y)'
  <2>1. <<s, z>> \notin {<<"write", x>>, <<"pop", x>>} \cup (Kinds \X Nodes)
    BY <1>a DEF Kinds
  <2> QED
    BY <1>0, <1>a, <2>1, GoesOwned
<1>b. ASSUME NEW s \in {"look", "fill"}, NEW z \in Nodes, NEW copy \in Row, Purge(r, <<s, z>>, z, copy),
             UNCHANGED tables, z \notin stale => copy = row[z]
      PROVE  Owned(x, y)'
  <2>1. <<s, z>> \in calls[r]
    BY <1>b DEF Purge, Goes
  <2>2. calls[r] = {<<s, z>>} /\ op[r].x = z
    <3>1. CASE s = "look"
      BY <2>1, <3>1, LookCall
    <3>2. CASE s = "fill"
      BY <2>1, <3>2, ReadCall
    <3> QED
      BY <3>1, <3>2
  <2>3. orphan \subseteq orphan'
    BY <1>b DEF Purge
  <2> QED
    BY <1>0, <1>b, <2>2, <2>3, PurgeOwned
<1>1. ASSUME NEW z \in Nodes, Read(r, z) PROVE Owned(x, y)'
  BY <1>a, <1>1 DEF Read, history
<1>2. ASSUME NEW z \in Nodes, Fill(r, z) PROVE Owned(x, y)'
  <2>1. UNCHANGED tables
    BY <1>2 DEF Fill, tables
  <2>2. CASE Goes(r, <<"fill", z>>, {}) /\ UNCHANGED history
    BY <1>a, <2>1, <2>2 DEF history
  <2>3. CASE Purge(r, <<"fill", z>>, z, seen[r])
    <3>1. seen[r] \in Row
      BY DEF Typed, RequestsOK
    <3>2. <<"fill", z>> \in calls[r]
      BY <2>3 DEF Purge, Goes
    <3>3. z \notin stale => seen[r] = row[z]
      BY <3>2 DEF FreshInv, Coherent
    <3> QED
      BY <1>b, <2>1, <2>3, <3>1, <3>3
  <2> QED
    BY <1>2, <2>2, <2>3 DEF Fill
<1>3. ASSUME NEW z \in Nodes, Look(r, z) PROVE Owned(x, y)'
  <2>1. UNCHANGED tables
    BY <1>3 DEF Look, tables
  <2>2. CASE Goes(r, <<"look", z>>, {<<"read", z>>}) /\ orphan' = orphan
    BY <1>a, <2>1, <2>2
  <2>3. CASE Goes(r, <<"look", z>>, {}) /\ UNCHANGED history
    BY <1>a, <2>1, <2>3 DEF history
  <2>4. CASE memory[z] # Empty /\ Purge(r, <<"look", z>>, z, memory[z])
    <3>1. memory[z] \in Row
      BY DEF Typed, CacheOK
    <3>2. z \notin stale => memory[z] = row[z]
      BY <2>4 DEF FreshInv, Coherent
    <3> QED
      BY <1>b, <2>1, <2>4, <3>1, <3>2
  <2> QED
    BY <1>3, <2>2, <2>3, <2>4 DEF Look
<1>4. ASSUME NEW z \in Nodes, Exists(r, z) PROVE Owned(x, y)'
  <2>1. UNCHANGED tables /\ orphan' = orphan
    BY <1>4 DEF Exists, tables, history
  <2>2. CASE Goes(r, <<"ask", z>>, IF row[z] = Empty THEN {} ELSE {<<"drop", z>>})
    <3>1. z # x
      BY <1>0, <2>1, <2>2 DEF Goes, Owned
    <3> QED
      BY <1>a, <2>1, <2>2, <3>1
  <2>3. CASE Goes(r, <<"check", z>>, IF row[z] = Empty THEN {} ELSE {<<"look", z>>})
    BY <1>a, <2>1, <2>3
  <2> QED
    BY <1>4, <2>2, <2>3 DEF Exists
<1>5. ASSUME NEW z \in Nodes, Found(r, z) PROVE Owned(x, y)'
  <2>1. PICK next \in SUBSET {<<"named", op[r].x>>} : Goes(r, <<"find", z>>, next)
    BY <1>5 DEF Found
  <2>2. UNCHANGED tables /\ orphan' = orphan
    BY <1>5 DEF Found, tables, history
  <2> QED
    BY <1>a, <2>1, <2>2
<1>6. ASSUME NEW z \in Nodes, Named(r, z) PROVE Owned(x, y)'
  <2>1. UNCHANGED tables
    BY <1>6 DEF Named, tables
  <2>2. CASE Goes(r, <<"named", z>>, {}) /\ UNCHANGED history
    BY <1>a, <2>1, <2>2 DEF history
  <2>3. CASE Goes(r, <<"named", z>>, {<<"cut", z>>, <<"cut", op[r].y>>}) /\ Unlink(r, z, op[r].y)
    <3>1. op[r].x = z
      BY <2>3, NamedCall DEF Goes
    <3>2. orphan' = orphan \cup {<<z, op[r].y>>, <<op[r].y, z>>}
      BY <2>3 DEF Unlink
    <3>3. {op[r].x, op[r].y} # {x, y}
      BY <3>1, <3>2
    <3> QED
      BY <1>a, <2>1, <2>3, <3>2, <3>3
  <2> QED
    BY <1>6, <2>2, <2>3 DEF Named
<1>c. ASSUME NEW s \in Writes, NEW z \in Nodes, NEW next, Goes(r, <<s, z>>, next), next \subseteq {<<"look", z>>},
             s # "insert" => next = {}, orphan \subseteq orphan',
             \/ Effect(r, s, z)
             \/ UNCHANGED tables /\ (s \in {"write"} \cup Kinds => op[r].x # x)
      PROVE  Owned(x, y)'
  <2>1. CASE s \in {"write", "pop"} /\ op[r].popular /\ op[r].x = x /\ op[r].y = y
    <3>1. Goes(r, <<s, z>>, {})
      BY <1>c, <2>1
    <3>2. Effect(r, s, z) \/ (s = "pop" /\ UNCHANGED tables)
      BY <1>c, <2>1
    <3> QED
      BY <1>0, <1>c, <2>1, <3>1, <3>2, EdgeWritten
  <2>2. CASE ~(s \in {"write", "pop"} /\ op[r].popular /\ op[r].x = x /\ op[r].y = y)
    BY <1>0, <1>c, <2>2, WriteStays
  <2> QED
    BY <2>1, <2>2
<1>7. ASSUME NEW s \in Writes, NEW z \in Nodes, Write(r, s, z) PROVE Owned(x, y)'
  <2> DEFINE next == IF s = "insert" THEN {<<"look", z>>} ELSE {}
  <2>1. Goes(r, <<s, z>>, next) /\ Effect(r, s, z) /\ orphan' = orphan
    BY <1>7 DEF Write, history
  <2>2. next \subseteq {<<"look", z>>} /\ (s # "insert" => next = {})
    OBVIOUS
  <2> HIDE DEF next
  <2> QED
    BY <1>c, <2>1, <2>2
<1>8. ASSUME NEW s \in Writes, NEW z \in Nodes, FailWrite(r, s, z) PROVE Owned(x, y)'
  <2>1. Goes(r, <<s, z>>, {}) /\ (Effect(r, s, z) \/ UNCHANGED tables) /\ orphan \subseteq orphan'
    BY <1>8 DEF FailWrite
  <2>2. s \in {"write"} \cup Kinds => op[r].x # x
    BY <1>8 DEF FailWrite
  <2> QED
    BY <1>c, <2>1, <2>2
<1>9. ASSUME NEW s \in {"read", "find", "ask", "check"}, NEW z \in Nodes, FailRead(r, s, z) PROVE Owned(x, y)'
  <2>1. PICK next \in SUBSET {<<"named", op[r].x>>} : Goes(r, <<s, z>>, next)
    BY <1>9 DEF FailRead
  <2>2. UNCHANGED tables /\ orphan' = orphan
    BY <1>9 DEF FailRead, tables
  <2> QED
    BY <1>a, <2>1, <2>2
<1> QED
  BY <1>1, <1>2, <1>3, <1>4, <1>5, <1>6, <1>7, <1>8, <1>9 DEF Answers

\* A popnode row is only ever asked for by an edge to a popular right node.
LEMMA PopularStep ==
  ASSUME Typed, PopularInv, NEW r \in Requests, Routes(r) \/ Answers(r)
  PROVE  PopularInv'
<1>0. ASSUME \A q \in Requests : q # r => calls'[q] = calls[q] /\ op'[q] = op[q],
             \A z \in Nodes : <<"pop", z>> \in calls'[r] => op'[r].popular
      PROVE  PopularInv'
  BY <1>0 DEF PopularInv
<1>a. ASSUME NEW o, NEW first, Begin(r, o, first), \A z \in Nodes : <<"pop", z>> \notin first
      PROVE  PopularInv'
  BY <1>0, <1>a, BeginDoes
<1>b. ASSUME NEW o \in LinkOp, Begin(r, o, EdgeCalls(o)) PROVE PopularInv'
  <2>1. \A z \in Nodes : <<"pop", z>> \in EdgeCalls(o) => o.popular
    BY DEF EdgeCalls
  <2> QED
    BY <1>0, <1>b, <2>1, BeginDoes
<1>c. ASSUME NEW c, NEW next, Goes(r, c, next), \A z \in Nodes : <<"pop", z>> \notin next
      PROVE  PopularInv'
  <2>1. /\ calls'[r] = (calls[r] \ {c}) \cup next
        /\ calls'[r] # {} => op'[r] = op[r]
        /\ \A q \in Requests : q # r => calls'[q] = calls[q] /\ op'[q] = op[q]
    BY <1>c, GoesDoes
  <2> QED
    BY <1>0, <1>c, <2>1 DEF PopularInv
<1>1. CASE NodeRoutes(r)
  BY <1>a, <1>1 DEF NodeRoutes, GetNode, CreateNode, RemoveNode, RemoveNodeComplete
<1>2. CASE EdgeRoutes(r)
  <2>1. ASSUME NEW e \in Edges, NEW k \in Kinds, NEW p \in BOOLEAN, CreateEdge(r, e[1], e[2], k, p)
        PROVE  PopularInv'
    <3> DEFINE o == [name |-> "createEdge", x |-> e[1], y |-> e[2], kind |-> k, by |-> 1, popular |-> p]
    <3>1. o \in LinkOp /\ Begin(r, o, EdgeCalls(o))
      BY <2>1 DEF CreateEdge, LinkOp, Edges
    <3> HIDE DEF o
    <3> QED
      BY <1>b, <3>1
  <2>2. ASSUME NEW e \in Edges, NEW by \in {1, -1}, NEW p \in BOOLEAN, Depth(r, e[1], e[2], by, p)
        PROVE  PopularInv'
    <3> DEFINE o == [name |-> "depth", x |-> e[1], y |-> e[2], kind |-> "ed", by |-> by, popular |-> p]
    <3>1. o \in LinkOp /\ Begin(r, o, EdgeCalls(o))
      BY <2>2 DEF Depth, LinkOp, Edges
    <3> HIDE DEF o
    <3> QED
      BY <1>b, <3>1
  <2>3. ASSUME NEW e \in Edges, NEW name, Find(r, e[1], e[2], name) PROVE PopularInv'
    BY <1>a, <2>3 DEF Find
  <2>4. ASSUME NEW e \in Edges, RemoveEdgeHit(r, e[1], e[2]) PROVE PopularInv'
    BY <1>a, <2>4 DEF RemoveEdgeHit
  <2> QED
    BY <1>2, <2>1, <2>2, <2>3, <2>4 DEF EdgeRoutes
<1>3. CASE Answers(r)
  <2>1. ASSUME NEW z \in Nodes, NEW copy \in Row, NEW c, Purge(r, c, z, copy) PROVE PopularInv'
    <3>1. \A w \in Nodes : <<"pop", w>> \notin {<<"drop", z>>} \cup Shown(copy)
      BY <2>1, PurgeTypes DEF Kinds
    <3> QED
      BY <1>c, <2>1, <3>1 DEF Purge
  <2>2. ASSUME NEW z \in Nodes, Fill(r, z) PROVE PopularInv'
    <3>1. seen[r] \in Row
      BY DEF Typed, RequestsOK
    <3> QED
      BY <1>c, <2>1, <2>2, <3>1 DEF Fill
  <2>3. ASSUME NEW z \in Nodes, Look(r, z) PROVE PopularInv'
    <3>1. memory[z] \in Row
      BY DEF Typed, CacheOK
    <3> QED
      BY <1>c, <2>1, <2>3, <3>1 DEF Look
  <2>4. ASSUME NEW z \in Nodes, Read(r, z) \/ Exists(r, z) PROVE PopularInv'
    BY <1>c, <2>4 DEF Read, Exists
  <2>5. ASSUME NEW z \in Nodes, Found(r, z) \/ Named(r, z) PROVE PopularInv'
    BY <1>c, <2>5 DEF Found, Named
  <2>6. ASSUME NEW s \in Writes, NEW z \in Nodes, Write(r, s, z) \/ FailWrite(r, s, z) PROVE PopularInv'
    BY <1>c, <2>6 DEF Write, FailWrite
  <2>7. ASSUME NEW s, NEW z \in Nodes, FailRead(r, s, z) PROVE PopularInv'
    BY <1>c, <2>7 DEF FailRead
  <2> QED
    BY <1>3, <2>2, <2>3, <2>4, <2>5, <2>6, <2>7 DEF Answers
<1> QED
  BY <1>1, <1>2, <1>3 DEF Routes

\* Every step keeps the pairs owned: a step of a request by the lemmas above, and
\* what runs out of the cache is in no table.
LEMMA OwnedStep ==
  Typed /\ FitsInv /\ FreshInv /\ PopInv /\ PopularInv /\ [Next]_vars => PopInv' /\ PopularInv'
<1> SUFFICES ASSUME Typed, FitsInv, FreshInv, PopInv, PopularInv, [Next]_vars PROVE PopInv' /\ PopularInv'
  OBVIOUS
<1>0. ASSUME UNCHANGED <<row, pop, op, calls, orphan>> PROVE PopInv' /\ PopularInv'
  <2>1. \A x, y \in Nodes, q \in Requests, k \in Kinds :
          (Puts(q, x, y, k)' <=> Puts(q, x, y, k)) /\ (Clears(q, x, y, k)' <=> Clears(q, x, y, k))
    BY <1>0 DEF Puts, Clears
  <2>2. \A x \in Nodes : Going(x)' <=> Going(x)
    BY <1>0 DEF Going
  <2>3. ASSUME NEW x \in Nodes, NEW y \in Nodes, <<x, y>> \notin orphan' PROVE Owned(x, y)'
    <3>1. Owned(x, y)
      BY <1>0, <2>3 DEF PopInv
    <3> QED
      BY <1>0, <2>1, <2>2, <3>1 DEF Owned
  <2>4. PopularInv'
    BY <1>0 DEF PopularInv
  <2> QED
    BY <2>3, <2>4 DEF PopInv
<1>1. ASSUME NEW r \in Requests, Routes(r) \/ Answers(r) PROVE PopInv' /\ PopularInv'
  <2>1. PopularInv'
    BY <1>1, PopularStep
  <2>2. ASSUME NEW x \in Nodes, NEW y \in Nodes, <<x, y>> \notin orphan' PROVE Owned(x, y)'
    BY <1>1, <2>2, RouteOwned, AnswerOwned
  <2> QED
    BY <2>1, <2>2 DEF PopInv
<1>2. CASE Evict
  BY <1>0, <1>2 DEF Evict, EvictNode, EvictEdge, tables, requests
<1>3. CASE UNCHANGED vars
  BY <1>0, <1>3 DEF vars, tables, requests, history
<1> QED
  BY <1>1, <1>2, <1>3 DEF Next

\* A popnode row has its edge on the left row, whatever removals, writes and failed
\* calls of the pair overlap: behind stay only those of removeEdge and removeNode,
\* of a depth of zero, of a stale copy and of a write during the removal.
THEOREM PopnodesOwned == Spec => []PopOwned
<1>1. Init => PopInv /\ PopularInv
  BY DEF Init, PopInv, PopularInv, Owned, Puts, Going
<1>2. Typed /\ FitsInv /\ PopInv => PopOwned
  <2> SUFFICES ASSUME Typed, FitsInv, PopInv, NEW k \in Kinds, NEW x \in Nodes, NEW y \in Nodes,
                      <<k, x, y>> \in pop, <<x, y>> \notin orphan
               PROVE  \/ <<k, y>> \in row[x].cells
                      \/ PopWriting(x, y)
                      \/ \E r \in Requests : op[r] # Idle /\ op[r].x = x /\ <<k, y>> \in calls[r]
    BY DEF PopOwned, Typed, TablesOK
  <2>1. ASSUME NEW q \in Requests, Puts(q, x, y, k) PROVE PopWriting(x, y)
    <3>1. op[q].name \in {"createEdge", "depth"} /\ Idle.name = "idle" /\ "y" \in DOMAIN op[q]
      BY <2>1 DEF Puts, LinkOp, Idle
    <3>2. q \in Between(x, y)
      BY <2>1, <3>1 DEF Between, Puts
    <3> QED
      BY <2>1, <3>2 DEF PopWriting, Awaits, Puts
  <2>2. ASSUME NEW q \in Requests, Clears(q, x, y, k)
        PROVE  op[q] # Idle /\ op[q].x = x /\ <<k, y>> \in calls[q]
    <3>1. op[q] \in NodeOp({"removeNodeComplete"})
      BY <2>2, DropCall DEF Clears, Kinds
    <3>2. op[q].name = "removeNodeComplete" /\ Idle.name = "idle"
      BY <3>1 DEF NodeOp, Idle
    <3> QED
      BY <2>2, <3>2 DEF Clears
  <2> QED
    BY <2>1, <2>2 DEF PopInv, Owned
<1> QED
  BY <1>1, <1>2, InitTypes, TypesStep, InitFresh, FreshStep, OwnedStep, PTL DEF Spec

-----------------------------------------------------------------------------
(* The ends of an edge: the inductive invariant, for two nodes x and y.    *)

\* Request q has an edge of x and y to do.
Of(q, x, y) == op[q] \in LinkOp \cup FindOp /\ {op[q].x, op[q].y} = {x, y}

Does(q, x, y, steps) == Of(q, x, y) /\ \E s \in steps, z \in {x, y} : <<s, z>> \in calls[q]
Writer(q, x, y) == Does(q, x, y, {"write", "pop"})
Finder(q, x, y) == Does(q, x, y, {"find", "named"})
Cutter(q, x, y) == Does(q, x, y, {"cut"})

\* The kinds of cells that q has the name of on the row of z, and those it finds there.
Names(q, z) == {k \in Kinds : <<Side(op[q], z), k>> \in named[q]}
On(x, y) == {k \in Kinds : <<k, y>> \in row[x].cells}
First(K) == IF "ec" \in K THEN {"ec"} ELSE K

\* Request q will put the cell <<k, y>> on the row of x, or take it away.
Adds(q, x, y, k) == Of(q, x, y) /\ <<"write", x>> \in calls[q] /\ op[q].kind = k
Takes(q, x, y, k) == Of(q, x, y) /\ <<"cut", x>> \in calls[q] /\ k \in Names(q, x)

\* What the row of x will have of y when all that is under way is done.
WillHave(x, y) ==
  {k \in Kinds : /\ <<k, y>> \in row[x].cells \/ \E q \in Requests : Adds(q, x, y, k)
                 /\ ~\E q \in Requests : Takes(q, x, y, k)}

Counts(x, y, by) == {q \in Requests : Adds(q, x, y, "ed") /\ op[q].by = by}
WillCount(x, y) ==
  IF \E q \in Requests : Takes(q, x, y, "ed") THEN 0
  ELSE row[x].depth[y] + Cardinality(Counts(x, y, 1)) - Cardinality(Counts(x, y, -1))

\* At most one of writes, lookups and cuts of the edge are under way.
Apiece(x, y) ==
  /\ \A q \in Requests, s \in {"ask", "drop"}, z \in {x, y} : <<s, z>> \notin calls[q]
  /\ \A q \in Requests : Writer(q, x, y) => ~op[q].popular
  /\ \A p, q \in Requests : /\ ~(Writer(p, x, y) /\ Cutter(q, x, y))
                            /\ ~(Writer(p, x, y) /\ Finder(q, x, y))
                            /\ ~(Cutter(p, x, y) /\ Finder(q, x, y))

\* What is cached, found and taken away is the same at both ends.
Matched(x, y) ==
  /\ \A e \in {<<x, y>>, <<y, x>>}, k \in Kinds : <<"left", k>> \in known[e] <=> <<"right", k>> \in known[e]
  /\ \A q \in Requests : Cutter(q, x, y) => Names(q, x) = Names(q, y)
  /\ \A q \in Requests : Finder(q, x, y) =>
        /\ Names(q, x) = IF <<"find", x>> \in calls[q] THEN {} ELSE First(On(x, y))
        /\ Names(q, y) = IF <<"find", y>> \in calls[q] THEN {} ELSE First(On(y, x))

Level(x, y) ==
  /\ WillHave(x, y) = WillHave(y, x)
  /\ \A by \in {1, -1} : IsFiniteSet(Counts(x, y, by)) /\ IsFiniteSet(Counts(y, x, by))
  /\ WillCount(x, y) = WillCount(y, x)

Even(x, y) == Apiece(x, y) /\ Matched(x, y) /\ Level(x, y)

EvenInv == \A x, y \in Nodes : x # y /\ {x, y} \notin torn => Even(x, y)

-----------------------------------------------------------------------------
(* What keeps the ends even.                                               *)

\* An edge and its reverse are one pair.
LEMMA EvenBoth ==
  ASSUME NEW x, NEW y
  PROVE  (Even(x, y) => Even(y, x)) /\ (Even(x, y)' => Even(y, x)')
<1>0. {x, y} = {y, x}
  OBVIOUS
<1>1. Even(x, y) => Even(y, x)
  <2> SUFFICES ASSUME Even(x, y) PROVE Even(y, x)
    OBVIOUS
  <2>1. \A q, steps : Does(q, y, x, steps) <=> Does(q, x, y, steps)
    BY <1>0 DEF Does, Of
  <2>2. \A q : /\ Writer(q, y, x) <=> Writer(q, x, y)
               /\ Finder(q, y, x) <=> Finder(q, x, y)
               /\ Cutter(q, y, x) <=> Cutter(q, x, y)
    BY <2>1 DEF Writer, Finder, Cutter
  <2>3. Apiece(y, x)
    BY <1>0, <2>2 DEF Even, Apiece
  <2>4. Matched(y, x)
    BY <2>2 DEF Even, Matched
  <2> QED
    BY <2>3, <2>4 DEF Even, Level
<1>2. Even(x, y)' => Even(y, x)'
  <2> SUFFICES ASSUME Even(x, y)' PROVE Even(y, x)'
    OBVIOUS
  <2>1. \A q, steps : Does(q, y, x, steps)' <=> Does(q, x, y, steps)'
    BY <1>0 DEF Does, Of
  <2>2. \A q : /\ Writer(q, y, x)' <=> Writer(q, x, y)'
               /\ Finder(q, y, x)' <=> Finder(q, x, y)'
               /\ Cutter(q, y, x)' <=> Cutter(q, x, y)'
    BY <2>1 DEF Writer, Finder, Cutter
  <2>3. Apiece(y, x)'
    BY <1>0, <2>2 DEF Even, Apiece
  <2>4. Matched(y, x)'
    BY <2>2 DEF Even, Matched
  <2> QED
    BY <2>3, <2>4 DEF Even, Level
<1> QED
  BY <1>1, <1>2

\* The operators of the model say the same of a request.
LEMMA RolesMean ==
  ASSUME NEW x \in Nodes, NEW y \in Nodes, NEW q \in Requests
  PROVE  /\ Finder(q, x, y) => \A Q : q \in Q => FindingPair(Q, x, y)
         /\ Writer(q, x, y) => WritingPair(x, y)
         /\ Cutter(q, x, y) => Cutting(x, y)
         /\ \A k : Adds(q, x, y, k) => Writer(q, x, y)
         /\ \A k : Takes(q, x, y, k) => Cutter(q, x, y)
<1>1. Of(q, x, y) => q \in Between(x, y) /\ q \in Between(y, x)
  <2> SUFFICES ASSUME Of(q, x, y) PROVE q \in Between(x, y) /\ q \in Between(y, x)
    OBVIOUS
  <2>1. op[q].name \in {"getEdge", "removeEdge", "createEdge", "depth"} /\ Idle.name = "idle" /\ "y" \in DOMAIN op[q]
    BY DEF Of, FindOp, LinkOp, Idle
  <2>2. {op[q].x, op[q].y} = {x, y} /\ {x, y} = {y, x}
    BY DEF Of
  <2> QED
    BY <2>1, <2>2 DEF Between
<1>2. Of(q, x, y) => op[q].x = x \/ op[q].x = y
  BY DEF Of
<1>3. Finder(q, x, y) => \A Q : q \in Q => FindingPair(Q, x, y)
  BY <1>1, <1>2 DEF Finder, Does, FindingPair, Finding, Awaits
<1>4. Writer(q, x, y) => WritingPair(x, y)
  BY <1>1 DEF Writer, Does, WritingPair, Awaits
<1>5. Cutter(q, x, y) => Cutting(x, y)
  BY <1>1 DEF Cutter, Does, Cutting, Awaits
<1> QED
  BY <1>3, <1>4, <1>5 DEF Adds, Takes, Writer, Cutter, Does

\* What is cached of the edge in either direction is the same at both ends.
KnownAlike(x, y) ==
  \A e \in {<<x, y>>, <<y, x>>}, k \in Kinds : <<"left", k>> \in known[e] <=> <<"right", k>> \in known[e]

\* A request has the names that it has found.
NamesFound(q, x, y) ==
  /\ Names(q, x) = IF <<"find", x>> \in calls[q] THEN {} ELSE First(On(x, y))
  /\ Names(q, y) = IF <<"find", y>> \in calls[q] THEN {} ELSE First(On(y, x))

\* The rows and the other requests are, for the pair, as they were.
PairKept(x, y) ==
  /\ \A k \in Kinds : /\ <<k, y>> \in row'[x].cells <=> <<k, y>> \in row[x].cells
                      /\ <<k, x>> \in row'[y].cells <=> <<k, x>> \in row[y].cells
  /\ row'[x].depth[y] = row[x].depth[y] /\ row'[y].depth[x] = row[y].depth[x]

OthersKept(r) == \A q \in Requests \ {r} : calls'[q] = calls[q] /\ op'[q] = op[q] /\ named'[q] = named[q]

\* The other requests do the same of an edge as before.
LEMMA OthersDo ==
  ASSUME NEW r \in Requests, OthersKept(r), NEW q \in Requests \ {r}, NEW x, NEW y
  PROVE  /\ Writer(q, x, y)' <=> Writer(q, x, y)
         /\ Finder(q, x, y)' <=> Finder(q, x, y)
         /\ Cutter(q, x, y)' <=> Cutter(q, x, y)
         /\ \A k \in Kinds : Adds(q, x, y, k)' <=> Adds(q, x, y, k)
         /\ \A k \in Kinds : Takes(q, x, y, k)' <=> Takes(q, x, y, k)
         /\ Names(q, x)' = Names(q, x) /\ Names(q, y)' = Names(q, y)
<1>1. calls'[q] = calls[q] /\ op'[q] = op[q] /\ named'[q] = named[q]
  BY DEF OthersKept
<1> QED
  BY <1>1 DEF Writer, Finder, Cutter, Adds, Takes, Names, Does, Of

\* A request of r that writes no cells of the pair keeps its ends even.
LEMMA StaysEven ==
  ASSUME NEW x \in Nodes, NEW y \in Nodes, Even(x, y), NEW r \in Requests, OthersKept(r), PairKept(x, y),
         KnownAlike(x, y)', \A s \in {"ask", "drop"}, z \in {x, y} : <<s, z>> \notin calls'[r],
         ~Writer(r, x, y), ~Cutter(r, x, y), ~Writer(r, x, y)', ~Cutter(r, x, y)',
         Finder(r, x, y)' => /\ \A q \in Requests : ~Writer(q, x, y) /\ ~Cutter(q, x, y)
                             /\ NamesFound(r, x, y)'
  PROVE  Even(x, y)'
<1>0. /\ \A q \in Requests, k \in Kinds : Adds(q, x, y, k) => q # r
      /\ \A q \in Requests, k \in Kinds : Adds(q, y, x, k) => q # r
      /\ \A q \in Requests, k \in Kinds : Adds(q, x, y, k)' => q # r
      /\ \A q \in Requests, k \in Kinds : Adds(q, y, x, k)' => q # r
      /\ \A q \in Requests, k \in Kinds : Takes(q, x, y, k) => q # r
      /\ \A q \in Requests, k \in Kinds : Takes(q, y, x, k) => q # r
      /\ \A q \in Requests, k \in Kinds : Takes(q, x, y, k)' => q # r
      /\ \A q \in Requests, k \in Kinds : Takes(q, y, x, k)' => q # r
  <2>1. {x, y} = {y, x}
    OBVIOUS
  <2> QED
    BY <2>1 DEF Adds, Takes, Writer, Cutter, Does, Of
<1>1. \A q \in Requests, k \in Kinds :
        /\ Adds(q, x, y, k)' <=> Adds(q, x, y, k)
        /\ Adds(q, y, x, k)' <=> Adds(q, y, x, k)
        /\ Takes(q, x, y, k)' <=> Takes(q, x, y, k)
        /\ Takes(q, y, x, k)' <=> Takes(q, y, x, k)
  BY <1>0, OthersDo
<1>2. WillHave(x, y)' = WillHave(x, y) /\ WillHave(y, x)' = WillHave(y, x)
  BY <1>1 DEF WillHave, PairKept
<1>3. \A q \in Requests : q # r => op'[q] = op[q]
  BY DEF OthersKept
<1>4. \A by : Counts(x, y, by)' = Counts(x, y, by) /\ Counts(y, x, by)' = Counts(y, x, by)
  BY <1>0, <1>1, <1>3 DEF Counts, Kinds
<1>5. WillCount(x, y)' = WillCount(x, y) /\ WillCount(y, x)' = WillCount(y, x)
  BY <1>1, <1>4 DEF WillCount, PairKept, Kinds
<1>6. Level(x, y)'
  BY <1>2, <1>4, <1>5 DEF Even, Level
<1>7. Apiece(x, y)'
  <2>1. \A q \in Requests, s \in {"ask", "drop"}, z \in {x, y} : <<s, z>> \notin calls'[q]
    BY DEF Even, Apiece, OthersKept
  <2>2. \A q \in Requests : Writer(q, x, y)' => Writer(q, x, y) /\ op'[q] = op[q]
    BY <1>3, OthersDo
  <2>3. \A q \in Requests : Cutter(q, x, y)' => Cutter(q, x, y)
    BY OthersDo
  <2>4. \A q \in Requests : Finder(q, x, y)' =>
          Finder(q, x, y) \/ \A p \in Requests : ~Writer(p, x, y) /\ ~Cutter(p, x, y)
    BY OthersDo
  <2> QED
    BY <2>1, <2>2, <2>3, <2>4 DEF Even, Apiece
<1>8. Matched(x, y)'
  <2>1. ASSUME NEW q \in Requests, Cutter(q, x, y)' PROVE Names(q, x)' = Names(q, y)'
    <3>1. q \in Requests \ {r}
      BY <2>1
    <3> QED
      BY <2>1, <3>1, OthersDo DEF Even, Matched
  <2>2. ASSUME NEW q \in Requests, Finder(q, x, y)' PROVE NamesFound(q, x, y)'
    <3>1. CASE q # r
      <4>1. q \in Requests \ {r} /\ calls'[q] = calls[q]
        BY <3>1 DEF OthersKept
      <4>2. NamesFound(q, x, y)
        BY <2>2, <4>1, OthersDo DEF Even, Matched, NamesFound
      <4>3. On(x, y)' = On(x, y) /\ On(y, x)' = On(y, x)
        BY DEF On, PairKept
      <4>4. Names(q, x)' = Names(q, x) /\ Names(q, y)' = Names(q, y)
        BY <4>1, OthersDo
      <4> QED
        BY <4>1, <4>2, <4>3, <4>4 DEF NamesFound
    <3> QED
      BY <2>2, <3>1
  <2> QED
    BY <2>1, <2>2 DEF Matched, KnownAlike, NamesFound
<1> QED
  BY <1>6, <1>7, <1>8 DEF Even

\* Where nothing is written, only what is on the rows counts.
LEMMA NoneWrites ==
  ASSUME Typed, NEW x \in Nodes, NEW y \in Nodes
  PROVE  /\ (\A q \in Requests : ~Writer(q, x, y)) =>
              /\ \A by : Counts(x, y, by) = {} /\ Counts(y, x, by) = {}
              /\ WillCount(x, y) = IF \E q \in Requests : Takes(q, x, y, "ed") THEN 0 ELSE row[x].depth[y]
              /\ WillHave(x, y) = {k \in On(x, y) : ~\E q \in Requests : Takes(q, x, y, k)}
         /\ (\A q \in Requests : ~Writer(q, x, y)') =>
              /\ \A by : Counts(x, y, by)' = {} /\ Counts(y, x, by)' = {}
<1>0. {x, y} = {y, x} /\ row[x].depth[y] \in Int
  BY DEF Typed, TablesOK, Row
<1>1. \A q \in Requests : \A k : Adds(q, x, y, k) \/ Adds(q, y, x, k) => Writer(q, x, y)
  BY <1>0 DEF Adds, Writer, Does, Of
<1>2. \A q \in Requests : \A k : Adds(q, x, y, k)' \/ Adds(q, y, x, k)' => Writer(q, x, y)'
  BY <1>0 DEF Adds, Writer, Does, Of
<1>3. ASSUME \A q \in Requests : ~Writer(q, x, y)
      PROVE  /\ \A by : Counts(x, y, by) = {} /\ Counts(y, x, by) = {}
             /\ WillCount(x, y) = IF \E q \in Requests : Takes(q, x, y, "ed") THEN 0 ELSE row[x].depth[y]
             /\ WillHave(x, y) = {k \in On(x, y) : ~\E q \in Requests : Takes(q, x, y, k)}
  <2>1. \A by : Counts(x, y, by) = {} /\ Counts(y, x, by) = {}
    BY <1>1, <1>3 DEF Counts
  <2>2. Cardinality(Counts(x, y, 1)) = 0 /\ Cardinality(Counts(x, y, -1)) = 0
    BY <2>1, FS_EmptySet
  <2>3. row[x].depth[y] + Cardinality(Counts(x, y, 1)) - Cardinality(Counts(x, y, -1)) = row[x].depth[y]
    BY <1>0, <2>2
  <2>4. WillHave(x, y) = {k \in On(x, y) : ~\E q \in Requests : Takes(q, x, y, k)}
    BY <1>1, <1>3 DEF WillHave, On
  <2> QED
    BY <2>1, <2>3, <2>4 DEF WillCount
<1>4. ASSUME \A q \in Requests : ~Writer(q, x, y)'
      PROVE  \A by : Counts(x, y, by)' = {} /\ Counts(y, x, by)' = {}
  BY <1>2, <1>4 DEF Counts
<1> QED
  BY <1>3, <1>4

\* What an end will have after r has begun to cut it.
LEMMA CutWillHave ==
  ASSUME Typed, NEW x \in Nodes, NEW y \in Nodes, x # y, NEW r \in Requests, OthersKept(r), row' = row,
         \A q \in Requests : ~Writer(q, x, y), ~Cutter(r, x, y), ~Writer(r, x, y)', Of(r, x, y)', <<"cut", x>> \in calls'[r]
  PROVE  /\ WillHave(x, y)' = WillHave(x, y) \ Names(r, x)'
         /\ WillCount(x, y)' = IF "ed" \in Names(r, x)' THEN 0 ELSE WillCount(x, y)
         /\ \A by : Counts(x, y, by)' = {}
<1>1. \A q \in Requests : ~Writer(q, x, y)'
  BY OthersDo
<1>2. \A k \in Kinds : Takes(r, x, y, k)' <=> k \in Names(r, x)'
  BY DEF Takes
<1>3. \A k \in Kinds : ~Takes(r, x, y, k)
  BY RolesMean
<1>4. \A k \in Kinds, q \in Requests : Takes(q, x, y, k)' <=> Takes(q, x, y, k) \/ (q = r /\ k \in Names(r, x)')
  BY <1>2, <1>3, OthersDo
<1>5. \A k \in Kinds, q \in Requests : ~Adds(q, x, y, k) /\ ~Adds(q, x, y, k)'
  <2>1. \A k \in Kinds, q \in Requests : Adds(q, x, y, k)' => Writer(q, x, y)'
    BY DEF Adds, Writer, Does
  <2> QED
    BY <1>1, <2>1, RolesMean
<1>6. WillHave(x, y)' = WillHave(x, y) \ Names(r, x)'
  BY <1>4, <1>5 DEF WillHave
<1>7. Counts(x, y, 1)' = Counts(x, y, 1) /\ Counts(x, y, -1)' = Counts(x, y, -1) /\ \A by : Counts(x, y, by)' = {}
  BY <1>1, NoneWrites
<1>8. WillCount(x, y)' = IF "ed" \in Names(r, x)' THEN 0 ELSE WillCount(x, y)
  BY <1>4, <1>7 DEF WillCount, Kinds
<1> QED
  BY <1>6, <1>7, <1>8

\* A removal that takes the same cells away from both ends keeps them even.
LEMMA CutBegins ==
  ASSUME Typed, NEW x \in Nodes, NEW y \in Nodes, x # y, Even(x, y), NEW r \in Requests, OthersKept(r),
         row' = row, KnownAlike(x, y)', ~Cutter(r, x, y), \A q \in Requests : ~Writer(q, x, y),
         \A q \in Requests \ {r} : ~Finder(q, x, y),
         op'[r] \in FindOp, op'[r].x = x, op'[r].y = y, calls'[r] = {<<"cut", x>>, <<"cut", y>>},
         Names(r, x)' = Names(r, y)'
  PROVE  Even(x, y)'
<1>0. {x, y} = {y, x}
  OBVIOUS
<1>1. Of(r, x, y)' /\ Of(r, y, x)' /\ ~Writer(r, x, y)' /\ ~Finder(r, x, y)'
  BY <1>0 DEF Of, Writer, Finder, Does
<1>2. /\ \A q \in Requests : Writer(q, y, x) <=> Writer(q, x, y)
      /\ Writer(r, y, x)' <=> Writer(r, x, y)'
      /\ Cutter(r, y, x) <=> Cutter(r, x, y)
  BY <1>0 DEF Writer, Cutter, Does, Of
<1>3. Level(x, y)'
  <2>1. /\ WillHave(x, y)' = WillHave(x, y) \ Names(r, x)'
        /\ WillCount(x, y)' = IF "ed" \in Names(r, x)' THEN 0 ELSE WillCount(x, y)
        /\ \A by : Counts(x, y, by)' = {}
    BY <1>1, CutWillHave
  <2>2. /\ WillHave(y, x)' = WillHave(y, x) \ Names(r, y)'
        /\ WillCount(y, x)' = IF "ed" \in Names(r, y)' THEN 0 ELSE WillCount(y, x)
        /\ \A by : Counts(y, x, by)' = {}
    BY <1>1, <1>2, CutWillHave
  <2> QED
    BY <2>1, <2>2, FS_EmptySet DEF Even, Level
<1>4. Apiece(x, y)'
  <2>1. \A q \in Requests, s \in {"ask", "drop"}, z \in {x, y} : <<s, z>> \notin calls'[q]
    BY DEF Even, Apiece, OthersKept
  <2>2. \A q \in Requests : ~Writer(q, x, y)' /\ ~Finder(q, x, y)'
    BY <1>1, OthersDo
  <2> QED
    BY <2>1, <2>2 DEF Apiece
<1>5. Matched(x, y)'
  <2>1. ASSUME NEW q \in Requests, Cutter(q, x, y)' PROVE Names(q, x)' = Names(q, y)'
    BY <2>1, OthersDo DEF Even, Matched
  <2>2. \A q \in Requests : ~Finder(q, x, y)'
    BY <1>1, OthersDo
  <2> QED
    BY <2>1, <2>2 DEF Matched, KnownAlike
<1> QED
  BY <1>3, <1>4, <1>5 DEF Even

\* A request whose call on x is answered.
CallEnds(r, c) ==
  /\ c \in calls[r] /\ calls'[r] = calls[r] \ {c}
  /\ calls'[r] # {} => op'[r] = op[r] /\ named'[r] = named[r]
  /\ OthersKept(r)

\* The row of x loses what r cuts off it; the other end is as it was.
LEMMA CutDone ==
  ASSUME Typed, NEW x \in Nodes, NEW y \in Nodes, x # y, Even(x, y), NEW r \in Requests,
         Of(r, x, y), op[r] \in FindOp, CallEnds(r, <<"cut", x>>), known' = known, row'[y] = row[y],
         calls[r] \subseteq {<<"cut", x>>, <<"cut", y>>},
         On(x, y)' = On(x, y) \ Names(r, x),
         row'[x].depth[y] = IF "ed" \in Names(r, x) THEN 0 ELSE row[x].depth[y]
  PROVE  Even(x, y)'
<1>0. {x, y} = {y, x} /\ OthersKept(r) /\ Of(r, y, x)
  BY DEF CallEnds, Of
<1>1. Cutter(r, x, y) /\ Cutter(r, y, x)
  BY <1>0 DEF Cutter, Does, CallEnds
<1>2. \A q \in Requests : ~Writer(q, x, y) /\ ~Finder(q, x, y)
  BY <1>1 DEF Even, Apiece
<1>3. ~Writer(r, x, y)' /\ ~Finder(r, x, y)'
  BY DEF Writer, Finder, Does, CallEnds
<1>4. \A q \in Requests : ~Writer(q, x, y)' /\ ~Finder(q, x, y)'
  BY <1>0, <1>2, <1>3, OthersDo
<1>5. <<"cut", y>> \in calls'[r] <=> <<"cut", y>> \in calls[r]
  BY DEF CallEnds
<1>6. \A k \in Kinds : /\ ~Takes(r, x, y, k)'
                       /\ Takes(r, x, y, k) <=> k \in Names(r, x)
                       /\ Takes(r, y, x, k)' <=> Takes(r, y, x, k)
  <2>1. \A k \in Kinds : ~Takes(r, x, y, k)' /\ (Takes(r, x, y, k) <=> k \in Names(r, x))
    BY DEF Takes, CallEnds
  <2>2. CASE <<"cut", y>> \in calls[r]
    <3>1. op'[r] = op[r] /\ named'[r] = named[r]
      BY <1>5, <2>2 DEF CallEnds
    <3>2. Of(r, y, x)' /\ Names(r, y)' = Names(r, y)
      BY <1>0, <3>1 DEF Of, Names
    <3> QED
      BY <1>0, <1>5, <2>1, <3>2 DEF Takes
  <2>3. CASE <<"cut", y>> \notin calls[r]
    BY <1>5, <2>1, <2>3 DEF Takes
  <2> QED
    BY <2>2, <2>3
<1>7. \A q \in Requests, k \in Kinds : /\ Takes(q, x, y, k)' <=> Takes(q, x, y, k) /\ q # r
                                       /\ Takes(q, y, x, k)' <=> Takes(q, y, x, k)
  BY <1>0, <1>6, OthersDo
<1>8. /\ \A by : Counts(x, y, by) = {} /\ Counts(y, x, by) = {}
      /\ \A by : Counts(x, y, by)' = {} /\ Counts(y, x, by)' = {}
  BY <1>2, <1>4, NoneWrites
<1>9. /\ \A q \in Requests, k \in Kinds : ~Adds(q, x, y, k) /\ ~Adds(q, y, x, k)
      /\ \A q \in Requests, k \in Kinds : ~Adds(q, x, y, k)' /\ ~Adds(q, y, x, k)'
  BY <1>0, <1>2, <1>4 DEF Adds, Writer, Does, Of
<1>10. WillHave(x, y)' = WillHave(x, y)
  <2>1. WillHave(x, y) = {k \in On(x, y) : ~\E q \in Requests : Takes(q, x, y, k)}
    BY <1>9 DEF WillHave, On
  <2>2. WillHave(x, y)' = {k \in On(x, y)' : ~\E q \in Requests : Takes(q, x, y, k)'}
    BY <1>9 DEF WillHave, On
  <2>3. \A k \in Kinds : k \in On(x, y)' <=> k \in On(x, y) /\ ~Takes(r, x, y, k)
    BY <1>6 DEF On
  <2>4. On(x, y) \subseteq Kinds /\ On(x, y)' \subseteq Kinds
    BY DEF On
  <2> QED
    BY <1>7, <2>1, <2>2, <2>3, <2>4
<1>11. WillHave(y, x)' = WillHave(y, x)
  BY <1>7, <1>9 DEF WillHave
<1>12. WillCount(y, x)' = WillCount(y, x)
  BY <1>7, <1>8 DEF WillCount, Kinds
<1>13. WillCount(x, y)' = WillCount(x, y)
  <2> DEFINE taken == \E q \in Requests : Takes(q, x, y, "ed")
  <2>0. row[x].depth[y] \in Int /\ "ed" \in Kinds
    BY DEF Typed, TablesOK, Row, Kinds
  <2>1. WillCount(x, y) = IF taken THEN 0 ELSE row[x].depth[y]
    BY <1>2, NoneWrites
  <2>2. Cardinality(Counts(x, y, 1)') = 0 /\ Cardinality(Counts(x, y, -1)') = 0
    BY <1>8, FS_EmptySet
  <2>3. row'[x].depth[y] \in Int
    BY <2>0
  <2>4. WillCount(x, y)' = IF \E q \in Requests : Takes(q, x, y, "ed")' THEN 0 ELSE row'[x].depth[y]
    BY <2>2, <2>3 DEF WillCount
  <2>5. taken <=> (\E q \in Requests : Takes(q, x, y, "ed")') \/ "ed" \in Names(r, x)
    BY <1>6, <1>7, <2>0
  <2> QED
    BY <2>1, <2>4, <2>5
<1>14. Level(x, y)'
  BY <1>8, <1>10, <1>11, <1>12, <1>13, FS_EmptySet DEF Even, Level
<1>15. Apiece(x, y)'
  <2>1. \A q \in Requests, s \in {"ask", "drop"}, z \in {x, y} : <<s, z>> \notin calls'[q]
    BY DEF Even, Apiece, CallEnds, OthersKept
  <2> QED
    BY <1>4, <2>1 DEF Apiece
<1>16. Matched(x, y)'
  <2>1. ASSUME NEW q \in Requests, Cutter(q, x, y)' PROVE Names(q, x)' = Names(q, y)'
    <3>1. CASE q = r
      <4>1. op'[r] = op[r] /\ named'[r] = named[r]
        BY <2>1, <3>1 DEF Cutter, Does, CallEnds
      <4>2. Names(r, x) = Names(r, y)
        BY <1>1 DEF Even, Matched
      <4> QED
        BY <3>1, <4>1, <4>2 DEF Names
    <3>2. CASE q # r
      BY <1>0, <2>1, <3>2, OthersDo DEF Even, Matched
    <3> QED
      BY <3>1, <3>2
  <2>2. KnownAlike(x, y)'
    BY DEF Even, Matched, KnownAlike
  <2> QED
    BY <1>4, <2>1, <2>2 DEF Matched, KnownAlike
<1> QED
  BY <1>14, <1>15, <1>16 DEF Even

\* What an end will have after r has begun to write to it.
LEMMA LinkWillHave ==
  ASSUME Typed, NEW x \in Nodes, NEW y \in Nodes, NEW r \in Requests, OthersKept(r), row' = row,
         \A q \in Requests : ~Cutter(q, x, y), ~Writer(r, x, y), ~Cutter(r, x, y)',
         Of(r, x, y)', <<"write", x>> \in calls'[r], op'[r].kind \in Kinds, op'[r].by \in {1, -1},
         \A by \in {1, -1} : IsFiniteSet(Counts(x, y, by))
  PROVE  /\ WillHave(x, y)' = WillHave(x, y) \cup {op'[r].kind}
         /\ \A by \in {1, -1} : IsFiniteSet(Counts(x, y, by)')
         /\ WillCount(x, y)' = IF op'[r].kind = "ed" THEN WillCount(x, y) + op'[r].by ELSE WillCount(x, y)
<1>1. \A k \in Kinds, q \in Requests : ~Takes(q, x, y, k) /\ ~Takes(q, x, y, k)'
  <2>1. \A q \in Requests : ~Cutter(q, x, y)'
    BY OthersDo
  <2>2. \A k \in Kinds, q \in Requests : Takes(q, x, y, k)' => Cutter(q, x, y)'
    BY DEF Takes, Cutter, Does
  <2> QED
    BY <2>1, <2>2, RolesMean
<1>2. \A k \in Kinds : ~Adds(r, x, y, k) /\ (Adds(r, x, y, k)' <=> k = op'[r].kind)
  BY RolesMean DEF Adds
<1>3. \A k \in Kinds, q \in Requests : Adds(q, x, y, k)' <=> Adds(q, x, y, k) \/ (q = r /\ k = op'[r].kind)
  BY <1>2, OthersDo
<1>4. WillHave(x, y)' = WillHave(x, y) \cup {op'[r].kind}
  BY <1>1, <1>3 DEF WillHave
<1>5. "ed" \in Kinds /\ row[x].depth[y] \in Int
  BY DEF Kinds, Typed, TablesOK, Row
<1>6. ASSUME NEW by \in {1, -1}
      PROVE  /\ IsFiniteSet(Counts(x, y, by)') /\ Cardinality(Counts(x, y, by)) \in Int
             /\ Cardinality(Counts(x, y, by)') = IF op'[r].kind = "ed" /\ op'[r].by = by
                                                 THEN Cardinality(Counts(x, y, by)) + 1
                                                 ELSE Cardinality(Counts(x, y, by))
  <2>1. \A q \in Requests : q # r => op'[q] = op[q]
    BY DEF OthersKept
  <2>2. r \notin Counts(x, y, by) /\ IsFiniteSet(Counts(x, y, by))
    BY <1>2, <1>5 DEF Counts
  <2>3. Cardinality(Counts(x, y, by)) \in Nat
    BY <2>2, FS_CardinalityType
  <2>4. CASE op'[r].kind = "ed" /\ op'[r].by = by
    <3>1. Counts(x, y, by)' = Counts(x, y, by) \cup {r}
      BY <1>2, <1>3, <1>5, <2>1, <2>4 DEF Counts
    <3>2. /\ IsFiniteSet(Counts(x, y, by) \cup {r})
          /\ Cardinality(Counts(x, y, by) \cup {r}) = Cardinality(Counts(x, y, by)) + 1
      BY <2>2, FS_AddElement
    <3> QED
      BY <2>3, <2>4, <3>1, <3>2
  <2>5. CASE ~(op'[r].kind = "ed" /\ op'[r].by = by)
    <3>1. Counts(x, y, by)' = Counts(x, y, by)
      BY <1>2, <1>3, <1>5, <2>1, <2>5 DEF Counts
    <3> QED
      BY <2>2, <2>3, <2>5, <3>1
  <2> QED
    BY <2>4, <2>5
<1>7. /\ WillCount(x, y) = row[x].depth[y] + Cardinality(Counts(x, y, 1)) - Cardinality(Counts(x, y, -1))
      /\ WillCount(x, y)' = row[x].depth[y] + Cardinality(Counts(x, y, 1)') - Cardinality(Counts(x, y, -1)')
  BY <1>1, <1>5 DEF WillCount
<1>8. WillCount(x, y)' = IF op'[r].kind = "ed" THEN WillCount(x, y) + op'[r].by ELSE WillCount(x, y)
  BY <1>5, <1>6, <1>7
<1> QED
  BY <1>4, <1>6, <1>8

\* Both ends will have the same more.
LEMMA LinkLevel ==
  ASSUME Typed, NEW x \in Nodes, NEW y \in Nodes, x # y, Even(x, y), NEW r \in Requests, OthersKept(r), row' = row,
         \A q \in Requests : ~Cutter(q, x, y), ~Writer(r, x, y), ~Cutter(r, x, y)', Of(r, x, y)', Of(r, y, x)',
         <<"write", x>> \in calls'[r], <<"write", y>> \in calls'[r], op'[r].kind \in Kinds, op'[r].by \in {1, -1}
  PROVE  Level(x, y)'
<1>0. /\ \A by \in {1, -1} : IsFiniteSet(Counts(x, y, by))
      /\ \A by \in {1, -1} : IsFiniteSet(Counts(y, x, by))
  BY DEF Even, Level
<1>1. {x, y} = {y, x}
  OBVIOUS
<1>2. /\ ~Writer(r, y, x)
      /\ \A q \in Requests : ~Cutter(q, y, x)
      /\ ~Cutter(r, y, x)'
  BY <1>1 DEF Writer, Cutter, Does, Of
<1>3. /\ WillHave(x, y)' = WillHave(x, y) \cup {op'[r].kind}
      /\ \A by \in {1, -1} : IsFiniteSet(Counts(x, y, by)')
      /\ WillCount(x, y)' = IF op'[r].kind = "ed" THEN WillCount(x, y) + op'[r].by ELSE WillCount(x, y)
  BY <1>0, LinkWillHave
<1>4. /\ WillHave(y, x)' = WillHave(y, x) \cup {op'[r].kind}
      /\ \A by \in {1, -1} : IsFiniteSet(Counts(y, x, by)')
      /\ WillCount(y, x)' = IF op'[r].kind = "ed" THEN WillCount(y, x) + op'[r].by ELSE WillCount(y, x)
  BY <1>0, <1>2, LinkWillHave
<1> QED
  BY <1>3, <1>4 DEF Even, Level

\* An edge or a depth that is written to both rows keeps the ends even.
LEMMA LinkBegins ==
  ASSUME Typed, NEW x \in Nodes, NEW y \in Nodes, x # y, Even(x, y), NEW r \in Requests, OthersKept(r),
         row' = row, known' = known, ~Writer(r, x, y),
         \A q \in Requests : ~Cutter(q, x, y) /\ ~Finder(q, x, y),
         op'[r] \in LinkOp, op'[r].x = x, op'[r].y = y, ~op'[r].popular,
         calls'[r] = {<<"write", x>>, <<"write", y>>}
  PROVE  Even(x, y)'
<1>0. {x, y} = {y, x} /\ op'[r].kind \in Kinds /\ op'[r].by \in {1, -1}
  BY DEF LinkOp, Kinds
<1>1. Of(r, x, y)' /\ Of(r, y, x)' /\ ~Cutter(r, x, y)' /\ ~Finder(r, x, y)'
  BY <1>0 DEF Of, Cutter, Finder, Does
<1>3. Level(x, y)'
  <2>1. /\ \A q \in Requests : ~Cutter(q, x, y)
        /\ <<"write", x>> \in calls'[r] /\ <<"write", y>> \in calls'[r]
    OBVIOUS
  <2> QED
    BY <1>0, <1>1, <2>1, LinkLevel
<1>4. \A q \in Requests : ~Cutter(q, x, y)' /\ ~Finder(q, x, y)'
  BY <1>1, OthersDo
<1>5. Apiece(x, y)'
  <2>1. \A q \in Requests, s \in {"ask", "drop"}, z \in {x, y} : <<s, z>> \notin calls'[q]
    BY DEF Even, Apiece, OthersKept
  <2>2. ASSUME NEW q \in Requests, Writer(q, x, y)' PROVE ~op'[q].popular
    <3>1. CASE q # r
      <4>1. Writer(q, x, y) /\ op'[q] = op[q]
        BY <2>2, <3>1, OthersDo DEF OthersKept
      <4> QED
        BY <4>1 DEF Even, Apiece
    <3> QED
      BY <3>1
  <2> QED
    BY <1>4, <2>1, <2>2 DEF Apiece
<1>6. Matched(x, y)'
  BY <1>4 DEF Even, Matched
<1> QED
  BY <1>3, <1>5, <1>6 DEF Even

\* The row of x has what r writes; the other end is as it was.
LEMMA WriteDone ==
  ASSUME Typed, NEW x \in Nodes, NEW y \in Nodes, x # y, Even(x, y), NEW r \in Requests,
         Of(r, x, y), op[r] \in LinkOp, CallEnds(r, <<"write", x>>), known' = known, row'[y] = row[y],
         On(x, y)' = On(x, y) \cup {op[r].kind},
         row'[x].depth[y] = IF op[r].kind = "ed" THEN row[x].depth[y] + op[r].by ELSE row[x].depth[y]
  PROVE  Even(x, y)'
<1>0. /\ {x, y} = {y, x} /\ OthersKept(r) /\ Of(r, y, x) /\ op[r].kind \in Kinds /\ op[r].by \in {1, -1}
      /\ "ed" \in Kinds
  BY DEF CallEnds, Of, LinkOp, Kinds
<1>1. Writer(r, x, y)
  BY DEF Writer, Does, CallEnds
<1>2. \A q \in Requests : ~Cutter(q, x, y) /\ ~Finder(q, x, y)
  BY <1>1 DEF Even, Apiece
<1>3. ~Cutter(r, x, y)' /\ ~Finder(r, x, y)'
  <2>1. CASE calls'[r] = {}
    BY <2>1 DEF Cutter, Finder, Does
  <2>2. CASE calls'[r] # {}
    <3>1. op'[r] = op[r]
      BY <2>2 DEF CallEnds
    <3>2. Cutter(r, x, y)' => Cutter(r, x, y)
      BY <3>1 DEF Cutter, Does, Of, CallEnds
    <3>3. Finder(r, x, y)' => Finder(r, x, y)
      BY <3>1 DEF Finder, Does, Of, CallEnds
    <3> QED
      BY <1>2, <3>2, <3>3
  <2> QED
    BY <2>1, <2>2
<1>4. \A q \in Requests : ~Cutter(q, x, y)' /\ ~Finder(q, x, y)'
  BY <1>0, <1>2, <1>3, OthersDo
<1>5. \A q \in Requests, k \in Kinds : ~Takes(q, x, y, k) /\ ~Takes(q, y, x, k)
                                       /\ ~Takes(q, x, y, k)' /\ ~Takes(q, y, x, k)'
  BY <1>0, <1>2, <1>4 DEF Takes, Cutter, Does, Of
<1>6. <<"write", y>> \in calls'[r] <=> <<"write", y>> \in calls[r]
  BY DEF CallEnds
<1>7. \A k \in Kinds : /\ ~Adds(r, x, y, k)' /\ (Adds(r, x, y, k) <=> k = op[r].kind)
                       /\ Adds(r, y, x, k)' <=> Adds(r, y, x, k)
                       /\ Adds(r, y, x, k)' => op'[r] = op[r]
  <2>1. \A k \in Kinds : ~Adds(r, x, y, k)' /\ (Adds(r, x, y, k) <=> k = op[r].kind)
    BY DEF Adds, CallEnds
  <2>2. CASE <<"write", y>> \in calls[r]
    <3>1. op'[r] = op[r]
      BY <1>6, <2>2 DEF CallEnds
    <3>2. Of(r, y, x)'
      BY <1>0, <3>1 DEF Of
    <3> QED
      BY <1>0, <1>6, <2>1, <3>1, <3>2 DEF Adds
  <2>3. CASE <<"write", y>> \notin calls[r]
    BY <1>6, <2>1, <2>3 DEF Adds
  <2> QED
    BY <2>2, <2>3
<1>8. \A q \in Requests, k \in Kinds : /\ Adds(q, x, y, k)' <=> Adds(q, x, y, k) /\ q # r
                                       /\ Adds(q, y, x, k)' <=> Adds(q, y, x, k)
                                       /\ Adds(q, y, x, k)' => op'[q] = op[q]
  BY <1>0, <1>7, OthersDo DEF OthersKept
<1>9. WillHave(x, y)' = WillHave(x, y)
  <2>1. \A k \in Kinds : <<k, y>> \in row'[x].cells <=> <<k, y>> \in row[x].cells \/ k = op[r].kind
    BY <1>0 DEF On
  <2>2. \A k \in Kinds : (\E q \in Requests : Adds(q, x, y, k)) <=>
                            (\E q \in Requests : Adds(q, x, y, k)') \/ k = op[r].kind
    BY <1>7, <1>8
  <2> QED
    BY <1>5, <2>1, <2>2 DEF WillHave
<1>10. WillHave(y, x)' = WillHave(y, x)
  BY <1>5, <1>8 DEF WillHave
<1>11. \A by \in {1, -1} : Counts(y, x, by)' = Counts(y, x, by)
  BY <1>0, <1>8 DEF Counts
<1>12. WillCount(y, x)' = WillCount(y, x)
  BY <1>5, <1>11 DEF WillCount, Kinds
<1>13. ASSUME NEW by \in {1, -1}
       PROVE  /\ IsFiniteSet(Counts(x, y, by)') /\ Cardinality(Counts(x, y, by)) \in Int
              /\ Cardinality(Counts(x, y, by)') = IF op[r].kind = "ed" /\ op[r].by = by
                                                  THEN Cardinality(Counts(x, y, by)) - 1
                                                  ELSE Cardinality(Counts(x, y, by))
  <2>1. \A q \in Requests : q # r => op'[q] = op[q]
    BY <1>0 DEF OthersKept
  <2>2. IsFiniteSet(Counts(x, y, by)) /\ Cardinality(Counts(x, y, by)) \in Nat
    BY FS_CardinalityType DEF Even, Level
  <2>3. CASE op[r].kind = "ed" /\ op[r].by = by
    <3>1. Counts(x, y, by)' = Counts(x, y, by) \ {r} /\ r \in Counts(x, y, by)
      BY <1>0, <1>7, <1>8, <2>1, <2>3 DEF Counts
    <3> QED
      BY <2>2, <2>3, <3>1, FS_RemoveElement
  <2>4. CASE ~(op[r].kind = "ed" /\ op[r].by = by)
    <3>1. Counts(x, y, by)' = Counts(x, y, by)
      BY <1>0, <1>7, <1>8, <2>1, <2>4 DEF Counts
    <3> QED
      BY <2>2, <2>4, <3>1
  <2> QED
    BY <2>3, <2>4
<1>14. WillCount(x, y)' = WillCount(x, y)
  <2>1. row[x].depth[y] \in Int
    BY DEF Typed, TablesOK, Row
  <2>2. /\ WillCount(x, y) = row[x].depth[y] + Cardinality(Counts(x, y, 1)) - Cardinality(Counts(x, y, -1))
        /\ WillCount(x, y)' = row'[x].depth[y] + Cardinality(Counts(x, y, 1)') - Cardinality(Counts(x, y, -1)')
    BY <1>0, <1>5 DEF WillCount
  <2> QED
    BY <1>0, <1>13, <2>1, <2>2
<1>15. Level(x, y)'
  BY <1>9, <1>10, <1>11, <1>12, <1>13, <1>14 DEF Even, Level
<1>16. Apiece(x, y)'
  <2>1. \A q \in Requests, s \in {"ask", "drop"}, z \in {x, y} : <<s, z>> \notin calls'[q]
    BY DEF Even, Apiece, CallEnds, OthersKept
  <2>2. ASSUME NEW q \in Requests, Writer(q, x, y)' PROVE ~op'[q].popular
    <3>1. Writer(q, x, y) /\ op'[q] = op[q]
      <4>1. CASE q = r
        BY <1>1, <2>2, <4>1 DEF Writer, Does, CallEnds
      <4>2. CASE q # r
        BY <1>0, <2>2, <4>2, OthersDo DEF OthersKept
      <4> QED
        BY <4>1, <4>2
    <3> QED
      BY <3>1 DEF Even, Apiece
  <2> QED
    BY <1>4, <2>1, <2>2 DEF Apiece
<1>17. Matched(x, y)'
  BY <1>4 DEF Even, Matched
<1> QED
  BY <1>15, <1>16, <1>17 DEF Even

-----------------------------------------------------------------------------
(* The steps keep the ends even.                                           *)

\* An entry that goes leaves what is cached alike.
LEMMA KnownGoes ==
  ASSUME Typed, NEW e \in Edges, known' = [known EXCEPT ![e] = {}], NEW x, NEW y, KnownAlike(x, y),
         <<x, y>> \in Edges, <<y, x>> \in Edges
  PROVE  KnownAlike(x, y)'
<1>1. \A f \in Edges : known'[f] = known[f] \/ known'[f] = {}
  BY DEF Typed, CacheOK
<1> QED
  BY <1>1 DEF KnownAlike

\* A request that comes in keeps the ends even.
LEMMA RouteEven ==
  ASSUME Typed, FitsInv, EvenInv, NEW r \in Requests, Routes(r),
         NEW x \in Nodes, NEW y \in Nodes, x # y, {x, y} \notin torn'
  PROVE  Even(x, y)'
<1>0. <<x, y>> \in Edges /\ <<y, x>> \in Edges /\ {x, y} = {y, x} /\ {x, y} \in PairsOf(x) /\ {x, y} \in PairsOf(y)
  BY DEF Edges, PairsOf
<1>1. ASSUME torn \subseteq torn'
      PROVE  Even(x, y) /\ KnownAlike(x, y)
  <2>1. Even(x, y)
    BY <1>1 DEF EvenInv
  <2> QED
    BY <2>1 DEF Even, Matched, KnownAlike
<1>2. ASSUME NEW o, NEW first, Begin(r, o, first)
      PROVE  /\ calls[r] = {} /\ calls'[r] = first /\ op'[r] = o /\ row' = row /\ named[r] = {}
             /\ \A q \in Requests : q # r => calls'[q] = calls[q] /\ op'[q] = op[q]
             /\ \A v, w : ~Writer(r, v, w) /\ ~Cutter(r, v, w) /\ ~Finder(r, v, w)
             /\ \A v, w : PairKept(v, w)
  <2>1. /\ calls[r] = {} /\ calls'[r] = first /\ op'[r] = o /\ row' = row
        /\ \A q \in Requests : q # r => calls'[q] = calls[q] /\ op'[q] = op[q]
    BY <1>2, BeginMeans
  <2>2. named[r] = {}
    BY <2>1 DEF FitsInv, Fits
  <2> QED
    BY <2>1, <2>2 DEF Writer, Cutter, Finder, Does, PairKept
\* What r begins is nothing of this pair.
<1>s. ASSUME NEW o, NEW first, Begin(r, o, first), torn \subseteq torn', KnownAlike(x, y)',
             \A q \in Requests : q # r => named'[q] = named[q],
             \A s \in {"ask", "drop"}, z \in {x, y} : <<s, z>> \notin first,
             \/ {o.x, o.y} # {x, y}
             \/ \A s \in {"find", "named", "cut", "write", "pop"}, z \in Nodes : <<s, z>> \notin first
      PROVE  Even(x, y)'
  <2>0. calls'[r] = first /\ op'[r] = o /\ ~Writer(r, x, y) /\ ~Cutter(r, x, y) /\ PairKept(x, y)
    BY <1>2, <1>s
  <2>1. OthersKept(r)
    BY <1>2, <1>s DEF OthersKept
  <2>2. ~Writer(r, x, y)' /\ ~Cutter(r, x, y)' /\ ~Finder(r, x, y)'
    <3>1. CASE {o.x, o.y} # {x, y}
      BY <2>0, <3>1 DEF Writer, Cutter, Finder, Does, Of
    <3>2. CASE \A s \in {"find", "named", "cut", "write", "pop"}, z \in Nodes : <<s, z>> \notin first
      BY <2>0, <3>2 DEF Writer, Cutter, Finder, Does
    <3> QED
      BY <1>s, <3>1, <3>2
  <2>3. \A s \in {"ask", "drop"}, z \in {x, y} : <<s, z>> \notin calls'[r]
    BY <1>s, <2>0
  <2>4. KnownAlike(x, y)' /\ Even(x, y)
    BY <1>1, <1>s
  <2> QED
    BY <2>0, <2>1, <2>2, <2>3, <2>4, StaysEven
<1>3. ASSUME NEW z \in Nodes, GetNode(r, z) PROVE Even(x, y)'
  <2>1. Begin(r, [name |-> "getNode", x |-> z], {<<"read", z>>}) /\ UNCHANGED <<known, named, torn>>
    BY <1>3 DEF GetNode, cache
  <2>2. KnownAlike(x, y)'
    BY <1>1, <2>1 DEF KnownAlike
  <2> QED
    BY <1>s, <2>1, <2>2
<1>4. ASSUME NEW z \in Nodes, NEW d \in Data, CreateNode(r, z, d) PROVE Even(x, y)'
  <2>1. /\ Begin(r, [name |-> "createNode", x |-> z, data |-> d], {<<"insert", z>>})
        /\ UNCHANGED <<known, named, torn>>
    BY <1>4 DEF CreateNode, cache
  <2>2. KnownAlike(x, y)'
    BY <1>1, <2>1 DEF KnownAlike
  <2> QED
    BY <1>s, <2>1, <2>2
<1>5. ASSUME NEW z \in Nodes, RemoveNode(r, z) PROVE Even(x, y)'
  <2>1. /\ Begin(r, [name |-> "removeNode", x |-> z], {<<"ask", z>>})
        /\ UNCHANGED <<known, named>> /\ torn' = torn \cup PairsOf(z)
    BY <1>5 DEF RemoveNode
  <2>2. KnownAlike(x, y)'
    BY <1>1, <2>1 DEF KnownAlike
  <2>3. z # x /\ z # y
    BY <1>0, <2>1
  <2> QED
    BY <1>s, <2>1, <2>2, <2>3
<1>6. ASSUME NEW z \in Nodes, RemoveNodeComplete(r, z) PROVE Even(x, y)'
  <2>1. /\ Begin(r, [name |-> "removeNodeComplete", x |-> z], {<<"check", z>>})
        /\ UNCHANGED <<known, named, torn>>
    BY <1>6 DEF RemoveNodeComplete, cache, history
  <2>2. KnownAlike(x, y)'
    BY <1>1, <2>1 DEF KnownAlike
  <2> QED
    BY <1>s, <2>1, <2>2
\* An edge or a depth.
<1>7. ASSUME NEW o \in LinkOp, o.x # o.y, Begin(r, o, EdgeCalls(o)), Apart(o), UNCHANGED <<known, named>>
      PROVE  Even(x, y)'
  <2> DEFINE a == o.x
  <2> DEFINE b == o.y
  <2>0. a \in Nodes /\ b \in Nodes /\ torn \subseteq torn'
    BY <1>7 DEF LinkOp, Apart
  <2>1. KnownAlike(x, y)' /\ Even(x, y) /\ Even(y, x)
    BY <1>1, <1>7, <2>0, EvenBoth DEF KnownAlike
  <2>2. CASE {a, b} # {x, y}
    <3>1. \A s \in {"ask", "drop"}, z \in {x, y} : <<s, z>> \notin EdgeCalls(o)
      BY DEF EdgeCalls
    <3> QED
      BY <1>s, <1>7, <2>0, <2>1, <2>2, <3>1
  <2>3. CASE {a, b} = {x, y}
    <3>1. ~o.popular /\ ~FindingPair(Requests, a, b) /\ ~Cutting(a, b)
      BY <1>7, <2>3 DEF Apart
    <3>2. EdgeCalls(o) = {<<"write", a>>, <<"write", b>>}
      BY <3>1 DEF EdgeCalls
    <3>3. \A q \in Requests : ~Cutter(q, a, b) /\ ~Finder(q, a, b)
      BY <2>0, <3>1, RolesMean
    <3>4. Even(a, b) /\ ((a = x /\ b = y) \/ (a = y /\ b = x))
      <4> HIDE DEF a, b
      <4>1. (a = x /\ b = y) \/ (a = y /\ b = x)
        BY <2>3
      <4> QED
        BY <2>1, <4>1
    <3>5. OthersKept(r)
      BY <1>2, <1>7 DEF OthersKept
    <3>6. /\ row' = row /\ ~Writer(r, a, b) /\ op'[r] \in LinkOp /\ op'[r].x = a /\ op'[r].y = b
          /\ ~op'[r].popular /\ calls'[r] = {<<"write", a>>, <<"write", b>>}
      BY <1>2, <1>7, <3>1, <3>2
    <3>7. Even(a, b)'
      <4> HIDE DEF a, b
      <4>1. a # b
        BY <1>7 DEF a, b
      <4> QED
        BY <1>7, <2>0, <3>3, <3>4, <3>5, <3>6, <4>1, LinkBegins
    <3> QED
      BY <3>4, <3>7, EvenBoth
  <2> QED
    BY <2>2, <2>3
<1>8. ASSUME NEW e \in Edges, NEW k \in Kinds, NEW p \in BOOLEAN, CreateEdge(r, e[1], e[2], k, p) PROVE Even(x, y)'
  <2> DEFINE o == [name |-> "createEdge", x |-> e[1], y |-> e[2], kind |-> k, by |-> 1, popular |-> p]
  <2>1. o \in LinkOp /\ o.x # o.y /\ Begin(r, o, EdgeCalls(o)) /\ Apart(o) /\ UNCHANGED <<known, named>>
    BY <1>8 DEF CreateEdge, LinkOp, Edges
  <2> HIDE DEF o
  <2> QED
    BY <1>7, <2>1
<1>9. ASSUME NEW e \in Edges, NEW by \in {1, -1}, NEW p \in BOOLEAN, Depth(r, e[1], e[2], by, p) PROVE Even(x, y)'
  <2> DEFINE o == [name |-> "depth", x |-> e[1], y |-> e[2], kind |-> "ed", by |-> by, popular |-> p]
  <2>1. o \in LinkOp /\ o.x # o.y /\ Begin(r, o, EdgeCalls(o)) /\ Apart(o) /\ UNCHANGED <<known, named>>
    BY <1>9 DEF Depth, LinkOp, Edges
  <2> HIDE DEF o
  <2> QED
    BY <1>7, <2>1
<1>10. ASSUME NEW a \in Nodes, NEW b \in Nodes, a # b, NEW name \in {"getEdge", "removeEdge"}, Find(r, a, b, name)
       PROVE  Even(x, y)'
  <2> DEFINE o == [name |-> name, x |-> a, y |-> b]
  <2> DEFINE first == {<<"find", a>>, <<"find", b>>}
  <2>1. /\ Begin(r, o, first) /\ UNCHANGED <<known, named>> /\ torn \subseteq torn'
        /\ Cutting(a, b) \/ WritingPair(a, b) => {a, b} \in torn'
    BY <1>10 DEF Find, cache
  <2>2. KnownAlike(x, y)' /\ Even(x, y) /\ Even(y, x)
    BY <1>1, <2>1, EvenBoth DEF KnownAlike
  <2>3. CASE {a, b} # {x, y}
    BY <1>s, <2>1, <2>2, <2>3
  <2>4. CASE {a, b} = {x, y}
    <3>1. ~Cutting(a, b) /\ ~WritingPair(a, b)
      BY <2>1, <2>4
    <3>2. \A q \in Requests : ~Writer(q, a, b) /\ ~Cutter(q, a, b)
      BY <3>1, RolesMean
    <3>3. Even(a, b) /\ ((a = x /\ b = y) \/ (a = y /\ b = x))
      <4>1. (a = x /\ b = y) \/ (a = y /\ b = x)
        BY <2>4
      <4> QED
        BY <2>2, <4>1
    <3>4. /\ calls'[r] = first /\ named'[r] = {} /\ OthersKept(r) /\ PairKept(a, b)
          /\ ~Writer(r, a, b) /\ ~Cutter(r, a, b)
      BY <1>2, <2>1 DEF OthersKept
    <3>5. ~Writer(r, a, b)' /\ ~Cutter(r, a, b)'
      BY <3>4 DEF Writer, Cutter, Does
    <3>6. NamesFound(r, a, b)'
      BY <3>4 DEF NamesFound, Names
    <3>7. KnownAlike(a, b)' /\ \A s \in {"ask", "drop"}, z \in {a, b} : <<s, z>> \notin calls'[r]
      BY <2>2, <3>3, <3>4 DEF KnownAlike
    <3>8. Even(a, b)'
      BY <3>2, <3>3, <3>4, <3>5, <3>6, <3>7, StaysEven
    <3> QED
      BY <3>3, <3>8, EvenBoth
  <2> QED
    BY <2>3, <2>4
<1>11. ASSUME NEW a \in Nodes, NEW b \in Nodes, a # b, RemoveEdgeHit(r, a, b) PROVE Even(x, y)'
  <2> DEFINE o == [name |-> "removeEdge", x |-> a, y |-> b]
  <2> DEFINE first == {<<"cut", a>>, <<"cut", b>>}
  <2>1. /\ Begin(r, o, first) /\ named' = [named EXCEPT ![r] = known[<<a, b>>]]
        /\ known' = [known EXCEPT ![<<a, b>>] = {}] /\ torn \subseteq torn'
        /\ WritingPair(a, b) \/ FindingPair(Requests \ {r}, a, b) => {a, b} \in torn'
    BY <1>11 DEF RemoveEdgeHit, Unlink
  <2>2. Even(x, y) /\ Even(y, x) /\ KnownAlike(x, y) /\ KnownAlike(y, x)
    BY <1>1, <2>1, EvenBoth DEF KnownAlike
  <2>3. <<a, b>> \in Edges
    BY <1>11 DEF Edges
  <2>4. KnownAlike(x, y)' /\ KnownAlike(y, x)'
    BY <1>0, <2>1, <2>2, <2>3, KnownGoes
  <2>5. named'[r] = known[<<a, b>>] /\ \A q \in Requests : q # r => named'[q] = named[q]
    BY <2>1 DEF Typed, RequestsOK
  <2>6. CASE {a, b} # {x, y}
    BY <1>s, <2>1, <2>4, <2>5, <2>6
  <2>7. CASE {a, b} = {x, y}
    <3>1. ~WritingPair(a, b) /\ ~FindingPair(Requests \ {r}, a, b)
      BY <2>1, <2>7
    <3>2. (\A q \in Requests : ~Writer(q, a, b)) /\ \A q \in Requests \ {r} : ~Finder(q, a, b)
      BY <3>1, RolesMean
    <3>3. Even(a, b) /\ KnownAlike(a, b) /\ KnownAlike(a, b)' /\ ((a = x /\ b = y) \/ (a = y /\ b = x))
      <4>1. (a = x /\ b = y) \/ (a = y /\ b = x)
        BY <2>7
      <4> QED
        BY <2>2, <2>4, <4>1
    <3>4. calls'[r] = first /\ op'[r] = o /\ row' = row /\ OthersKept(r) /\ ~Cutter(r, a, b)
      BY <1>2, <2>1, <2>5 DEF OthersKept
    <3>5. op'[r] \in FindOp /\ op'[r].x = a /\ op'[r].y = b
      BY <1>11, <3>4 DEF FindOp
    <3>6. Side(op'[r], a) = "left" /\ Side(op'[r], b) = "right"
      BY <1>11, <3>5 DEF Side
    <3>7. Names(r, a)' = Names(r, b)'
      BY <2>5, <3>3, <3>6 DEF Names, KnownAlike
    <3>8. Even(a, b)'
      BY <1>11, <3>2, <3>3, <3>4, <3>5, <3>7, CutBegins
    <3> QED
      BY <3>3, <3>8, EvenBoth
  <2> QED
    BY <2>6, <2>7
<1>12. CASE NodeRoutes(r)
  BY <1>3, <1>4, <1>5, <1>6, <1>12 DEF NodeRoutes
<1>13. CASE EdgeRoutes(r)
  <2>1. \A e \in Edges : e[1] \in Nodes /\ e[2] \in Nodes /\ e[1] # e[2]
    BY DEF Edges
  <2> QED
    BY <1>8, <1>9, <1>10, <1>11, <1>13, <2>1 DEF EdgeRoutes
<1> QED
  BY <1>12, <1>13 DEF Routes

\* A request that has nothing to do with the pair goes on.
LEMMA GoesEven ==
  ASSUME Typed, NEW x \in Nodes, NEW y \in Nodes, Even(x, y), NEW r \in Requests, ~Of(r, x, y),
         NEW c, NEW next, Goes(r, c, next), PairKept(x, y), KnownAlike(x, y)',
         \A q \in Requests : q # r => named'[q] = named[q],
         \A s \in {"ask", "drop"}, z \in {x, y} : <<s, z>> \notin next
  PROVE  Even(x, y)'
<1>1. /\ c \in calls[r] /\ calls'[r] = (calls[r] \ {c}) \cup next
      /\ calls'[r] # {} => op'[r] = op[r]
      /\ \A q \in Requests : q # r => calls'[q] = calls[q] /\ op'[q] = op[q]
  BY GoesDoes
<1>2. OthersKept(r)
  BY <1>1 DEF OthersKept
<1>3. \A steps : ~Does(r, x, y, steps) /\ ~Does(r, x, y, steps)'
  <2>1. calls'[r] # {} => ~Of(r, x, y)'
    BY <1>1 DEF Of
  <2> QED
    BY <2>1 DEF Does
<1>4. ~Writer(r, x, y) /\ ~Cutter(r, x, y) /\ ~Writer(r, x, y)' /\ ~Cutter(r, x, y)' /\ ~Finder(r, x, y)'
  BY <1>3 DEF Writer, Cutter, Finder
<1>5. \A s \in {"ask", "drop"}, z \in {x, y} : <<s, z>> \notin calls'[r]
  BY <1>1 DEF Even, Apiece
<1> QED
  BY <1>2, <1>4, <1>5, StaysEven

\* An end of the pair has been looked at.
LEMMA FoundEven ==
  ASSUME Typed, FitsInv, NEW x \in Nodes, NEW y \in Nodes, x # y, Even(x, y), NEW r \in Requests,
         Of(r, x, y), Found(r, x)
  PROVE  Even(x, y)'
<1> DEFINE o == op[r]
<1> DEFINE next == IF calls[r] = {<<"find", x>>} THEN {<<"named", o.x>>} ELSE {}
<1>0. <<"find", x>> \in calls[r] /\ Goes(r, <<"find", x>>, next) /\ row' = row /\ known' = known
  BY DEF Found, tables, cache
<1>1. o \in FindOp /\ o.x # o.y /\ calls[r] \subseteq {<<"find", x>>, <<"find", y>>}
  <2>1. o \in FindOp /\ calls[r] \subseteq {<<"find", o.x>>, <<"find", o.y>>}
    BY <1>0, FindCall
  <2>2. {o.x, o.y} = {x, y}
    BY DEF Of
  <2> QED
    BY <2>1, <2>2 DEF FindOp
<1>2. (o.x = x /\ o.y = y) \/ (o.x = y /\ o.y = x)
  BY DEF Of
<1>3. Other(o, x) = y /\ Side(o, x) # Side(o, y)
  BY <1>2 DEF Other, Side
<1>4. Finder(r, x, y)
  BY <1>0 DEF Finder, Does
<1>5. \A q \in Requests : ~Writer(q, x, y) /\ ~Cutter(q, x, y)
  BY <1>4 DEF Even, Apiece
<1>6. /\ calls'[r] = (calls[r] \ {<<"find", x>>}) \cup next
      /\ calls'[r] # {} => op'[r] = op[r]
      /\ \A q \in Requests : q # r => calls'[q] = calls[q] /\ op'[q] = op[q]
  <2> HIDE DEF next
  <2> QED
    BY <1>0, GoesDoes
<1>7. calls'[r] \subseteq {<<"find", y>>, <<"named", o.x>>} /\ calls'[r] # {}
  BY <1>0, <1>1, <1>6
<1>8. op'[r] = o
  BY <1>6, <1>7
<1>9. <<"find", y>> \in calls'[r] <=> <<"find", y>> \in calls[r]
  BY <1>6
<1>10. <<"find", x>> \notin calls'[r]
  BY <1>6
<1>11. named'[r] = named[r] \cup {<<Side(o, x), k>> : k \in First(On(x, y))}
       /\ \A q \in Requests : q # r => named'[q] = named[q]
  <2>1. On(x, y) = {k \in Kinds : <<k, Other(op[r], x)>> \in row[x].cells}
    BY <1>3 DEF On
  <2>2. named' = [named EXCEPT ![r] = @ \cup {<<Side(op[r], x), k>> : k \in First(On(x, y))}]
    BY <2>1 DEF Found, First
  <2> QED
    BY <2>2 DEF Typed, RequestsOK
<1>12. Names(r, x) = {} /\ Names(r, y) = IF <<"find", y>> \in calls[r] THEN {} ELSE First(On(y, x))
  BY <1>0, <1>4 DEF Even, Matched
<1>13. First(On(x, y)) \subseteq Kinds
  BY DEF First, On
<1>14. Names(r, x)' = First(On(x, y))
  <2>1. Names(r, x)' = {k \in Kinds : <<Side(o, x), k>> \in named'[r]}
    BY <1>8 DEF Names
  <2>2. \A k \in Kinds : <<Side(o, x), k>> \notin named[r]
    BY <1>12 DEF Names
  <2> QED
    BY <1>11, <1>13, <2>1, <2>2
<1>15. Names(r, y)' = Names(r, y)
  <2>1. \A k \in Kinds : <<Side(o, y), k>> \in named'[r] <=> <<Side(o, y), k>> \in named[r]
    BY <1>3, <1>11
  <2> QED
    BY <1>8, <2>1 DEF Names
<1>16. NamesFound(r, x, y)'
  <2>1. On(x, y)' = On(x, y) /\ On(y, x)' = On(y, x)
    BY <1>0 DEF On
  <2> QED
    BY <1>9, <1>10, <1>12, <1>14, <1>15, <2>1 DEF NamesFound
<1>17. ~Writer(r, x, y)' /\ ~Cutter(r, x, y)'
  BY <1>7 DEF Writer, Cutter, Does
<1>18. \A s \in {"ask", "drop"}, z \in {x, y} : <<s, z>> \notin calls'[r]
  BY <1>7
<1>19. OthersKept(r) /\ PairKept(x, y) /\ KnownAlike(x, y)'
  BY <1>0, <1>6, <1>11 DEF OthersKept, PairKept, KnownAlike, Even, Matched
<1> QED
  BY <1>5, <1>16, <1>17, <1>18, <1>19, StaysEven

\* Both ends have been looked at, and showed the same.
LEMMA NamedEven ==
  ASSUME Typed, FitsInv, NEW x \in Nodes, NEW y \in Nodes, x # y, Even(x, y), NEW r \in Requests,
         op[r] \in FindOp, op[r].x = x, op[r].y = y, Named(r, x), {x, y} \notin torn'
  PROVE  Even(x, y)'
<1>0. <<x, y>> \in Edges /\ <<y, x>> \in Edges /\ <<x, y>> # <<y, x>> /\ {x, y} = {y, x}
  BY DEF Edges
<1>1. calls[r] = {<<"named", x>>} /\ Of(r, x, y) /\ row' = row
  BY NamedCall DEF Named, Of, tables
<1>2. Finder(r, x, y)
  BY <1>1 DEF Finder, Does
<1>3. \A q \in Requests : ~Writer(q, x, y) /\ ~Cutter(q, x, y) /\ ~Writer(q, y, x) /\ ~Cutter(q, y, x)
  <2>1. \A q \in Requests : ~Writer(q, x, y) /\ ~Cutter(q, x, y)
    BY <1>2 DEF Even, Apiece
  <2> QED
    BY <1>0, <2>1 DEF Writer, Cutter, Does, Of
<1>4. \A q \in Requests, k \in Kinds : ~Takes(q, x, y, k) /\ ~Takes(q, y, x, k)
  BY <1>3, RolesMean DEF Takes, Cutter, Does
<1>5. Names(r, x) = Names(r, y)
  <2>1. WillHave(x, y) = On(x, y)
    <3>1. WillHave(x, y) = {k \in On(x, y) : ~\E q \in Requests : Takes(q, x, y, k)}
      BY <1>3, NoneWrites
    <3> QED
      BY <1>4, <3>1 DEF On
  <2>2. WillHave(y, x) = On(y, x)
    <3>1. WillHave(y, x) = {k \in On(y, x) : ~\E q \in Requests : Takes(q, y, x, k)}
      BY <1>3, NoneWrites
    <3> QED
      BY <1>4, <3>1 DEF On
  <2>3. On(x, y) = On(y, x)
    BY <2>1, <2>2 DEF Even, Level
  <2>4. Names(r, x) = First(On(x, y)) /\ Names(r, y) = First(On(y, x))
    BY <1>1, <1>2 DEF Even, Matched
  <2> QED
    BY <2>3, <2>4
<1>6. Side(op[r], x) = "left" /\ Side(op[r], y) = "right"
  BY DEF Side
<1>7. KnownAlike(x, y)
  BY DEF Even, Matched, KnownAlike
<1>8. CASE /\ Goes(r, <<"named", x>>, {})
           /\ known' = IF named[r] = {} THEN known ELSE [known EXCEPT ![<<x, y>>] = named[r]]
           /\ named' = [named EXCEPT ![r] = {}]
  <2>1. /\ calls'[r] = {}
        /\ \A q \in Requests : q # r => calls'[q] = calls[q] /\ op'[q] = op[q]
    BY <1>1, <1>8, GoesDoes
  <2>2. \A q \in Requests : q # r => named'[q] = named[q]
    BY <1>8 DEF Typed, RequestsOK
  <2>3. OthersKept(r) /\ PairKept(x, y)
    BY <1>1, <2>1, <2>2 DEF OthersKept, PairKept
  <2>4. KnownAlike(x, y)'
    <3>1. \A k \in Kinds : <<"left", k>> \in named[r] <=> <<"right", k>> \in named[r]
      BY <1>5, <1>6 DEF Names
    <3>2. known'[<<y, x>>] = known[<<y, x>>] /\ known'[<<x, y>>] \in {known[<<x, y>>], named[r]}
      BY <1>0, <1>8 DEF Typed, CacheOK
    <3> QED
      BY <1>7, <3>1, <3>2 DEF KnownAlike
  <2>5. ~Writer(r, x, y)' /\ ~Cutter(r, x, y)' /\ ~Finder(r, x, y)'
    BY <2>1 DEF Writer, Cutter, Finder, Does
  <2>6. \A s \in {"ask", "drop"}, z \in {x, y} : <<s, z>> \notin calls'[r]
    BY <2>1
  <2> QED
    BY <1>3, <2>3, <2>4, <2>5, <2>6, StaysEven
<1>9. CASE Goes(r, <<"named", x>>, {<<"cut", x>>, <<"cut", y>>}) /\ Unlink(r, x, y) /\ UNCHANGED named
  <2>1. /\ calls'[r] = {<<"cut", x>>, <<"cut", y>>} /\ op'[r] = op[r]
        /\ \A q \in Requests : q # r => calls'[q] = calls[q] /\ op'[q] = op[q]
    <3>1. /\ calls'[r] = (calls[r] \ {<<"named", x>>}) \cup {<<"cut", x>>, <<"cut", y>>}
          /\ calls'[r] # {} => op'[r] = op[r]
          /\ \A q \in Requests : q # r => calls'[q] = calls[q] /\ op'[q] = op[q]
      BY <1>9, GoesDoes
    <3> QED
      BY <1>1, <3>1
  <2>2. OthersKept(r) /\ Names(r, x)' = Names(r, y)'
    BY <1>5, <1>9, <2>1 DEF OthersKept, Names
  <2>3. KnownAlike(x, y)'
    BY <1>0, <1>7, <1>9, KnownGoes DEF Unlink
  <2>4. ~FindingPair(Requests \ {r}, x, y)
    BY <1>9 DEF Unlink
  <2>5. \A q \in Requests \ {r} : ~Finder(q, x, y)
    BY <2>4, RolesMean
  <2>6. op'[r] \in FindOp /\ op'[r].x = x /\ op'[r].y = y
    BY <2>1
  <2> QED
    BY <1>1, <1>3, <2>1, <2>2, <2>3, <2>5, <2>6, CutBegins
<1> QED
  BY <1>8, <1>9 DEF Named

\* A write of something else leaves what the rows have of the pair.
LEMMA PairAfter ==
  ASSUME Typed, FitsInv, NEW x \in Nodes, NEW y \in Nodes, Even(x, y), NEW r \in Requests, ~Of(r, x, y),
         NEW s \in Writes, NEW z \in Nodes, <<s, z>> \in calls[r], Effect(r, s, z)
  PROVE  PairKept(x, y)
<1>0. row \in [Nodes -> Row]
  BY DEF Typed, TablesOK
<1>1. \A v \in Nodes : v # z => row'[v] = row[v]
  BY RowAfter
<1>2. CASE s = "insert"
  <2>1. row' = [row EXCEPT ![z].data = op[r].data]
    BY <1>2 DEF Effect, Kinds
  <2>2. row'[z].cells = row[z].cells /\ row'[z].depth = row[z].depth
    BY <1>0, <2>1 DEF Row
  <2> QED
    BY <1>1, <2>2 DEF PairKept
<1>3. ASSUME s \in {"write", "cut"}, NEW v \in Nodes, v = z, NEW w \in Nodes, {v, w} = {x, y}
      PROVE  Other(op[r], z) # w
  <2>1. op[r] \in LinkOp \cup FindOp /\ z \in {op[r].x, op[r].y}
    BY <1>3, LinkCall, CutCall DEF Links
  <2>2. {op[r].x, op[r].y} # {x, y}
    BY <2>1 DEF Of
  <2> QED
    BY <1>3, <2>1, <2>2 DEF Other
<1>4. ASSUME NEW v \in Nodes, NEW w \in Nodes, {v, w} = {x, y}, s \in {"write", "cut"}
      PROVE  /\ \A k \in Kinds : <<k, w>> \in row'[v].cells <=> <<k, w>> \in row[v].cells
             /\ row'[v].depth[w] = row[v].depth[w]
  <2>1. CASE v # z
    BY <1>1, <2>1
  <2>2. CASE v = z
    <3> DEFINE u == Other(op[r], z)
    <3>1. u # w
      BY <1>3, <1>4, <2>2
    <3>2. CASE s = "write"
      <4>1. row' = Written(op[r], z)
        BY <3>2 DEF Effect, Kinds
      <4>2. /\ row'[z].cells = row[z].cells \cup {<<op[r].kind, u>>}
            /\ row'[z].depth[w] = row[z].depth[w]
        <5>1. row'[z].cells = row[z].cells \cup {<<op[r].kind, u>>}
          BY <1>0, <4>1 DEF Written, Row
        <5>2. row'[z].depth = [row[z].depth EXCEPT ![u] = IF op[r].kind = "ed" THEN @ + op[r].by ELSE @]
          BY <1>0, <4>1 DEF Written, Row
        <5>3. row[z].depth \in [Nodes -> Int]
          BY <1>0 DEF Row
        <5> HIDE DEF u
        <5> QED
          BY <3>1, <5>1, <5>2, <5>3
      <4> QED
        BY <2>2, <3>1, <4>2
    <3>3. CASE s = "cut"
      <4> DEFINE gone == {<<k, u>> : k \in {k \in Kinds : <<Side(op[r], z), k>> \in named[r]}}
      <4>1. row' = Without(gone, z)
        BY <3>3 DEF Effect, Kinds
      <4>2. \A k \in Kinds : <<k, w>> \notin gone
        BY <3>1
      <4> HIDE DEF gone
      <4>3. row'[z].cells = row[z].cells \ gone
        BY <1>0, <4>1 DEF Without, Row
      <4>4. row'[z].depth = [q \in Nodes |-> IF <<"ed", q>> \in gone THEN 0 ELSE row[z].depth[q]]
        BY <1>0, <4>1 DEF Without, Row
      <4>5. row'[z].depth[w] = row[z].depth[w]
        BY <4>2, <4>4 DEF Kinds
      <4> QED
        BY <2>2, <4>2, <4>3, <4>5
    <3> QED
      BY <1>4, <3>2, <3>3
  <2> QED
    BY <2>1, <2>2
<1>5. CASE s \in {"write", "cut"}
  <2>1. {x, y} = {y, x}
    OBVIOUS
  <2> QED
    BY <1>4, <1>5, <2>1 DEF PairKept
<1>6. CASE s = "drop"
  <2>1. z # x /\ z # y
    BY <1>6 DEF Even, Apiece
  <2> QED
    BY <1>1, <2>1 DEF PairKept
<1>7. CASE s \in {"pop"} \cup Kinds
  <2>1. row' = row
    BY <1>7, RowAfter DEF WriteSteps, Kinds
  <2> QED
    BY <2>1 DEF PairKept
<1> QED
  BY <1>2, <1>5, <1>6, <1>7 DEF Writes

\* A write of the edge reaches one of its ends.
LEMMA WrittenEven ==
  ASSUME Typed, FitsInv, NEW x \in Nodes, NEW y \in Nodes, x # y, Even(x, y), NEW r \in Requests, Of(r, x, y),
         NEW s \in {"write", "cut"}, Goes(r, <<s, x>>, {}), Effect(r, s, x), Forget(r), known' = known
  PROVE  Even(x, y)'
<1>0. row \in [Nodes -> Row] /\ row[x] \in Row
  BY DEF Typed, TablesOK
<1>1. /\ <<s, x>> \in calls[r] /\ calls'[r] = calls[r] \ {<<s, x>>}
      /\ calls'[r] # {} => op'[r] = op[r]
      /\ \A q \in Requests : q # r => calls'[q] = calls[q] /\ op'[q] = op[q]
  BY GoesDoes
<1>2. (\A q \in Requests : q # r => named'[q] = named[q]) /\ (calls'[r] # {} => named'[r] = named[r])
  BY DEF Forget, Typed, RequestsOK
<1>3. CallEnds(r, <<s, x>>)
  BY <1>1, <1>2 DEF CallEnds, OthersKept
<1>4. (op[r].x = x /\ op[r].y = y) \/ (op[r].x = y /\ op[r].y = x)
  BY DEF Of
<1>5. Other(op[r], x) = y
  BY <1>4 DEF Other
<1>6. row'[y] = row[y]
  BY RowAfter DEF Writes
<1>7. CASE s = "write"
  <2>1. op[r] \in LinkOp
    BY <1>1, <1>7, LinkCall DEF Links
  <2>2. op[r].kind \in Kinds
    BY <2>1 DEF LinkOp, Kinds
  <2>3. row' = Written(op[r], x)
    BY <1>7 DEF Effect, Kinds
  <2>4. row'[x].cells = row[x].cells \cup {<<op[r].kind, y>>}
    BY <1>0, <1>5, <2>3 DEF Written, Row
  <2>5. row'[x].depth = [row[x].depth EXCEPT ![y] = IF op[r].kind = "ed" THEN @ + op[r].by ELSE @]
    BY <1>0, <1>5, <2>3 DEF Written, Row
  <2>6. row'[x].depth[y] = IF op[r].kind = "ed" THEN row[x].depth[y] + op[r].by ELSE row[x].depth[y]
    BY <1>0, <2>5 DEF Row
  <2>7. On(x, y)' = On(x, y) \cup {op[r].kind}
    BY <2>2, <2>4 DEF On
  <2>8. CallEnds(r, <<"write", x>>)
    BY <1>3, <1>7
  <2> QED
    BY <1>6, <2>1, <2>6, <2>7, <2>8, WriteDone
<1>8. CASE s = "cut"
  <2> DEFINE gone == {<<k, y>> : k \in Names(r, x)}
  <2>1. /\ op[r] \in FindOp
        /\ calls[r] \subseteq {<<"cut", op[r].x>>, <<"cut", op[r].y>>}
    BY <1>1, <1>8, CutCall
  <2>2. calls[r] \subseteq {<<"cut", x>>, <<"cut", y>>}
    BY <1>4, <2>1
  <2>3. row' = Without(gone, x)
    BY <1>5, <1>8 DEF Effect, Kinds, Names
  <2>4. \A k \in Kinds : <<k, y>> \in gone <=> k \in Names(r, x)
    OBVIOUS
  <2> HIDE DEF gone
  <2>5. row'[x].cells = row[x].cells \ gone
    BY <1>0, <2>3 DEF Without, Row
  <2>6. row'[x].depth = [q \in Nodes |-> IF <<"ed", q>> \in gone THEN 0 ELSE row[x].depth[q]]
    BY <1>0, <2>3 DEF Without, Row
  <2>7. row'[x].depth[y] = IF "ed" \in Names(r, x) THEN 0 ELSE row[x].depth[y]
    BY <2>4, <2>6 DEF Kinds
  <2>8. On(x, y)' = On(x, y) \ Names(r, x)
    BY <2>4, <2>5 DEF On
  <2>9. CallEnds(r, <<"cut", x>>)
    BY <1>3, <1>8
  <2> QED
    BY <1>6, <2>1, <2>2, <2>7, <2>8, <2>9, CutDone
<1> QED
  BY <1>7, <1>8

\* An answer keeps the ends even.
LEMMA AnswerEven ==
  ASSUME Typed, FitsInv, PopularInv, EvenInv, NEW r \in Requests, Answers(r),
         NEW x \in Nodes, NEW y \in Nodes, x # y, {x, y} \notin torn'
  PROVE  Even(x, y)'
<1>0. <<x, y>> \in Edges /\ <<y, x>> \in Edges /\ {x, y} = {y, x} /\ {x, y} \in PairsOf(x) /\ {x, y} \in PairsOf(y)
  BY DEF Edges, PairsOf
<1>1. ASSUME torn \subseteq torn'
      PROVE  Even(x, y) /\ Even(y, x) /\ KnownAlike(x, y)
  <2>1. Even(x, y)
    BY <1>1 DEF EvenInv
  <2> QED
    BY <2>1, EvenBoth DEF Even, Matched, KnownAlike
<1>n. ASSUME \/ op[r] \in CreateOp \/ op[r] \in NodeOp({"getNode"})
             \/ op[r] \in NodeOp({"removeNode"}) \/ op[r] \in NodeOp({"removeNodeComplete"})
      PROVE  ~Of(r, x, y)
  <2>1. \A names : op[r] \in NodeOp(names) => op[r].name \in names
    BY DEF NodeOp
  <2>2. op[r].name \in {"createNode", "getNode", "removeNode", "removeNodeComplete"}
    BY <1>n, <2>1 DEF CreateOp
  <2> QED
    BY <2>2 DEF Of, FindOp, LinkOp
\* What is not of the pair and changes no row.
<1>s. ASSUME NEW c, NEW next, Goes(r, c, next), UNCHANGED <<row, known>>, torn \subseteq torn', ~Of(r, x, y),
             \A q \in Requests : q # r => named'[q] = named[q],
             \A s \in {"ask", "drop"}, z \in {x, y} : <<s, z>> \notin next
      PROVE  Even(x, y)'
  <2>1. PairKept(x, y)
    BY <1>s DEF PairKept
  <2>2. KnownAlike(x, y)' /\ Even(x, y)
    BY <1>1, <1>s DEF KnownAlike
  <2> QED
    BY <1>s, <2>1, <2>2, GoesEven
<1>p. ASSUME NEW s \in {"look", "fill"}, NEW z \in Nodes, NEW copy \in Row, Purge(r, <<s, z>>, z, copy),
             UNCHANGED <<row, known, named>>, ~Of(r, x, y)
      PROVE  Even(x, y)'
  <2> DEFINE next == {<<"drop", z>>} \cup Shown(copy)
  <2>1. Goes(r, <<s, z>>, next) /\ torn' = torn \cup PairsOf(z)
    BY <1>p DEF Purge
  <2>2. z # x /\ z # y
    BY <1>0, <2>1
  <2>3. Shown(copy) \subseteq Kinds \X Nodes
    BY DEF Shown, Row
  <2>4. \A t \in {"ask", "drop"}, w \in {x, y} : <<t, w>> \notin next
    BY <2>2, <2>3 DEF Kinds
  <2> HIDE DEF next
  <2> QED
    BY <1>s, <1>p, <2>1, <2>4
<1>2. ASSUME NEW z \in Nodes, Read(r, z) PROVE Even(x, y)'
  <2>1. Goes(r, <<"read", z>>, {<<"fill", z>>}) /\ UNCHANGED <<row, known, named, torn>>
    BY <1>2 DEF Read, tables, cache, history
  <2>2. <<"read", z>> \in calls[r]
    BY <2>1 DEF Goes
  <2>3. ~Of(r, x, y)
    BY <1>n, <2>2, ReadCall
  <2> QED
    BY <1>s, <2>1, <2>3
<1>3. ASSUME NEW z \in Nodes, Fill(r, z) PROVE Even(x, y)'
  <2>1. UNCHANGED <<row, known, named>>
    BY <1>3 DEF Fill, tables
  <2>2. <<"fill", z>> \in calls[r]
    BY <1>3 DEF Fill, Purge, Goes
  <2>3. ~Of(r, x, y)
    BY <1>n, <2>2, ReadCall
  <2>4. CASE Goes(r, <<"fill", z>>, {}) /\ UNCHANGED history
    BY <1>s, <2>1, <2>3, <2>4 DEF history
  <2>5. CASE Purge(r, <<"fill", z>>, z, seen[r])
    BY <1>p, <2>1, <2>3, <2>5 DEF Typed, RequestsOK
  <2> QED
    BY <1>3, <2>4, <2>5 DEF Fill
<1>4. ASSUME NEW z \in Nodes, Look(r, z) PROVE Even(x, y)'
  <2>1. UNCHANGED <<row, known, named>>
    BY <1>4 DEF Look, tables
  <2>2. <<"look", z>> \in calls[r]
    BY <1>4 DEF Look, Purge, Goes
  <2>3. ~Of(r, x, y)
    BY <1>n, <2>2, LookCall
  <2>4. CASE Goes(r, <<"look", z>>, {<<"read", z>>}) /\ UNCHANGED torn
    BY <1>s, <2>1, <2>3, <2>4
  <2>5. CASE Goes(r, <<"look", z>>, {}) /\ UNCHANGED history
    BY <1>s, <2>1, <2>3, <2>5 DEF history
  <2>6. CASE Purge(r, <<"look", z>>, z, memory[z])
    BY <1>p, <2>1, <2>3, <2>6 DEF Typed, CacheOK
  <2> QED
    BY <1>4, <2>4, <2>5, <2>6 DEF Look
<1>5. ASSUME NEW z \in Nodes, Exists(r, z) PROVE Even(x, y)'
  <2>1. UNCHANGED <<row, known, named, torn>>
    BY <1>5 DEF Exists, tables, cache, history
  <2>2. CASE Goes(r, <<"ask", z>>, IF row[z] = Empty THEN {} ELSE {<<"drop", z>>})
    <3>1. <<"ask", z>> \in calls[r]
      BY <2>2 DEF Goes
    <3>2. z # x /\ z # y
      BY <1>1, <2>1, <3>1 DEF Even, Apiece
    <3>3. ~Of(r, x, y)
      BY <1>n, <3>1, AskCall
    <3> QED
      BY <1>s, <2>1, <2>2, <3>2, <3>3
  <2>3. CASE Goes(r, <<"check", z>>, IF row[z] = Empty THEN {} ELSE {<<"look", z>>})
    <3>1. <<"check", z>> \in calls[r]
      BY <2>3 DEF Goes
    <3>2. ~Of(r, x, y)
      BY <1>n, <3>1, CheckCall
    <3> QED
      BY <1>s, <2>1, <2>3, <3>2
  <2> QED
    BY <1>5, <2>2, <2>3 DEF Exists
<1>6. ASSUME NEW z \in Nodes, Found(r, z) PROVE Even(x, y)'
  <2>1. UNCHANGED <<row, known, torn>> /\ <<"find", z>> \in calls[r]
    BY <1>6 DEF Found, tables, cache, history
  <2>2. op[r] \in FindOp /\ z \in {op[r].x, op[r].y}
    BY <2>1, FindCall
  <2>3. CASE Of(r, x, y)
    <3>1. z \in {x, y} /\ Of(r, y, x)
      BY <1>0, <2>2, <2>3 DEF Of
    <3>2. Even(x, y) /\ Even(y, x)
      BY <1>1, <2>1
    <3>3. CASE z = x
      BY <1>6, <2>3, <3>2, <3>3, FoundEven
    <3>4. CASE z = y
      <4>1. Even(y, x)'
        BY <1>6, <3>1, <3>2, <3>4, FoundEven
      <4> QED
        BY <4>1, EvenBoth
    <3> QED
      BY <3>1, <3>3, <3>4
  <2>4. CASE ~Of(r, x, y)
    <3>1. PICK next \in SUBSET {<<"named", op[r].x>>} : Goes(r, <<"find", z>>, next)
      BY <1>6 DEF Found
    <3>2. \A q \in Requests : q # r => named'[q] = named[q]
      BY <1>6 DEF Found, Typed, RequestsOK
    <3>3. \A s \in {"ask", "drop"}, w \in {x, y} : <<s, w>> \notin next
      OBVIOUS
    <3> QED
      BY <1>s, <2>1, <2>4, <3>1, <3>2, <3>3
  <2> QED
    BY <2>3, <2>4
<1>7. ASSUME NEW z \in Nodes, Named(r, z) PROVE Even(x, y)'
  <2>1. <<"named", z>> \in calls[r] /\ row' = row
    BY <1>7 DEF Named, tables
  <2>2. PICK w \in Nodes : op[r] \in FindOp /\ op[r].x = z /\ op[r].y = w /\ z # w
    BY <2>1, NamedCall DEF FindOp
  <2>3. torn \subseteq torn'
    BY <1>7 DEF Named, Unlink, history
  <2>4. CASE Of(r, x, y)
    <3>1. {z, w} = {x, y}
      BY <2>2, <2>4 DEF Of
    <3>2. (z = x /\ w = y) \/ (z = y /\ w = x)
      BY <3>1
    <3>3. Even(z, w) /\ {z, w} \notin torn'
      BY <1>1, <2>3, <3>1, <3>2
    <3>4. Even(z, w)'
      BY <1>7, <2>2, <3>3, NamedEven
    <3> QED
      BY <3>2, <3>4, EvenBoth
  <2>5. CASE ~Of(r, x, y)
    <3>1. {z, w} # {x, y}
      BY <2>2, <2>5 DEF Of
    <3>2. <<z, w>> \in Edges /\ <<z, w>> # <<x, y>> /\ <<z, w>> # <<y, x>>
      BY <2>2, <3>1 DEF Edges
    <3>3. PairKept(x, y) /\ Even(x, y) /\ KnownAlike(x, y)
      BY <1>1, <2>1, <2>3 DEF PairKept
    <3>4. CASE /\ Goes(r, <<"named", z>>, {})
               /\ known' = IF named[r] = {} THEN known ELSE [known EXCEPT ![<<z, w>>] = named[r]]
               /\ named' = [named EXCEPT ![r] = {}]
      <4>1. known'[<<x, y>>] = known[<<x, y>>] /\ known'[<<y, x>>] = known[<<y, x>>]
        BY <1>0, <3>2, <3>4 DEF Typed, CacheOK
      <4>2. KnownAlike(x, y)'
        BY <3>3, <4>1 DEF KnownAlike
      <4>3. \A q \in Requests : q # r => named'[q] = named[q]
        BY <3>4 DEF Typed, RequestsOK
      <4> DEFINE next == {}
      <4>4. Goes(r, <<"named", z>>, next) /\ \A s \in {"ask", "drop"}, v \in {x, y} : <<s, v>> \notin next
        BY <3>4
      <4> HIDE DEF next
      <4> QED
        BY <2>5, <3>3, <4>2, <4>3, <4>4, GoesEven
    <3>5. CASE Goes(r, <<"named", z>>, {<<"cut", z>>, <<"cut", w>>}) /\ Unlink(r, z, w) /\ UNCHANGED named
      <4>1. known' = [known EXCEPT ![<<z, w>>] = {}]
        BY <3>5 DEF Unlink
      <4>2. KnownAlike(x, y)'
        BY <1>0, <3>2, <3>3, <4>1, KnownGoes
      <4>3. \A s \in {"ask", "drop"}, v \in {x, y} : <<s, v>> \notin {<<"cut", z>>, <<"cut", w>>}
        OBVIOUS
      <4>4. \A q \in Requests : q # r => named'[q] = named[q]
        BY <3>5
      <4> QED
        BY <2>5, <3>3, <3>5, <4>2, <4>3, <4>4, GoesEven
    <3> QED
      BY <1>7, <2>2, <3>4, <3>5 DEF Named
  <2> QED
    BY <2>4, <2>5
\* Writes.  What fails of the pair tears it.
<1>w. ASSUME NEW s \in Writes, NEW z \in Nodes, NEW next, Goes(r, <<s, z>>, next), next \subseteq {<<"look", z>>},
             Forget(r), known' = known, torn \subseteq torn', ~Of(r, x, y), Effect(r, s, z) \/ UNCHANGED tables
      PROVE  Even(x, y)'
  <2>1. <<s, z>> \in calls[r]
    BY <1>w DEF Goes
  <2>2. Even(x, y) /\ KnownAlike(x, y)'
    BY <1>1, <1>w DEF KnownAlike
  <2>3. PairKept(x, y)
    <3>1. CASE Effect(r, s, z)
      BY <1>w, <2>1, <2>2, <3>1, PairAfter
    <3>2. CASE UNCHANGED tables
      BY <3>2 DEF PairKept, tables
    <3> QED
      BY <1>w, <3>1, <3>2
  <2>4. \A q \in Requests : q # r => named'[q] = named[q]
    BY <1>w DEF Forget, Typed, RequestsOK
  <2>5. \A t \in {"ask", "drop"}, v \in {x, y} : <<t, v>> \notin next
    BY <1>w
  <2> QED
    BY <1>w, <2>2, <2>3, <2>4, <2>5, GoesEven
<1>o. ASSUME NEW s \in Writes, NEW z \in Nodes, <<s, z>> \in calls[r], Of(r, x, y), torn \subseteq torn'
      PROVE  s \in {"write", "cut"} /\ z \in {x, y}
  <2>1. CASE s = "insert"
    BY <1>n, <1>o, <2>1, InsertCall
  <2>2. CASE s \in {"drop"} \cup Kinds
    <3>1. op[r] \in NodeOp({"removeNode"}) \/ op[r] \in NodeOp({"removeNodeComplete"})
      BY <1>o, <2>2, DropCall
    <3> QED
      BY <1>n, <1>o, <3>1
  <2>3. CASE s = "pop"
    <3>1. op[r].popular
      BY <1>o, <2>3 DEF PopularInv
    <3>2. z \in {op[r].x, op[r].y}
      BY <1>o, <2>3, LinkCall
    <3>3. Writer(r, x, y)
      BY <1>o, <2>3, <3>2 DEF Writer, Does, Of
    <3>4. Even(x, y)
      BY <1>1, <1>o
    <3> QED
      BY <3>1, <3>3, <3>4 DEF Even, Apiece
  <2>4. CASE s \in {"write", "cut"}
    <3>1. z \in {op[r].x, op[r].y}
      BY <1>o, <2>4, LinkCall, CutCall
    <3> QED
      BY <1>o, <2>4, <3>1 DEF Of
  <2> QED
    BY <2>1, <2>2, <2>3, <2>4 DEF Writes
<1>8. ASSUME NEW s \in Writes, NEW z \in Nodes, Write(r, s, z) PROVE Even(x, y)'
  <2> DEFINE next == IF s = "insert" THEN {<<"look", z>>} ELSE {}
  <2>1. Goes(r, <<s, z>>, next) /\ Effect(r, s, z) /\ Forget(r) /\ UNCHANGED <<known, torn>>
    BY <1>8 DEF Write, cache, history
  <2>2. next \subseteq {<<"look", z>>} /\ (s # "insert" => next = {})
    OBVIOUS
  <2> HIDE DEF next
  <2>3. CASE ~Of(r, x, y)
    BY <1>w, <2>1, <2>2, <2>3
  <2>4. CASE Of(r, x, y)
    <3>1. <<s, z>> \in calls[r]
      BY <2>1 DEF Goes
    <3>2. s \in {"write", "cut"} /\ z \in {x, y}
      BY <1>o, <2>1, <2>4, <3>1
    <3>3. Goes(r, <<s, z>>, {}) /\ Of(r, y, x) /\ Even(x, y) /\ Even(y, x)
      BY <1>0, <1>1, <2>1, <2>2, <2>4, <3>2 DEF Of
    <3>4. CASE z = x
      BY <2>1, <2>4, <3>2, <3>3, <3>4, WrittenEven
    <3>5. CASE z = y
      <4>1. Even(y, x)'
        BY <2>1, <3>2, <3>3, <3>5, WrittenEven
      <4> QED
        BY <4>1, EvenBoth
    <3> QED
      BY <3>2, <3>4, <3>5
  <2> QED
    BY <2>3, <2>4
<1>9. ASSUME NEW s \in Writes, NEW z \in Nodes, FailWrite(r, s, z) PROVE Even(x, y)'
  <2>1. /\ Goes(r, <<s, z>>, {}) /\ (Effect(r, s, z) \/ UNCHANGED tables) /\ Forget(r) /\ known' = known
        /\ torn' = IF s \in {"write", "cut"} THEN torn \cup PairsOf(z) ELSE torn
    BY <1>9 DEF FailWrite, cache
  <2>2. <<s, z>> \in calls[r] /\ torn \subseteq torn'
    BY <2>1 DEF Goes
  <2>3. ~Of(r, x, y)
    BY <1>0, <1>o, <2>1, <2>2
  <2> QED
    BY <1>w, <2>1, <2>2, <2>3
<1>10. ASSUME NEW s \in {"read", "find", "ask", "check"}, NEW z \in Nodes, FailRead(r, s, z) PROVE Even(x, y)'
  <2>1. PICK next \in SUBSET {<<"named", op[r].x>>} : Goes(r, <<s, z>>, next)
    BY <1>10 DEF FailRead
  <2>2. UNCHANGED <<row, known, named>> /\ torn' = IF s = "find" THEN torn \cup PairsOf(z) ELSE torn
    BY <1>10 DEF FailRead, tables, cache
  <2>3. <<s, z>> \in calls[r]
    BY <2>1 DEF Goes
  <2>4. ~Of(r, x, y)
    <3>1. CASE s = "find"
      <4>1. z # x /\ z # y
        BY <1>0, <2>2, <3>1
      <4>2. z \in {op[r].x, op[r].y}
        BY <2>3, <3>1, FindCall
      <4> QED
        BY <4>1, <4>2 DEF Of
    <3>2. CASE s = "read"
      BY <1>n, <2>3, <3>2, ReadCall
    <3>3. CASE s = "ask"
      BY <1>n, <2>3, <3>3, AskCall
    <3>4. CASE s = "check"
      BY <1>n, <2>3, <3>4, CheckCall
    <3> QED
      BY <3>1, <3>2, <3>3, <3>4
  <2>5. \A t \in {"ask", "drop"}, v \in {x, y} : <<t, v>> \notin next
    OBVIOUS
  <2>6. torn \subseteq torn' /\ UNCHANGED <<row, known>> /\ \A q \in Requests : q # r => named'[q] = named[q]
    BY <2>2
  <2> QED
    BY <1>s, <2>1, <2>4, <2>5, <2>6
<1> QED
  BY <1>2, <1>3, <1>4, <1>5, <1>6, <1>7, <1>8, <1>9, <1>10 DEF Answers

\* Every step keeps the ends even: a step of a request by the lemmas above, and an
\* entry that runs out of the cache has both its sides.
LEMMA EvenStep ==
  Typed /\ FitsInv /\ PopularInv /\ EvenInv /\ [Next]_vars => EvenInv' /\ PopularInv'
<1> SUFFICES ASSUME Typed, FitsInv, PopularInv, EvenInv, [Next]_vars PROVE EvenInv' /\ PopularInv'
  OBVIOUS
<1>0. ASSUME UNCHANGED <<tables, requests, torn>>,
             \A x, y \in Nodes : x # y /\ KnownAlike(x, y) => KnownAlike(x, y)'
      PROVE  EvenInv' /\ PopularInv'
  <2>1. PopularInv'
    BY <1>0 DEF PopularInv, requests
  <2>2. ASSUME NEW x \in Nodes, NEW y \in Nodes, x # y, {x, y} \notin torn' PROVE Even(x, y)'
    <3>1. Even(x, y)
      BY <1>0, <2>2 DEF EvenInv
    <3>2. row' = row /\ op' = op /\ calls' = calls /\ named' = named
      BY <1>0 DEF tables, requests
    <3>3. KnownAlike(x, y)'
      BY <1>0, <2>2, <3>1 DEF Even, Matched, KnownAlike
    <3>4. \A q, steps : Does(q, x, y, steps)' <=> Does(q, x, y, steps)
      BY <3>2 DEF Does, Of
    <3>5. \A q : /\ Writer(q, x, y)' <=> Writer(q, x, y)
                 /\ Finder(q, x, y)' <=> Finder(q, x, y)
                 /\ Cutter(q, x, y)' <=> Cutter(q, x, y)
      BY <3>4 DEF Writer, Finder, Cutter
    <3>6. Apiece(x, y)'
      BY <3>1, <3>2, <3>5 DEF Even, Apiece
    <3>7. Matched(x, y)'
      <4>1. On(x, y)' = On(x, y) /\ On(y, x)' = On(y, x)
        BY <3>2 DEF On
      <4>2. \A q \in Requests : Names(q, x)' = Names(q, x) /\ Names(q, y)' = Names(q, y)
        BY <3>2 DEF Names
      <4>3. \A q \in Requests : Cutter(q, x, y)' => Names(q, x)' = Names(q, y)'
        BY <3>1, <3>5, <4>2 DEF Even, Matched
      <4>4. \A q \in Requests : Finder(q, x, y)' => NamesFound(q, x, y)'
        BY <3>1, <3>2, <3>5, <4>1, <4>2 DEF Even, Matched, NamesFound
      <4> QED
        BY <3>3, <4>3, <4>4 DEF Matched, KnownAlike, NamesFound
    <3>8. Level(x, y)'
      <4>1. \A q \in Requests, k \in Kinds :
              /\ (Adds(q, x, y, k)' <=> Adds(q, x, y, k)) /\ (Adds(q, y, x, k)' <=> Adds(q, y, x, k))
              /\ (Takes(q, x, y, k)' <=> Takes(q, x, y, k)) /\ (Takes(q, y, x, k)' <=> Takes(q, y, x, k))
        BY <3>2 DEF Adds, Takes, Of, Names
      <4>2. WillHave(x, y)' = WillHave(x, y) /\ WillHave(y, x)' = WillHave(y, x)
        BY <3>2, <4>1 DEF WillHave
      <4>3. \A by : Counts(x, y, by)' = Counts(x, y, by) /\ Counts(y, x, by)' = Counts(y, x, by)
        BY <3>2, <4>1 DEF Counts, Kinds
      <4>4. WillCount(x, y)' = WillCount(x, y) /\ WillCount(y, x)' = WillCount(y, x)
        BY <3>2, <4>1, <4>3 DEF WillCount, Kinds
      <4> QED
        BY <3>1, <4>2, <4>3, <4>4 DEF Even, Level
    <3> QED
      BY <3>6, <3>7, <3>8 DEF Even
  <2> QED
    BY <2>1, <2>2 DEF EvenInv
<1>1. ASSUME NEW r \in Requests, Routes(r) \/ Answers(r) PROVE EvenInv' /\ PopularInv'
  <2>1. PopularInv'
    BY <1>1, PopularStep
  <2>2. ASSUME NEW x \in Nodes, NEW y \in Nodes, x # y, {x, y} \notin torn' PROVE Even(x, y)'
    BY <1>1, <2>2, RouteEven, AnswerEven
  <2> QED
    BY <2>1, <2>2 DEF EvenInv
<1>2. ASSUME NEW z \in Nodes, EvictNode(z) PROVE EvenInv' /\ PopularInv'
  BY <1>0, <1>2 DEF EvictNode, KnownAlike
<1>3. ASSUME NEW e \in Edges, EvictEdge(e) PROVE EvenInv' /\ PopularInv'
  <2>1. UNCHANGED <<tables, requests, torn>> /\ known' = [known EXCEPT ![e] = {}]
    BY <1>3 DEF EvictEdge
  <2>2. ASSUME NEW x \in Nodes, NEW y \in Nodes, x # y, KnownAlike(x, y) PROVE KnownAlike(x, y)'
    <3>1. <<x, y>> \in Edges /\ <<y, x>> \in Edges
      BY <2>2 DEF Edges
    <3> QED
      BY <2>1, <2>2, <3>1, KnownGoes
  <2> QED
    BY <1>0, <2>1, <2>2
<1>4. CASE UNCHANGED vars
  BY <1>0, <1>4 DEF vars, history, cache, KnownAlike
<1>5. CASE Evict
  BY <1>2, <1>3, <1>5 DEF Evict
<1> QED
  BY <1>1, <1>4, <1>5 DEF Next

\* With no edges there is nothing uneven.
LEMMA EvenInit == Init => EvenInv
<1> SUFFICES ASSUME Init, NEW x \in Nodes, NEW y \in Nodes, x # y PROVE Even(x, y)
  BY DEF EvenInv
<1>1. \A q \in Requests : calls[q] = {}
  BY DEF Init
<1>2. \A q \in Requests : ~Writer(q, x, y) /\ ~Cutter(q, x, y) /\ ~Finder(q, x, y)
  BY <1>1 DEF Writer, Cutter, Finder, Does
<1>3. \A q \in Requests : \A k : /\ ~Adds(q, x, y, k) /\ ~Adds(q, y, x, k)
                             /\ ~Takes(q, x, y, k) /\ ~Takes(q, y, x, k)
  BY <1>1 DEF Adds, Takes
<1>4. row[x] = Empty /\ row[y] = Empty
  BY DEF Init
<1>5. WillHave(x, y) = {} /\ WillHave(y, x) = {}
  BY <1>3, <1>4 DEF WillHave, Empty
<1>6. \A by : Counts(x, y, by) = {} /\ Counts(y, x, by) = {}
  BY <1>3 DEF Counts
<1>7. WillCount(x, y) = WillCount(y, x)
  BY <1>3, <1>4, <1>6 DEF WillCount, Empty
<1>8. Level(x, y)
  BY <1>5, <1>6, <1>7, FS_EmptySet DEF Level
<1>9. Apiece(x, y)
  BY <1>1, <1>2 DEF Apiece
<1>10. Matched(x, y)
  <2>1. <<x, y>> \in Edges /\ <<y, x>> \in Edges
    BY DEF Edges
  <2>2. known[<<x, y>>] = {} /\ known[<<y, x>>] = {}
    BY <2>1 DEF Init
  <2> QED
    BY <1>2, <2>2 DEF Matched
<1> QED
  BY <1>8, <1>9, <1>10 DEF Even

\* When nothing of an edge is on its way, the rows of its two nodes have the same
\* cells and the same depth, however depths, creations, lookups and removals of any
\* number of requests were interleaved: but for what the code tears.
THEOREM EndsAlike == Spec => []EndsAgree
<1>1. Init => PopularInv
  BY DEF Init, PopularInv
<1>2. Typed /\ EvenInv => EndsAgree
  <2> SUFFICES ASSUME Typed, EvenInv, NEW x \in Nodes, NEW y \in Nodes, x # y,
                      {x, y} \notin torn, ~WritingPair(x, y), ~Cutting(x, y)
               PROVE  /\ row[x].depth[y] = row[y].depth[x]
                      /\ \A k \in Kinds : <<k, y>> \in row[x].cells <=> <<k, x>> \in row[y].cells
    BY DEF EndsAgree, Edges
  <2>1. Level(x, y) /\ {x, y} = {y, x}
    BY DEF EvenInv, Even
  <2>2. \A q \in Requests : ~Writer(q, x, y) /\ ~Cutter(q, x, y)
    BY RolesMean
  <2>3. \A q \in Requests : ~Writer(q, y, x) /\ ~Cutter(q, y, x)
    BY <2>1, <2>2 DEF Writer, Cutter, Does, Of
  <2>4. \A q \in Requests, k \in Kinds : ~Takes(q, x, y, k) /\ ~Takes(q, y, x, k)
    BY <2>2, <2>3, RolesMean
  <2>5. /\ WillCount(x, y) = row[x].depth[y]
        /\ \A k \in Kinds : k \in WillHave(x, y) <=> <<k, y>> \in row[x].cells
    BY <2>2, <2>4, NoneWrites DEF On, Kinds
  <2>6. /\ WillCount(y, x) = row[y].depth[x]
        /\ \A k \in Kinds : k \in WillHave(y, x) <=> <<k, x>> \in row[y].cells
    BY <2>3, <2>4, NoneWrites DEF On, Kinds
  <2> QED
    BY <2>1, <2>5, <2>6 DEF Level
<1> QED
  BY <1>1, <1>2, InitTypes, TypesStep, EvenInit, EvenStep, PTL DEF Spec

=============================================================================
