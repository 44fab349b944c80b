--------------------------- MODULE EdgeInfoProofs ---------------------------
(***************************************************************************)
(* TypeOK, Complete and KeyHasRow of EdgeInfo, for any number of keys,     *)
(* requests, events and failures.                                          *)
(***************************************************************************)
EXTENDS EdgeInfo, TLAPS

(* A key without a node is known to be gone to every request under way. *)
GoneInv == \A r \in Requests : Active(r) =>
    \A k \in asked[r] : node[k] = "none" => k \in gone[r]

(* An id of a request is answered, on its way, waiting to be built or gone. *)
Covered(r, k) ==
    \/ k \in found[r] \cup missing[r] \cup gone[r]
    \/ \E step \in Steps : <<k, step>> \in calls[r]

CoverInv == \A r \in Requests : Kind[r] = "info" =>
    /\ \A k \in Keys : <<k, "bump">> \notin calls[r]
    /\ phase[r] \in {"cached", "built"} => \A k \in asked[r] : Covered(r, k)
    /\ phase[r] = "built" => missing[r] = {} /\ \A k \in Keys : <<k, "get">> \notin calls[r]

(* A touch comes after a row that was there, and still is if it has not    *)
(* expired in between.                                                     *)
TouchInv == \A r \in Requests, k \in Keys :
    <<k, "touch">> \in calls[r] => k \in rows \cup outrun[r]

(* A request that has only just arrived has no calls under way. *)
FreshInv == \A r \in Requests : phase[r] = "classify" => calls[r] = {}

KeysInv == FreshInv /\ TouchInv /\ KeyHasRow

(* Next as a disjunction of single steps. *)
LEMMA NextCases ==
    ASSUME Next
    PROVE  \/ \E r \in Requests : Ask(r) \/ Classify(r) \/ Build(r) \/ Finish(r)
           \/ \E r \in Requests, k \in Keys :
                /\ \/ GetRow(r, k) \/ Bump(r, k) \/ Touch(r, k) \/ Renew(r, k) \/ ReadNode(r, k)
                   \/ ClassifyRight(r, k) \/ ReadRight(r, k) \/ Save(r, k)
                /\ UNCHANGED <<gone, events>>
           \/ \E r \in Requests, k \in Keys, step \in Steps : Fail(r, k, step)
           \/ Event \/ Reconnect
  BY Zenon DEF Next, Answer, Call

(* The type invariant: every action keeps the state in its types. *)
THEOREM TypeCorrect == Spec => []TypeOK
<1>1. Init => TypeOK
  BY BoundAssumption DEF Init, TypeOK, Settled, Contents
<1>2. TypeOK /\ [Next]_vars => TypeOK'
  <2> SUFFICES ASSUME TypeOK, [Next]_vars PROVE TypeOK'
    OBVIOUS
  <2> USE DEF TypeOK, stores, requests, history
  <2>1. ASSUME NEW r \in Requests, Ask(r) PROVE TypeOK'
    <3> PICK keys \in SUBSET Keys \ {{}} : Ask(r)!(keys)
      BY <2>1 DEF Ask
    <3> QED BY DEF Start, Steps
  <2>2. ASSUME NEW r \in Requests, Classify(r) PROVE TypeOK'
    <3>1. phase' \in [Requests -> {"classify", "cached", "built"} \cup Settled]
      BY <2>2 DEF Classify, Rejected, Settled
    <3>2. calls' \in [Requests -> SUBSET (Keys \X Steps)]
      BY <2>2 DEF Classify, Start, Steps
    <3>3. missing' \in [Requests -> SUBSET Keys]
      BY <2>2 DEF Classify
    <3> QED BY <2>2, <3>1, <3>2, <3>3 DEF Classify
  <2>3. ASSUME NEW r \in Requests, Build(r) PROVE TypeOK'
    BY <2>3 DEF Build, Start, Steps
  <2>4. ASSUME NEW r \in Requests, Finish(r) PROVE TypeOK'
    BY <2>4 DEF Finish, Settled
  <2>5. ASSUME NEW r \in Requests, NEW k \in Keys,
               GetRow(r, k) \/ Bump(r, k) \/ Touch(r, k) \/ Renew(r, k) \/ ReadNode(r, k)
                 \/ ClassifyRight(r, k) \/ ReadRight(r, k) \/ Save(r, k),
               UNCHANGED <<gone, events>>
        PROVE TypeOK'
    <3>1. CASE GetRow(r, k)
      BY <2>5, <3>1 DEF GetRow, Continue, End, Add, Steps
    <3>2. CASE Bump(r, k)
      BY <2>5, <3>2 DEF Bump, Continue, End, Steps
    <3>3. CASE Touch(r, k)
      <4>1. lost' \subseteq Keys /\ exist' \subseteq Keys /\ outrun' \in [Requests -> SUBSET Keys]
        BY <3>3 DEF Touch, Throw
      <4>2. calls' \in [Requests -> SUBSET (Keys \X Steps)]
        BY <3>3 DEF Touch, Throw, End, Continue, Steps
      <4>3. found' \in [Requests -> SUBSET Keys]
        BY <3>3 DEF Touch, Throw, Found, Add
      <4>4. phase' \in [Requests -> {"classify", "cached", "built"} \cup Settled]
        BY <3>3 DEF Touch, Throw, Rejected, Settled
      <4> QED BY <2>5, <3>3, <4>1, <4>2, <4>3, <4>4 DEF Touch, Throw
    <3>4. CASE ReadNode(r, k)
      BY <2>5, <3>4 DEF ReadNode, Continue, End, Steps, Found, Add, Remember, Read, Contents
    <3>5. CASE ClassifyRight(r, k)
      BY <2>5, <3>5 DEF ClassifyRight, Throw, CreateCache, Continue, End, Steps, Rejected, Settled
    <3>6. CASE ReadRight(r, k)
      BY <2>5, <3>6, RightAssumption
         DEF ReadRight, CreateCache, Continue, End, Steps, Remember, Read, Rejected, Settled, Contents
    <3>7. CASE Save(r, k)
      BY <2>5, <3>7 DEF Save, End, Found, Add
    <3>8. CASE Renew(r, k)
      BY <2>5, <3>8 DEF Renew, End, Found, Add
    <3> QED BY <2>5, <3>1, <3>2, <3>3, <3>4, <3>5, <3>6, <3>7, <3>8
  <2>6. ASSUME NEW r \in Requests, NEW k \in Keys, NEW step \in Steps, Fail(r, k, step)
        PROVE TypeOK'
    BY <2>6, BoundAssumption DEF Fail, End, Rejected, Settled
  <2>7. CASE Event
    <3>1. events' \in 0..MaxEvents
      BY <2>7, BoundAssumption DEF Event
    <3>2. CASE Disconnect
      BY <2>7, <3>1, <3>2 DEF Event, Disconnect
    <3>3. ASSUME NEW k \in Keys, Write(k) PROVE TypeOK'
      BY <2>7, <3>1, <3>3 DEF Event, Write, Contents
    <3>4. ASSUME NEW k \in Keys,
                 ExpireKey(k) \/ ExpireRight(k) \/ ExpireRow(k) \/ Forget(k)
          PROVE TypeOK'
      BY <2>7, <3>1, <3>4 DEF Event, ExpireKey, ExpireRight, ExpireRow, Forget, Contents
    <3> QED BY <2>7, <3>2, <3>3, <3>4 DEF Event
  <2>8. CASE Reconnect
    BY <2>8 DEF Reconnect
  <2>9. CASE UNCHANGED vars
    BY <2>9 DEF vars
  <2> QED BY <2>1, <2>2, <2>3, <2>4, <2>5, <2>6, <2>7, <2>8, <2>9, NextCases
<1> QED BY <1>1, <1>2, PTL DEF Spec

----------------------------------------------------------------------------
(* What the helpers do to one call, and to one request. *)
LEMMA CallsEnd ==
    ASSUME TypeOK, NEW r \in Requests, NEW k \in Keys, NEW step, End(r, k, step)
    PROVE  \A q \in Requests, x \in Keys, s \in Steps :
             <<x, s>> \in calls'[q] <=>
               <<x, s>> \in calls[q] /\ ~(q = r /\ x = k /\ s = step)
  BY DEF TypeOK, End

\* A rejection settles the request and touches no store.
LEMMA RejectedEffect ==
    ASSUME TypeOK, NEW r \in Requests, phase' = Rejected(r)
    PROVE  /\ \A q \in Requests :
                \/ phase'[q] = phase[q]
                \/ phase'[q] \in Settled /\ (Kind[q] = "info" => phase'[q] = "failed")
           /\ Kind[r] = "info" /\ Active(r) => phase'[r] # phase[r]
  BY DEF TypeOK, Rejected, Settled, Active

\* Ids that were found stay found, and the route finds k.
LEMMA FoundEffect ==
    ASSUME TypeOK, NEW r \in Requests, NEW k \in Keys, found' = Found(r, k)
    PROVE  \A q \in Requests :
             /\ found[q] \subseteq found'[q]
             /\ q = r /\ Kind[q] = "info" => k \in found'[q]
  BY DEF TypeOK, Found, Add

----------------------------------------------------------------------------
CompleteInv == TypeOK /\ GoneInv /\ CoverInv /\ Complete

(* A step that starts no request, settles none as done, and keeps what the *)
(* requests have: enough that each id stays covered.                       *)
Keeps ==
    /\ asked' = asked
    /\ \A q \in Requests :
         /\ phase'[q] = phase[q] \/ (phase'[q] \in Settled /\ (Kind[q] = "info" => phase'[q] = "failed"))
         /\ found[q] \subseteq found'[q] /\ gone[q] \subseteq gone'[q]
         /\ Kind[q] = "info" =>
              /\ missing[q] \subseteq missing'[q]
              /\ missing'[q] = missing[q] \/ \E k \in Keys : <<k, "get">> \in calls[q]
              /\ \A k \in Keys :
                   /\ <<k, "bump">> \in calls'[q] => <<k, "bump">> \in calls[q]
                   /\ <<k, "get">> \in calls'[q] => <<k, "get">> \in calls[q]
                   /\ phase'[q] = phase[q] /\ Active(q) /\ k \in asked[q] /\ (\E s \in Steps : <<k, s>> \in calls[q]) =>
                        \/ k \in found'[q] \cup missing'[q] \cup gone'[q]
                        \/ \E s \in Steps : <<k, s>> \in calls'[q]

\* Whatever has it keeps the cover.
LEMMA KeepsCover ==
    ASSUME TypeOK, CoverInv, Complete, Keeps, gone' = gone
    PROVE  CoverInv' /\ Complete'
<1>1. Complete'
  BY DEF Keeps, Complete, TypeOK, Settled
<1>2. ASSUME NEW r \in Requests, Kind[r] = "info" PROVE
        /\ \A k \in Keys : <<k, "bump">> \notin calls'[r]
        /\ phase'[r] = "built" => missing'[r] = {} /\ \A k \in Keys : <<k, "get">> \notin calls'[r]
  BY <1>2 DEF Keeps, CoverInv, Settled
<1>3. ASSUME NEW r \in Requests, Kind[r] = "info", phase'[r] \in {"cached", "built"},
             NEW k \in asked'[r]
      PROVE  Covered(r, k)'
  <2>1. phase[r] = phase'[r] /\ asked'[r] = asked[r] /\ Active(r) /\ k \in Keys
    BY <1>3 DEF Keeps, Settled, Active, TypeOK
  <2>2. Covered(r, k)
    BY <1>3, <2>1 DEF CoverInv
  <2>3. CASE k \in found[r] \cup missing[r] \cup gone[r]
    BY <2>3, <1>3 DEF Keeps, Covered
  <2>4. CASE \E s \in Steps : <<k, s>> \in calls[r]
    BY <2>4, <2>1, <1>3 DEF Keeps, Covered
  <2> QED BY <2>2, <2>3, <2>4 DEF Covered
<1> QED BY <1>1, <1>2, <1>3 DEF CoverInv

(* The calls of a request keep its ids covered. *)
LEMMA CallKeeps ==
    ASSUME TypeOK, GoneInv, CoverInv, NEW r \in Requests, NEW k \in Keys,
           GetRow(r, k) \/ Bump(r, k) \/ Touch(r, k) \/ Renew(r, k) \/ ReadNode(r, k)
             \/ ClassifyRight(r, k) \/ ReadRight(r, k) \/ Save(r, k),
           gone' = gone
    PROVE  Keeps
<1>1. ASSUME NEW step \in Steps, NEW next \in Steps \ {"get", "bump"},
             Continue(r, k, step, next), UNCHANGED <<asked, phase, missing, found>>
      PROVE  Keeps
  <2>1. \A q \in Requests, x \in Keys, s \in Steps :
          <<x, s>> \in calls'[q] <=>
            \/ <<x, s>> \in calls[q] /\ ~(q = r /\ x = k /\ s = step)
            \/ q = r /\ x = k /\ s = next
    BY <1>1 DEF Continue, TypeOK
  <2>2. ASSUME NEW q \in Requests, NEW x \in Keys, NEW s \in Steps, <<x, s>> \in calls[q]
        PROVE  \E t \in Steps : <<x, t>> \in calls'[q]
    BY <2>1, <2>2, <1>1
  <2>3. \A q \in Requests, x \in Keys :
          /\ <<x, "bump">> \in calls'[q] => <<x, "bump">> \in calls[q]
          /\ <<x, "get">> \in calls'[q] => <<x, "get">> \in calls[q]
    BY <2>1, <1>1 DEF Steps
  <2>4. asked' = asked /\ phase' = phase /\ missing' = missing /\ found' = found /\ gone' = gone
    BY <1>1
  <2> QED BY <2>2, <2>3, <2>4 DEF Keeps
<1>2. ASSUME NEW step \in Steps, End(r, k, step), UNCHANGED <<asked, missing>>,
             phase' = phase,
             \A q \in Requests : found[q] \subseteq found'[q],
             Kind[r] = "info" /\ Active(r) /\ k \in asked[r] => k \in found'[r] \cup gone[r]
      PROVE  Keeps
  <2>1. \A q \in Requests, x \in Keys, s \in Steps :
          <<x, s>> \in calls'[q] <=> <<x, s>> \in calls[q] /\ ~(q = r /\ x = k /\ s = step)
    BY <1>2, CallsEnd
  <2>2. \A q \in Requests, x \in Keys :
          /\ <<x, "bump">> \in calls'[q] => <<x, "bump">> \in calls[q]
          /\ <<x, "get">> \in calls'[q] => <<x, "get">> \in calls[q]
    BY <2>1 DEF Steps
  <2>3. \A q \in Requests, x \in Keys, s \in Steps :
          <<x, s>> \in calls[q] => <<x, s>> \in calls'[q] \/ (q = r /\ x = k)
    BY <2>1
  <2>4. asked' = asked /\ phase' = phase /\ missing' = missing /\ gone' = gone
    BY <1>2
  <2>5. ASSUME NEW q \in Requests, NEW x \in Keys, Kind[q] = "info", Active(q), x \in asked[q],
               \E s \in Steps : <<x, s>> \in calls[q]
        PROVE  \/ x \in found'[q] \cup missing'[q] \cup gone'[q]
               \/ \E s \in Steps : <<x, s>> \in calls'[q]
    BY <1>2, <2>3, <2>4, <2>5
  <2> QED BY <1>2, <2>2, <2>4, <2>5 DEF Keeps
<1>3. ASSUME NEW step \in Steps, Throw(r, k, step) PROVE Keeps
  <2>1. \A q \in Requests, x \in Keys, s \in Steps :
          <<x, s>> \in calls'[q] <=> <<x, s>> \in calls[q] /\ ~(q = r /\ x = k /\ s = step)
    BY <1>3, CallsEnd DEF Throw
  <2> QED BY <1>3, <2>1, RejectedEffect DEF Keeps, Throw, Steps
<1>4. CASE GetRow(r, k)
  <2>1. CASE k \in rows
    BY <1>4, <2>1, <1>1 DEF GetRow, Steps
  <2>2. CASE k \notin rows
    <3>1. \A q \in Requests, x \in Keys, s \in Steps :
            <<x, s>> \in calls'[q] <=> <<x, s>> \in calls[q] /\ ~(q = r /\ x = k /\ s = "get")
      BY <1>4, <2>2, CallsEnd DEF GetRow, Steps
    <3>2. \A q \in Requests : missing[q] \subseteq missing'[q]
      BY <1>4, <2>2 DEF GetRow, Add, TypeOK
    <3>3. k \in missing'[r] /\ \A q \in Requests : q = r \/ missing'[q] = missing[q]
      BY <1>4, <2>2 DEF GetRow, Add, TypeOK
    <3>4. <<k, "get">> \in calls[r] /\ UNCHANGED <<asked, phase, found>>
      BY <1>4 DEF GetRow
    <3> QED BY <3>1, <3>2, <3>3, <3>4 DEF Keeps, Steps
  <2> QED BY <2>1, <2>2
<1>5. CASE Bump(r, k)
  BY <1>5, <1>1, <1>2 DEF Bump, requests, CoverInv, Steps
<1>6. CASE Touch(r, k)
  <2>1. CASE Throw(r, k, "touch")
    BY <2>1, <1>3 DEF Steps
  <2>2. CASE ~Throw(r, k, "touch") /\ AlwaysAwaiting
    BY <1>6, <2>2, <1>1 DEF Touch, Steps
  <2>3. CASE ~Throw(r, k, "touch") /\ ~AlwaysAwaiting
    BY <1>6, <2>3, <1>2, FoundEffect DEF Touch, Steps
  <2> QED BY <2>1, <2>2, <2>3
<1>7. CASE ReadNode(r, k)
  <2>1. CASE Read(r, k) = "linked"
    BY <1>7, <2>1, <1>1 DEF ReadNode, Steps
  <2>2. CASE Read(r, k) = "bare"
    BY <1>7, <2>2, <1>2, FoundEffect DEF ReadNode, Steps
  <2>3. CASE Read(r, k) = "none"
    BY <1>7, <2>3, <1>2 DEF ReadNode, Read, GoneInv, Steps
  <2> QED BY <2>1, <2>2, <2>3 DEF Read, TypeOK, Contents
<1>8. CASE ClassifyRight(r, k)
  BY <1>8, <1>1, <1>3 DEF ClassifyRight, CreateCache, requests, Steps
<1>9. CASE ReadRight(r, k)
  <2>1. CASE ready
    BY <1>9, <2>1, <1>1 DEF ReadRight, CreateCache, Steps
  <2>2. CASE ~ready
    <3>1. \A q \in Requests, x \in Keys, s \in Steps :
            <<x, s>> \in calls'[q] <=> <<x, s>> \in calls[q] /\ ~(q = r /\ x = k /\ s = "other")
      BY <1>9, <2>2, CallsEnd DEF ReadRight, Steps
    <3> QED
      BY <1>9, <2>2, <3>1, RejectedEffect DEF Keeps, ReadRight, Steps
  <2> QED BY <2>1, <2>2
<1>10. CASE Save(r, k)
  BY <1>10, <1>2, FoundEffect DEF Save, Steps
<1>11. CASE Renew(r, k)
  BY <1>11, <1>2, FoundEffect DEF Renew, Steps
<1> QED BY <1>4, <1>5, <1>6, <1>7, <1>8, <1>9, <1>10, <1>11

\* So do failures.
LEMMA FailKeeps ==
    ASSUME TypeOK, NEW r \in Requests, NEW k \in Keys, NEW step \in Steps, Fail(r, k, step)
    PROVE  Keeps
<1>1. UNCHANGED <<asked, missing, found, gone>> /\ phase' = Rejected(r)
  BY DEF Fail
<1>2. CASE End(r, k, step)
  <2>1. \A q \in Requests, x \in Keys, s \in Steps :
          <<x, s>> \in calls'[q] <=> <<x, s>> \in calls[q] /\ ~(q = r /\ x = k /\ s = step)
    BY <1>2, CallsEnd
  <2> QED BY <1>1, <2>1, RejectedEffect DEF Keeps, Steps
<1>3. CASE calls' = calls
  BY <1>1, <1>3, RejectedEffect DEF Keeps
<1> QED BY <1>2, <1>3 DEF Fail

(* An answer has every id whose node existed all the while. *)
THEOREM CompleteAnswers == Spec => []Complete
<1>1. Init => CompleteInv
  <2> SUFFICES ASSUME Init PROVE CompleteInv
    OBVIOUS
  <2>1. TypeOK
    BY BoundAssumption DEF Init, TypeOK, Settled, Contents
  <2>2. GoneInv /\ CoverInv /\ Complete
    BY DEF Init, GoneInv, CoverInv, Complete, Active, Settled
  <2> QED BY <2>1, <2>2 DEF CompleteInv
<1>2. CompleteInv /\ TypeOK' /\ [Next]_vars => CompleteInv'
  <2> SUFFICES ASSUME TypeOK, GoneInv, CoverInv, Complete, TypeOK', [Next]_vars
               PROVE  GoneInv' /\ CoverInv' /\ Complete'
    BY DEF CompleteInv
  <2>0. ASSUME UNCHANGED <<node, asked, gone>>,
               \A r \in Requests : phase'[r] \in Settled \/ Active(r)
        PROVE  GoneInv'
    BY <2>0 DEF GoneInv, Active
  <2>1. ASSUME NEW r \in Requests, Ask(r) PROVE GoneInv' /\ CoverInv' /\ Complete'
    <3> PICK keys \in SUBSET Keys \ {{}} : Ask(r)!(keys)
      BY <2>1 DEF Ask
    <3>1. GoneInv'
      BY DEF GoneInv, TypeOK, Active, stores
    <3>2. \A q \in Requests : q # r =>
            UNCHANGED <<asked[q], phase[q], calls[q], missing[q], found[q], gone[q]>>
      BY DEF TypeOK
    <3>3. Kind[r] = "info" => phase'[r] = "classify" /\ calls'[r] = {}
      BY DEF TypeOK
    <3>4. CoverInv'
      BY <3>2, <3>3 DEF CoverInv, Covered
    <3>5. Complete'
      BY <3>2, <3>3 DEF Complete
    <3> QED BY <3>1, <3>4, <3>5
  <2>2. ASSUME NEW r \in Requests, Classify(r) PROVE GoneInv' /\ CoverInv' /\ Complete'
    <3>1. GoneInv'
      BY <2>2, <2>0 DEF Classify, stores, TypeOK, Rejected, Active, Settled
    <3>2. \A q \in Requests : q # r => UNCHANGED <<phase[q], calls[q], missing[q]>>
      BY <2>2 DEF Classify, TypeOK, Rejected
    <3>3. UNCHANGED <<asked, found, gone>>
      BY <2>2 DEF Classify
    <3>4. ASSUME Kind[r] = "info", ready
          PROVE  /\ phase'[r] = "cached"
                 /\ calls'[r] = Start("get", asked[r] \cap exist)
                 /\ missing'[r] = asked[r] \ exist
      BY <2>2, <3>4 DEF Classify, TypeOK
    <3>5. ASSUME Kind[r] = "info", ~ready
          PROVE  phase'[r] = "failed" /\ UNCHANGED <<calls, missing>>
      BY <2>2, <3>5 DEF Classify, Rejected, TypeOK, Active, Settled
    <3>6. CoverInv'
      BY <3>2, <3>3, <3>4, <3>5 DEF CoverInv, Covered, Start, Steps, TypeOK
    <3>7. Complete'
      BY <3>2, <3>3, <3>4, <3>5 DEF Complete
    <3> QED BY <3>1, <3>6, <3>7
  <2>3. ASSUME NEW r \in Requests, Build(r) PROVE GoneInv' /\ CoverInv' /\ Complete'
    <3>1. GoneInv'
      BY <2>3, <2>0 DEF Build, stores, TypeOK, Active, Settled
    <3>2. \A q \in Requests : q # r => UNCHANGED <<phase[q], calls[q], missing[q]>>
      BY <2>3 DEF Build, TypeOK
    <3>3. UNCHANGED <<asked, found, gone>>
      BY <2>3 DEF Build
    <3>4. /\ phase[r] = "cached" /\ calls[r] = {} /\ phase'[r] = "built"
          /\ calls'[r] = Start("node", missing[r]) /\ missing'[r] = {}
      BY <2>3 DEF Build, TypeOK
    <3>5. CoverInv'
      <4>1. \A k \in Keys, s \in Steps :
              <<k, s>> \in calls'[r] <=> k \in missing[r] /\ s = "node"
        BY <3>4 DEF Start
      <4>2. Kind[r] = "info" => \A k \in asked[r] : Covered(r, k)'
        BY <3>3, <3>4, <4>1 DEF CoverInv, Covered, Steps, TypeOK
      <4>3. ASSUME NEW q \in Requests, q # r, NEW k \in Keys PROVE Covered(q, k) => Covered(q, k)'
        BY <3>2, <3>3, <4>3 DEF Covered
      <4> QED BY <3>2, <3>3, <3>4, <4>1, <4>2, <4>3 DEF CoverInv, Steps, TypeOK
    <3>6. Complete'
      BY <3>2, <3>3, <3>4 DEF Complete
    <3> QED BY <3>1, <3>5, <3>6
  <2>4. ASSUME NEW r \in Requests, Finish(r) PROVE GoneInv' /\ CoverInv' /\ Complete'
    <3>1. GoneInv'
      BY <2>4, <2>0 DEF Finish, stores, TypeOK, Active, Settled
    <3>2. \A q \in Requests : q # r => UNCHANGED phase[q]
      BY <2>4 DEF Finish, TypeOK
    <3>3. UNCHANGED <<asked, calls, missing, found, gone>> /\ phase'[r] = "done"
      BY <2>4 DEF Finish, TypeOK
    <3>4. CoverInv'
      BY <3>2, <3>3 DEF CoverInv, Covered
    <3>5. Kind[r] = "info" => \A k \in asked[r] : k \in found[r] \cup gone[r]
      BY <2>4 DEF Finish, CoverInv, Covered
    <3>6. Complete'
      BY <3>2, <3>3, <3>5 DEF Complete
    <3> QED BY <3>1, <3>4, <3>6
  <2>5. ASSUME NEW r \in Requests, NEW k \in Keys,
               GetRow(r, k) \/ Bump(r, k) \/ Touch(r, k) \/ Renew(r, k) \/ ReadNode(r, k)
                 \/ ClassifyRight(r, k) \/ ReadRight(r, k) \/ Save(r, k),
               UNCHANGED <<gone, events>>
        PROVE  GoneInv' /\ CoverInv' /\ Complete'
    <3>1. Keeps
      BY <2>5, CallKeeps
    <3>2. node' = node
      BY <2>5 DEF GetRow, Bump, Touch, Renew, Throw, ReadNode, ClassifyRight, ReadRight, Save, stores
    <3> QED BY <2>5, <3>1, <3>2, <2>0, KeepsCover DEF Keeps, Active
  <2>6. ASSUME NEW r \in Requests, NEW k \in Keys, NEW step \in Steps, Fail(r, k, step)
        PROVE  GoneInv' /\ CoverInv' /\ Complete'
    <3>1. Keeps
      BY <2>6, FailKeeps
    <3>2. UNCHANGED <<node, gone>>
      BY <2>6 DEF Fail, stores
    <3> QED BY <3>1, <3>2, <2>0, KeepsCover DEF Keeps, Active
  <2>7. ASSUME UNCHANGED <<requests, calls, gone>> PROVE CoverInv' /\ Complete'
    BY <2>7 DEF requests, CoverInv, Covered, Complete
  <2>8. CASE Event
    <3>1. ASSUME NEW k \in Keys, Write(k) PROVE GoneInv' /\ CoverInv' /\ Complete'
      <4>1. UNCHANGED <<asked, phase, missing, found, calls>>
        BY <2>8 DEF Event, requests
      <4>2. \A q \in Requests : gone[q] \subseteq gone'[q] /\ (~Active(q) => gone'[q] = gone[q])
        BY <3>1 DEF Write, TypeOK
      <4>3. GoneInv'
        BY <3>1, <4>1 DEF Write, GoneInv, TypeOK, Active
      <4>4. CoverInv'
        BY <4>1, <4>2 DEF CoverInv, Covered
      <4>5. Complete'
        BY <4>1, <4>2 DEF Complete, Active, Settled
      <4> QED BY <4>3, <4>4, <4>5
    <3>2. ASSUME NEW k \in Keys,
                 ExpireKey(k) \/ ExpireRight(k) \/ ExpireRow(k) \/ Forget(k)
          PROVE  GoneInv' /\ CoverInv' /\ Complete'
      <4>1. UNCHANGED <<node, asked, phase, requests, calls, gone>>
        BY <2>8, <3>2 DEF Event, requests, ExpireKey, ExpireRight, ExpireRow, Forget
      <4> QED BY <4>1, <2>7 DEF GoneInv, Active
    <3>3. CASE Disconnect
      <4>1. UNCHANGED <<node, asked, phase, requests, calls, gone>>
        BY <2>8, <3>3 DEF Event, requests, Disconnect
      <4> QED BY <4>1, <2>7 DEF GoneInv, Active
    <3> QED BY <2>8, <3>1, <3>2, <3>3 DEF Event
  <2>9. CASE Reconnect \/ UNCHANGED vars
    <3>1. UNCHANGED <<node, asked, phase, requests, calls, gone>>
      BY <2>9 DEF Reconnect, vars, stores, requests
    <3> QED BY <3>1, <2>7 DEF GoneInv, Active
  <2> QED BY <2>1, <2>2, <2>3, <2>4, <2>5, <2>6, <2>8, <2>9, NextCases
<1>3. CompleteInv => Complete
  BY DEF CompleteInv
<1> QED BY <1>1, <1>2, <1>3, TypeCorrect, PTL DEF Spec

(* The row of an existence key is there, is being saved or could not be, or *)
(* has expired since the key was set or between its reading and that.       *)
THEOREM KeysHaveRows == Spec => []KeyHasRow
<1>1. Init => KeysInv
  BY DEF Init, KeysInv, FreshInv, TouchInv, KeyHasRow
<1>2. TypeOK /\ KeysInv /\ [Next]_vars => KeysInv'
  <2> SUFFICES ASSUME TypeOK, FreshInv, TouchInv, KeyHasRow, [Next]_vars
               PROVE  FreshInv' /\ TouchInv' /\ KeyHasRow'
    BY DEF KeysInv
  <2> USE DEF TouchInv, KeyHasRow
  <2>0. ASSUME UNCHANGED <<rows, lost, outrun>>, exist' \subseteq exist,
               \A r \in Requests, k \in Keys :
                 /\ <<k, "touch">> \in calls'[r] => <<k, "touch">> \in calls[r]
                 /\ <<k, "save">> \in calls[r] => <<k, "save">> \in calls'[r]
        PROVE  TouchInv' /\ KeyHasRow'
    BY <2>0 DEF TypeOK
  <2>1. ASSUME NEW r \in Requests, Ask(r) PROVE FreshInv' /\ TouchInv' /\ KeyHasRow'
    <3> PICK keys \in SUBSET Keys \ {{}} : Ask(r)!(keys)
      BY <2>1 DEF Ask
    <3>1. \A q \in Requests : q # r => UNCHANGED <<phase[q], calls[q]>>
      BY DEF TypeOK
    <3>2. phase'[r] = "classify" => calls'[r] = {}
      BY DEF TypeOK
    <3>3. FreshInv'
      BY <3>1, <3>2 DEF FreshInv
    <3> QED BY <3>3, <2>0 DEF stores, history, Start, TypeOK
  <2>2. ASSUME NEW r \in Requests, Build(r) PROVE FreshInv' /\ TouchInv' /\ KeyHasRow'
    <3>1. (\A q \in Requests : q # r => UNCHANGED <<phase[q], calls[q]>>) /\ phase'[r] = "built"
      BY <2>2 DEF Build, TypeOK
    <3>2. FreshInv'
      BY <3>1 DEF FreshInv
    <3> QED BY <2>2, <3>2, <2>0 DEF Build, stores, history, Start, TypeOK
  <2>3. ASSUME NEW r \in Requests, Finish(r) PROVE FreshInv' /\ TouchInv' /\ KeyHasRow'
    <3>1. FreshInv'
      BY <2>3 DEF Finish, FreshInv, TypeOK
    <3> QED BY <2>3, <3>1, <2>0 DEF Finish, stores, history
  <2>4. ASSUME NEW r \in Requests, Classify(r) PROVE FreshInv' /\ TouchInv' /\ KeyHasRow'
    <3>1. calls[r] = {}
      BY <2>4 DEF Classify, FreshInv
    <3>2. \A q \in Requests : q # r => phase'[q] = phase[q] /\ calls'[q] = calls[q]
      <4>1. CASE ready
        BY <2>4, <4>1 DEF Classify, TypeOK
      <4>2. CASE ~ready
        BY <2>4, <4>2 DEF Classify, Rejected, TypeOK
      <4> QED BY <4>1, <4>2
    <3>3. phase'[r] # "classify"
      <4>1. CASE ready
        BY <2>4, <4>1 DEF Classify, TypeOK
      <4>2. CASE ~ready
        BY <2>4, <4>2 DEF Classify, Rejected, TypeOK, Active, Settled
      <4> QED BY <4>1, <4>2
    <3>4. FreshInv'
      BY <3>2, <3>3 DEF FreshInv
    <3>5. \A k \in Keys : <<k, "touch">> \notin calls'[r]
      <4>1. CASE ready
        <5>1. \E step \in {"bump", "get"}, keys \in SUBSET Keys : calls'[r] = keys \X {step}
          BY <2>4, <4>1 DEF Classify, Start, TypeOK
        <5> QED BY <5>1
      <4>2. CASE ~ready
        BY <2>4, <3>1, <4>2 DEF Classify
      <4> QED BY <4>1, <4>2
    <3>6. UNCHANGED <<rows, exist, lost, outrun>>
      BY <2>4 DEF Classify, stores, history
    <3> QED BY <3>1, <3>2, <3>4, <3>5, <3>6, <2>0
  <2>5. ASSUME NEW r \in Requests, NEW k \in Keys, NEW step \in Steps, <<k, step>> \in calls[r],
               \/ End(r, k, step)
               \/ \E next \in Steps : Continue(r, k, step, next),
               phase' = phase \/ phase' = Rejected(r)
        PROVE  FreshInv'
    <3>1. \A q \in Requests : q # r => UNCHANGED calls[q]
      BY <2>5 DEF End, Continue, TypeOK
    <3>2. phase[r] # "classify"
      BY <2>5 DEF FreshInv
    <3>3. \A q \in Requests : phase'[q] = "classify" => phase[q] = "classify"
      BY <2>5 DEF Rejected, TypeOK
    <3> QED BY <3>1, <3>2, <3>3 DEF FreshInv
  <2>6. ASSUME NEW r \in Requests, NEW k \in Keys, NEW step \in Steps, End(r, k, step),
               rows \subseteq rows', rows \cup lost \subseteq rows' \cup lost',
               exist' \subseteq exist \cup rows' \cup lost',
               step = "save" => k \in rows' \cup lost' \/ k \notin exist',
               \A q \in Requests, x \in Keys : x \in outrun[q] /\ ~(q = r /\ x = k /\ step = "touch")
                                              => x \in outrun'[q]
        PROVE  TouchInv' /\ KeyHasRow'
    <3>1. \A q \in Requests, x \in Keys, s \in Steps :
            <<x, s>> \in calls'[q] <=> <<x, s>> \in calls[q] /\ ~(q = r /\ x = k /\ s = step)
      BY <2>6, CallsEnd
    <3>2. TouchInv'
      BY <2>6, <3>1 DEF Steps
    <3>3. KeyHasRow'
      BY <2>6, <3>1 DEF Steps, TypeOK
    <3> QED BY <3>2, <3>3
  <2>7. ASSUME NEW r \in Requests, NEW k \in Keys, NEW step \in Steps \ {"save"}, NEW next \in Steps,
               Continue(r, k, step, next), rows' = rows,
               outrun' = outrun \/ (step = "touch" /\ outrun' = [outrun EXCEPT ![r] = @ \ {k}]),
               next = "touch" => k \in rows,
               lost \ {k} \subseteq lost', exist' \subseteq exist \cup {k},
               \/ next = "save" \/ k \in rows \cup lost'
               \/ exist' = exist /\ lost' = lost
        PROVE  TouchInv' /\ KeyHasRow'
    <3>1. \A q \in Requests, x \in Keys, s \in Steps :
            <<x, s>> \in calls'[q] <=>
              \/ <<x, s>> \in calls[q] /\ ~(q = r /\ x = k /\ s = step)
              \/ q = r /\ x = k /\ s = next
      BY <2>7 DEF Continue, TypeOK
    <3>2. TouchInv'
      <4> SUFFICES ASSUME NEW q \in Requests, NEW x \in Keys, <<x, "touch">> \in calls'[q]
                   PROVE  x \in rows' \cup outrun'[q]
        OBVIOUS
      <4>1. CASE q = r /\ x = k
        <5>1. step = "touch" => next = "touch"
          BY <3>1, <4>1 DEF Steps
        <5>2. CASE next = "touch"
          BY <2>7, <4>1, <5>2
        <5>3. CASE next # "touch"
          BY <2>7, <3>1, <4>1, <5>1, <5>3 DEF Steps
        <5> QED BY <5>2, <5>3
      <4>2. CASE ~(q = r /\ x = k)
        <5>1. <<x, "touch">> \in calls[q]
          BY <3>1, <4>2 DEF Steps
        <5>2. x \in outrun[q] => x \in outrun'[q]
          BY <2>7, <4>2 DEF TypeOK
        <5> QED BY <2>7, <5>1, <5>2
      <4> QED BY <4>1, <4>2
    <3>3. ASSUME NEW x \in exist', x \notin rows' \cup lost'
          PROVE  \E q \in Requests : <<x, "save">> \in calls'[q]
      <4>1. CASE x = k /\ next = "save"
        BY <3>1, <4>1
      <4>2. CASE ~(x = k /\ next = "save")
        <5>1. x \in exist /\ x \notin rows \cup lost
          BY <2>7, <3>3, <4>2
        <5>2. PICK q \in Requests : <<x, "save">> \in calls[q]
          BY <5>1
        <5> QED BY <2>7, <3>1, <5>1, <5>2 DEF Steps, TypeOK
      <4> QED BY <4>1, <4>2
    <3>4. KeyHasRow'
      BY <3>3
    <3> QED BY <3>2, <3>4
  <2>8. ASSUME NEW r \in Requests, NEW k \in Keys, NEW step \in Steps \ {"save"},
               <<k, step>> \in calls[r], Throw(r, k, step), lost' = lost,
               outrun' = outrun \/ (step = "touch" /\ outrun' = [outrun EXCEPT ![r] = @ \ {k}])
        PROVE  FreshInv' /\ TouchInv' /\ KeyHasRow'
    <3>1. FreshInv'
      BY <2>8, <2>5 DEF Throw
    <3>2. UNCHANGED <<rows, exist>> /\ End(r, k, step)
      BY <2>8 DEF Throw, stores
    <3>3. \A q \in Requests, x \in Keys : x \in outrun[q] /\ ~(q = r /\ x = k /\ step = "touch")
                                          => x \in outrun'[q]
      BY <2>8 DEF TypeOK
    <3> QED BY <2>8, <3>1, <3>2, <3>3, <2>6
  <2>9. ASSUME NEW r \in Requests, NEW k \in Keys, GetRow(r, k)
        PROVE  FreshInv' /\ TouchInv' /\ KeyHasRow'
    <3>1. CASE k \in rows
      BY <2>9, <3>1, <2>5, <2>7 DEF GetRow, stores, history, Steps
    <3>2. CASE k \notin rows
      BY <2>9, <3>2, <2>5, <2>6 DEF GetRow, stores, history, Steps
    <3> QED BY <3>1, <3>2
  <2>10. ASSUME NEW r \in Requests, NEW k \in Keys, Bump(r, k)
         PROVE  FreshInv' /\ TouchInv' /\ KeyHasRow'
    <3>1. CASE Continue(r, k, "bump", "touch") /\ k \in rows
      BY <2>10, <3>1, <2>5, <2>7 DEF Bump, stores, requests, history, Steps
    <3>2. CASE Continue(r, k, "bump", "node")
      BY <2>10, <3>2, <2>5, <2>7 DEF Bump, stores, requests, history, Steps
    <3>3. CASE End(r, k, "bump")
      BY <2>10, <3>3, <2>5, <2>6 DEF Bump, stores, requests, history, Steps
    <3> QED BY <2>10, <3>1, <3>2, <3>3 DEF Bump
  <2>11. ASSUME NEW r \in Requests, NEW k \in Keys, Touch(r, k)
         PROVE  FreshInv' /\ TouchInv' /\ KeyHasRow'
    <3>1. CASE Throw(r, k, "touch") /\ UNCHANGED lost
      BY <2>11, <3>1, <2>8 DEF Touch, Steps
    <3>2. CASE ~(Throw(r, k, "touch") /\ UNCHANGED lost)
      <4>1. /\ <<k, "touch">> \in calls[r] /\ outrun' = [outrun EXCEPT ![r] = @ \ {k}]
            /\ exist' = exist \cup {k} /\ UNCHANGED <<rows, phase>>
            /\ lost' = IF k \in outrun[r] \ rows THEN lost \cup {k} ELSE lost \ {k}
            /\ \/ Continue(r, k, "touch", "renew")
               \/ End(r, k, "touch")
        BY <2>11, <3>2 DEF Touch
      <4>2. k \in rows \cup outrun[r]
        BY <4>1
      <4>3. k \in rows' \cup lost' /\ lost \ {k} \subseteq lost'
        BY <4>1, <4>2
      <4>4. \A q \in Requests, x \in Keys : x \in outrun[q] /\ ~(q = r /\ x = k) => x \in outrun'[q]
        BY <4>1 DEF TypeOK
      <4>5. FreshInv'
        BY <4>1, <2>5 DEF Steps
      <4>6. CASE Continue(r, k, "touch", "renew")
        BY <4>1, <4>3, <4>5, <4>6, <2>7 DEF Steps
      <4>7. CASE End(r, k, "touch")
        BY <4>1, <4>3, <4>4, <4>5, <4>7, <2>6 DEF Steps
      <4> QED BY <4>1, <4>6, <4>7
    <3> QED BY <3>1, <3>2
  <2>12. ASSUME NEW r \in Requests, NEW k \in Keys, ReadNode(r, k)
         PROVE  FreshInv' /\ TouchInv' /\ KeyHasRow'
    <3>1. CASE Read(r, k) = "linked"
      BY <2>12, <3>1, <2>5, <2>7 DEF ReadNode, history, Steps
    <3>2. CASE Read(r, k) # "linked"
      BY <2>12, <3>2, <2>5, <2>6 DEF ReadNode, history, Steps
    <3> QED BY <3>1, <3>2
  <2>13. ASSUME NEW r \in Requests, NEW k \in Keys, ClassifyRight(r, k)
         PROVE  FreshInv' /\ TouchInv' /\ KeyHasRow'
    <3>1. CASE Throw(r, k, "right") /\ UNCHANGED lost
      BY <2>13, <3>1, <2>8 DEF ClassifyRight, Steps
    <3>2. CASE ~(Throw(r, k, "right") /\ UNCHANGED lost)
      BY <2>13, <3>2, <2>5, <2>7 DEF ClassifyRight, CreateCache, stores, requests, Steps
    <3> QED BY <3>1, <3>2
  <2>14. ASSUME NEW r \in Requests, NEW k \in Keys, ReadRight(r, k)
         PROVE  FreshInv' /\ TouchInv' /\ KeyHasRow'
    <3>1. CASE ready
      BY <2>14, <3>1, <2>5, <2>7 DEF ReadRight, CreateCache, Steps
    <3>2. CASE ~ready
      BY <2>14, <3>2, <2>5, <2>6 DEF ReadRight, Steps
    <3> QED BY <3>1, <3>2
  <2>15. ASSUME NEW r \in Requests, NEW k \in Keys, Save(r, k)
         PROVE  FreshInv' /\ TouchInv' /\ KeyHasRow'
    BY <2>15, <2>5, <2>6 DEF Save, Steps
  <2>16. ASSUME NEW r \in Requests, NEW k \in Keys, Renew(r, k)
         PROVE  FreshInv' /\ TouchInv' /\ KeyHasRow'
    BY <2>16, <2>5, <2>6 DEF Renew, stores, history, Steps
  <2>17. ASSUME NEW r \in Requests, NEW k \in Keys, NEW step \in Steps, Fail(r, k, step)
         PROVE  FreshInv' /\ TouchInv' /\ KeyHasRow'
    <3>1. CASE End(r, k, step) /\ lost' = IF step = "save" /\ k \in exist \ rows THEN lost \cup {k} ELSE lost
      BY <2>17, <3>1, <2>5, <2>6 DEF Fail, stores
    <3>2. CASE step = "save" /\ UNCHANGED <<calls, lost>>
      <4>1. FreshInv'
        BY <2>17, <3>2 DEF Fail, FreshInv, Rejected, TypeOK
      <4> QED BY <2>17, <3>2, <4>1, <2>0 DEF Fail, stores
    <3> QED BY <2>17, <3>1, <3>2 DEF Fail
  <2>18. CASE Event \/ Reconnect \/ UNCHANGED vars
    <3>1. UNCHANGED <<phase, calls>>
      BY <2>18 DEF Event, Reconnect, vars, requests
    <3>2. FreshInv'
      BY <3>1 DEF FreshInv
    <3>3. ASSUME UNCHANGED <<rows, outrun>>, exist' \subseteq exist, exist' \cap lost \subseteq lost'
          PROVE  TouchInv' /\ KeyHasRow'
      BY <3>1, <3>3 DEF TypeOK
    <3>4. ASSUME NEW k \in Keys, ExpireRow(k) PROVE TouchInv' /\ KeyHasRow'
      <4>1. /\ rows' = rows \ {k} /\ exist' = exist /\ lost' = lost \cup ({k} \cap exist)
            /\ \A q \in Requests : /\ outrun[q] \subseteq outrun'[q]
                                   /\ <<k, "touch">> \in calls[q] => k \in outrun'[q]
        BY <3>4 DEF ExpireRow
      <4>2. TouchInv'
        BY <3>1, <4>1
      <4>3. KeyHasRow'
        BY <3>1, <4>1
      <4> QED BY <4>2, <4>3
    <3>5. ASSUME NEW k \in Keys, Write(k) \/ ExpireKey(k) \/ ExpireRight(k) \/ Forget(k)
          PROVE  TouchInv' /\ KeyHasRow'
      BY <3>3, <3>5 DEF Write, ExpireKey, ExpireRight, Forget, history
    <3>6. CASE Disconnect \/ Reconnect \/ UNCHANGED vars
      BY <3>2, <3>3, <3>6 DEF Disconnect, Reconnect, vars, stores, history
    <3> QED BY <2>18, <3>2, <3>4, <3>5, <3>6 DEF Event
  <2> HIDE DEF TouchInv, KeyHasRow
  <2> QED BY <2>1, <2>2, <2>3, <2>4, <2>9, <2>10, <2>11, <2>12, <2>13, <2>14, <2>15, <2>16,
             <2>17, <2>18, NextCases
<1>3. KeysInv => KeyHasRow
  BY DEF KeysInv
<1> QED BY <1>1, <1>2, <1>3, TypeCorrect, PTL DEF Spec
=============================================================================
