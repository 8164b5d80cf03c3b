--------------------------- MODULE Wakeups_proofs ---------------------------
(***************************************************************************)
(* Proofs about Wakeups, for any Services, any channel capacity and any    *)
(* number of events and failed passes: no change of an ordinary object is  *)
(* lost, and no change of a programmed endpoint outside the one window     *)
(* that the run of AnyChangeReconciles exhibits.                           *)
(***************************************************************************)
EXTENDS Wakeups, TLAPS

(* Where the loop is bound to run a pass from its start. *)
Woken == {"debounce", "settled", "drain", "pass"}

(* A pass is due that begins after now: the loop is woken, or a notice or a retry wakes it. *)
PassDue ==
  \/ pc \in Woken
  \/ queue > 0
  \/ endpoint
  \/ pc = "select" /\ pending

(* What the types miss: drain_pending's count is spent when it ends, a slice task holds one  *)
(* event at a time.                                                                          *)
Shape ==
  /\ pc # "drain" => left = 0
  /\ \A s, t \in touched : s = t

(* Asleep without a retry, the loop has applied the pass it last read; from its publish on   *)
(* the filter knows the Services of that pass.                                               *)
LastPass ==
  /\ pc = "select" /\ ~pending => applied = Programmed(pass)
  /\ pc = "apply" \/ (pc = "select" /\ ~pending) => referenced = References(pass)

(* The Ingresses of the pass are the cached ones, or a pass or a notice is to come. *)
IngressesHeld == PassDue \/ "ingress" \in owes \/ pass.ingresses = ingresses

(* The same of the routes, which a pass reads last. *)
RoutesHeld ==
  PassDue \/ pc \in {"slices", "routes"} \/ "route" \in owes \/ pass.routes = routes

(* The same of one Service's endpoints, or it is not a Service of the pass that is applied,  *)
(* or its event fell into the window.                                                        *)
EndpointsHeld(s) ==
  \/ PassDue \/ pc = "slices"
  \/ "relist" \in owes \/ s \in touched
  \/ (s \in pass.slices <=> s \in slices)
  \/ pc \in {"apply", "select"} /\ s \notin References(pass)
  \/ s \in raced

(* The inductive invariant. *)
IInv ==
  /\ TypeOK /\ Shape /\ LastPass
  /\ IngressesHeld /\ RoutesHeld
  /\ \A s \in Services : EndpointsHeld(s)

-----------------------------------------------------------------------------
(* What each group of steps leaves alone. *)

(* A watch event writes a cache and owes its notice; the loop does not move. *)
LEMMA EventFacts ==
  ASSUME Events
  PROVE  /\ UNCHANGED <<queue, endpoint, referenced, loop, faults, raced>>
         /\ events < MaxEvents /\ events' = events + 1
BY DEF Events, IngressEvent, RouteEvent, SliceRelist, SliceEvent, WatchEvent

(* A notice that is sent is in a channel afterwards: a full channel holds one already. *)
LEMMA SendFacts ==
  ASSUME TypeOK
  PROVE  /\ SendChange => queue' > 0 /\ queue' \in queue..Capacity /\ endpoint' = endpoint
         /\ SendSlice => /\ queue' > 0 \/ endpoint'
                         /\ queue' \in queue..Capacity /\ endpoint' \in {endpoint, TRUE}
<1>1. queue \in Nat /\ queue <= Capacity /\ Capacity \in Nat /\ Capacity > 0
  BY CapacityAssumption DEF TypeOK
<1>2. SendChange => queue' > 0 /\ queue' \in queue..Capacity /\ endpoint' = endpoint
  BY <1>1 DEF SendChange
<1>3. SendEndpoint => queue' \in queue..Capacity
  BY <1>1 DEF SendEndpoint
<1>4. SendEndpoint => endpoint' /\ endpoint' \in {endpoint, TRUE}
  BY Zenon DEF SendEndpoint
<1> QED BY <1>2, <1>3, <1>4 DEF SendSlice

(* A notify step writes the channels, and never takes from them. *)
LEMMA NoticeFacts ==
  ASSUME TypeOK, Notices
  PROVE  /\ UNCHANGED <<caches, referenced, loop, events, faults>>
         /\ queue' \in queue..Capacity /\ endpoint' \in {endpoint, TRUE}
         /\ owes' \subseteq owes /\ touched' \subseteq touched
         /\ owes' # owes => queue' > 0 \/ endpoint'
         /\ raced \subseteq raced' /\ raced' \subseteq raced \cup touched
<1>0. queue \in queue..Capacity
  BY CapacityAssumption DEF TypeOK
<1>1. ASSUME NEW kind \in Ordinary, Notify(kind)
      PROVE  /\ UNCHANGED <<caches, touched, referenced, loop, events, faults, raced>>
             /\ owes' \subseteq owes
             /\ queue' > 0 /\ queue' \in queue..Capacity /\ endpoint' = endpoint
  BY <1>1, SendFacts DEF Notify
<1>2. ASSUME NotifyRelist
      PROVE  /\ UNCHANGED <<caches, touched, referenced, loop, events, faults, raced>>
             /\ owes' \subseteq owes
             /\ queue' > 0 \/ endpoint'
             /\ queue' \in queue..Capacity /\ endpoint' \in {endpoint, TRUE}
  BY <1>2, SendFacts DEF NotifyRelist
<1>3. ASSUME NEW s \in Services, NotifySlice(s)
      PROVE  /\ UNCHANGED <<caches, owes, referenced, loop, events, faults>>
             /\ touched' \subseteq touched
             /\ queue' \in queue..Capacity /\ endpoint' \in {endpoint, TRUE}
             /\ raced \subseteq raced' /\ raced' \subseteq raced \cup touched
  BY <1>0, <1>3, SendFacts DEF NotifySlice
<1> QED BY <1>1, <1>2, <1>3 DEF Notices

(* The loop leaves the watch tasks and their caches alone. *)
LEMMA LoopFacts ==
  ASSUME Loop
  PROVE  UNCHANGED <<caches, watch, events>>
BY DEF Loop, Settle, Pass, RecvEndpoint, RecvChange, Debounce, DrainLength, DrainChange,
       DrainEndpoint, WakeOnRetry, WakeOnResync, ReadIngresses, ReadSlices, ReadRoutes, Publish,
       Applies, PassFails

-----------------------------------------------------------------------------
(* Type correctness. *)

(* The invariant holds at the start: everything there is to read is announced or read. *)
LEMMA InitInv == Init => IInv
<1> SUFFICES ASSUME Init PROVE IInv
  OBVIOUS
<1>1. Nothing \in [ingresses : SUBSET Services, slices : SUBSET Services,
                   routes : SUBSET Services]
  BY DEF Nothing
<1>2. applied \in [services : SUBSET Services, ready : SUBSET Services]
  BY DEF Init, Programmed, References, Nothing
<1>3. /\ queue \in 0..Capacity /\ left \in 0..queue
      /\ events \in 0..MaxEvents /\ faults \in 0..MaxFaults
  BY CapacityAssumption, BoundsAssumption DEF Init
<1>4. TypeOK
  BY <1>1, <1>2, <1>3 DEF Init, TypeOK
<1>5. PassDue
  BY DEF Init, PassDue, Woken
<1> QED
  BY <1>4, <1>5
     DEF IInv, Init, Shape, LastPass, IngressesHeld, RoutesHeld, EndpointsHeld

(* Every step keeps the types and the shape. *)
LEMMA TypeStep ==
  ASSUME TypeOK, Shape, Next
  PROVE  TypeOK' /\ Shape'
<1> USE DEF Shape
<1>0. /\ queue \in Nat /\ queue <= Capacity /\ left \in Nat /\ left <= queue
      /\ Capacity \in Nat /\ MaxEvents \in Nat /\ MaxFaults \in Nat
  BY CapacityAssumption, BoundsAssumption DEF TypeOK
<1>1. CASE Events
  <2>1. /\ ingresses' \in SUBSET Services /\ slices' \in SUBSET Services
        /\ routes' \in SUBSET Services /\ touched' \in SUBSET Services
        /\ owes' \in SUBSET {"ingress", "route", "relist"}
        /\ \A s, t \in touched' : s = t
    BY <1>1 DEF Events, IngressEvent, RouteEvent, SliceRelist, SliceEvent, TypeOK
  <2>2. events' \in 0..MaxEvents
    BY <1>0, <1>1, EventFacts DEF TypeOK
  <2> QED BY <1>1, <2>1, <2>2, EventFacts DEF TypeOK, loop
<1>2. CASE Notices
  <2>1. left' \in 0..queue'
    BY <1>0, <1>2, NoticeFacts DEF loop
  <2>2. queue' \in 0..Capacity
    BY <1>0, <1>2, NoticeFacts
  <2>2a. endpoint' \in BOOLEAN
    <3>1. endpoint \in BOOLEAN
      BY DEF TypeOK
    <3> QED BY <1>2, <3>1, NoticeFacts, Zenon
  <2>3. raced' \in SUBSET Services
    BY <1>2, NoticeFacts DEF TypeOK
  <2> QED BY <1>2, <2>1, <2>2, <2>2a, <2>3, NoticeFacts DEF TypeOK, loop, caches
<1>3. CASE Loop
  <2> USE DEF TypeOK, caches, watch
  <2>1. CASE RecvEndpoint
    BY <1>0, <2>1 DEF RecvEndpoint
  <2>2. CASE RecvChange
    BY <1>0, <2>2 DEF RecvChange
  <2>3. CASE Debounce
    BY <1>0, <2>3 DEF Debounce
  <2>4. CASE DrainLength
    BY <1>0, <2>4 DEF DrainLength
  <2>5. CASE DrainChange
    BY <1>0, <2>5 DEF DrainChange
  <2>6. CASE DrainEndpoint
    BY <1>0, <2>6 DEF DrainEndpoint
  <2>7. CASE WakeOnRetry
    BY <1>0, <2>7 DEF WakeOnRetry
  <2>8. CASE WakeOnResync
    BY <1>0, <2>8 DEF WakeOnResync
  <2>9. CASE ReadIngresses
    BY <1>0, <2>9 DEF ReadIngresses
  <2>10. CASE ReadSlices
    BY <1>0, <2>10 DEF ReadSlices
  <2>11. CASE ReadRoutes
    BY <1>0, <2>11 DEF ReadRoutes
  <2>12. CASE Publish
    BY <1>0, <2>12 DEF Publish, Published, References
  <2>13. CASE Applies
    BY <1>0, <2>13 DEF Applies, Programmed, References
  <2>14. CASE PassFails
    BY <1>0, <2>14 DEF PassFails
  <2> QED
    BY <1>3, <2>1, <2>2, <2>3, <2>4, <2>5, <2>6, <2>7, <2>8, <2>9, <2>10, <2>11, <2>12, <2>13, <2>14 DEF Loop, Settle, Pass
<1> QED BY <1>1, <1>2, <1>3 DEF Next

-----------------------------------------------------------------------------
(* A pass that is due stays due until it begins to read. *)
LEMMA DueStep ==
  ASSUME TypeOK, PassDue, Next
  PROVE  PassDue' \/ ReadIngresses
<1> USE DEF PassDue, Woken
<1>0. queue \in Nat
  BY DEF TypeOK
<1>1. CASE Events
  BY <1>1, EventFacts DEF loop
<1>2. CASE Notices
  <2>1. queue' >= queue /\ queue' \in Nat
    BY <1>0, <1>2, NoticeFacts, CapacityAssumption
  <2>2. endpoint => endpoint'
    BY <1>2, NoticeFacts, Zenon
  <2> QED BY <1>0, <1>2, <2>1, <2>2, NoticeFacts DEF loop
<1>3. CASE Loop
  <2>1. CASE RecvEndpoint
    BY <1>0, <2>1 DEF RecvEndpoint
  <2>2. CASE RecvChange
    BY <1>0, <2>2 DEF RecvChange
  <2>3. CASE Debounce
    BY <1>0, <2>3 DEF Debounce
  <2>4. CASE DrainLength
    BY <1>0, <2>4 DEF DrainLength
  <2>5. CASE DrainChange
    BY <1>0, <2>5 DEF DrainChange
  <2>6. CASE DrainEndpoint
    BY <1>0, <2>6 DEF DrainEndpoint
  <2>7. CASE WakeOnRetry
    BY <1>0, <2>7 DEF WakeOnRetry
  <2>8. CASE WakeOnResync
    BY <1>0, <2>8 DEF WakeOnResync
  <2>10. CASE ReadSlices
    BY <1>0, <2>10 DEF ReadSlices
  <2>11. CASE ReadRoutes
    BY <1>0, <2>11 DEF ReadRoutes
  <2>12. CASE Publish
    BY <1>0, <2>12 DEF Publish
  <2>13. CASE Applies
    BY <1>0, <2>13 DEF Applies
  <2>14. CASE PassFails
    BY <1>0, <2>14 DEF PassFails
  <2> QED
    BY <1>3, <2>1, <2>2, <2>3, <2>4, <2>5, <2>6, <2>7, <2>8, <2>10, <2>11, <2>12, <2>13, <2>14 DEF Loop, Settle, Pass
<1> QED BY <1>1, <1>2, <1>3 DEF Next

(* Only the three reads write the inputs of the pass, each its own part. *)
LEMMA PassReads ==
  ASSUME TypeOK, Next
  PROVE  /\ ReadIngresses \/ ReadSlices \/ ReadRoutes \/ pass' = pass
         /\ ReadIngresses => /\ pass'.ingresses = ingresses
                             /\ pass'.slices = pass.slices /\ pass'.routes = pass.routes
         /\ ReadSlices => /\ pass'.slices = slices
                          /\ pass'.ingresses = pass.ingresses /\ pass'.routes = pass.routes
         /\ ReadRoutes => /\ pass'.routes = routes
                          /\ pass'.ingresses = pass.ingresses /\ pass'.slices = pass.slices
<1>1. ReadIngresses \/ ReadSlices \/ ReadRoutes \/ pass' = pass
  <2>1. CASE Events
    BY <2>1, EventFacts DEF loop
  <2>2. CASE Notices
    BY <2>2, NoticeFacts DEF loop
  <2>3. CASE Loop
    BY <2>3 DEF Loop, Settle, Pass, RecvEndpoint, RecvChange, Debounce, DrainLength, DrainChange,
                DrainEndpoint, WakeOnRetry, WakeOnResync, Publish, Applies, PassFails
  <2> QED BY <2>1, <2>2, <2>3 DEF Next
<1> QED
  BY <1>1 DEF TypeOK, ReadIngresses, ReadSlices, ReadRoutes

(* A pass reads its stores in order, and no step but the read takes it past a store. *)
LEMMA PassOrder ==
  ASSUME TypeOK, Next
  PROVE  /\ pc = "slices" => pc' = "slices" \/ ReadSlices
         /\ pc = "routes" => pc' = "routes" \/ ReadRoutes
         /\ ReadIngresses => pc' = "slices"
         /\ ReadSlices => pc' = "routes"
<1>1. CASE Events
  BY <1>1, EventFacts DEF loop, ReadIngresses, ReadSlices
<1>2. CASE Notices
  BY <1>2, NoticeFacts DEF loop, ReadIngresses, ReadSlices
<1>3. CASE Loop
  BY <1>3 DEF Loop, Settle, Pass, RecvEndpoint, RecvChange, Debounce, DrainLength, DrainChange,
              DrainEndpoint, WakeOnRetry, WakeOnResync, Publish, Applies, PassFails,
              ReadIngresses, ReadSlices, ReadRoutes
<1> QED BY <1>1, <1>2, <1>3 DEF Next

(* Asleep, the loop has applied its last pass and published its Services. *)
LEMMA LastPassStep ==
  ASSUME TypeOK, LastPass, Next
  PROVE  LastPass'
<1> USE DEF LastPass, References, Programmed
<1>1. CASE Events
  BY <1>1, EventFacts DEF loop
<1>2. CASE Notices
  BY <1>2, NoticeFacts DEF loop
<1>3. CASE Loop
  <2>1. CASE RecvEndpoint
    BY <2>1 DEF RecvEndpoint
  <2>2. CASE RecvChange
    BY <2>2 DEF RecvChange
  <2>3. CASE Debounce
    BY <2>3 DEF Debounce
  <2>4. CASE DrainLength
    BY <2>4 DEF DrainLength
  <2>5. CASE DrainChange
    BY <2>5 DEF DrainChange
  <2>6. CASE DrainEndpoint
    BY <2>6 DEF DrainEndpoint
  <2>7. CASE WakeOnRetry
    BY <2>7 DEF WakeOnRetry
  <2>8. CASE WakeOnResync
    BY <2>8 DEF WakeOnResync
  <2>9. CASE ReadIngresses
    BY <2>9 DEF ReadIngresses
  <2>10. CASE ReadSlices
    BY <2>10 DEF ReadSlices
  <2>11. CASE ReadRoutes
    BY <2>11 DEF ReadRoutes
  <2>12. CASE Publish
    BY <2>12 DEF Publish, Published
  <2>13. CASE Applies
    BY <2>13 DEF Applies
  <2>14. CASE PassFails
    BY <2>14 DEF PassFails
  <2> QED
    BY <1>3, <2>1, <2>2, <2>3, <2>4, <2>5, <2>6, <2>7, <2>8, <2>9, <2>10, <2>11, <2>12, <2>13, <2>14 DEF Loop, Settle, Pass
<1> QED BY <1>1, <1>2, <1>3 DEF Next

(* A change of an Ingress is owed, announced, or read. *)
LEMMA IngressesStep ==
  ASSUME TypeOK, IngressesHeld, Next
  PROVE  IngressesHeld'
<1> USE DEF IngressesHeld
<1>1. CASE PassDue
  BY <1>1, DueStep, PassReads, LoopFacts DEF Next, Loop, Pass, caches, ReadIngresses
<1>2. CASE ~PassDue /\ "ingress" \in owes
  <2>1. CASE Events
    BY <1>2, <2>1 DEF Events, IngressEvent, RouteEvent, SliceRelist, SliceEvent
  <2>2. CASE Notices
    BY <1>2, <2>2, NoticeFacts DEF PassDue
  <2>3. CASE Loop
    BY <1>2, <2>3, LoopFacts DEF watch
  <2> QED BY <2>1, <2>2, <2>3 DEF Next
<1>3. CASE ~PassDue /\ pass.ingresses = ingresses
  <2>1. CASE Events
    BY <1>3, <2>1, EventFacts DEF Events, IngressEvent, RouteEvent, SliceRelist, SliceEvent, loop
  <2>2. CASE Notices
    BY <1>3, <2>2, NoticeFacts DEF loop, caches
  <2>3. CASE Loop
    BY <1>3, <2>3, LoopFacts, PassReads DEF caches
  <2> QED BY <2>1, <2>2, <2>3 DEF Next
<1> QED BY <1>1, <1>2, <1>3

(* The same of the routes, which a pass reads last. *)
LEMMA RoutesStep ==
  ASSUME TypeOK, RoutesHeld, Next
  PROVE  RoutesHeld'
<1> USE DEF RoutesHeld
<1>1. CASE PassDue
  BY <1>1, DueStep, PassOrder
<1>2. CASE pc \in {"slices", "routes"}
  BY <1>2, PassOrder, PassReads, LoopFacts DEF Loop, Pass, caches
<1>3. CASE "route" \in owes
  <2>1. CASE Events
    BY <1>3, <2>1 DEF Events, IngressEvent, RouteEvent, SliceRelist, SliceEvent
  <2>2. CASE Notices
    BY <1>3, <2>2, NoticeFacts DEF PassDue
  <2>3. CASE Loop
    BY <1>3, <2>3, LoopFacts DEF watch
  <2> QED BY <2>1, <2>2, <2>3 DEF Next
<1>4. CASE pass.routes = routes
  <2>1. CASE Events
    BY <1>4, <2>1, EventFacts DEF Events, IngressEvent, RouteEvent, SliceRelist, SliceEvent, loop
  <2>2. CASE Notices
    BY <1>4, <2>2, NoticeFacts DEF loop, caches
  <2>3. CASE Loop
    BY <1>4, <2>3, LoopFacts, PassReads DEF caches
  <2> QED BY <2>1, <2>2, <2>3 DEF Next
<1> QED BY <1>1, <1>2, <1>3, <1>4

(* A change of one Service's endpoints is owed, announced or read; or the Service is not one *)
(* the applied pass references; or its event fell into the window.                           *)
LEMMA EndpointsStep ==
  ASSUME TypeOK, Shape, LastPass, Next, NEW s \in Services, EndpointsHeld(s)
  PROVE  EndpointsHeld(s)'
<1> USE DEF EndpointsHeld
<1>1. CASE PassDue
  BY <1>1, DueStep, PassOrder
<1>2. CASE pc = "slices"
  BY <1>2, PassOrder, PassReads, LoopFacts DEF Loop, Pass, caches
<1>3. CASE Events /\ ~PassDue /\ pc # "slices"
  <2>1. UNCHANGED <<pass, pc, raced>>
    BY <1>3, EventFacts DEF loop
  <2>2. CASE \E S \in SUBSET Services : IngressEvent(S) \/ RouteEvent(S)
    BY <1>3, <2>1, <2>2 DEF IngressEvent, RouteEvent
  <2>3. CASE \E S \in SUBSET Services : SliceRelist(S)
    BY <2>3 DEF SliceRelist
  <2>4. CASE \E t \in Services : SliceEvent(t)
    BY <1>3, <2>1, <2>4 DEF SliceEvent, SliceIdle
  <2> QED BY <1>3, <2>2, <2>3, <2>4 DEF Events
<1>4. CASE Notices /\ ~PassDue /\ pc # "slices"
  <2>1. UNCHANGED <<pass, pc, slices, pending>> /\ raced \subseteq raced'
    BY <1>4, NoticeFacts DEF loop, caches
  <2>2. CASE owes' # owes
    BY <1>4, <2>2, NoticeFacts DEF PassDue
  <2>3. CASE owes' = owes /\ s \notin touched
    BY <1>4, <2>1, <2>3
  <2>4. CASE owes' = owes /\ s \in touched /\ NotifySlice(s)
    <3>1. CASE SlicePings(s)
      BY <1>4, <2>4, <3>1, SendFacts DEF NotifySlice, PassDue
    <3>2. CASE ~SlicePings(s) /\ pc \in {"routes", "publish"}
      BY <2>4, <3>2 DEF NotifySlice
    <3>3. CASE ~SlicePings(s) /\ pc \in {"apply", "select"}
      BY <1>4, <2>1, <3>3 DEF LastPass, SlicePings, PassDue, References
    <3> QED BY <1>4, <3>1, <3>2, <3>3 DEF TypeOK, PassDue, Woken
  <2>5. CASE owes' = owes /\ s \in touched /\ ~NotifySlice(s)
    <3>1. touched' = touched
      BY <1>4, <2>5 DEF Notices, Notify, NotifyRelist, NotifySlice, Shape
    <3> QED BY <2>5, <3>1
  <2> QED BY <2>2, <2>3, <2>4, <2>5
<1>5. CASE Loop /\ ~PassDue /\ pc # "slices"
  <2>1. UNCHANGED <<slices, owes, touched>>
    BY <1>5, LoopFacts DEF caches, watch
  <2>2. pass'.slices = pass.slices /\ raced' = raced
    BY <1>5, PassReads DEF Loop, Settle, Pass, RecvEndpoint, RecvChange, Debounce, DrainLength,
       DrainChange, DrainEndpoint, WakeOnRetry, WakeOnResync, Publish, Applies, PassFails,
       ReadIngresses, ReadSlices, ReadRoutes
  <2>3. CASE pc \in {"apply", "select"} /\ s \notin References(pass)
    <3>1. pass' = pass /\ (pc' \in {"apply", "select"} \/ pc' \in Woken)
      BY <1>5, <2>3 DEF Loop, Settle, Pass, RecvEndpoint, RecvChange, Debounce, DrainLength,
         DrainChange, DrainEndpoint, WakeOnRetry, WakeOnResync, Publish, Applies, PassFails,
         ReadIngresses, ReadSlices, ReadRoutes, Woken
    <3> QED BY <2>3, <3>1 DEF PassDue, References
  <2> QED BY <1>5, <2>1, <2>2, <2>3
<1> QED BY <1>1, <1>2, <1>3, <1>4, <1>5 DEF Next

-----------------------------------------------------------------------------
(* The invariant is inductive. *)
LEMMA Inductive == IInv /\ [Next]_vars => IInv'
<1> SUFFICES ASSUME IInv, [Next]_vars PROVE IInv'
  OBVIOUS
<1> USE DEF IInv
<1>1. CASE UNCHANGED vars
  BY <1>1 DEF vars, caches, watch, loop, TypeOK, Shape, LastPass, IngressesHeld, RoutesHeld,
              EndpointsHeld, PassDue, References, Programmed
<1>2. CASE Next
  BY <1>2, TypeStep, LastPassStep, IngressesStep, RoutesStep, EndpointsStep
<1> QED BY <1>1, <1>2

(* The inductive invariant holds of every reachable state. *)
LEMMA Invariance == Spec => []IInv
BY InitInv, Inductive, PTL DEF Spec

(* The types hold, drain_pending's count within the channel's length included: it never      *)
(* takes a notice the channel does not hold.                                                 *)
THEOREM TypeCorrect == Spec => []TypeOK
<1>1. IInv => TypeOK
  BY DEF IInv
<1> QED BY <1>1, Invariance, PTL

(* At rest, the Services programmed are those the cached Ingresses and routes reference:     *)
(* neither a full channel, nor a drain, nor stores read one after the other loses a change.  *)
THEOREM RoutesAreFollowed == Spec => []RoutesFollowed
<1>1. IInv => RoutesFollowed
  BY DEF IInv, RoutesFollowed, AtRest, LastPass, IngressesHeld, RoutesHeld, PassDue, Woken,
         Programmed, References
<1> QED BY <1>1, Invariance, PTL

(* At rest, a programmed Service is programmed as ready exactly when its cached slices are,  *)
(* but for an event filtered between a pass's snapshot of the slices and its publish.        *)
THEOREM EndpointsAreFollowed == Spec => []EndpointsFollowed
<1>1. IInv => EndpointsFollowed
  <2> SUFFICES ASSUME IInv, AtRest, NEW s \in applied.services \ raced
               PROVE  s \in applied.ready <=> s \in slices
    BY DEF EndpointsFollowed
  <2>1. ~PassDue
    BY DEF AtRest, PassDue, Woken
  <2>2. applied = Programmed(pass) /\ s \in References(pass)
    BY DEF IInv, LastPass, AtRest, Programmed
  <2>3. s \in Services /\ EndpointsHeld(s)
    BY DEF IInv, TypeOK
  <2>4. s \in pass.slices <=> s \in slices
    BY <2>1, <2>2, <2>3 DEF EndpointsHeld, AtRest
  <2> QED BY <2>2, <2>4 DEF Programmed
<1> QED BY <1>1, Invariance, PTL
=============================================================================
