------------------------------- MODULE Wakeups -------------------------------
(***************************************************************************)
(* How a Kubernetes event reaches a reconcile pass: the watch tasks        *)
(* (crates/controller/src/main.rs, spawn_watch and notify_slice_event),    *)
(* the two notice channels, settle (changes.rs), and the part of           *)
(* reconcile() that reads the reflector caches one after the other and     *)
(* publishes the Services it referenced for the EndpointSlice filter.      *)
(*                                                                         *)
(* Every watch is a task of its own on a multi-threaded runtime: it writes *)
(* its cache, then notifies.  What the run loop does besides (generation   *)
(* check, apply, readiness) is ControllerLoop's; here a pass succeeds or   *)
(* fails.  An ordinary object is reduced to the Services it references, an *)
(* EndpointSlice to whether its Service has a ready endpoint.              *)
(***************************************************************************)
EXTENDS Naturals, FiniteSets

CONSTANTS
  Services,    \* the Services of the cluster
  Capacity,    \* capacity of the ordinary change channel (64 in the code)
  Resync,      \* the periodic resync is enabled
  MaxEvents,   \* bound: watch events
  MaxFaults    \* bound: passes that fail

ASSUME CapacityAssumption == Capacity \in Nat \ {0}
ASSUME ResyncAssumption == Resync \in BOOLEAN
ASSUME BoundsAssumption == MaxEvents \in Nat /\ MaxFaults \in Nat

VARIABLES
  \* the reflector caches
  ingresses,   \* Services the cached Ingresses reference (a store read before the slices)
  slices,      \* Services with a ready endpoint in the cached EndpointSlices
  routes,      \* Services the cached routes reference (stores read after the slices)
  \* the watch tasks
  owes,        \* ordinary kinds, or "relist" for slices: cache written, notice not sent yet
  touched,     \* the Service of the slice event in the same position, if any
  \* what they share with the run loop
  queue,       \* notices in the ordinary channel
  endpoint,    \* the endpoint channel holds its one notice
  referenced,  \* referenced_services
  \* the run loop
  pc,          \* where it is
  left,        \* drain_pending's loop count
  pass,        \* the Inputs of the pass under way
  pending,     \* the last pass failed and is to be retried
  applied,     \* [services, ready]: what the last successful pass programmed
  \* bounds and history
  events, faults,
  raced        \* Services whose event was filtered between a pass's snapshot and its publish

caches == <<ingresses, slices, routes>>
watch == <<owes, touched>>
loop == <<pc, left, pass, pending, applied>>
vars == <<caches, watch, queue, endpoint, referenced, loop, events, faults, raced>>

Ordinary == {"ingress", "route"}

(* The Services a build of these inputs references, and what it programs for them. *)
References(in) == in.ingresses \cup in.routes
Programmed(in) == [services |-> References(in), ready |-> References(in) \cap in.slices]

Cached == [ingresses |-> ingresses, slices |-> slices, routes |-> routes]

-----------------------------------------------------------------------------
(* Notices: try_send drops what does not fit. *)

SendChange == queue' = (IF queue < Capacity THEN queue + 1 ELSE queue) /\ UNCHANGED endpoint
SendEndpoint == endpoint' = TRUE /\ UNCHANGED queue

(* notify_slice and notify_slice_event: an empty index makes the notice an ordinary one. *)
SendSlice == IF referenced = {} THEN SendChange ELSE SendEndpoint

-----------------------------------------------------------------------------
(* The watch tasks: reflect, then notify. *)

WatchEvent ==
  /\ events < MaxEvents
  /\ events' = events + 1
  /\ UNCHANGED <<queue, endpoint, referenced, loop, faults, raced>>

IngressEvent(S) ==
  /\ WatchEvent
  /\ "ingress" \notin owes
  /\ ingresses' = S
  /\ owes' = owes \cup {"ingress"}
  /\ UNCHANGED <<slices, routes, touched>>

RouteEvent(S) ==
  /\ WatchEvent
  /\ "route" \notin owes
  /\ routes' = S
  /\ owes' = owes \cup {"route"}
  /\ UNCHANGED <<ingresses, slices, touched>>

SliceIdle == touched = {} /\ "relist" \notin owes

(* Apply or Delete of one slice *)
SliceEvent(s) ==
  /\ WatchEvent
  /\ SliceIdle
  /\ slices' = IF s \in slices THEN slices \ {s} ELSE slices \cup {s}
  /\ touched' = {s}
  /\ UNCHANGED <<ingresses, routes, owes>>

(* InitDone: a relist publishes its whole cache at once *)
SliceRelist(S) ==
  /\ WatchEvent
  /\ SliceIdle
  /\ slices' = S
  /\ owes' = owes \cup {"relist"}
  /\ UNCHANGED <<ingresses, routes, touched>>

Notify(kind) ==
  /\ kind \in owes \cap Ordinary
  /\ owes' = owes \ {kind}
  /\ SendChange
  /\ UNCHANGED <<caches, touched, referenced, loop, events, faults, raced>>

NotifyRelist ==
  /\ "relist" \in owes
  /\ owes' = owes \ {"relist"}
  /\ SendSlice
  /\ UNCHANGED <<caches, touched, referenced, loop, events, faults, raced>>

(* slice_pings *)
SlicePings(s) == referenced = {} \/ s \in referenced

NotifySlice(s) ==
  /\ s \in touched
  /\ touched' = {}
  /\ IF SlicePings(s) THEN SendSlice ELSE UNCHANGED <<queue, endpoint>>
  /\ raced' = IF ~SlicePings(s) /\ pc \in {"routes", "publish"} THEN raced \cup {s} ELSE raced
  /\ UNCHANGED <<caches, owes, referenced, loop, events, faults>>

-----------------------------------------------------------------------------
(* The run loop: select!, settle, and a pass. *)

RecvEndpoint ==
  /\ pc = "select"
  /\ endpoint
  /\ endpoint' = FALSE
  /\ pc' = "settled"
  /\ UNCHANGED <<caches, watch, queue, referenced, left, pass, pending, applied, events, faults,
                 raced>>

(* Mutant of RecvChange: one future receives and debounces, so a tick can cancel it between. *)
RecvChangeCancellable ==
  /\ pc = "select"
  /\ queue > 0
  /\ queue' = queue - 1
  /\ pc' \in {"debounce", "select"}
  /\ UNCHANGED <<caches, watch, endpoint, referenced, left, pass, pending, applied, events, faults,
                 raced>>

RecvChange ==
  /\ pc = "select"
  /\ queue > 0
  /\ queue' = queue - 1
  /\ pc' = "debounce"
  /\ UNCHANGED <<caches, watch, endpoint, referenced, left, pass, pending, applied, events, faults,
                 raced>>

(* The debounce ends with its timer, or with an endpoint notice, which it consumes. *)
Debounce ==
  /\ pc = "debounce"
  /\ pc' = "settled"
  /\ endpoint' \in {endpoint, FALSE}
  /\ UNCHANGED <<caches, watch, queue, referenced, left, pass, pending, applied, events, faults,
                 raced>>

(* drain_pending: the length is read once; the endpoint channel holds one at most. *)
DrainLength ==
  /\ pc = "settled"
  /\ left' = queue
  /\ pc' = "drain"
  /\ UNCHANGED <<caches, watch, queue, endpoint, referenced, pass, pending, applied, events, faults,
                 raced>>

DrainChange ==
  /\ pc = "drain"
  /\ left > 0
  /\ left' = left - 1
  /\ queue' = queue - 1
  /\ UNCHANGED <<caches, watch, endpoint, referenced, pc, pass, pending, applied, events, faults,
                 raced>>

DrainEndpoint ==
  /\ pc = "drain"
  /\ left = 0
  /\ endpoint' = FALSE
  /\ pc' = "pass"
  /\ UNCHANGED <<caches, watch, queue, referenced, left, pass, pending, applied, events, faults,
                 raced>>

(* A tick or the retry timer runs a failed pass again; the resync runs one anyway. *)
WakeOnRetry ==
  /\ pc = "select"
  /\ pending
  /\ pc' = "pass"
  /\ UNCHANGED <<caches, watch, queue, endpoint, referenced, left, pass, pending, applied, events,
                 faults, raced>>

(* Mutant of WakeOnResync: the tick only retries failed work. *)
WakeOnResyncIfPending ==
  /\ pc = "select"
  /\ Resync /\ pending
  /\ pc' = "pass"
  /\ UNCHANGED <<caches, watch, queue, endpoint, referenced, left, pass, pending, applied, events,
                 faults, raced>>

WakeOnResync ==
  /\ pc = "select"
  /\ Resync
  /\ pc' = "pass"
  /\ UNCHANGED <<caches, watch, queue, endpoint, referenced, left, pass, pending, applied, events,
                 faults, raced>>

(* Inputs: the stores are read one after the other, Ingresses, then slices, then routes. *)
ReadIngresses ==
  /\ pc = "pass"
  /\ pass' = [pass EXCEPT !.ingresses = ingresses]
  /\ pc' = "slices"
  /\ UNCHANGED <<caches, watch, queue, endpoint, referenced, left, pending, applied, events, faults,
                 raced>>

ReadSlices ==
  /\ pc = "slices"
  /\ pass' = [pass EXCEPT !.slices = slices]
  /\ raced' = {}
  /\ pc' = "routes"
  /\ UNCHANGED <<caches, watch, queue, endpoint, referenced, left, pending, applied, events, faults>>

ReadRoutes ==
  /\ pc = "routes"
  /\ pass' = [pass EXCEPT !.routes = routes]
  /\ pc' = "publish"
  /\ UNCHANGED <<caches, watch, queue, endpoint, referenced, left, pending, applied, events, faults,
                 raced>>

(* Mutant of Published: the filter is told of the Services that resolved. *)
PublishedResolved == Programmed(pass).ready

(* build's referenced_services: resolved or not *)
Published == References(pass)

Publish ==
  /\ pc = "publish"
  /\ referenced' = Published
  /\ pc' = "apply"
  /\ UNCHANGED <<caches, watch, queue, endpoint, left, pass, pending, applied, events, faults, raced>>

Applies ==
  /\ pc = "apply"
  /\ applied' = Programmed(pass)
  /\ pending' = FALSE
  /\ pc' = "select"
  /\ UNCHANGED <<caches, watch, queue, endpoint, referenced, left, pass, events, faults, raced>>

(* The identity check fails before the caches are read, or the apply after the publish. *)
PassFails ==
  /\ pc \in {"pass", "apply"}
  /\ faults < MaxFaults
  /\ faults' = faults + 1
  /\ pending' = TRUE
  /\ pc' = "select"
  /\ UNCHANGED <<caches, watch, queue, endpoint, referenced, left, pass, applied, events, raced>>

-----------------------------------------------------------------------------
(* The stores are ready and the first pass runs; no InitDone notice has been sent yet. *)
Nothing == [ingresses |-> {}, slices |-> {}, routes |-> {}]

Init ==
  /\ ingresses \in SUBSET Services
  /\ slices \in SUBSET Services
  /\ routes \in SUBSET Services
  /\ owes = {"ingress", "route", "relist"} /\ touched = {}
  /\ queue = 0 /\ endpoint = FALSE
  /\ referenced = {}
  /\ pc = "pass" /\ left = 0
  /\ pass = Nothing
  /\ pending = FALSE
  /\ applied = Programmed(Nothing)
  /\ events = 0 /\ faults = 0 /\ raced = {}

Events ==
  \/ \E S \in SUBSET Services : IngressEvent(S) \/ RouteEvent(S) \/ SliceRelist(S)
  \/ \E s \in Services : SliceEvent(s)

Notices ==
  \/ \E kind \in Ordinary : Notify(kind)
  \/ NotifyRelist
  \/ \E s \in Services : NotifySlice(s)

Settle == RecvEndpoint \/ RecvChange \/ Debounce \/ DrainLength \/ DrainChange \/ DrainEndpoint
Pass == ReadIngresses \/ ReadSlices \/ ReadRoutes \/ Publish \/ Applies \/ PassFails
Loop == Settle \/ WakeOnRetry \/ WakeOnResync \/ Pass

Next == Events \/ Notices \/ Loop

Spec == Init /\ [][Next]_vars

(* Tasks that can run do run, and select! does not pass a ready timer over for ever. *)
Scheduling ==
  /\ WF_vars(Notices)
  /\ WF_vars(Loop)
  /\ SF_vars(WakeOnResync)

-----------------------------------------------------------------------------
(* Properties. *)

TypeOK ==
  /\ ingresses \in SUBSET Services /\ slices \in SUBSET Services /\ routes \in SUBSET Services
  /\ owes \in SUBSET {"ingress", "route", "relist"}
  /\ touched \in SUBSET Services
  /\ queue \in 0..Capacity /\ endpoint \in BOOLEAN
  /\ referenced \in SUBSET Services
  /\ pc \in {"select", "debounce", "settled", "drain", "pass", "slices", "routes", "publish",
             "apply"}
  /\ left \in 0..queue
  /\ pass \in [ingresses : SUBSET Services, slices : SUBSET Services, routes : SUBSET Services]
  /\ pending \in BOOLEAN
  /\ applied \in [services : SUBSET Services, ready : SUBSET Services]
  /\ events \in 0..MaxEvents /\ faults \in 0..MaxFaults
  /\ raced \in SUBSET Services

(* The loop sleeps, every watch task has notified, and nothing tells the loop to run again. *)
AtRest ==
  /\ pc = "select" /\ queue = 0 /\ ~endpoint /\ ~pending
  /\ owes = {} /\ touched = {}

(* Ordinary changes are never lost: not to a full channel, not to a drain that runs while    *)
(* watch tasks send, not to caches read one after the other (try_send, drain_pending).       *)
RoutesFollowed == AtRest => applied.services = ingresses \cup routes

(* Endpoint changes of a programmed Service are never lost either, but for one window: an    *)
(* event the filter saw between a pass's reading of the slices and its publishing of the     *)
(* Services it references (slice_pings, reconcile).                                          *)
EndpointsFollowed ==
  AtRest => \A s \in applied.services \ raced : s \in applied.ready <=> s \in slices

(* With the resync enabled even those are caught up with once events cease.                  *)
ResyncHeals == Resync => <>[](applied = Programmed(Cached))

(* "any change (or a periodic resync) triggers one global reconcile" (main.rs, the module's  *)
(* documentation, which names EndpointSlice): at rest, what is programmed is what is cached. *)
AnyChangeReconciles == AtRest => applied = Programmed(Cached)
=============================================================================
