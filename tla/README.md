# Sōzu gateway: a TLA+ model of the controller

This directory is a verification development for `sozu-gateway`, the controller that programs a
Sōzu reverse proxy from Kubernetes Ingress and Gateway API objects. It holds TLA+ modules
translated from the Rust source, TLC configurations that check them on small instances, and
TLAPS proofs, for every size of instance, of the safety properties of the run loop, the agent, the watches, the
status writer, the provisioner, the translator and the builder, and of the run loop's refinement. `PROJECT.json`
lists components, runs, mutants, the source lines of every definition, hazards and theorems.

Run from this directory: `tlc -workers 2 -config ControllerLoop.cfg MCControllerLoop`, and
`tlapm ControllerLoop_proofs.tla`; likewise for the other runs and proof modules.

## 1. The system

A controller process runs next to each Sōzu, in one Pod. It watches the cluster, computes the
routing state it wants (an intermediate representation, the *IR*), diffs it against the last IR it
applied (the *shadow*) and sends the difference over Sōzu's command socket. Sōzu keeps the state
in memory only: a restarted Sōzu holds nothing. A separate process, the provisioner, creates one
Deployment, Service and so on per Gateway.

| Component | State it keeps | Operations | What makes it correct |
| --- | --- | --- | --- |
| Run loop (`controller/src/main.rs`) | shadow, `acked_reconnects`, `pending_reconcile`, `sozu_unreachable`, retry timer, readiness | startup, wakeups, generation check, one pass, post-apply check | the baseline is never another Sōzu's; no work is slept on; readiness follows the routes |
| Shadow (`shadow.rs`) | last-applied IR and generation, in memory and in a file | load, check and reset, replay of an acknowledged head, persist | the file of a dead controller is as good as its memory |
| Agent (`sozu-agent`) | one connection, its socket's identity, the reconnect epoch, one worker thread | send with one retry, generation, apply a batch, metrics | every reconnect is seen by somebody; an abandoned job is harmless |
| Agent, settling a batch (`apply_tracked`) | progress through a batch | settle duplicates and missing objects, evict stale holders, replace certificates | what it reports as acknowledged is in Sōzu |
| Watches and notices (`main.rs`, `changes.rs`) | reflector caches, two channels, `referenced_services` | reflect and notify, filter, debounce, drain | every relevant change is followed by a pass |
| Translator (`translator`) | none | IR diff to ordered requests, replay of a head | every prefix is acceptable to Sōzu and uncovers nothing; the replay is exact or refused |
| Builder (`builder`, `gateway-api`, `ir`) | none | caches to IR, problems and statuses; arbitration of claims | what reads healthy is served; no newcomer takes an older claim; input order decides nothing; the IR always translates |
| Status writer, events (`status.rs`, `events.rs`) | the previous pass's problems | merge conditions, patch, retry on 409 | nobody vouches for a spec it did not read; other writers' entries survive; a fixed point writes nothing |
| Provisioner (`provision.rs`) | template, memo of confirmed writes | ensure, prune | only its own objects, only current templates, only live Gateways |
| Scope, health, metrics, prometheus | small | filter inputs, serve HTTP | scrapes share the agent with the run loop |
| Sōzu (external) | what its main process holds | the command protocol (`PROTOCOL.md`) | – |

The parts meet in few places: watch tasks write caches and send notices to the run loop; the run
loop and the metrics endpoint share the agent's worker thread; the run loop publishes the Services
a build referenced to the EndpointSlice watch; the shadow file survives the process; the API
server is shared with every other writer.

What is hard: the loop awaits in many places while Sōzu, the connection, the caches and the
desired state move under it; a restart of Sōzu has to be recognised from a socket's identity and a
counter; a batch may be acknowledged in part, in doubt, or given up while a request is in flight;
notices are dropped on purpose and filtered by an index that is itself being recomputed; the
provisioner decides on reads that are stale when it writes; several instances and foreign controllers
patch one route's status; one object's bad field must not fail the pass for everybody. The hazards are listed, line by line, in
`PROJECT.json`.

## 2. Modules

| Module | Models | Lines of code it follows |
| --- | --- | --- |
| `ControllerLoop` | run loop, shadow, agent connection, Sōzu, crashes | `main.rs` 339–1764, `shadow.rs`, `sozu-agent/src/lib.rs` 571–1260 |
| `ControllerLoop_proofs` | its theorems, and that it implements `Reconciler` | |
| `Wakeups` | watch tasks, channels, settle, the order of a pass's reads | `main.rs` 339–460, 996–1026, 1588–1608, `changes.rs` |
| `Wakeups_proofs` | its theorems | |
| `Provisioner` | `provision.rs` and `run_provisioner` against a changing cluster | `provision.rs`, `main.rs` 885–958 |
| `Provisioner_proofs` | its theorems | |
| `AgentApply` | one batch, exchange by exchange, against Sōzu's main process and its workers | `sozu-agent/src/lib.rs` 60–560, 640–1330, the diff and tiers of `translator/src/lib.rs`, `replay.rs` |
| `AgentApply_proofs` | its theorems: about exchanges, and about what a batch leaves in Sōzu | |
| `Lists` | filter, flat map, stable sort and listing of a set, as functions the provers can reason about | |
| `Lists_proofs` | what they return, and induction over the naturals in a form the provers can use | |
| `Reconciler` | the abstract specification `ControllerLoop` implements | |
| `RoutingIR` | the IR's identities: Sōzu's path rules and route keys, layer-4 keys, the two refusals of a translation | `ir/src/lib.rs`, `translator/src/lib.rs` 559–593, 920–957 |
| `Translator` | diff, tiers, certificate transfers, replay of a head, against Sōzu's `ConfigState` | `translator/src/lib.rs`, `replay.rs` |
| `Translator_proofs` | its theorems | |
| `StatusWriter` | statuses, events and scope of several instances on shared objects | `status.rs`, `events.rs`, `scope.rs` |
| `StatusWriter_proofs` | its theorems | |
| `Resolution` | what Ingress and Gateway API share: ports, Services, slices, hostnames, paths, certificates, owners | `builder/src/lib.rs` 56–281, 1141–2252 |
| `HeaderLift` | header matches on a Sōzu that tries predicated rules first | `builder/src/lib.rs` 2175–2199, 2546–3459 |
| `GatewayBuilder` | Gateways, listeners, HTTP and layer-4 routes | `builder/src/gateway.rs`, `selector.rs` |
| `Builder` | Ingresses, the arbitration between all owners, the whole build over changing caches | `builder/src/lib.rs` 2254–2534, 3470–4182 |
| `Builder_proofs` | its theorems | |
| `MC…` | constants, symmetry | |

`RoutingIR` and `StatusWriter` extend `Lists`, `Translator`, `HeaderLift` and `Resolution` extend `RoutingIR`, `GatewayBuilder` extends `Resolution`, and `Builder`
extends `GatewayBuilder` and `HeaderLift`. `Builder` checks the IR it makes with the translator's own refusals (`L4Conflict`,
`UnknownCluster`, `RouteKey`). `ControllerLoop` instantiates `Reconciler`.

### ControllerLoop

An IR is a set of routing objects and a batch a set of single-object requests in any order: the
properties of this module do not depend on the translator's order. A Sōzu process is named by its
command socket (device, inode, ctime in the code): numbers that only grow, 0 for none.

`pc` says where the controller's one task awaits:

* `down → capture → load` is `main` from the cache sync to the first pass: the epoch is read
  (`Start`), the generation asked for (`CaptureGeneration`), the file resumed or not
  (`LoadInitial`, `shadow::load_initial`).
* `probe → status → verdict` is `probe_sozu_generation` with `check_restart_generation`, from its
  three call sites (`cause`): startup, a wakeup, and after an apply (`post`).
* `reconcile → apply → fence → post` is one pass: `Build`, the requests of the batch
  (`ApplyRequest`, `ApplyDone`, `ApplyFails`, `ApplyTimesOut`), the second identity check and the
  outcome arms of `main`, the post-apply check.
* `select` and `gate` are the head of the loop and the quiet Status of an unreachable Sōzu.

`Reply` and `NoReply` are `send_with_retry`: a lazy connect leaves the epoch alone, anything that
breaks an established connection moves it. `late` holds the request a timed-out apply left running
on the worker thread; no other job starts before it ends (`Idle`). `doubt` is history: the objects
on which a *fault* may have parted the shadow from Sōzu (a lost reply, a timeout, a head the IR
cannot spell, a crash before the file was written, a baseline given up). No guard reads it; the
properties say that nothing outside it is ever wrong.

### Wakeups

One ordinary store read before the EndpointSlices (`ingresses`), the slices, and one read after
them (`routes`) stand for the eleven stores: those are the three positions a store can have relative
to the slices and to `referenced_services`. Each watch task writes its cache, then notifies; both halves are
steps of their own, and the run loop's `settle` and `drain_pending` interleave with them receive by
receive. A pass succeeds or fails as a whole, its other behaviour being ControllerLoop's.

### Provisioner

Each request to the API server is a step. `proc[p]` is one process: its caches, its memo of
confirmed writes, and the locals of the Gateway or object whose turn it is. Two processes may
overlap: the Deployment's strategy is `Recreate`, but the code is written against "a delayed old
process". An object carries a version (UID and `resourceVersion` together, which only grows), the
template revision in its annotation and the template keys it has. Errors are one operator
(`Aborted`): where the code's `?` and match arms lead from each request.

### AgentApply

`ControllerLoop` takes for granted that an acknowledged request is in Sōzu. This module looks
inside. A routing object has a kind, a key and a cluster; its *slot* is what Sōzu keys it by, which
for a route leaves the cluster out; a certificate also has a listener and names. `Batches` are the diffs the
translator may make (a certificate that goes and one that comes with the same listener and names are paired, one
to one, as a replacement: `Rotations` leaves open which), `Tier` is their order (any order within a tier), `Effect` and `Replay` the IR's side of a request, `Verdict`, `Work` and
`FanOut` Sōzu's: the main process answers first (applied, already there, gone, "nothing to
remove", refused), then each worker carries an order out, refuses it, says that it has no such listener to remove or to remove a
certificate from, or stays silent having done it or not. Without one worker's OK the main process takes a route's or a listener's order back. All of
that is external, from `PROTOCOL.md` and the agent's comments on 2.3.2.

`Exchange` is `send_with_retry` in its four outcomes, an unanswered attempt landing or not; the
connection carries unread answers, because nothing in the protocol says whose answer one is. `pc` is
where `apply_tracked` stands: `next → reply`, then settled, refused, or through `holder → evicted`
(`evict_stale_holder`), `repair → repaired → added` (a duplicate route) or `added`
(`add_replacement`). `acked` and `unproven` are `Progress`. A listener's activation is part of its
addition and its deactivation part of its removal. The desired state moves between batches only: a
batch does not look at it once made. `Finish` may keep the old baseline after any failure, as the
code does for a head the IR cannot spell.

### Reconciler

The promise without the machinery: a store, a baseline that names it, a desired state. Sōzu is changed
only by what differs from the baseline a round started from; the baseline advances over acknowledged
objects only, may be saved when it changes, and is given up while the Pod is ready only if it names
another store; readiness is announced over a baseline that equals the round's aim. `ControllerLoop`
implements it (`ImplementsReconciler`) under a mapping in which the requests still to be sent, and the one
an abandoned apply left running, are `pushing`, and the acknowledged ones `settled`; probes, ticks, gates
and scrapes stutter.

### Translator

An IR is a record of clusters, backends, a *sequence* of HTTP frontends (two may share Sōzu's key, and the
first one counts), layer-4 frontends and certificates. `RoutingState` is what Sōzu's `ConfigState` makes of
it; `ConfigDiff`, `Refusal` and `Dispatched` are that library's diff and dispatch (external). `Reconcile` gives
the requests with their tier and rank; an order that the code settles by a string comparison is left open, so
the properties hold for every tie. `transfer_order` is modelled by what it guarantees, a topological order
of the components of the graph of names given and taken; the certificates Sōzu holds are a set beside the
routing state. `Send`, `Stop`, `Refused` and `Finish` run the batch as the controller does, and a batch
that fails leaves `ReplayIfExact` of what was acknowledged as the next baseline. `exact` (the baseline described
Sōzu when the batch was made) and `sound` (or the batch repeats the one that stopped) are history.

### StatusWriter

Three instances: the default one, and two provisioned for one Gateway name, of which the second belongs
to the recreated Gateway. Each GET and PATCH is a step. Each instance
builds from its caches, passes the second identity check, then writes the class, its Gateways, the route
and the Ingresses in order; `patch` is what it read and wants to write, `fresh` whether the
`resourceVersion` it read is still current. Conditions are their `observedGeneration`, a verdict (what `lastTransitionTime`
depends on) and that time, of which only equality matters. The verdict on a route's parent follows from the specs of the route
and the Gateway and from whether another route took its place there. A route's parents are a list, in which one may be
named twice; its two entries are both compared with the first one there is (`OwnEntries`). The three route kinds
share `write_route`, so one stands for all. `RouteParents` is `route_parents`: `Foreigns` in the order they have, then
the `Siblings` (entries of other instances) and the instance's own, sorted (`ByRef`). The GET and the PATCH of the GatewayClass
and of an Ingress are one step: nobody else writes those statuses and no check lies between. An address stands for the
instance whose Service has it (`PublishedBy`, `ServicesAssumption`). `events` is what was published for the previous pass.

### Builder, GatewayBuilder, HeaderLift, Resolution

The build is a pure function, and is one here (`Build`), applied to the listed caches after every event:
objects appear with the creation time the API server gave them, change, disappear, and a relist
turns the listing order around. As in `build_gateway`, listeners are built first (`BuiltGateways`), then every
parentRef of every route is matched to them (`HttpAttachments`, `L4Attachments`); what they and the Ingresses ask
for (`Collected`) is then arbitrated (`Arbitrate`). Paths are sequences of elements, hostnames of labels, a
regex one token with its compiled text; `Slash` at the end of a prefix is what Sōzu trims. A route's
key is, as in Sōzu, one joined text (`RouteKey`), so that a regex can spell the method or the header predicate of another
route. A certificate is its leaf, its chain's length, the rank of its text and its names; what PEM parsing, regex compilation and
annotation parsing can conclude are fields of the object. A problem is its kind. The caps on header matches are
constants. `MayServe` is Sōzu's router (external): every rule of the predicated class it may pick, whatever the
order it holds them in.

## 3. What TLC checks

| Run | Instance | Result |
| --- | --- | --- |
| `loop` | 2 objects, 2 Sōzu processes, 1 fault, 1 change, one tick on or none | 0.33 M states: `TypeOK`, `BaselineSound`, `ResumeSound`, `ReconnectPending`, `NeverSleepsOnWork`, the refinement `ImplementsReconciler`, `Converges`, `RetryIsExact` and `EventuallyReady` hold |
| `reset_orphans` | 1 object, no restart of a process, one change | `NoOrphans` is violated (finding 1) |
| `wakeups` | 2 Services, capacity 2, 2 events, 1 failed pass, resync on | 1.3 M states: `RoutesFollowed`, `EndpointsFollowed`, `ResyncHeals` hold |
| `wakeups_missed` | 2 Services, resync off | `AnyChangeReconciles` is violated (finding 2) |
| `provision_overlap` | 2 processes, 1 optional resource, 3 templates, 2 events, 1 stray write | 4.1 M states: `DeletesOnlyDisowned`, `StaleWritesRefused`, `MemoSound`, `ForeignUntouched` hold |
| `provision` | 1 process, 3 resources, 2 templates, recreated Gateway; with the resync 2 events and 1 stray write, without it 3 events and 1 failed request | 0.6 M states: `Provisions` and `Settles` hold |
| `agent_apply` | 2 workers, a route two clusters take turns at, a listener, 3 certificates of 2 HTTPS listeners, 1 change, 2 lost answers, 2 worker faults, 1 caller giving up | 0.4 M states: `RepliesAreOwn`, `ReplayableHeld`, `SuccessHeld`, `AbandonStops`, `DriftConverges` hold |
| `lost_cluster` | 1 worker, a cluster and its backend, 2 changes | `ReDiffConverges` is violated (finding 3) |
| `translator` | 11 routing states and 8 certificate states, every pair of them, any tie of the order, 1 stop | 0.6 M states: `BatchAccepted`, `DesiredReached`, `NothingMissingMeanwhile`, `ClustersHeld`, `AdoptedExact` hold |
| `status` | 3 instances, 2 Gateways of 2 specs, 3 specs of a route (two name a parent twice), 1 edit of any kind | 0.1 M states: `RouteObserved`, `OwnAddress`, `OthersKept`, `StatusSettles`, `WritesCease` hold |
| `builder` | 7 families of objects that meet, creation times equal, different or absent, both listing orders | 6254 states: the seven properties of `Builder` hold |
| `twin_parents` | the same families | `LosersReadUnhealthy` is violated (finding 4) |

The runs of the last three modules ask:

* `translator`: is every routing request of a batch accepted when its turn comes (`BatchAccepted`; certificates are the
  subject of the other properties), does the whole batch
  reach the desired state, also after a stop (`DesiredReached`), does anything both states have go missing on
  the way (`NothingMissingMeanwhile`: `RoutingKept` of the routing state, and `NamesServed` of a certificate for each name; names on a
  cycle of transfers are excepted, which no order serves throughout), is a replayed baseline exactly what Sōzu
  holds, certificates too, which `replay_if_exact` does not compare (`AdoptedExact`), and can a stop
  leave a baseline with a cluster Sōzu lost (`ClustersHeld`). The last one has an exception the
  model found: a batch that stops between two cluster removals, the second of a cluster that still has its UDP
  affinity while no UDP frontend is left to spell it (`StrandedAffinity`): there the replay has no exact spelling
  and the old baseline stays.
* `status`: does an entry claim the current generation with a verdict on another (`RouteObserved`), does a new
  Gateway show an old one's address (`OwnAddress`), does a merge lose an entry (`OthersKept`), do
  statuses come to say what is true (`StatusSettles`) and does writing stop (`WritesCease`). A parent that a route names
  twice, and of which the build says two things, is stated apart in both: the time of its second entry moves on every
  pass, and nothing else does (`Restamped`), and the conflicts that causes may keep another instance from writing the
  route (`Rewrites`).
* `builder`: `HealthyMeansServed` (what reads healthy is in the IR, or its listener reads unprogrammed), `BuildTranslates` (one owner's conflict never
  reaches the translator, which would refuse everybody's state), `NamesOwned` (a name is served with its claimant's
  certificates, leaves with their longest chain), `ChecksSettled` (a health check runs where Sōzu would run it, and
  whoever goes unchecked is told), `PrecedenceHeld` (each request is served as the Gateway API ranks the
  routes kept, for all targets, methods and headers of the instance and any order Sōzu holds its rules in),
  `RelistChangesNothing` and `NewcomerTakesNothing`.

Bounds. Two objects are what it takes for a batch to be acknowledged in part and in either order;
two Sōzu processes for one restart, which is no fault: one fault meets it before, during and after any
step of the recovery. What two faults in a row can do to the safety properties is covered by the proofs, which have no
bound. No bound disables an action: a run that
has used its faults goes on without them. Two Services are what the endpoint filter needs: one
referenced by the previous build and one by the next. A channel of capacity two
is full after as many notices, which the runs reach; the code's 64 differs only in how often
that happens. Two template revisions show a replacement, three a resource that goes and comes
back under a process that knew neither. `Retries` is 2 instead of 3: one conflict that is retried
and one that is not. In `agent_apply`, two lost answers are one exchange that
fails twice or two that fail once, and two worker faults let an order fail on one worker, on both, or
twice in a row. The states of `translator` are chosen so that each pair exercises a rule: clusters that change,
move and go, a backend's weight, TCP and UDP on one address, two spellings of one route key, names that move in
chains and in cycles, rotations, a chain replaced, a state that must be refused. In `status`, one edit
meets a pass at any of its steps, and another instance at any of its own. The
families of `builder` each hold one kind of contention, with enough objects for two claimants and a newcomer.
`provision_overlap`, a safety run, is reduced by the symmetry of the
processes, which no action tells apart.

Fairness. `ControllerLoop`: the task and the agent's worker thread make progress and Kubernetes
restarts a dead Sōzu (weak); `select!` picks among ready branches at random, so a branch that is
ready again and again is taken (strong, one per branch). Nothing is assumed of crashes, scrapes or
changes, which are bounded by faults and changes. `Wakeups`: watch tasks and loop make progress
(weak), the resync timer is not passed over for ever (strong). `Provisioner`: processes,
reflectors, the Deployment controller and finalizers make progress (weak). `AgentApply`: the worker
thread ends its job, and another pass follows one that failed (weak). `StatusWriter`: an instance goes on with its
pass and starts another after a change or a failure (weak), its caches are brought up to date (strong, because a write
of its own may make them stale again and again).

Deadlock checking is off where the system may rest: with no tick enabled the loops sleep.

Every property of a passing run has a mutant, a plausible slip in the code that makes TLC report
it: the epoch read after the probe, an emptiness test instead of the generation, a file stamped anew,
a tick that forgets pending work, a receive that a timer can cancel, a filter fed with resolved
Services only, an ownership answer taken from the cache, a write by name alone, a cluster removed without what hangs
on it, transfers in textual order, a retry that does not read again, a tie broken by name, and so on.

### Findings

1. *A reset over a full Sōzu leaves orphans.* If Sōzu does not answer the startup capture, the baseline
   has no generation, and the first probe that answers resets the shadow of a Sōzu that holds everything. The
   batch is then built from an empty shadow and has adds only. An object that left the desired state in between is never
   removed, while `shadow.rs` calls the re-apply "the safe way out" and "always correct".
   `Converges` therefore excepts objects in `doubt`.
2. *An EndpointSlice event lost to the filter.* `referenced_services` is published after the pass
   has read its caches. An event for a Service the pass references for the first time, cached after the
   slices were read and notified before the publish, is judged by the previous index: no
   notice, and the endpoints wait for an unrelated event or the resync. `EndpointsFollowed` shows
   that this window is the only one, `ResyncHeals` that the resync closes it.

3. *A lost cluster wedges the batches.* A `RemoveCluster` that lands unacknowledged leaves the cluster
   in the baseline. When it is wanted again, with a new backend, the diff has the backend only, Sōzu
   refuses `AddBackend` for a cluster it does not hold, and every later batch is the same. A comment in
   `apply_tracked` says that "re-diffing from the shadow converges".

4. *A losing twin reads healthy.* Two parentRefs of an HTTPRoute that name one listener, one with the namespace left out and one
   with the route's own spelled out, have one `FrontendSource`. A lost collision is written on the first parent `find` meets
   (`builder/src/lib.rs` 4061), a skipped header match likewise (2514). The second parent keeps reading Accepted, though nothing of the route
   is programmed, while the comments there say "not the first match" and "A losing route must not read fully healthy".
   `HealthyMeansServed` therefore excepts the second of such `Twin`s, and only it.

`DriftConverges` is therefore stated short of `Parted`, which names three states no batch repairs: that lost
cluster; a route that outlived its cluster in the main process, each removal of which 2.3 answers
with "nothing to remove"; and workers that serve other routes than the main process holds, after an
order one of them took late or not at all. `ReplayableHeld` and `SuccessHeld` except the second
(`Dangling`) and, as the code does, requests settled without proof. Two answers count for
more than they show, and are modelled as they are: an eviction answered "nothing to remove" counts as
an eviction, and one worker's "gone" beside a silent one settles a removal.

Observations without a run of their own, for a reader of the code:

* The reset of finding 1 also costs a serving Pod its readiness once (`shadow.rs` 206), while the comment on
  `mark_ready` (`main.rs` 558) names only a Sōzu "known to hold nothing". `Reconciler` states what the code
  does guarantee (`Forget`).
* `write_route` drops a decision made for another generation; `write_gateway` (`status.rs` 382–446) checks the UID only
  and labels a decision from an older spec with the live generation, until the next pass.
* `attachedRoutes` counts an HTTPRoute once per accepted parentRef and a layer-4 route once per listener.
* When the two parentRefs of finding 4 read differently, `route_parents` compares both with the first entry there is
  (`status.rs` 693–695). The second one's `lastTransitionTime` moves on every pass, so that the route is patched for ever, though the
  function's own comment (657–659) asks for a fixed point. `WritesCease` states this exception.
* A provisioner's *create* carries no version: sent before a template or an anchor was replaced and carried out after, it is taken if the
  object is absent (`provision.rs` 152 says of a delayed process that it "must not revive resources"), and a replaced process may
  still prune what its successor has not written yet. `StaleWritesRefused` is about patches and deletes of what the
  newer template wrote; `Provisions` has a later pass repair the rest.
* An HTTPRoute with an empty `hostnames` list, as opposed to none, attaches to nothing (`effective_hostnames`).

## 4. What is proved

`ControllerLoop_proofs` proves, for every set of objects and all bounds, from `ArgsAssumption` (a
command line switches the two ticks) and `BoundsAssumption` (bounds are naturals) only:

| Theorem | States |
| --- | --- |
| `TypeCorrect` | `TypeOK` |
| `BaselineIsSound` | a baseline that names the running Sōzu describes it, objects in doubt excepted |
| `ResumeIsSound` | so does the file a restarted controller would resume |
| `ReconnectsStayPending` | no reconnect is acknowledged before its socket was looked at |
| `ReadyDropsForAnotherSozu` | readiness is dropped only over a Sōzu the baseline does not name |
| `LoopNeverSleepsOnWork` | the loop never sleeps on an unapplied desired state without a wakeup to come |

The first five rest on one inductive invariant, `IInv`. `BaselineSound` is not inductive as it stands, for
four reasons, each a conjunct:

* `SocketsPast`: nothing the controller remembers is ahead of the sockets that exist, so a fresh
  Sōzu is trusted by no old generation;
* `EpochAhead`: between the answer of a probe and its verdict, a connection other than the one
  asked about has moved the epoch past the value that will be acknowledged;
* `BatchLanded`: in the middle of a batch, what is counted as acknowledged is in Sōzu, if that Sōzu
  is one a baseline names: the file's, too, as the controller may crash before the shadow moves;
* `LateInDoubt`: a request that survived its apply touches objects in doubt only, and no
  baseline is adopted while it runs. `BaselineCovered` is `BaselineSound` for every Sōzu named by the shadow
  *or* the file, which is what a crash needs.

One lemma per conjunct shows that every action keeps it (`EpochStep`, `BatchStep`, `LateStep`,
`CoveredStep`, `ResumeStep`), from facts about agent jobs (`AgentJobFacts`, `AgentJobShadow`) and
about restarts (`RestartUntrusted`). `LoopNeverSleepsOnWork` has an invariant of its own, `WorkKept`:
where the obligation to run a pass is, on the task's way from one sleep to the next.

It also proves `LoopImplementsReconciler`: `Spec` implies `ImplementsReconciler`, under the same
two assumptions. Each action is matched with one abstract action or with none. Beyond `IInv` the
simulation needs `RoundShape`: a round is open only during a pass, the worker has at most one abandoned
request, and a process that has not finished its first pass is not ready.

`AgentApply_proofs` proves of exchanges, for all objects, workers and bounds, without an assumption:

| Theorem | States |
| --- | --- |
| `AnswersAreOwn` | `RepliesAreOwn`: no answer is taken for another request's |
| `AbandonedBatchesStop` | `AbandonStops`: a batch settles at most one request after its caller gave up |

`RepliesAreOwn` becomes inductive with `InStep`, that a connection owes nothing between two
exchanges; `ExchangeIsOwn` shows that each outcome of `send_with_retry` restores it. `AbandonStops` needs
to know that a request under way was not yet counted (`StopInv`).

About what a batch leaves in Sōzu it proves, for all objects, workers and bounds:

| Theorem | States |
| --- | --- |
| `SuccessLeavesTheDesired` | `SuccessHeld`: a batch that succeeds with proof leaves what the desired IR has |
| `ReplayedHeadsAreHeld` | `ReplayableHeld`: a replayable head, replayed on the baseline, is what the main process holds |

It assumes that a key names one object, or one route per cluster (`SlotsAssumption`: the model leaves out what
else an object carries), that a cluster goes by its own id while certificates and listeners belong to none
(`ClustersAssumption`), and that a wanted IR has one object to a key and the clusters it names (`WantedAssumption`); of its certificates
nothing is assumed. The invariant is `HeldInv`:
the batch is still to come, taken up or counted, in the order of the tiers (`InOrder`); the replayable head holds
nothing unproven (`ProvenHead`); the last answer is true of the main process until the next exchange
(`AnswerHolds`); a slot settled with proof holds what is *due* there, that is, what the desired IR has less what
is still to be added (`SlotsHeld`); and every head replays to what is due after it (`ReplaysRight`). The order of the tiers
is what makes it inductive: a slot is cleared before something is put into it, and is not cleared again. What the
recursive `Replay` makes of a head of any length is shown by induction over the head. The library's induction
rules take an operator and cannot be used; `NatSetInduction` (`Lists_proofs`) derives one about a *set* of naturals from the
least-element principle, which the provers can instantiate.

`Wakeups_proofs` proves, for all Services, capacities and bounds, from the three assumptions that state the types of
the constants: `TypeCorrect`, `RoutesAreFollowed` (`RoutesFollowed`) and `EndpointsAreFollowed` (`EndpointsFollowed`). The
properties speak of a loop at rest; the invariant follows a change on its way there. For each store
it says that a pass is due, or a watch task owes its notice, or the pass has read what the cache holds
(`IngressesHeld`, `RoutesHeld`); for each Service's endpoints the same, or the pass does not
reference it, or its event fell into the window of finding 2 (`EndpointsHeld`).

`Provisioner_proofs` proves, for any number of overlapping processes, all Gateways, templates, resources and bounds:

| Theorem | States |
| --- | --- |
| `TypeCorrect` | `TypeOK` |
| `PruneIsLive` | `DeletesOnlyDisowned`: nothing wanted of a Gateway that stays owned is on its way to deletion |
| `ReplacedProcessesAreRefused` | `StaleWritesRefused`: no late patch or delete is accepted for an object a newer template wrote last |
| `MemoIsSound` | `MemoSound`: an object whose version is in the memo has the template in full |
| `ForeignObjectsStay` | `ForeignUntouched`: nothing that is not the provisioner's is ever changed |

Its assumptions type the constants, with at least one retry, incarnation and template. What makes the five inductive
(`IInv`): a version a process has read, listed, put into a request or memorised was an own object's, and every
change makes a new version, so what still has it still is one (`ReadAt`); no template in an object, a process or a request is
ahead of the anchor's; an object has no keys but its last template's; and a Gateway that has been owned since its object's turn
began is owned now (`SteadyOwned`).

`Translator_proofs` proves, for any IRs, any number of stops and every tie of the order:

| Theorem | States |
| --- | --- |
| `BatchIsAccepted` | `BatchAccepted`: no routing request of a batch diffed from what Sōzu holds is refused when its turn comes |
| `NothingIsMissing` | `NothingMissingMeanwhile`: nothing of the routing state, and no certificate of a name, that both IRs have is missing while it is sent (names on a cycle of transfers excepted) |
| `DesiredIsReached` | `DesiredReached`: sent to its end it leaves what the desired IR describes, also when it repeats a batch that stopped |
| `AdoptedIsExact` | `AdoptedExact`, an action property: a baseline replayed from an acknowledged head is what Sōzu holds, certificates too |
| `ClustersAreHeld` | `ClustersHeld`: wherever a batch stops, the baseline left lists no cluster that Sōzu lost (`StrandedAffinity` excepted) |

`IRsAssumption` says what the builder's maps (`builder/src/lib.rs` 3719, 3720, 4168) make sure of: one cluster to an id that is not empty,
one backend to a key, frontends in a sequence; and that an IR is finite where a proof counts. Everything else the proofs need of an IR is what `reconcile` checks.

The inductive invariant (`Inv`) describes Sōzu in the middle of a batch. With the requests `P` to go, it holds the baseline less what
has left and with what has come, where an object that is to be replaced in place leaves when its successor comes (`Stage`; `CertsAt` of
certificates). Between two tiers this is the whole reason for their order, and it takes one lemma per verb, from `AddClusterGoesOn` to
`RemoveListenerGoesOn`: the next request is accepted as it is and leaves the next stage. `InDiffed` gives what the three passes over the
diff leave, in closed form. Sōzu's maps hold one object to a key whatever is sent to them (`SettledKeyed`): a batch diffed from a replayed
baseline, which is no IR the builder made, is covered as well.

`DesiredReached` also speaks of a batch made from a baseline that is *behind* Sōzu, because the head of the one before could not
be replayed. Such a Sōzu is `Ahead` of the stage: each of its sets holds what the stage and the goal both hold, and nothing that neither
has. Settling a request keeps it so, whether it is taken, refused or repeated (`Nearer`), and what is ahead of the goal *is* the goal.

`AdoptedExact` is about three folds over the acknowledged head: it is put in order, simulated, and replayed on the IR. The
induction is over the length of the head (`NatSetInduction`): after each request the simulation is at the stage the batch was at then,
and so are the replayed certificates. The replayed routing objects `Tracks` it: they are those of the stage, but for a
cluster's affinity, which the IR spells through UDP frontends, and for layer-4 frontends that went and are remembered for their
listener. `ClustersHeld` follows from what that leaves open. Clusters go last (`ClustersGoLast`): until one has gone all their ids are held
(`IdsStay`), and once one has gone everything else has arrived, so that the replay spells what is held (`ReplayIsExact`)
unless a cluster still to go is stranded with its affinity. `transfer_order` pops the strongly connected components of the transfers one by one;
`GivenFirst` shows of any such order that a name is given before it is taken unless both ends are in one component, and
`ServedOnTheWay` that the name is then always on one certificate or the other.

`StatusWriter_proofs` proves, for any instances, Gateways, specs and number of edits:

| Theorem | States |
| --- | --- |
| `DecisionsAreObserved` | `RouteObserved`: no entry vouches for a generation with another one's verdict |
| `AddressesAreOwn` | `OwnAddress`: a Gateway shows no address of an earlier Gateway's data plane |
| `OthersAreKept` | `OthersKept`, an action property: a write loses no entry of another controller or instance |

It assumes what the command line enforces of an instance's scope (`WorkersAssumption`), that a route names its
parents in a list (`RouteSpecsAssumption`), and that an address tells whose it is (`ServicesAssumption`). `Inv` adds to the objects
what instances have read and decided some steps ago: a reflector holds the route or an earlier one (`ReadOf`), a
decision is true of the generation it was made for (`Judged`), and a PATCH whose read is still current would leave the
object truthful and everybody else's entries where they are (`Careful`). The last rests on what `route_parents` computes from
any list, which `JoinFacts` and `MergeIsCareful` establish, from `ByRefFacts`, about the sort, and the lemmas of `Lists_proofs`.

`Builder_proofs` proves, for any objects, creation times, listing orders and caps on header matches:

| Theorem | States |
| --- | --- |
| `NamesAreOwned` | `NamesOwned`: a name is served with its claimant's certificates, a leaf with the longest chain there is, of those the first text |
| `BuildsTranslate` | `BuildTranslates`: every build is an IR the translator takes |
| `NewcomersTakeNothing` | `NewcomerTakesNothing`, an action property: nobody loses a route key, a name or a socket to a younger object |
| `ChecksAreSettled` | `ChecksSettled`: checks run where Sōzu would run them, and whoever goes unchecked is told |
| `HealthyAreServed` | `HealthyMeansServed`: what reads healthy is served or its listener reads unprogrammed, the second of two twins excepted |
| `RelistIsNothing` | `RelistChangesNothing`, an action property: the order the caches list objects in decides nothing |

`FamiliesAssumption` says what the API server guarantees: an ident (kind, namespace, name) is one object, its lists are lists, a
creation time is a number, a `namespace/name` text spells one namespace and name (`WellFormed` has the fields), and a listing shows
each object once.
`LiftAssumption`, `CheckAssumption` and `ClassAssumption` type the settings.

A build is a function of the caches, so the invariant is short (`CacheInv`, by the lemma `BuildFollowsCaches`) and the work is in what the function returns.
The claims are sorted by age, then text, then kind. That is a strict total order on dated owners, so each key, name and socket
has one least claim, and *holds* it as long as its owner asks (`OldestHold`, hence `NewcomersTakeNothing`). Building on that:

* `BuildsTranslate`. One frontend is kept to a route key, the text Sōzu compares. Copies of a plain route made for a header match are kept apart from
  everything else in their tier (`TierInv`, an invariant of the fold over a tier). A round that overflows the cap gives up one
  more header match than the one before, so the rounds come to an end (`PlanRun`). A socket is held by key and carried by one
  protocol, and every cluster named is a Service that resolved.
* `ChecksAreSettled`. A Service loses its check to datagrams only, and each report names a source that has a result to
  write it on (`ParentTold`).
* `HealthyAreServed`. An Ingress or parent that reads healthy asked for each of its matches (`Resolved`), and each key it asked
  for went to a frontend of its own or to one that does the same with a request (`AskedWon`). What was kept is in
  the IR, or its askers are told (`KeptOutcome`): the report goes to the *first* parent of a source, hence the exception of a
  `Twin`. A listener without a certificate programs nothing, and says so (`ReadsUnprogrammed`).
* `RelistIsNothing`. `BuildRelisted` compares any two orders of a listing (the `Relist` action reverses it). Most of a build reads the caches as a set. Three parts go through them in their order, and each is sorted by
  age and text, where claims that tie are one object's (`EquallyOld`). HTTPRoutes therefore come in one order (`SameByAge`). The
  frontends of Ingresses are rearranged with each Ingress's own in their order (`IngressesRearranged`), so that by claim both
  listings read alike (`ByClaimAlike`) and are arbitrated alike, place by place (`ArbitratedAlike`). Ties for a socket are between
  claims of one route, a TCPRoute and a UDPRoute of one name having different protocols (`AdmittedKind`, `ClaimsUndisputed`).

`Lists_proofs` has what these rest on: a filter keeps exactly what is kept, in order, a sort by a strict total order is a permutation
in that order, and filters and sorts of two arrangements of one list, by orders that agree, go through them alike.

Model-checked only:

* Liveness: fairness is out of the prover's reach.
* `PrecedenceHeld`. For all objects it would need a hypothesis: the rank of routes (`gw_precedence`) is not transitive once a regular
  expression is among them, which ranks against other paths by header matches and age only. A plain exact path
  before a header-matched prefix before an older plain expression before the exact path is a cycle, in which "as ranked" has no meaning. The
  comment at `builder/src/lib.rs` 3211 leaves the precedence of expressions to the implementation. The families of the run have no such cycle.

## 5. What is not modelled

* The generated Gateway API types, the text of conditions, problems and logs, JSON and PEM, HTTP serving of health and
  metrics, the Prometheus parser.
* Sticky session names, load-balancing metrics and the other settings of a cluster, beyond that they differ
  (`config`); the individual fields of a payload that no key tells apart.
* A hot upgrade of Sōzu during which the old process still answers on the old socket, and in
  `AgentApply` and `Translator` any restart of Sōzu (`ControllerLoop`'s subject). `Translator` has requests in doubt
  nowhere: a request that landed unacknowledged is `AgentApply`'s subject.
* How Sōzu picks among *plain* routes of one hostname: `PrecedenceHeld` is about requests that meet a header match.
* Of the provisioner, the refusal of a template over the 128 KiB an annotation may have (`provision.rs` 575: templates are taken
  to fit), the 404 of a cluster without ServiceMonitors (202: it lists none), the rendering and validation of templates and a recreated installation
  anchor: a process of the old one fails its checks as it does for another template, and
  Kubernetes collects its objects.
* The `sozu-agent` examples and tools, charts, scripts and end-to-end tests.

## 6. What could come next

1. `PrecedenceHeld` for families without regular expressions: from `TierInv`, and that `PathsMeet` and `CanMeet` never miss two
   routes one request can match.
2. The type invariant of `AgentApply` (`TypeOK`), which no theorem needs and no run lists.
