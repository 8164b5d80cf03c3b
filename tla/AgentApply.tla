----------------------------- MODULE AgentApply -----------------------------
(***************************************************************************)
(* SozuAgent::apply_tracked (crates/sozu-agent/src/lib.rs), exchange by     *)
(* exchange: one batch at a time is sent to Sozu's main process, which      *)
(* fans each change out to its workers.  Answers get lost, workers refuse   *)
(* or stay silent, the caller gives up, and the batch is diffed from a      *)
(* baseline that missed some of that.  The agent settles what such drift    *)
(* makes Sozu refuse: removals of what is gone, routes another cluster      *)
(* holds, certificates with nothing to replace.                             *)
(*                                                                         *)
(* An IR, and what Sozu holds, is a set of routing objects; a route's slot  *)
(* is its key, which leaves the cluster out.  Sozu is version 2.3.2, as     *)
(* PROTOCOL.md and the agent's comments describe it.                        *)
(***************************************************************************)
EXTENDS Naturals, Sequences, FiniteSets

CONSTANTS
  Objects,      \* routing objects: [kind, key, cluster], and of a certificate [listener, names]
  Wanted,       \* the IRs the builder may ask for
  Workers,      \* Sozu's worker processes
  MaxChanges,   \* bound: changes of the desired IR
  MaxBreaks,    \* bound: attempts that get no answer
  MaxMisses,    \* bound: orders a worker refuses or does not answer, listings refused
  MaxGiveUps    \* bound: applies the caller gives up on

Kinds == {"listener", "cluster", "backend", "cert", "route"}

(* What tells two objects of one slot apart is not part of Sozu's key. *)
Slot(o) == IF o.kind = "backend" THEN <<o.kind, o.key, o.cluster>> ELSE <<o.kind, o.key>>

(* The objects of S in o's slot. *)
At(S, o) == {p \in S : Slot(p) = Slot(o)}

OfKind(S, kind) == {o \in S : o.kind = kind}

Holds(S, cluster) == \E o \in OfKind(S, "cluster") : o.key = cluster

(* check_cluster_references: an IR declares the clusters its backends and routes name. *)
Refers(S) == \A o \in OfKind(S, "route") \cup OfKind(S, "backend") : Holds(S, o.cluster)

ASSUME ObjectsAssumption == Objects # {} /\ \A o \in Objects : o.kind \in Kinds
(* A key names one object, or one route of each cluster: what else an object carries is left   *)
(* out.  A cluster goes by its own name; certificates and listeners belong to none.            *)
ASSUME SlotsAssumption ==
  \A o, p \in Objects : Slot(o) = Slot(p) =>
    o = p \/ (o.kind = "route" /\ o.cluster # p.cluster)
ASSUME ClustersAssumption ==
  \A o \in OfKind(Objects, "cluster") :
    /\ o.key = o.cluster
    /\ \A p \in OfKind(Objects, "cert") \cup OfKind(Objects, "listener") : p.cluster # o.cluster
ASSUME WantedAssumption ==
  \A ir \in Wanted :
    /\ ir \subseteq Objects /\ Refers(ir)
    /\ \A o \in ir : At(ir, o) = {o}
ASSUME WorkersAssumption == IsFiniteSet(Workers) /\ Workers # {}
ASSUME BoundsAssumption ==
  MaxChanges \in Nat /\ MaxBreaks \in Nat /\ MaxMisses \in Nat /\ MaxGiveUps \in Nat

VARIABLES
  main,       \* the objects Sozu's main process holds
  serves,     \* the routes each worker serves
  link,       \* the connection: [open, unread], unread the answers still in flight on it
  \* the caller
  desired,    \* the IR the builder asks for now
  shadow,     \* the baseline the next batch is diffed from
  waiting,    \* the caller awaits the result of its apply
  \* apply_tracked
  pc,
  want,       \* the IR this batch leads to
  requests,   \* the batch
  todo,       \* its requests not yet taken up
  acked,      \* Progress::acknowledged, as the requests themselves
  unproven,   \* Progress::unproven, from 1; 0 for None
  req,        \* the request taken up
  reply,      \* the last answer, or NoReply
  proof,      \* the answer to req shows that the main process does not hold it
  \* bounds and history
  changes, breaks, misses, giveups,
  left,       \* requests of this batch settled without proof
  atGiveUp    \* requests acknowledged when the caller gave up

sozuVars == <<main, serves>>
callerVars == <<desired, shadow, waiting, changes, giveups, atGiveUp>>
batchVars == <<want, requests, todo, acked, unproven, req, proof, left>>
vars == <<sozuVars, link, callerVars, pc, batchVars, reply, breaks, misses>>

-----------------------------------------------------------------------------
(* Requests, and the batch the translator makes of a diff. *)

Add(o) == [op |-> "add", obj |-> o, old |-> o]
Remove(o) == [op |-> "remove", obj |-> o, old |-> o]
Replace(old, new) == [op |-> "replace", obj |-> new, old |-> old]
List(o) == [op |-> "list", obj |-> o, old |-> o]

(* What req holds between two batches. *)
NoRequest == List(CHOOSE o \in Objects : TRUE)

Request == [op : {"add", "remove", "replace", "list"}, obj : Objects, old : Objects]

(* A certificate that takes the place of another of its listener, with the same names, is      *)
(* sent as a replacement: one new one for one old one, until either side has none left.        *)
Rotations(from, to) ==
  LET pairs == {Replace(p[1], p[2]) : p \in {q \in OfKind(from \ to, "cert") \X OfKind(to \ from, "cert") :
                  q[1].listener = q[2].listener /\ q[1].names = q[2].names}}
      apart(R) == \A r, t \in R : r # t => r.old # t.old /\ r.obj # t.obj
  IN {R \in SUBSET pairs : apart(R) /\ \A r \in pairs \ R : ~apart(R \cup {r})}

(* reconcile(previous, desired), for one way to pair the certificates *)
Diff(from, to, rotated) ==
  LET replaced == {r.old : r \in rotated} \cup {r.obj : r \in rotated}
  IN rotated \cup {Add(o) : o \in (to \ from) \ replaced}
             \cup {Remove(o) : o \in (from \ to) \ replaced}

Batches(from, to) == {Diff(from, to, rotated) : rotated \in Rotations(from, to)}

(* tier: removals of routes precede additions, clusters go last. *)
Tier(r) ==
  CASE r.op = "remove" /\ r.obj.kind = "route" -> 5
    [] r.op = "remove" /\ r.obj.kind = "backend" -> 7
    [] r.op = "remove" /\ r.obj.kind = "cert" -> 9
    [] r.op = "remove" /\ r.obj.kind = "listener" -> 11
    [] r.op = "remove" /\ r.obj.kind = "cluster" -> 12
    [] r.obj.kind = "listener" -> 0
    [] r.obj.kind = "cluster" -> 2
    [] r.obj.kind = "backend" -> 3
    [] r.obj.kind = "cert" -> 4
    [] OTHER -> 6

(* What request r makes of the objects S: a cluster takes what names it along, and a route's *)
(* removal or addition clears its slot, whichever cluster held it.                           *)
Effect(S, r) ==
  CASE r.op = "remove" /\ r.obj.kind = "cluster" -> {o \in S : o.cluster # r.obj.cluster}
    [] r.op = "remove" /\ r.obj.kind # "cluster" -> S \ At(S, r.obj)
    [] r.op = "replace" -> (S \ {r.old}) \cup {r.obj}
    [] OTHER -> (S \ At(S, r.obj)) \cup {r.obj}

(* apply_acknowledged: the baseline with an acknowledged head replayed onto it. *)
Replay(S, head) ==
  LET after[i \in 0..Len(head)] == IF i = 0 THEN S ELSE Effect(after[i - 1], head[i])
  IN after[Len(head)]

-----------------------------------------------------------------------------
(* Sozu's main process and its workers. *)

CertsAt(S, listener) == {o \in OfKind(S, "cert") : o.listener = listener}

(* How the main process takes r: ConfigState::dispatch of 2.3.2. *)
Verdict(S, r) ==
  CASE r.op = "list" -> "list"
    [] r.op = "add" /\ r.obj.kind \in {"route", "listener"} /\ At(S, r.obj) # {} -> "exists"
    [] r.op = "add" /\ r.obj.kind = "backend" /\ ~Holds(S, r.obj.cluster) -> "refused"
    [] r.op = "remove" /\ r.obj.kind = "route" /\ ~Holds(S, r.obj.cluster) -> "nothing"
    [] r.op = "remove" /\ r.obj.kind = "route" /\ Holds(S, r.obj.cluster) /\ r.obj \notin S -> "gone"
    [] r.op = "remove" /\ r.obj.kind \notin {"route", "cert"} /\ r.obj \notin S -> "gone"
    [] r.op = "replace" /\ CertsAt(S, r.obj.listener) = {} -> "empty"
    [] OTHER -> "apply"

(* What a worker that works makes of an order, given the routes R it serves. *)
Work(R, r) ==
  CASE r.obj.kind = "cluster" /\ r.op = "remove" ->
         [answer |-> "ok", routes |-> {o \in R : o.cluster # r.obj.cluster}]
    [] r.obj.kind = "route" /\ r.op = "remove" ->
         [answer |-> IF r.obj \in R THEN "ok" ELSE "gone", routes |-> R \ {r.obj}]
    [] r.obj.kind = "route" /\ r.op = "add" ->
         [answer |-> IF At(R, r.obj) = {} THEN "ok" ELSE "error",
          routes |-> IF At(R, r.obj) = {} THEN R \cup {r.obj} ELSE R]
    [] OTHER -> [answer |-> "ok", routes |-> R]

(* It may refuse the order, say that it has no such listener to remove or to remove a         *)
(* certificate from, or say nothing, having carried the order out or not.                     *)
Refusal(mood, r) ==
  IF mood = "lacks" /\ r.op = "remove" /\ r.obj.kind \in {"listener", "cert"}
  THEN "gone" ELSE "error"

Moods ==
  {mood \in [Workers -> {"works", "refuses", "lacks", "silent", "late"}] :
     misses + Cardinality({w \in Workers : mood[w] # "works"}) <= MaxMisses}

(* Without a single worker's OK the main process takes the order back, where it knows how. *)
Reverts(r) == r.obj.kind = "route" \/ (r.obj.kind = "listener" /\ r.op = "add")

Answer(r, status, answers, stored) ==
  [to |-> r, status |-> status, answers |-> answers, stored |-> stored]

(* The fan-out of r to workers in the given moods. *)
FanOut(S, routes, r, mood) ==
  LET answers == {IF mood[w] = "works" THEN Work(routes[w], r).answer ELSE Refusal(mood[w], r) :
                    w \in {v \in Workers : mood[v] \in {"works", "refuses", "lacks"}}}
      all == \A w \in Workers : mood[w] = "works" /\ Work(routes[w], r).answer = "ok"
  IN [main |-> IF "ok" \in answers \/ ~Reverts(r) THEN Effect(S, r) ELSE S,
      serves |-> [w \in Workers |-> IF mood[w] \in {"works", "late"}
                                    THEN Work(routes[w], r).routes ELSE routes[w]],
      misses |-> Cardinality({w \in Workers : mood[w] # "works"}),
      reply |-> Answer(r, IF all THEN "ok" ELSE "workers", answers, {})]

(* Every way Sozu can take a request that reaches it. *)
Landings(S, routes, r) ==
  LET by(status, stored, n) ==
        [main |-> S, serves |-> routes, misses |-> n, reply |-> Answer(r, status, {}, stored)]
  IN CASE Verdict(S, r) = "apply" -> {FanOut(S, routes, r, mood) : mood \in Moods}
       [] Verdict(S, r) = "list" -> {by("list", At(S, r.obj), 0), by("refused", {}, 1)}
       [] OTHER -> {by(Verdict(S, r), {}, 0)}

(* An attempt that gets no answer: it may have landed all the same. *)
Losses(S, routes, r) ==
  Landings(S, routes, r) \cup
  {[main |-> S, serves |-> routes, misses |-> 0, reply |-> Answer(r, "none", {}, {})]}

-----------------------------------------------------------------------------
(* SozuAgent::send_with_retry *)

NoReply(r) == Answer(r, "lost", {}, {})

Closed == [open |-> FALSE, unread |-> <<>>]
Open == [open |-> TRUE, unread |-> <<>>]

(* Mutant of AfterLostRetry: the connection survives a retry that timed out. *)
AfterLostRetryKept(answer) == [open |-> TRUE, unread |-> <<answer>>]

(* Nothing tells whose answer a connection brings, so one that owes an answer is dropped. *)
AfterLostRetry(answer) == Closed

Break(n) == breaks + n <= MaxBreaks /\ breaks' = breaks + n
Miss(n) == misses + n <= MaxMisses /\ misses' = misses + n

Take(l) == main' = l.main /\ serves' = l.serves

Answered(r) ==
  /\ Break(0)
  /\ \E l \in Landings(main, serves, r) :
       LET unread == Append(link.unread, l.reply)
       IN /\ Miss(l.misses) /\ Take(l)
          /\ reply' = Head(unread)
          /\ link' = [open |-> TRUE, unread |-> Tail(unread)]

(* The attempt got no answer; the second one, on a new connection, did. *)
AnsweredOnRetry(r) ==
  /\ Break(1)
  /\ \E f \in Losses(main, serves, r) : \E l \in Landings(f.main, f.serves, r) :
       /\ Miss(f.misses + l.misses) /\ Take(l)
       /\ reply' = l.reply
       /\ link' = Open

UnansweredTwice(r) ==
  /\ Break(2)
  /\ \E f \in Losses(main, serves, r) : \E l \in Losses(f.main, f.serves, r) :
       /\ Miss(f.misses + l.misses) /\ Take(l)
       /\ reply' = NoReply(r)
       /\ link' = AfterLostRetry(l.reply)

(* The lazy connect failed. *)
NotConnected(r) ==
  /\ ~link.open /\ Break(1) /\ Miss(0)
  /\ reply' = NoReply(r)
  /\ UNCHANGED <<sozuVars, link>>

Exchange(r) == Answered(r) \/ AnsweredOnRetry(r) \/ UnansweredTwice(r) \/ NotConnected(r)

-----------------------------------------------------------------------------
(* How an answer is read. *)

RouteTeardown == req.op = "remove" /\ req.obj.kind = "route"

(* is_already_gone: the main process refused, or every worker heard from says so, or OK. *)
AlreadyGone(a) ==
  \/ a.status = "gone"
  \/ a.status = "workers" /\ a.answers \subseteq {"ok", "gone"} /\ "gone" \in a.answers

(* gone_from_main_process *)
GoneFromMainProcess(a) == a.status = "gone" \/ "ok" \in a.answers

(* The route is gone under the cluster the removal names; another may hold the key. *)
MayBeHeldByAnother ==
  RouteTeardown /\ (reply.status = "nothing" \/ AlreadyGone(reply))

Ok == reply.status \in {"ok", "nothing"}

(* progress.acknowledged moves past req; the first request settled without proof is marked. *)
Count(sure) ==
  /\ acked' = Append(acked, req)
  /\ unproven' = IF sure \/ unproven # 0 THEN unproven ELSE Len(acked) + 1
  /\ left' = IF sure THEN left ELSE left \cup {req}
  /\ pc' = "next"

Stop == pc' = "failed" /\ UNCHANGED <<acked, unproven, left>>

GaveUp == ~waiting

-----------------------------------------------------------------------------
(* apply_tracked *)

(* Mutant of Send: the loop does not look whether its caller is still there. *)
SendUnasked(r) ==
  /\ pc = "next"
  /\ r \in todo /\ \A other \in todo : Tier(r) <= Tier(other)
  /\ Exchange(r)
  /\ req' = r /\ todo' = todo \ {r}
  /\ pc' = "reply"
  /\ UNCHANGED <<callerVars, want, requests, acked, unproven, proof, left>>

(* The next request in the order of the tiers (within one, any order). *)
Send(r) ==
  /\ pc = "next" /\ ~GaveUp
  /\ r \in todo /\ \A other \in todo : Tier(r) <= Tier(other)
  /\ Exchange(r)
  /\ req' = r /\ todo' = todo \ {r}
  /\ pc' = "reply"
  /\ UNCHANGED <<callerVars, want, requests, acked, unproven, proof, left>>

Abandon ==
  /\ pc = "next" /\ GaveUp /\ todo # {}
  /\ Stop
  /\ UNCHANGED <<sozuVars, link, callerVars, want, requests, todo, req, proof, reply, breaks, misses>>

Return ==
  /\ pc = "next" /\ todo = {}
  /\ pc' = "done"
  /\ UNCHANGED <<sozuVars, link, callerVars, batchVars, reply, breaks, misses>>

(* Mutant of Tolerated: a removal of what is gone fails the batch. *)
ToleratedNever == Ok /\ ~MayBeHeldByAnother

(* Answers that settle the request at once: OK, the removal of something gone that is no      *)
(* route, an addition of a listener that is there.                                            *)
Tolerated ==
  \/ Ok /\ ~MayBeHeldByAnother
  \/ req.op = "remove" /\ ~RouteTeardown /\ AlreadyGone(reply)
  \/ req.op = "add" /\ req.obj.kind = "listener" /\ reply.status = "exists"

Settle ==
  /\ pc = "reply" /\ Tolerated
  /\ Count(Ok \/ req.op = "add" \/ GoneFromMainProcess(reply))
  /\ UNCHANGED <<sozuVars, link, callerVars, want, requests, todo, req, proof, reply, breaks, misses>>

(* is_replace_into_empty_listener *)
IntoEmptyListener == req.op = "replace" /\ reply.status = "empty"

(* is_duplicate_add, for a route *)
DuplicateRoute == req.op = "add" /\ req.obj.kind = "route" /\ reply.status = "exists"

(* key_holder: ask who holds the key. *)
LookUp ==
  /\ pc = "reply" /\ (MayBeHeldByAnother \/ DuplicateRoute)
  /\ proof' = (Ok \/ GoneFromMainProcess(reply))
  /\ Exchange(List(req.obj))
  /\ pc' = IF RouteTeardown THEN "holder" ELSE "repair"
  /\ UNCHANGED <<callerVars, want, requests, todo, acked, unproven, req, left>>

(* Any other refusal, or no answer at all. *)
Refused ==
  /\ pc = "reply"
  /\ ~Tolerated /\ ~MayBeHeldByAnother /\ ~DuplicateRoute /\ ~IntoEmptyListener
  /\ Stop
  /\ UNCHANGED <<sozuVars, link, callerVars, want, requests, todo, req, proof, reply, breaks, misses>>

-----------------------------------------------------------------------------
(* evict_stale_holder *)

(* Mutant of Another: whoever else holds the key is left alone. *)
AnotherIgnored == FALSE

(* Another cluster's route is stored under the key. *)
Another == reply.stored \notin {{}, {req.obj}}

(* The main process still stores the very route: its removal was taken back. *)
LeftThere == reply.stored = {req.obj}

NoEviction ==
  /\ pc = "holder" /\ reply.status = "list" /\ ~Another
  /\ Count(~LeftThere /\ proof)
  /\ UNCHANGED <<sozuVars, link, callerVars, want, requests, todo, req, proof, reply, breaks, misses>>

(* "Could not tell" is not "nothing there"; and a caller that gave up sees nothing evicted. *)
EvictionFails ==
  /\ pc = "holder" /\ (reply.status # "list" \/ (Another /\ GaveUp))
  /\ Stop
  /\ UNCHANGED <<sozuVars, link, callerVars, want, requests, todo, req, proof, reply, breaks, misses>>

Evict ==
  /\ pc = "holder" /\ reply.status = "list" /\ Another /\ ~GaveUp
  /\ \E stored \in reply.stored : Exchange(Remove(stored))
  /\ pc' = "evicted"
  /\ UNCHANGED <<callerVars, batchVars>>

Evicted ==
  /\ pc = "evicted"
  /\ IF Ok THEN Count(proof) ELSE IF AlreadyGone(reply) THEN Count(FALSE) ELSE Stop
  /\ UNCHANGED <<sozuVars, link, callerVars, want, requests, todo, req, proof, reply, breaks, misses>>

-----------------------------------------------------------------------------
(* The repair of a duplicate route: remove what is stored, then add again, once. *)

(* The route to remove: the stored one; the add's own where the listing shows none. *)
Holder == IF reply.stored = {} THEN {req.obj} ELSE reply.stored

Repair ==
  /\ pc = "repair" /\ reply.status # "lost" /\ ~GaveUp
  /\ \E stored \in Holder : Exchange(Remove(stored))
  /\ pc' = "repaired"
  /\ UNCHANGED <<callerVars, batchVars>>

RepairFails ==
  /\ \/ pc = "repair" /\ (reply.status = "lost" \/ GaveUp)
     \/ pc = "repaired" /\ reply.status = "lost"
  /\ Stop
  /\ UNCHANGED <<sozuVars, link, callerVars, want, requests, todo, req, proof, reply, breaks, misses>>

AddAgain ==
  /\ pc = "repaired" /\ reply.status # "lost"
  /\ Exchange(req)
  /\ pc' = "added"
  /\ UNCHANGED <<callerVars, batchVars>>

(* add_replacement: a listener without a certificate gets the new one added. *)
AddReplacement ==
  /\ pc = "reply" /\ IntoEmptyListener /\ ~GaveUp
  /\ Exchange(Add(req.obj))
  /\ pc' = "added"
  /\ UNCHANGED <<callerVars, batchVars>>

ReplacementAbandoned ==
  /\ pc = "reply" /\ IntoEmptyListener /\ GaveUp
  /\ Stop
  /\ UNCHANGED <<sozuVars, link, callerVars, want, requests, todo, req, proof, reply, breaks, misses>>

Added ==
  /\ pc = "added"
  /\ IF Ok THEN Count(TRUE) ELSE Stop
  /\ UNCHANGED <<sozuVars, link, callerVars, want, requests, todo, req, proof, reply, breaks, misses>>

-----------------------------------------------------------------------------
(* The caller: reconcile() with its apply deadline. *)

Submit ==
  /\ pc = "idle" /\ desired # shadow
  /\ waiting' = TRUE /\ atGiveUp' = 0
  /\ want' = desired /\ requests' \in Batches(shadow, desired) /\ todo' = requests'
  /\ acked' = <<>> /\ unproven' = 0 /\ left' = {}
  /\ pc' = "next"
  /\ UNCHANGED <<sozuVars, link, desired, shadow, changes, giveups, req, proof, reply, breaks,
                 misses>>

GiveUp ==
  /\ pc \notin {"idle", "done", "failed"} /\ waiting
  /\ giveups < MaxGiveUps /\ giveups' = giveups + 1
  /\ waiting' = FALSE /\ atGiveUp' = Len(acked)
  /\ UNCHANGED <<sozuVars, link, desired, shadow, changes, pc, batchVars, reply, breaks, misses>>

(* Mutant of Replayable: whatever was counted is replayed. *)
ReplayableAll == acked

(* ApplyError::replayable *)
Replayable == IF unproven = 0 THEN acked ELSE SubSeq(acked, 1, unproven - 1)

(* The baselines a result can leave: none reaches a caller that gave up, and a head the IR   *)
(* cannot spell (a listener without its route, say) leaves the old one.                       *)
Baselines ==
  CASE GaveUp -> {shadow}
    [] ~GaveUp /\ pc = "done" -> {want}
    [] ~GaveUp /\ pc = "failed" -> {shadow, Replay(shadow, Replayable)}

Finish ==
  /\ pc \in {"done", "failed"}
  /\ shadow' \in Baselines
  /\ pc' = "idle" /\ waiting' = FALSE
  /\ want' = {} /\ requests' = {} /\ todo' = {} /\ acked' = <<>> /\ unproven' = 0 /\ left' = {}
  /\ req' = NoRequest /\ proof' = FALSE /\ reply' = NoReply(NoRequest) /\ atGiveUp' = 0
  /\ UNCHANGED <<sozuVars, link, desired, changes, giveups, breaks, misses>>

(* Events come at any time; the IR built of them is looked at when a batch is made. *)
Change ==
  /\ pc = "idle"
  /\ changes < MaxChanges /\ changes' = changes + 1
  /\ desired' \in Wanted \ {desired}
  /\ UNCHANGED <<sozuVars, link, shadow, waiting, giveups, atGiveUp, pc, batchVars, reply,
                 breaks, misses>>

-----------------------------------------------------------------------------

(* Baseline, main process and workers agree; the builder asks for something. *)
Init ==
  /\ shadow \in Wanted /\ desired \in Wanted
  /\ main = shadow /\ serves = [w \in Workers |-> OfKind(shadow, "route")]
  /\ link = Closed
  /\ waiting = FALSE /\ pc = "idle"
  /\ want = {} /\ requests = {} /\ todo = {} /\ acked = <<>> /\ unproven = 0 /\ left = {}
  /\ req = NoRequest /\ proof = FALSE /\ reply = NoReply(NoRequest)
  /\ changes = 0 /\ breaks = 0 /\ misses = 0 /\ giveups = 0 /\ atGiveUp = 0

Agent ==
  \/ \E r \in todo : Send(r)
  \/ Abandon \/ Return \/ Settle \/ LookUp \/ Refused
  \/ NoEviction \/ EvictionFails \/ Evict \/ Evicted
  \/ Repair \/ RepairFails \/ AddAgain
  \/ AddReplacement \/ ReplacementAbandoned \/ Added

Caller == Submit \/ Finish

Next == Agent \/ Caller \/ GiveUp \/ Change

Spec == Init /\ [][Next]_vars

(* The worker thread takes the next step of its job, and a pass follows a failed one. *)
FairSpec == Spec /\ WF_vars(Agent) /\ WF_vars(Caller)

-----------------------------------------------------------------------------
(* Properties. *)

TypeOK ==
  /\ main \in SUBSET Objects
  /\ serves \in [Workers -> SUBSET OfKind(Objects, "route")]
  /\ link.open \in BOOLEAN /\ Len(link.unread) \in 0..1
  /\ desired \in Wanted /\ shadow \in SUBSET Objects /\ waiting \in BOOLEAN
  /\ pc \in {"idle", "next", "reply", "holder", "evicted", "repair", "repaired", "added",
             "done", "failed"}
  /\ want \in Wanted \cup {{}} /\ requests \in SUBSET Request /\ todo \in SUBSET requests
  /\ acked \in Seq(Request) /\ unproven \in 0..Len(acked)
  /\ req \in Request /\ proof \in BOOLEAN /\ left \in SUBSET Request
  /\ reply.to \in Request /\ reply.answers \in SUBSET {"ok", "gone", "error"}
  /\ reply.stored \in SUBSET Objects
  /\ changes \in 0..MaxChanges /\ breaks \in 0..MaxBreaks
  /\ misses \in 0..MaxMisses /\ giveups \in 0..MaxGiveUps
  /\ atGiveUp \in 0..Len(acked)

(* An answer is never taken for another request's: the protocol has no request ids, and a    *)
(* late answer must not acknowledge the next request (send_with_retry).                      *)
RepliesAreOwn ==
  /\ pc = "reply" => reply.to = req
  /\ pc \in {"holder", "repair"} => reply.to = List(req.obj)
  /\ pc \in {"evicted", "repaired"} => reply.to.op = "remove"
  /\ pc = "added" => reply.to \in {req, Add(req.obj)}

(* A route of the main process whose cluster it does not hold: 2.3 answers each removal of it *)
(* with "nothing to remove" and keeps it.                                                     *)
Dangling(o) == \E p \in At(main, o) : p.kind = "route" /\ ~Holds(main, p.cluster)

(* Requests of the batch that reached Sozu after its replayable head. *)
Beyond ==
  {acked[i] : i \in (Len(Replayable) + 1)..Len(acked)} \cup
  ({req} \ {acked[i] : i \in 1..Len(acked)})

(* Replaying the replayable head of a failed batch records nothing that the main process does *)
(* not hold (ApplyError): not after evictions, repairs and orders the main process took back. *)
ReplayableHeld ==
  pc = "failed" =>
    \A i \in 1..Len(Replayable) : \A o \in {Replayable[i].obj, Replayable[i].old} :
      \/ \E r \in Beyond : Slot(o) \in {Slot(r.obj), Slot(r.old)}
      \/ At(main, o) = At(Replay(shadow, Replayable), o)
      \/ Dangling(o)

(* A batch that succeeds leaves each key it settled with proof as the desired state has it,   *)
(* whoever held the key before (stored_removal, add_replacement).                             *)
SuccessHeld ==
  pc = "done" =>
    \A r \in {acked[i] : i \in 1..Len(acked)} \ left :
      At(main, r.obj) = At(want, r.obj) \/ Dangling(r.obj)

(* A batch whose caller gave up does not keep landing: at most the request under way is      *)
(* settled (apply_unless).                                                                   *)
AbandonStops == pc # "idle" /\ GaveUp => Len(acked) <= atGiveUp + 1

(* Sozu has parted from itself or from the baseline in a way no batch repairs: the baseline   *)
(* lists a cluster that is not there, a route outlived its cluster, or a worker serves other  *)
(* routes than the main process holds.                                                        *)
Parted ==
  \/ \E o \in OfKind(shadow, "cluster") : o \notin main
  \/ \E o \in Objects : Dangling(o)
  \/ \E w \in Workers : serves[w] # OfKind(main, "route")

(* Short of that, a stale baseline wedges nothing: once faults cease, some batch goes through *)
(* and the desired state is reached (apply_tracked's tolerance and repairs).                  *)
DriftConverges == <>[](shadow = desired \/ Parted)

(* "re-diffing from the shadow converges" (apply_tracked). *)
ReDiffConverges == <>[](shadow = desired)
=============================================================================
