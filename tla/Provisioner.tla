----------------------------- MODULE Provisioner -----------------------------
(***************************************************************************)
(* The gateway provisioner (crates/controller/src/provision.rs and         *)
(* run_provisioner in main.rs): one pass after another, it creates and     *)
(* repairs the objects of every owned Gateway's instance, then prunes the  *)
(* ones nobody owns any more.                                              *)
(*                                                                         *)
(* Every await is a request to the API server, and every request a step:   *)
(* Gateways, the GatewayClass, the Helm-managed anchor and the generated   *)
(* objects change between a read and the write decided on it.  Processes   *)
(* overlap: one that Helm has replaced may still be running.               *)
(*                                                                         *)
(* A Gateway's UID is <<name, incarnation>>; one being deleted reads as an *)
(* absent one in every branch, so it is one here.  A generated object is   *)
(* <<resource, uid>>, both parts being in its name; the anchor is reduced  *)
(* to the revision of the template it holds, and an object's content to    *)
(* the template it records and the template keys it has (one per revision).*)
(***************************************************************************)
EXTENDS Naturals, Sequences

CONSTANTS
  Procs,            \* provisioner processes
  Names,            \* namespace/name of Gateways
  Resources,        \* the objects an instance can have
  Plan,             \* template revision -> its resources, in the order they are ensured
  CleanupOrder,     \* the resources each LIST of the cleanup returns, in order
  Optional,         \* resources a template may leave out and a later one removes
  Respelled,        \* resources the API server stores in another spelling
  Finalized,        \* resources whose deletion waits for a finalizer
  Resync,           \* whether the periodic resync may be enabled: a set of BOOLEAN
  Retries,          \* attempts at one write (RETRIES, 3 in the code)
  MaxIncarnations, MaxTemplates,
  MaxEvents,        \* bound: changes of Gateways, class and anchor, and crashes
  MaxStrayWrites,   \* bound: writes to generated objects from outside a pass
  MaxFaults         \* bound: failed API requests

Templates == 1..MaxTemplates
Uid == Names \X (1..MaxIncarnations)
Key == Resources \X Uid

ASSUME PlanAssumption == Plan \in [Templates -> Seq(Resources)]
ASSUME CleanupAssumption == CleanupOrder \in Seq(SUBSET Resources)
ASSUME SwitchAssumption ==
  /\ Resync \subseteq BOOLEAN /\ Optional \subseteq Resources /\ Respelled \subseteq Resources
  /\ Finalized \subseteq Resources
ASSUME BoundsAssumption ==
  /\ Retries \in Nat \ {0} /\ MaxIncarnations \in Nat \ {0} /\ MaxTemplates \in Nat \ {0}
  /\ MaxEvents \in Nat /\ MaxStrayWrites \in Nat /\ MaxFaults \in Nat

VARIABLES
  \* the API server
  gateways,   \* name -> [n, exists]: the last incarnation, and whether it is still there
  class,      \* the GatewayClass exists and names this controller
  anchor,     \* the template revision of the installation's ConfigMap
  objects,    \* key -> [state, rv, last, keys]
  late,       \* requests given up by their sender that may still be carried out
  \* the processes
  proc,
  \* bounds and history
  events, strays, faults,
  steady      \* the Gateway of the object process p is pruning has been owned ever since

server == <<gateways, class, anchor>>
bounds == <<events, strays, faults>>
vars == <<server, objects, late, proc, bounds, steady>>

Live(u) == gateways[u[1]].exists /\ gateways[u[1]].n = u[2]
Owned(u) == Live(u) /\ class

Enabled(t) == {Plan[t][i] : i \in 1..Len(Plan[t])}

-----------------------------------------------------------------------------
(* Requests that write.  The server refuses a create of what exists, and a patch or delete of *)
(* another object or version than the one its sender read.                                    *)

Absent(rv) == [state |-> "absent", rv |-> rv, last |-> 0, keys |-> {}]

(* Mutant of Accepted: writes go by name alone. *)
AcceptedByName(w) == (w.op = "create") = (objects[w.key].state = "absent")

Accepted(w) ==
  IF w.op = "create" THEN objects[w.key].state = "absent"
                     ELSE objects[w.key].state # "absent" /\ objects[w.key].rv = w.rv

(* Mutant of MergePatch: the keys of the previous template stay. *)
MergePatchAdds(o, t) == [o EXCEPT !.last = t, !.keys = @ \cup {t}]

(* merge_patch: what the previous template had and this one has not becomes null. *)
MergePatch(o, t) == [o EXCEPT !.last = t, !.keys = (@ \ {o.last}) \cup {t}]

(* What an accepted request makes of the object; a patch without effect keeps the version. *)
Content(w, o) ==
  CASE w.op = "create" -> [o EXCEPT !.state = "owned", !.last = w.template, !.keys = {w.template}]
    [] w.op = "patch" -> MergePatch(o, w.template)
    [] w.op = "delete" -> IF w.key[1] \in Finalized THEN [o EXCEPT !.state = "deleting"]
                                                    ELSE Absent(o.rv)
Result(w, o) == IF Content(w, o) = o THEN o ELSE [Content(w, o) EXCEPT !.rv = o.rv + 1]

Carry(w) == objects' = [objects EXCEPT ![w.key] = Result(w, @)]

-----------------------------------------------------------------------------
(* A process. *)

NoMemo == [k \in Key |-> 0]
Unseen == [state |-> "absent", rv |-> 0]

Off(resync) == [pc |-> "off", resync |-> resync, template |-> 1, ready |-> FALSE, failed |-> FALSE, notice |-> FALSE,
        cached |-> {}, cachedClass |-> FALSE, behind |-> {}, todo |-> {}, desired |-> {},
        uid |-> <<>>, resource |-> "", i |-> 0, attempt |-> 0, seen |-> Unseen, listed |-> {}, memo |-> NoMemo]

(* The Gateways the process's caches say are ours. *)
Ours(r) == {u \in r.cached : r.cachedClass}

(* The locals of one Gateway's or one object's turn go out of scope with it. *)
Leave(r, pc) == [r EXCEPT !.pc = pc, !.uid = <<>>, !.resource = "", !.seen = Unseen, !.attempt = 0,
                          !.i = IF pc = "gateways" THEN 0 ELSE @]

Become(p, r) == proc' = [proc EXCEPT ![p] = r]
Local(p, r) == Become(p, r) /\ UNCHANGED <<server, objects, late, bounds, steady>>

(* Where an error sends the process: a Gateway's failure does not stop its neighbours, an *)
(* object's does not stop the cleanup, only a foreign anchor ends the pass.               *)
Aborted(r) ==
  CASE r.pc = "check" -> [r EXCEPT !.pc = "sleep", !.ready = FALSE, !.todo = {}]
    [] r.pc \in {"gateway", "class", "ensure", "guard", "write"} -> Leave(r, "gateways")
    [] r.pc = "list" -> [r EXCEPT !.i = @ + 1]
    [] r.pc \in {"owner", "ownerclass", "recheck", "delete"} -> Leave(r, "prune")

(* outcome.failures, or an error of the pass: run_provisioner tries again after five seconds. *)
Failed(r) == [Aborted(r) EXCEPT !.failed = TRUE]

(* Provisioner::new and run_provisioner up to its loop: the process's template is the anchor's, *)
(* its caches have synced and their notices are queued.                                          *)
Start(p) ==
  /\ proc[p].pc = "off"
  /\ LET cached == {u \in Uid : Live(u)} IN
       Local(p, [Off(proc[p].resync) EXCEPT !.pc = "check", !.template = anchor, !.notice = TRUE,
                            !.cached = cached, !.cachedClass = class,
                            !.todo = {u \in cached : class}])

(* The select! of run_provisioner; the pass's copy of the caches is taken at once.  A notice *)
(* its debounce had consumed goes with a timer that cancels it.                              *)
Wake(p) ==
  /\ proc[p].pc = "sleep"
  /\ proc[p].notice \/ proc[p].failed \/ proc[p].resync
  /\ Local(p, [proc[p] EXCEPT !.pc = "check", !.notice = FALSE, !.failed = FALSE,
                              !.todo = Ours(proc[p])])

(* check_installation, at the head of a pass *)
CheckAnchor(p) ==
  /\ proc[p].pc = "check"
  /\ Local(p, IF anchor = proc[p].template THEN [proc[p] EXCEPT !.pc = "gateways"]
                                           ELSE Failed(proc[p]))

NextGateway(p, u) ==
  /\ proc[p].pc = "gateways"
  /\ u \in proc[p].todo
  /\ Local(p, [proc[p] EXCEPT !.pc = "gateway", !.uid = u, !.todo = @ \ {u},
                              !.desired = @ \cup {u}])

GatewaysDone(p) ==
  /\ proc[p].pc = "gateways"
  /\ proc[p].todo = {}
  /\ Local(p, [proc[p] EXCEPT !.pc = "list", !.i = 1])

(* ensure_gateway found that the Gateway is not ours, or no longer there. *)
NotOurs(r) == [Leave(r, "gateways") EXCEPT !.desired = @ \ {r.uid}]

GetGateway(p) ==
  /\ proc[p].pc = "gateway"
  /\ Local(p, IF Live(proc[p].uid) THEN [proc[p] EXCEPT !.pc = "class"] ELSE NotOurs(proc[p]))

(* One more object of the instance to ensure, or the next Gateway *)
Advance(r) ==
  IF r.i < Len(Plan[r.template])
    THEN [r EXCEPT !.pc = "ensure", !.i = @ + 1, !.attempt = 1,
                   !.resource = Plan[r.template][r.i + 1]]
    ELSE Leave(r, "gateways")

GetClass(p) ==
  /\ proc[p].pc = "class"
  /\ Local(p, IF class THEN Advance([proc[p] EXCEPT !.i = 0]) ELSE NotOurs(proc[p]))

(* The object the process is ensuring or pruning *)
Target(r) == <<r.resource, r.uid>>

(* subset(desired, live): nothing the template says is missing or spelled otherwise *)
UpToDate(k, o, t) == k[1] \notin Respelled /\ o.last = t /\ t \in o.keys

(* Mutants of Confirmed: any version of what this process once wrote will do; no memo at all. *)
ConfirmedOnce(r, k) == r.memo[k] # 0
ConfirmedNever(r, k) == FALSE

(* The version in place is the one the server's answer to this process's write named. *)
Confirmed(r, k) == r.memo[k] # 0 /\ r.memo[k] = objects[k].rv

(* ensure, up to the decision: refuse, leave alone, or write.  A template is taken to fit the    *)
(* annotation it is recorded in; one that does not fails its Gateway in every pass.              *)
GetObject(p) ==
  LET r == proc[p]
      k == Target(r)
      o == objects[k]
      read == [r EXCEPT !.pc = "guard", !.seen = [state |-> o.state, rv |-> o.rv]] IN
  /\ r.pc = "ensure"
  /\ Local(p,
       CASE o.state = "absent" ->
              [read EXCEPT !.memo[k] = 0]
         [] o.state \in {"foreign", "deleting"} -> Failed(r)
         [] o.state = "owned" ->
              IF Confirmed(r, k) \/ UpToDate(k, o, r.template)
                THEN Advance(r)
                ELSE read)

(* Mutant of CheckBeforeWrite: the check at the head of the pass is thought to be enough. *)
WriteUnchecked(p) ==
  /\ proc[p].pc = "guard"
  /\ Local(p, [proc[p] EXCEPT !.pc = "write"])

(* check_installation, before a write and after the read it rests on *)
CheckBeforeWrite(p) ==
  /\ proc[p].pc = "guard"
  /\ Local(p, IF anchor = proc[p].template THEN [proc[p] EXCEPT !.pc = "write"]
                                           ELSE Failed(proc[p]))

(* The write the process has decided on *)
Request(r) ==
  [key |-> Target(r), rv |-> r.seen.rv, template |-> r.template,
   op |-> IF r.pc = "delete" THEN "delete"
          ELSE IF r.seen.state = "absent" THEN "create" ELSE "patch"]

(* A conflict starts over from a fresh read, a bounded number of times. *)
Retry(r) == IF r.attempt < Retries THEN [r EXCEPT !.pc = "ensure", !.attempt = @ + 1]
                                   ELSE Failed(r)

Write(p) ==
  LET r == proc[p]
      w == Request(r) IN
  /\ r.pc = "write"
  /\ IF Accepted(w)
       THEN /\ Carry(w)
            /\ Become(p, Advance([r EXCEPT !.memo[w.key] = objects'[w.key].rv]))
       ELSE /\ UNCHANGED objects
            /\ Become(p, IF w.op = "patch" /\ objects[w.key].state = "absent" THEN Failed(r)
                                                                              ELSE Retry(r))
  /\ UNCHANGED <<server, late, bounds, steady>>

-----------------------------------------------------------------------------
(* The cleanup. *)

Obsolete(t, resource) == resource \in Optional \ Enabled(t)

(* The objects of the installation's label, less the ones a desired Gateway keeps.  A kind the   *)
(* server does not know (ServiceMonitor, whose 404 the code skips) lists none.                   *)
List(p) ==
  LET r == proc[p] IN
  /\ r.pc = "list"
  /\ r.i <= Len(CleanupOrder)
  /\ Local(p, [r EXCEPT !.pc = "prune",
       !.listed = {[resource |-> k[1], uid |-> k[2], rv |-> objects[k].rv] :
         k \in {k \in CleanupOrder[r.i] \X Uid :
                  /\ objects[k].state \in {"owned", "deleting"}
                  /\ k[2] \notin r.desired \/ Obsolete(r.template, k[1])}}])

NextObject(p, x) ==
  /\ proc[p].pc = "prune"
  /\ x \in proc[p].listed
  /\ Become(p, [proc[p] EXCEPT !.pc = "owner", !.uid = x.uid, !.listed = @ \ {x},
                               !.resource = x.resource,
                               !.seen = [state |-> "owned", rv |-> x.rv]])
  /\ steady' = [steady EXCEPT ![p] = Owned(x.uid)]
  /\ UNCHANGED <<server, objects, late, bounds>>

PruneDone(p) ==
  /\ proc[p].pc = "prune"
  /\ proc[p].listed = {}
  /\ Local(p, [proc[p] EXCEPT !.pc = "list", !.i = @ + 1])

(* prune: the object's Gateway and class are read live, for every object anew. *)
GetOwner(p) ==
  /\ proc[p].pc = "owner"
  /\ Local(p, [proc[p] EXCEPT !.pc = IF Live(proc[p].uid) THEN "ownerclass" ELSE "recheck"])

(* Mutant of LiveOwned: the answer of the cache the pass began with *)
OwnedInCache(r) == r.cachedClass

LiveOwned(r) == class

GetOwnerClass(p) ==
  /\ proc[p].pc = "ownerclass"
  /\ Local(p, IF LiveOwned(proc[p]) /\ ~Obsolete(proc[p].template, proc[p].resource)
                 THEN Leave(proc[p], "prune") ELSE [proc[p] EXCEPT !.pc = "recheck"])

CheckBeforeDelete(p) ==
  /\ proc[p].pc = "recheck"
  /\ Local(p, IF anchor = proc[p].template THEN [proc[p] EXCEPT !.pc = "delete"]
                                           ELSE Failed(proc[p]))

(* An object that is already gone is a completed prune. *)
Delete(p) ==
  LET r == proc[p]
      w == Request(r)
      forgotten == [Leave(r, "prune") EXCEPT !.memo[w.key] = 0] IN
  /\ r.pc = "delete"
  /\ CASE objects[w.key].state = "absent" -> UNCHANGED objects /\ Become(p, forgotten)
       [] objects[w.key].state # "absent" /\ Accepted(w) -> Carry(w) /\ Become(p, forgotten)
       [] objects[w.key].state # "absent" /\ ~Accepted(w) -> UNCHANGED objects /\ Become(p, Failed(r))
  /\ UNCHANGED <<server, late, bounds, steady>>

(* The end of reconcile: the memo keeps the desired Gateways only. *)
FinishPass(p) ==
  LET r == proc[p] IN
  /\ r.pc = "list"
  /\ r.i > Len(CleanupOrder)
  /\ Local(p, [r EXCEPT !.pc = "sleep", !.ready = TRUE, !.i = 0, !.desired = {},
                        !.memo = [k \in Key |-> IF k[2] \in r.desired THEN r.memo[k] ELSE 0]])

-----------------------------------------------------------------------------
(* Failures. *)

Waiting == {"check", "gateway", "class", "ensure", "guard", "write", "list", "owner",
            "ownerclass", "recheck", "delete"}

(* request: an error, or ten seconds without an answer; the request has no effect *)
RequestFails(p) ==
  /\ proc[p].pc \in Waiting
  /\ proc[p].pc = "list" => proc[p].i <= Len(CleanupOrder)
  /\ faults < MaxFaults
  /\ faults' = faults + 1
  /\ Become(p, Failed(proc[p]))
  /\ UNCHANGED <<server, objects, late, events, strays, steady>>

(* ... or may have one later. *)
WriteTimesOut(p) ==
  /\ proc[p].pc \in {"write", "delete"}
  /\ strays < MaxStrayWrites
  /\ strays' = strays + 1
  /\ late' = late \cup {Request(proc[p])}
  /\ Become(p, Failed(proc[p]))
  /\ UNCHANGED <<server, objects, events, faults, steady>>

LateRequest(w) ==
  /\ w \in late
  /\ late' = late \ {w}
  /\ IF Accepted(w) THEN Carry(w) ELSE UNCHANGED objects
  /\ UNCHANGED <<server, proc, bounds, steady>>

Event == events < MaxEvents /\ events' = events + 1 /\ UNCHANGED <<strays, faults>>

Crash(p) ==
  /\ proc[p].pc # "off"
  /\ events < MaxEvents
  /\ events' = events + 1
  /\ \/ UNCHANGED <<late, strays>>
     \/ /\ proc[p].pc \in {"write", "delete"} /\ strays < MaxStrayWrites
        /\ strays' = strays + 1
        /\ late' = late \cup {Request(proc[p])}
  /\ Become(p, Off(proc[p].resync))
  /\ UNCHANGED <<server, objects, faults, steady>>

-----------------------------------------------------------------------------
(* The cluster. *)

(* A watch event is on its way to every process's reflector. *)
Announce(kind) ==
  proc' = [p \in Procs |-> IF proc[p].pc = "off" THEN proc[p]
                           ELSE [proc[p] EXCEPT !.behind = @ \cup {kind}]]

StillSteady ==
  steady' = [p \in Procs |-> steady[p] /\ proc[p].uid \in Uid /\ Owned(proc[p].uid)']

CreateGateway(name) ==
  /\ ~gateways[name].exists /\ gateways[name].n < MaxIncarnations
  /\ Event
  /\ gateways' = [gateways EXCEPT ![name] = [n |-> @.n + 1, exists |-> TRUE]]
  /\ Announce("gateways")
  /\ UNCHANGED <<class, anchor, objects, late>>
  /\ StillSteady

DeleteGateway(name) ==
  /\ gateways[name].exists
  /\ Event
  /\ gateways' = [gateways EXCEPT ![name].exists = FALSE]
  /\ Announce("gateways")
  /\ UNCHANGED <<class, anchor, objects, late>>
  /\ StillSteady

ChangeClass ==
  /\ Event
  /\ class' = ~class
  /\ Announce("class")
  /\ UNCHANGED <<gateways, anchor, objects, late>>
  /\ StillSteady

(* Helm installs another template; a revision is never used twice. *)
Upgrade ==
  /\ anchor < MaxTemplates
  /\ Event
  /\ anchor' = anchor + 1
  /\ UNCHANGED <<gateways, class, objects, late, proc, steady>>

(* The provisioner Deployment's strategy replaces a process whose template is not the anchor's. *)
Recreate(p) ==
  /\ proc[p].pc # "off" /\ proc[p].template # anchor
  /\ Become(p, Off(proc[p].resync))
  /\ UNCHANGED <<server, objects, late, bounds, steady>>

(* A reflector catches up, then notifies. *)
ReflectGateways(p) ==
  /\ "gateways" \in proc[p].behind
  /\ Local(p, [proc[p] EXCEPT !.cached = {u \in Uid : Live(u)}, !.behind = @ \ {"gateways"},
                              !.notice = TRUE])

ReflectClass(p) ==
  /\ "class" \in proc[p].behind
  /\ Local(p, [proc[p] EXCEPT !.cachedClass = class, !.behind = @ \ {"class"}, !.notice = TRUE])

(* Somebody else writes a generated object: edits it, deletes it, or puts another in its place. *)
Tamper(k, o) ==
  /\ strays < MaxStrayWrites
  /\ strays' = strays + 1
  /\ objects[k].state = "owned" \/ (objects[k].state = "absent" /\ o.state = "foreign")
  /\ objects' = [objects EXCEPT ![k] = [o EXCEPT !.rv = objects[k].rv + 1]]
  /\ UNCHANGED <<server, late, proc, events, faults, steady>>

Finalize(k) ==
  /\ objects[k].state = "deleting"
  /\ objects' = [objects EXCEPT ![k] = Absent(@.rv + 1)]
  /\ UNCHANGED <<server, late, proc, bounds, steady>>

-----------------------------------------------------------------------------
(* The cluster before the first process starts; the resync is a flag of the installation. *)
Installed ==
  /\ gateways \in [Names -> {[n |-> 0, exists |-> FALSE], [n |-> 1, exists |-> TRUE]}]
  /\ class \in BOOLEAN
  /\ anchor = 1
  /\ objects = [k \in Key |-> Absent(0)]
  /\ late = {}
  /\ \E resync \in Resync : proc = [p \in Procs |-> Off(resync)]
  /\ steady = [p \in Procs |-> FALSE]

Init == Installed /\ events = 0 /\ strays = 0 /\ faults = 0

Ensure(p) ==
  \/ CheckAnchor(p) \/ GatewaysDone(p) \/ GetGateway(p) \/ GetClass(p) \/ GetObject(p)
  \/ CheckBeforeWrite(p) \/ Write(p)
  \/ \E u \in proc[p].todo : NextGateway(p, u)
Prune(p) ==
  \/ List(p) \/ PruneDone(p) \/ GetOwner(p) \/ GetOwnerClass(p) \/ CheckBeforeDelete(p)
  \/ Delete(p) \/ FinishPass(p)
  \/ \E x \in proc[p].listed : NextObject(p, x)
Run(p) == Start(p) \/ Wake(p) \/ Ensure(p) \/ Prune(p)
Disturb(p) == RequestFails(p) \/ WriteTimesOut(p) \/ Crash(p)
Reflect(p) == ReflectGateways(p) \/ ReflectClass(p)
Edited(k) == {Absent(0), [objects[k] EXCEPT !.keys = {}],
              [objects[k] EXCEPT !.state = "foreign", !.last = 0, !.keys = {}]}
Cluster ==
  \/ \E name \in Names : CreateGateway(name) \/ DeleteGateway(name)
  \/ ChangeClass
  \/ Upgrade
  \/ \E k \in Key : \E o \in Edited(k) : Tamper(k, o)

Next ==
  \/ \E p \in Procs : Run(p) \/ Disturb(p) \/ Reflect(p) \/ Recreate(p)
  \/ \E w \in late : LateRequest(w)
  \/ \E k \in Key : Finalize(k)
  \/ Cluster

Spec == Init /\ [][Next]_vars

(* The process runs, its reflectors catch up, Kubernetes restarts, replaces and finalizes. *)
Scheduling ==
  /\ \A p \in Procs : WF_vars(Run(p)) /\ WF_vars(Reflect(p)) /\ WF_vars(Recreate(p))
  /\ WF_vars(\E w \in late : LateRequest(w))
  /\ \A k \in Key : WF_vars(Finalize(k))
FairSpec == Spec /\ Scheduling
-----------------------------------------------------------------------------
(* Properties. *)

Object == [state : {"absent", "owned", "deleting", "foreign"}, rv : Nat, last : 0..MaxTemplates,
           keys : SUBSET Templates]
WriteRequest == [key : Key, rv : Nat, template : Templates, op : {"create", "patch", "delete"}]
Listed == [resource : Resources, uid : Uid, rv : Nat]
Process ==
  [pc : Waiting \cup {"off", "sleep", "gateways", "prune"}, resync : BOOLEAN, template : Templates,
   ready : BOOLEAN, failed : BOOLEAN, notice : BOOLEAN,
   cached : SUBSET Uid, cachedClass : BOOLEAN, behind : SUBSET {"gateways", "class"},
   todo : SUBSET Uid, desired : SUBSET Uid, uid : Uid \cup {<<>>}, resource : Resources \cup {""}, i : Nat, attempt : 0..Retries,
   seen : [state : {"absent", "owned"}, rv : Nat], listed : SUBSET Listed, memo : [Key -> Nat]]

TypeOK ==
  /\ gateways \in [Names -> [n : 0..MaxIncarnations, exists : BOOLEAN]]
  /\ class \in BOOLEAN /\ anchor \in Templates
  /\ objects \in [Key -> Object]
  /\ late \in SUBSET WriteRequest
  /\ proc \in [Procs -> Process]
  /\ events \in 0..MaxEvents /\ strays \in 0..MaxStrayWrites /\ faults \in 0..MaxFaults
  /\ steady \in [Procs -> BOOLEAN]

(* An object the provisioner does not own is neither adopted nor pruned, even if it takes the  *)
(* place of an owned one between the read and the write (ensure and prune: UID and             *)
(* resourceVersion go with every patch and delete).                                            *)
ForeignUntouched ==
  [][\A k \in Key : objects[k].state = "foreign" => objects'[k] = objects[k]]_vars

(* No object of a Gateway that stays owned is deleted: loss of ownership is read live for every *)
(* object anew, never inferred from a cache or from the object before it (prune, live_owned).   *)
DeletesOnlyDisowned ==
  \A p \in Procs :
    /\ proc[p].pc \in {"recheck", "delete"}
    /\ ~Obsolete(proc[p].template, proc[p].resource)
    => ~steady[p]

(* Requests that may still reach the server. *)
Pending == late \cup {Request(proc[p]) : p \in {p \in Procs : proc[p].pc \in {"write", "delete"}}}

(* A process that Helm has replaced neither puts back to its older template an object that a     *)
(* newer one wrote last, nor prunes it: however late such a patch or delete arrives, the server  *)
(* refuses it (check_installation after the read, resourceVersion in the write).  This says      *)
(* nothing of a create, which carries no version and is taken whenever the object is absent,     *)
(* nor of a prune before the newer template's first write of the object: Provisions has the next *)
(* pass repair what those leave.                                                                 *)
StaleWritesRefused ==
  \A w \in Pending :
    w.op # "create" /\ Accepted(w) => objects[w.key].last <= w.template

(* A version in the memo is one that has the process's template in full: skipping the write is   *)
(* right however the server spells it (ConfirmedWrite).                                          *)
MemoSound ==
  \A p \in Procs, k \in Key :
    Confirmed(proc[p], k) /\ objects[k].state = "owned"
      => objects[k].last = proc[p].template /\ objects[k].keys = {proc[p].template}

(* Every owned Gateway ends up with the instance of the current template, unless a foreign      *)
(* object takes one of its names, and nothing is left of the others: with the resync always,    *)
(* without it as long as nobody else writes the objects.                                        *)
Complete(u) ==
  \A r \in Resources :
    LET o == objects[<<r, u>>] IN
    IF r \in Enabled(anchor) THEN o.state = "owned" /\ o.last = anchor /\ o.keys = {anchor}
                             ELSE o.state \in {"absent", "foreign"}
Blocked(u) == \E r \in Resources : objects[<<r, u>>].state = "foreign"
Gone(u) == \A r \in Resources : objects[<<r, u>>].state \in {"absent", "foreign"}

Provisions == <>[](\A u \in Uid : IF Owned(u) THEN Complete(u) \/ Blocked(u) ELSE Gone(u))

(* ... and then the provisioner stops writing, whatever the server respells.                    *)
Settles == <>[](\A p \in Procs : proc[p].pc \notin {"write", "delete"})
=============================================================================
