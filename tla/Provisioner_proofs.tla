------------------------- MODULE Provisioner_proofs -------------------------
(***************************************************************************)
(* Proofs about Provisioner, for any number of overlapping processes, any  *)
(* Gateways, templates and resources: what is not the provisioner's stays  *)
(* untouched, no write of a replaced process arrives, nothing of a Gateway *)
(* that stays owned is deleted, and the memo of confirmed writes is right. *)
(***************************************************************************)
EXTENDS Provisioner, TLAPS

(* The facts about a process and about a request are stated of a record r, a map os of the   *)
(* objects and a revision a of the anchor, so that they can be read before and after a step. *)

Ensuring == {"ensure", "guard", "write"}
Pruning == {"owner", "ownerclass", "recheck", "delete"}

(* Within a Gateway's or an object's turn, it is a Gateway or an object that has the turn. *)
Shaped(r) ==
  /\ r.pc \in {"gateway", "class"} \cup Ensuring \cup Pruning => r.uid \in Uid
  /\ r.pc \in Ensuring \cup Pruning => r.resource \in Resources
  /\ r.pc \in {"list", "prune"} \cup Pruning => r.i > 0

(* An object of the provisioner's had the version rv: if it still has it, it still is one. *)
ReadAt(os, k, rv) ==
  /\ rv <= os[k].rv
  /\ os[k].rv = rv => os[k].state \in {"owned", "deleting"}

(* A request that waits for the server: the version it names is one of the provisioner's own *)
(* object, which no later template had written.                                              *)
Justified(w, os) ==
  w.op # "create" => /\ ReadAt(os, w.key, w.rv)
                     /\ os[w.key].rv = w.rv => os[w.key].last <= w.template

(* The versions a process goes by.  The memo names versions that have its template in full.  *)
Versions(r, os) ==
  /\ r.pc \in {"guard", "write"} /\ r.seen.state = "owned" => ReadAt(os, Target(r), r.seen.rv)
  /\ r.pc \in Pruning => ReadAt(os, Target(r), r.seen.rv)
  /\ r.pc \in {"write", "delete"} => Justified(Request(r), os)
  /\ \A x \in r.listed : ReadAt(os, <<x.resource, x.uid>>, x.rv)

Memo(r, os) ==
  \A k \in Key :
    /\ r.memo[k] <= os[k].rv
    /\ r.memo[k] # 0 /\ r.memo[k] = os[k].rv /\ os[k].state = "owned"
         => os[k].last = r.template /\ os[k].keys = {r.template}

(* An object has the keys of its last template, and that template is not ahead of the anchor. *)
Sound(o, a) == o \in Object /\ o.last <= a /\ o.keys \subseteq {o.last}
Store(os, a) == os \in [Key -> Object] /\ \A k \in Key : Sound(os[k], a)

(* The invariant of one process, and of one request left behind *)
Good(r, os, a) ==
  /\ r \in Process /\ Shaped(r) /\ Versions(r, os) /\ Memo(r, os) /\ r.template <= a
Left(w, os, a) == w \in WriteRequest /\ w.template <= a /\ Justified(w, os)

(* A Gateway that has been owned throughout the turn of its object is owned now. *)
SteadyOwned ==
  \A p \in Procs : steady[p] /\ proc[p].pc \in Pruning => Owned(proc[p].uid)

(* What the processes, the requests and the store share, and the inductive invariant. *)
Core ==
  /\ Store(objects, anchor)
  /\ \A p \in Procs : Good(proc[p], objects, anchor)
  /\ \A w \in late : Left(w, objects, anchor)

IInv == TypeOK /\ Core /\ SteadyOwned /\ DeletesOnlyDisowned

-----------------------------------------------------------------------------
(* Processes. *)

(* What a process keeps through its turns, until it ends or finishes a pass. *)
Lasting(r, q) == q.template = r.template /\ q.memo = r.memo /\ q.listed = r.listed

(* The types of a process's fields. *)
LEMMA Fields ==
  ASSUME NEW r \in Process
  PROVE  /\ r.pc \in Waiting \cup {"off", "sleep", "gateways", "prune"}
         /\ r.template \in Templates /\ r.i \in Nat /\ r.attempt \in 0..Retries
         /\ r.cached \in SUBSET Uid /\ r.todo \in SUBSET Uid /\ r.desired \in SUBSET Uid
         /\ r.behind \in SUBSET {"gateways", "class"}
         /\ r.seen \in [state : {"absent", "owned"}, rv : Nat]
         /\ r.listed \in SUBSET Listed /\ r.memo \in [Key -> Nat]
BY DEF Process

(* A process between turns has the types and the shape. *)
LEMMA LeaveFacts ==
  ASSUME NEW r \in Process, NEW pc \in {"gateways", "prune"}, pc = "prune" => r.i > 0
  PROVE  /\ Leave(r, pc) \in Process /\ Shaped(Leave(r, pc))
         /\ Leave(r, pc).pc = pc /\ Lasting(r, Leave(r, pc))
<1> DEFINE q == Leave(r, pc)
           i == IF pc = "gateways" THEN 0 ELSE r.i
<1>1. q.pc = pc /\ q.i = i /\ Lasting(r, q)
  BY DEF Leave, Lasting, Process
<1>2. q \in Process
  <2>1. pc \in Waiting \cup {"off", "sleep", "gateways", "prune"}
    OBVIOUS
  <2>2. 0 \in 0..Retries
    BY BoundsAssumption
  <2>3. i \in Nat
    BY Fields
  <2>4. Unseen \in [state : {"absent", "owned"}, rv : Nat]
    BY DEF Unseen
  <2> QED BY <2>1, <2>2, <2>3, <2>4 DEF Leave, Process
<1>3. Shaped(q)
  BY <1>1 DEF Shaped, Ensuring, Pruning
<1> QED BY <1>1, <1>2, <1>3

(* A failed request: the process goes on with the next turn, and tries again later. *)
LEMMA FailedFacts ==
  ASSUME NEW r \in Process, Shaped(r), r.pc \in Waiting
  PROVE  /\ Failed(r) \in Process /\ Shaped(Failed(r))
         /\ Failed(r).pc \in {"sleep", "gateways", "list", "prune"} /\ Lasting(r, Failed(r))
<1> DEFINE q == Aborted(r)
<1>1. q \in Process /\ Shaped(q) /\ q.pc \in {"sleep", "gateways", "list", "prune"} /\ Lasting(r, q)
  <2>1. CASE r.pc = "check"
    <3>1. q = [r EXCEPT !.pc = "sleep", !.ready = FALSE, !.todo = {}]
      BY <2>1 DEF Aborted
    <3>2. q \in Process
      BY <3>1 DEF Process
    <3>3. q.pc = "sleep" /\ Lasting(r, q)
      BY <3>1 DEF Process, Lasting
    <3> QED BY <3>2, <3>3 DEF Shaped, Ensuring, Pruning
  <2>2. CASE r.pc \in {"gateway", "class", "ensure", "guard", "write"}
    BY <2>2, LeaveFacts DEF Aborted
  <2>3. CASE r.pc = "list"
    <3>1. q = [r EXCEPT !.i = r.i + 1]
      BY <2>3 DEF Aborted
    <3>2. r.i + 1 \in Nat /\ r.i + 1 > 0
      BY Fields
    <3>3. q \in Process
      BY <3>1, <3>2 DEF Process
    <3>4. q.pc = "list" /\ q.i > 0 /\ Lasting(r, q)
      BY <2>3, <3>1, <3>2 DEF Process, Lasting
    <3> QED BY <3>3, <3>4 DEF Shaped, Ensuring, Pruning
  <2>4. CASE r.pc \in {"owner", "ownerclass", "recheck", "delete"}
    <3>1. r.i > 0
      BY <2>4 DEF Shaped, Pruning
    <3> QED BY <2>4, <3>1, LeaveFacts DEF Aborted
  <2> QED BY <2>1, <2>2, <2>3, <2>4 DEF Waiting
<1>2. Failed(r) = [q EXCEPT !.failed = TRUE]
  BY DEF Failed
<1>3. Failed(r) \in Process
  BY <1>1, <1>2 DEF Process
<1>4. /\ Failed(r).pc = q.pc /\ Failed(r).uid = q.uid /\ Failed(r).resource = q.resource
      /\ Failed(r).i = q.i /\ Lasting(q, Failed(r))
  BY <1>1, <1>2 DEF Process, Lasting
<1> QED BY <1>1, <1>3, <1>4 DEF Shaped, Lasting

(* One more object to ensure, of the process's own template, or the next Gateway. *)
LEMMA AdvanceFacts ==
  ASSUME NEW r \in Process, r.uid \in Uid
  PROVE  /\ Advance(r) \in Process /\ Shaped(Advance(r))
         /\ Advance(r).pc \in {"ensure", "gateways"} /\ Lasting(r, Advance(r))
<1>1. CASE r.i < Len(Plan[r.template])
  <2> DEFINE x == Plan[r.template][r.i + 1]
             q == [r EXCEPT !.pc = "ensure", !.i = @ + 1, !.attempt = 1, !.resource = x]
  <2>1. Advance(r) = q
    BY <1>1 DEF Advance
  <2>2. Plan[r.template] \in Seq(Resources) /\ r.i \in Nat
    BY Fields, PlanAssumption
  <2>3. x \in Resources /\ r.i + 1 \in Nat
    BY <1>1, <2>2
  <2>4. 1 \in 0..Retries
    BY BoundsAssumption
  <2>5. q \in Process
    BY <2>3, <2>4 DEF Process, Waiting
  <2>6. q.pc = "ensure" /\ q.uid = r.uid /\ q.resource = x /\ Lasting(r, q)
    BY DEF Process, Lasting
  <2>7. Shaped(q)
    BY <2>3, <2>6 DEF Shaped, Ensuring, Pruning
  <2> QED BY <2>1, <2>5, <2>6, <2>7
<1>2. CASE ~(r.i < Len(Plan[r.template]))
  BY <1>2, LeaveFacts DEF Advance
<1> QED BY <1>1, <1>2

(* A process that is not running has the types and remembers nothing. *)
LEMMA OffFacts ==
  ASSUME NEW resync \in BOOLEAN
  PROVE  /\ Off(resync) \in Process /\ Shaped(Off(resync))
         /\ Off(resync).pc = "off" /\ Off(resync).template = 1
         /\ Off(resync).memo = NoMemo /\ Off(resync).listed = {}
<1>1. /\ 1 \in Templates /\ 0 \in 0..Retries /\ NoMemo \in [Key -> Nat]
      /\ Unseen \in [state : {"absent", "owned"}, rv : Nat]
  BY BoundsAssumption DEF Templates, NoMemo, Unseen
<1>2. Off(resync) \in Process
  BY <1>1 DEF Off, Process
<1>3. /\ Off(resync).pc = "off" /\ Off(resync).template = 1
      /\ Off(resync).memo = NoMemo /\ Off(resync).listed = {}
  BY DEF Off
<1> QED BY <1>2, <1>3 DEF Shaped, Ensuring, Pruning

-----------------------------------------------------------------------------
(* Objects and versions. *)

(* Every change of an object gives it a new version. *)
Newer(os, ot) == \A k \in Key : ot[k] = os[k] \/ ot[k].rv = os[k].rv + 1

(* An accepted request gives the object a new version or leaves it alone. *)
LEMMA ResultFacts ==
  ASSUME NEW a \in Nat, NEW o, Sound(o, a), NEW w \in WriteRequest, w.template <= a
  PROVE  /\ Sound(Result(w, o), a)
         /\ Result(w, o) = o \/ Result(w, o).rv = o.rv + 1
         /\ w.op \in {"create", "patch"} =>
              Result(w, o).last = w.template /\ Result(w, o).keys = {w.template}
<1> DEFINE c == Content(w, o)
<1>1. /\ o \in Object /\ o.last <= a /\ o.last \in 0..MaxTemplates /\ o.rv \in Nat
      /\ o.keys \subseteq {o.last} /\ o.keys \in SUBSET Templates
      /\ o.state \in {"absent", "owned", "deleting", "foreign"}
  BY DEF Sound, Object
<1>2. w.template \in Templates /\ w.template \in 0..MaxTemplates /\ w.op \in {"create", "patch", "delete"}
  BY BoundsAssumption DEF WriteRequest, Templates
<1>3. /\ c \in Object /\ c.rv = o.rv /\ c.last <= a /\ c.keys \subseteq {c.last}
      /\ w.op \in {"create", "patch"} => c.last = w.template /\ c.keys = {w.template}
  <2>1. CASE w.op = "create"
    <3>1. c = [o EXCEPT !.state = "owned", !.last = w.template, !.keys = {w.template}]
      BY <2>1 DEF Content
    <3>2. c \in Object
      <4>1. {w.template} \in SUBSET Templates
        BY <1>2
      <4> QED BY <1>1, <1>2, <3>1, <4>1 DEF Object
    <3>3. c.rv = o.rv /\ c.last = w.template /\ c.keys = {w.template}
      BY <1>1, <3>1 DEF Object
    <3> QED BY <3>2, <3>3
  <2>2. CASE w.op = "patch"
    <3>1. c = [o EXCEPT !.last = w.template, !.keys = (o.keys \ {o.last}) \cup {w.template}]
      BY <2>2 DEF Content, MergePatch
    <3>2. (o.keys \ {o.last}) \cup {w.template} = {w.template}
      BY <1>1
    <3>3. c \in Object
      BY <1>1, <1>2, <3>1, <3>2 DEF Object
    <3>4. c.rv = o.rv /\ c.last = w.template /\ c.keys = {w.template}
      BY <1>1, <3>1, <3>2 DEF Object
    <3> QED BY <3>3, <3>4
  <2>3. CASE w.op = "delete"
    <3>1. CASE w.key[1] \in Finalized
      <4>1. c = [o EXCEPT !.state = "deleting"]
        BY <2>3, <3>1 DEF Content
      <4> QED BY <1>1, <2>3, <4>1 DEF Object
    <3>2. CASE w.key[1] \notin Finalized
      <4>1. c = [state |-> "absent", rv |-> o.rv, last |-> 0, keys |-> {}]
        BY <2>3, <3>2 DEF Content, Absent
      <4>2. 0 <= a /\ 0 \in 0..MaxTemplates
        BY BoundsAssumption
      <4> QED BY <1>1, <2>3, <4>1, <4>2 DEF Object
    <3> QED BY <3>1, <3>2
  <2> QED BY <1>2, <2>1, <2>2, <2>3
<1>4. CASE c = o
  BY <1>3, <1>4 DEF Result, Sound
<1>5. CASE c # o
  <2>1. Result(w, o) = [c EXCEPT !.rv = o.rv + 1]
    BY <1>5 DEF Result
  <2>2. o.rv + 1 \in Nat
    BY <1>1
  <2> QED BY <1>3, <2>1, <2>2 DEF Object, Sound
<1> QED BY <1>4, <1>5

(* A version that was one of the provisioner's own object stays one. *)
LEMMA ReadAtKept ==
  ASSUME NEW os \in [Key -> Object], NEW ot \in [Key -> Object], Newer(os, ot),
         NEW k \in Key, NEW rv \in Nat, ReadAt(os, k, rv)
  PROVE  ReadAt(ot, k, rv) /\ (ot[k].rv = rv => ot[k] = os[k])
<1>1. os[k].rv \in Nat /\ ot[k].rv \in Nat
  BY DEF Object
<1>2. ot[k] = os[k] \/ ot[k].rv = os[k].rv + 1
  BY DEF Newer
<1> QED BY <1>1, <1>2 DEF ReadAt

(* A request that was justified stays so: it names the same version, or one that is gone. *)
LEMMA JustifiedKept ==
  ASSUME NEW os \in [Key -> Object], NEW ot \in [Key -> Object], Newer(os, ot),
         NEW w \in WriteRequest, Justified(w, os)
  PROVE  Justified(w, ot)
<1>1. w.key \in Key /\ w.rv \in Nat
  BY DEF WriteRequest
<1> QED BY <1>1, ReadAtKept DEF Justified

(* The write a process has decided on is a request. *)
LEMMA RequestType ==
  ASSUME NEW r \in Process, Shaped(r), r.pc \in {"write", "delete"}
  PROVE  /\ Request(r) \in WriteRequest /\ Target(r) \in Key
         /\ Request(r).key = Target(r) /\ Request(r).rv = r.seen.rv
         /\ Request(r).template = r.template
         /\ r.pc = "delete" => Request(r).op = "delete"
         /\ r.pc = "write" => Request(r).op = IF r.seen.state = "absent" THEN "create" ELSE "patch"
<1>1. r.uid \in Uid /\ r.resource \in Resources
  BY DEF Shaped, Ensuring, Pruning
<1>2. Target(r) \in Key
  BY <1>1 DEF Target, Key
<1>3. r.seen.rv \in Nat /\ r.template \in Templates
  BY Fields
<1> QED BY <1>2, <1>3 DEF Request, WriteRequest

(* What a process goes by stays right when others write. *)
LEMMA VersionsKept ==
  ASSUME NEW os \in [Key -> Object], NEW ot \in [Key -> Object], Newer(os, ot),
         NEW r \in Process, Shaped(r), Versions(r, os)
  PROVE  Versions(r, ot)
<1>1. r.pc \in Ensuring \cup Pruning => Target(r) \in Key
  BY DEF Shaped, Target, Key
<1>2. r.seen.rv \in Nat /\ r.listed \in SUBSET Listed
  BY Fields
<1>3. r.pc \in {"guard", "write"} /\ r.seen.state = "owned" => ReadAt(ot, Target(r), r.seen.rv)
  BY <1>1, <1>2, ReadAtKept DEF Versions, Ensuring
<1>4. r.pc \in Pruning => ReadAt(ot, Target(r), r.seen.rv)
  BY <1>1, <1>2, ReadAtKept DEF Versions
<1>5. r.pc \in {"write", "delete"} => Justified(Request(r), ot)
  BY RequestType, JustifiedKept DEF Versions
<1>6. ASSUME NEW x \in r.listed PROVE ReadAt(ot, <<x.resource, x.uid>>, x.rv)
  <2>1. <<x.resource, x.uid>> \in Key /\ x.rv \in Nat
    BY <1>2 DEF Listed, Key
  <2>2. ReadAt(os, <<x.resource, x.uid>>, x.rv)
    BY DEF Versions
  <2> QED BY <2>1, <2>2, ReadAtKept
<1> QED BY <1>3, <1>4, <1>5, <1>6 DEF Versions

(* The memo stays right: a version it names is unchanged or gone. *)
LEMMA MemoKept ==
  ASSUME NEW os \in [Key -> Object], NEW ot \in [Key -> Object], Newer(os, ot),
         NEW r \in Process, Memo(r, os)
  PROVE  Memo(r, ot)
<1> SUFFICES ASSUME NEW k \in Key
             PROVE  /\ r.memo[k] <= ot[k].rv
                    /\ r.memo[k] # 0 /\ r.memo[k] = ot[k].rv /\ ot[k].state = "owned"
                         => ot[k].last = r.template /\ ot[k].keys = {r.template}
  BY DEF Memo
<1>1. os[k].rv \in Nat /\ ot[k].rv \in Nat /\ r.memo[k] \in Nat
  BY Fields DEF Object
<1>2. ot[k] = os[k] \/ ot[k].rv = os[k].rv + 1
  BY DEF Newer
<1> QED BY <1>1, <1>2 DEF Memo

(* Between turns a process goes by nothing but its list and its memo. *)
LEMMA LastingKept ==
  ASSUME NEW os, NEW r \in Process, NEW q \in Process, Lasting(r, q),
         q.pc \notin {"guard", "write"} \cup Pruning, Versions(r, os), Memo(r, os)
  PROVE  Versions(q, os) /\ Memo(q, os)
<1>1. \A x \in q.listed : ReadAt(os, <<x.resource, x.uid>>, x.rv)
  BY DEF Versions, Lasting
<1>2. Versions(q, os)
  BY <1>1 DEF Versions, Pruning
<1>3. Memo(q, os)
  BY DEF Memo, Lasting
<1> QED BY <1>2, <1>3

-----------------------------------------------------------------------------
(* What the steps of a process make of it. *)

(* A process whose turn ends, or has not read anything yet *)
LEMMA BetweenTurns ==
  ASSUME NEW os, NEW a, NEW r, Good(r, os, a), NEW q \in Process, Shaped(q), Lasting(r, q),
         q.pc \notin {"guard", "write"} \cup Pruning
  PROVE  Good(q, os, a)
<1>1. Versions(q, os) /\ Memo(q, os)
  BY LastingKept DEF Good
<1> QED BY <1>1 DEF Good, Lasting

(* What concerns the reflectors and the run loop only leaves the rest of a process as it was. *)
LEMMA SameTurn ==
  ASSUME NEW os, NEW a, NEW r, Good(r, os, a), NEW q \in Process, Lasting(r, q),
         q.pc = r.pc, q.uid = r.uid, q.resource = r.resource, q.seen = r.seen, q.i = r.i
  PROVE  Good(q, os, a)
<1>1. Shaped(q)
  BY DEF Good, Shaped
<1>2. Target(q) = Target(r) /\ Request(q) = Request(r)
  BY DEF Target, Request, Lasting
<1>3. Versions(q, os)
  BY <1>2 DEF Good, Versions, Lasting
<1>4. Memo(q, os)
  BY DEF Good, Memo, Lasting
<1> QED BY <1>1, <1>3, <1>4 DEF Good, Lasting

(* A failed request *)
LEMMA FailedGood ==
  ASSUME NEW os, NEW a, NEW r, Good(r, os, a), r.pc \in Waiting
  PROVE  Good(Failed(r), os, a) /\ Failed(r).pc \notin Pruning
<1>1. /\ Failed(r) \in Process /\ Shaped(Failed(r)) /\ Lasting(r, Failed(r))
      /\ Failed(r).pc \in {"sleep", "gateways", "list", "prune"}
  BY FailedFacts DEF Good
<1> QED BY <1>1, BetweenTurns DEF Pruning

(* A process that ended *)
LEMMA OffGood ==
  ASSUME NEW os \in [Key -> Object], NEW a \in Templates, NEW resync \in BOOLEAN
  PROVE  Good(Off(resync), os, a)
<1> DEFINE q == Off(resync)
<1>1. q \in Process /\ Shaped(q) /\ q.pc = "off" /\ q.template = 1 /\ q.memo = NoMemo /\ q.listed = {}
  BY OffFacts
<1>2. 1 <= a
  BY DEF Templates
<1>3. Versions(q, os)
  BY <1>1 DEF Versions, Pruning
<1>4. Memo(q, os)
  BY <1>1 DEF Memo, NoMemo, Object
<1> QED BY <1>1, <1>2, <1>3, <1>4 DEF Good

(* Start: the process's template is the anchor's, and its memo is empty. *)
LEMMA StartGood ==
  ASSUME TypeOK, NEW p \in Procs, Start(p)
  PROVE  \E q : Become(p, q) /\ Good(q, objects, anchor) /\ q.pc \notin Pruning
<1> DEFINE o == Off(proc[p].resync)
           c == {u \in Uid : Live(u)}
           q == [o EXCEPT !.pc = "check", !.template = anchor, !.notice = TRUE,
                          !.cached = c, !.cachedClass = class, !.todo = {u \in c : class}]
<1>1. Become(p, q)
  BY DEF Start, Local
<1>2. proc[p].resync \in BOOLEAN /\ anchor \in Templates /\ class \in BOOLEAN
  BY DEF TypeOK, Process
<1>3. o \in Process /\ o.memo = NoMemo /\ o.listed = {}
  BY <1>2, OffFacts
<1>4. q \in Process
  <2>1. c \in SUBSET Uid /\ {u \in c : class} \in SUBSET Uid
    OBVIOUS
  <2> QED BY <1>2, <1>3, <2>1 DEF Process, Waiting
<1>5. q.pc = "check" /\ q.template = anchor /\ q.memo = NoMemo /\ q.listed = {}
  BY <1>3 DEF Process
<1>6. Shaped(q) /\ q.pc \notin Pruning
  BY <1>5 DEF Shaped, Ensuring, Pruning
<1>7. Versions(q, objects)
  BY <1>5 DEF Versions, Pruning
<1>8. Memo(q, objects)
  BY <1>5 DEF Memo, NoMemo, TypeOK, Object
<1>9. q.template <= anchor
  BY <1>2, <1>5 DEF Templates
<1> QED BY <1>1, <1>4, <1>6, <1>7, <1>8, <1>9 DEF Good

(* The steps from the wake-up to the first read of an object. *)
Selecting(p) ==
  \/ Wake(p) \/ CheckAnchor(p) \/ GatewaysDone(p) \/ GetGateway(p) \/ GetClass(p)
  \/ \E u \in proc[p].todo : NextGateway(p, u)

(* A Gateway that turns out not to be ours leaves its turn, and the desired set. *)
LEMMA NotOursFacts ==
  ASSUME NEW r \in Process
  PROVE  /\ NotOurs(r) \in Process /\ Shaped(NotOurs(r))
         /\ NotOurs(r).pc = "gateways" /\ Lasting(r, NotOurs(r))
<1> DEFINE l == Leave(r, "gateways")
<1>1. l \in Process /\ l.pc = "gateways" /\ Lasting(r, l)
  BY LeaveFacts
<1>2. NotOurs(r) = [l EXCEPT !.desired = l.desired \ {r.uid}]
  BY DEF NotOurs
<1>3. l.desired \ {r.uid} \in SUBSET Uid
  BY <1>1, Fields
<1>4. NotOurs(r) \in Process
  BY <1>1, <1>2, <1>3 DEF Process
<1>5. NotOurs(r).pc = "gateways" /\ Lasting(r, NotOurs(r))
  BY <1>1, <1>2 DEF Process, Lasting
<1> QED BY <1>4, <1>5 DEF Shaped, Ensuring, Pruning

(* Choosing the next Gateway keeps what the process knows. *)
LEMMA SelectingGood ==
  ASSUME NEW p \in Procs, Good(proc[p], objects, anchor), Selecting(p)
  PROVE  \E q : Become(p, q) /\ Good(q, objects, anchor) /\ q.pc \notin Pruning
<1> DEFINE r == proc[p]
<1>0. /\ r \in Process /\ Shaped(r) /\ r.todo \in SUBSET Uid /\ r.desired \in SUBSET Uid
      /\ r.cached \in SUBSET Uid
  BY Fields DEF Good
<1>a. SUFFICES \E q \in Process : /\ Become(p, q) /\ Shaped(q)
                                  /\ q.pc \notin {"guard", "write"} \cup Pruning
                                  /\ Lasting(r, q)
  BY BetweenTurns
<1>1. CASE Wake(p)
  <2> DEFINE q == [r EXCEPT !.pc = "check", !.notice = FALSE, !.failed = FALSE, !.todo = Ours(r)]
  <2>1. Become(p, q)
    BY <1>1 DEF Wake, Local
  <2>2. Ours(r) \in SUBSET Uid
    BY <1>0 DEF Ours
  <2>3. q \in Process
    BY <1>0, <2>2 DEF Process, Waiting
  <2>4. q.pc = "check" /\ Lasting(r, q)
    BY <1>0 DEF Process, Lasting
  <2> QED BY <2>1, <2>3, <2>4 DEF Shaped, Ensuring, Pruning
<1>2. CASE CheckAnchor(p)
  <2> DEFINE q == [r EXCEPT !.pc = "gateways"]
  <2>1. r.pc = "check" /\ (Become(p, q) \/ Become(p, Failed(r)))
    BY <1>2 DEF CheckAnchor, Local
  <2>2. CASE Become(p, Failed(r))
    BY <1>0, <2>1, <2>2, FailedFacts DEF Waiting, Pruning
  <2>3. q \in Process
    BY <1>0 DEF Process
  <2>4. q.pc = "gateways" /\ Lasting(r, q)
    BY <1>0 DEF Process, Lasting
  <2> QED BY <2>1, <2>2, <2>3, <2>4 DEF Shaped, Ensuring, Pruning
<1>3. CASE GatewaysDone(p)
  <2> DEFINE q == [r EXCEPT !.pc = "list", !.i = 1]
  <2>1. Become(p, q)
    BY <1>3 DEF GatewaysDone, Local
  <2>2. q \in Process
    BY <1>0 DEF Process, Waiting
  <2>3. q.pc = "list" /\ q.i = 1 /\ Lasting(r, q)
    BY <1>0 DEF Process, Lasting
  <2>4. Shaped(q) /\ q.pc \notin {"guard", "write"} \cup Pruning
    BY <2>3 DEF Shaped, Ensuring, Pruning
  <2> QED BY <2>1, <2>2, <2>3, <2>4
<1>4. CASE GetGateway(p)
  <2> DEFINE q == [r EXCEPT !.pc = "class"]
  <2>1. r.pc = "gateway" /\ (Become(p, q) \/ Become(p, NotOurs(r)))
    BY <1>4 DEF GetGateway, Local
  <2>2. CASE Become(p, NotOurs(r))
    BY <1>0, <2>2, NotOursFacts DEF Pruning
  <2>3. q \in Process
    BY <1>0 DEF Process, Waiting
  <2>4. q.pc = "class" /\ q.uid = r.uid /\ Lasting(r, q)
    BY <1>0 DEF Process, Lasting
  <2>5. r.uid \in Uid
    BY <1>0, <2>1 DEF Shaped
  <2>6. Shaped(q) /\ q.pc \notin {"guard", "write"} \cup Pruning
    BY <2>4, <2>5 DEF Shaped, Ensuring, Pruning
  <2> QED BY <2>1, <2>2, <2>3, <2>4, <2>6
<1>5. CASE GetClass(p)
  <2> DEFINE q == [r EXCEPT !.i = 0]
  <2>1. r.pc = "class" /\ (Become(p, Advance(q)) \/ Become(p, NotOurs(r)))
    BY <1>5 DEF GetClass, Local
  <2>2. CASE Become(p, NotOurs(r))
    BY <1>0, <2>2, NotOursFacts DEF Pruning
  <2>3. q \in Process
    BY <1>0 DEF Process
  <2>4. q.uid = r.uid /\ Lasting(r, q)
    BY <1>0 DEF Process, Lasting
  <2>5. r.uid \in Uid
    BY <1>0, <2>1 DEF Shaped
  <2>6. /\ Advance(q) \in Process /\ Shaped(Advance(q)) /\ Lasting(q, Advance(q))
        /\ Advance(q).pc \in {"ensure", "gateways"}
    BY <2>3, <2>4, <2>5, AdvanceFacts
  <2>7. Lasting(r, Advance(q))
    BY <2>4, <2>6 DEF Lasting
  <2> QED BY <2>1, <2>2, <2>6, <2>7 DEF Pruning
<1>6. CASE \E u \in r.todo : NextGateway(p, u)
  <2>1. PICK u \in r.todo : NextGateway(p, u)
    BY <1>6
  <2> DEFINE q == [r EXCEPT !.pc = "gateway", !.uid = u, !.todo = @ \ {u}, !.desired = @ \cup {u}]
  <2>2. Become(p, q)
    BY <2>1 DEF NextGateway, Local
  <2>3. u \in Uid /\ r.todo \ {u} \in SUBSET Uid /\ r.desired \cup {u} \in SUBSET Uid
    BY <1>0
  <2>4. q \in Process
    BY <1>0, <2>3 DEF Process, Waiting
  <2>5. q.pc = "gateway" /\ q.uid = u /\ Lasting(r, q)
    BY <1>0 DEF Process, Lasting
  <2>6. Shaped(q) /\ q.pc \notin {"guard", "write"} \cup Pruning
    BY <2>3, <2>5 DEF Shaped, Ensuring, Pruning
  <2> QED BY <2>2, <2>4, <2>5, <2>6
<1> QED BY <1>1, <1>2, <1>3, <1>4, <1>5, <1>6 DEF Selecting

(* A request carried out leaves a sound store, newer than the old one. *)
LEMMA CarryFacts ==
  ASSUME anchor \in Nat, Store(objects, anchor), NEW w \in WriteRequest, w.template <= anchor, Carry(w)
  PROVE  /\ Store(objects', anchor) /\ Newer(objects, objects')
         /\ objects'[w.key] = Result(w, objects[w.key])
         /\ \A k \in Key : k # w.key => objects'[k] = objects[k]
<1>1. w.key \in Key
  BY DEF WriteRequest
<1> DEFINE new == Result(w, objects[w.key])
<1>2. objects' = [objects EXCEPT ![w.key] = new] /\ objects \in [Key -> Object]
  BY DEF Carry, Store
<1>3. Sound(new, anchor) /\ (new = objects[w.key] \/ new.rv = objects[w.key].rv + 1)
  BY <1>1, ResultFacts DEF Store
<1>4. objects'[w.key] = new /\ \A k \in Key : k # w.key => objects'[k] = objects[k]
  BY <1>1, <1>2
<1>5. objects' \in [Key -> Object]
  BY <1>1, <1>2, <1>3 DEF Sound
<1>6. \A k \in Key : Sound(objects'[k], anchor)
  BY <1>3, <1>4 DEF Store
<1>7. Newer(objects, objects')
  BY <1>3, <1>4 DEF Newer
<1> QED BY <1>4, <1>5, <1>6, <1>7 DEF Store

(* ensure, up to its decision: what it has seen is the version in place. *)
LEMMA GetObjectGood ==
  ASSUME NEW p \in Procs, Good(proc[p], objects, anchor), Store(objects, anchor), GetObject(p)
  PROVE  \E q : Become(p, q) /\ Good(q, objects, anchor) /\ q.pc \notin Pruning
<1> DEFINE r == proc[p]
           k == Target(r)
           o == objects[k]
           read == [r EXCEPT !.pc = "guard", !.seen = [state |-> o.state, rv |-> o.rv]]
<1>0. /\ r \in Process /\ Shaped(r) /\ r.pc = "ensure" /\ r.memo \in [Key -> Nat]
      /\ r.uid \in Uid /\ r.resource \in Resources /\ k \in Key
  BY Fields DEF Good, GetObject, Shaped, Ensuring, Target, Key
<1>1. o \in Object /\ o.rv \in Nat
  BY <1>0 DEF Store, Object
<1>2. ASSUME o.state \in {"absent", "owned"}
      PROVE  /\ read \in Process /\ read.pc = "guard" /\ read.seen = [state |-> o.state, rv |-> o.rv]
             /\ read.uid = r.uid /\ read.resource = r.resource /\ Lasting(r, read) /\ Shaped(read)
  <2>1. [state |-> o.state, rv |-> o.rv] \in [state : {"absent", "owned"}, rv : Nat]
    BY <1>1, <1>2
  <2>2. read \in Process
    BY <1>0, <2>1 DEF Process, Waiting
  <2>3. /\ read.pc = "guard" /\ read.seen = [state |-> o.state, rv |-> o.rv]
        /\ read.uid = r.uid /\ read.resource = r.resource /\ Lasting(r, read)
    BY <1>0 DEF Process, Lasting
  <2> QED BY <1>0, <2>2, <2>3 DEF Shaped, Ensuring, Pruning
<1>3. CASE o.state = "absent"
  <2> DEFINE q == [read EXCEPT !.memo[k] = 0]
             memo == [r.memo EXCEPT ![k] = 0]
  <2>1. Become(p, q)
    BY <1>3 DEF GetObject, Local
  <2>2. memo \in [Key -> Nat] /\ read.memo = r.memo
    BY <1>0, <1>2, <1>3 DEF Lasting
  <2>3. q \in Process
    BY <1>2, <1>3, <2>2 DEF Process
  <2>4. /\ q.pc = "guard" /\ q.seen.state = "absent" /\ q.uid = r.uid /\ q.resource = r.resource
        /\ q.memo = memo /\ q.listed = r.listed /\ q.template = r.template
    BY <1>2, <1>3, <2>2 DEF Process, Lasting
  <2>5. Shaped(q)
    BY <1>0, <2>4 DEF Shaped, Ensuring, Pruning
  <2>6. Versions(q, objects)
    BY <2>4 DEF Versions, Pruning, Good
  <2>7. Memo(q, objects)
    BY <1>0, <1>1, <2>4 DEF Memo, Good
  <2> QED BY <2>1, <2>3, <2>4, <2>5, <2>6, <2>7 DEF Good, Pruning
<1>4. CASE o.state \in {"foreign", "deleting"}
  <2>1. Become(p, Failed(r))
    BY <1>4 DEF GetObject, Local
  <2> QED BY <1>0, <2>1, FailedGood DEF Waiting
<1>5. CASE o.state = "owned" /\ (Confirmed(r, k) \/ UpToDate(k, o, r.template))
  <2>1. Become(p, Advance(r))
    BY <1>5 DEF GetObject, Local
  <2>2. /\ Advance(r) \in Process /\ Shaped(Advance(r)) /\ Lasting(r, Advance(r))
        /\ Advance(r).pc \in {"ensure", "gateways"}
    BY <1>0, AdvanceFacts
  <2> QED BY <2>1, <2>2, BetweenTurns DEF Pruning
<1>6. CASE o.state = "owned" /\ ~(Confirmed(r, k) \/ UpToDate(k, o, r.template))
  <2>1. Become(p, read)
    BY <1>6 DEF GetObject, Local
  <2>2. Target(read) = k /\ read.seen.rv = o.rv /\ read.listed = r.listed
    BY <1>2, <1>6 DEF Target, Lasting
  <2>3. ReadAt(objects, k, o.rv)
    BY <1>1, <1>6 DEF ReadAt
  <2>4. Versions(read, objects)
    BY <1>2, <1>6, <2>2, <2>3 DEF Versions, Pruning, Good
  <2>5. Memo(read, objects)
    BY <1>2, <1>6 DEF Memo, Good, Lasting
  <2> QED BY <1>2, <1>6, <2>1, <2>4, <2>5 DEF Good, Lasting, Pruning
<1> QED BY <1>1, <1>3, <1>4, <1>5, <1>6 DEF Object

(* check_installation before a write: an object seen before the anchor was found unchanged   *)
(* has no later template, unless it is another version by now.                               *)
LEMMA CheckBeforeWriteGood ==
  ASSUME NEW p \in Procs, Good(proc[p], objects, anchor), Store(objects, anchor), CheckBeforeWrite(p)
  PROVE  \E q : Become(p, q) /\ Good(q, objects, anchor) /\ q.pc \notin Pruning
<1> DEFINE r == proc[p]
           q == [r EXCEPT !.pc = "write"]
<1>0. r \in Process /\ Shaped(r) /\ r.pc = "guard" /\ Versions(r, objects)
  BY DEF Good, CheckBeforeWrite
<1>1. CASE anchor # r.template
  <2>1. Become(p, Failed(r))
    BY <1>1 DEF CheckBeforeWrite, Local
  <2> QED BY <1>0, <2>1, FailedGood DEF Waiting
<1>2. CASE anchor = r.template
  <2>1. Become(p, q)
    BY <1>2 DEF CheckBeforeWrite, Local
  <2>2. q \in Process
    BY <1>0 DEF Process, Waiting
  <2>3. /\ q.pc = "write" /\ q.seen = r.seen /\ q.uid = r.uid /\ q.resource = r.resource
        /\ Lasting(r, q)
    BY <1>0 DEF Process, Lasting
  <2>4. Shaped(q) /\ Target(q) = Target(r)
    BY <1>0, <2>3 DEF Shaped, Ensuring, Pruning, Target
  <2>5. Justified(Request(q), objects)
    <3>1. /\ Request(q).key = Target(r) /\ Target(r) \in Key /\ Request(q).rv = r.seen.rv
          /\ Request(q).template = anchor
          /\ Request(q).op = IF r.seen.state = "absent" THEN "create" ELSE "patch"
      BY <1>2, <2>2, <2>3, <2>4, RequestType DEF Lasting
    <3>2. r.seen.state \in {"absent", "owned"}
      BY <1>0, Fields
    <3>3. r.seen.state = "owned" => ReadAt(objects, Target(r), r.seen.rv)
      BY <1>0 DEF Versions
    <3>4. objects[Target(r)].last <= anchor
      BY <3>1 DEF Store, Sound
    <3> QED BY <3>1, <3>2, <3>3, <3>4 DEF Justified
  <2>6. Versions(q, objects)
    BY <1>0, <2>3, <2>4, <2>5 DEF Versions, Pruning, Lasting
  <2>7. Memo(q, objects)
    BY <2>3 DEF Memo, Good, Lasting
  <2> QED BY <2>1, <2>2, <2>3, <2>4, <2>6, <2>7 DEF Good, Lasting, Pruning
<1> QED BY <1>1, <1>2

(* A write that the server takes is recorded in the memo under the version it made; one that *)
(* it refuses starts over or fails.                                                          *)
LEMMA WriteGood ==
  ASSUME anchor \in Nat, NEW p \in Procs, Good(proc[p], objects, anchor), Store(objects, anchor), Write(p)
  PROVE  /\ \E q : Become(p, q) /\ Good(q, objects', anchor) /\ q.pc \notin Pruning
         /\ Store(objects', anchor) /\ Newer(objects, objects')
         /\ \A k \in Key : objects[k].state = "foreign" => objects'[k] = objects[k]
<1> DEFINE r == proc[p]
           w == Request(r)
           k == w.key
<1>0. r \in Process /\ Shaped(r) /\ r.pc = "write" /\ Versions(r, objects) /\ Memo(r, objects)
  BY DEF Good, Write
<1>1. /\ w \in WriteRequest /\ k \in Key /\ k = Target(r) /\ w.template = r.template
      /\ w.op \in {"create", "patch"} /\ Justified(w, objects)
  BY <1>0, RequestType DEF Versions
<1>2. w.template <= anchor /\ r.uid \in Uid
  BY <1>0, <1>1 DEF Good, Shaped, Ensuring
<1>3. CASE Accepted(w)
  <2> DEFINE memo == [r.memo EXCEPT ![k] = objects'[k].rv]
             r1 == [r EXCEPT !.memo[k] = objects'[k].rv]
             q == Advance(r1)
  <2>1. Carry(w) /\ Become(p, q)
    BY <1>3 DEF Write
  <2>2. /\ Store(objects', anchor) /\ Newer(objects, objects')
        /\ objects'[k] = Result(w, objects[k])
        /\ \A j \in Key : j # k => objects'[j] = objects[j]
    BY <1>1, <1>2, <2>1, CarryFacts
  <2>3. r.memo \in [Key -> Nat] /\ objects'[k].rv \in Nat
    BY <1>0, <1>1, <2>2, Fields DEF Store, Object
  <2>4. r1 \in Process
    <3>1. memo \in [Key -> Nat]
      BY <2>3
    <3>2. r1 = [r EXCEPT !.memo = memo]
      BY <1>0 DEF Process
    <3> QED BY <1>0, <3>1, <3>2 DEF Process
  <2>5. r1.memo = memo /\ r1.template = r.template /\ r1.listed = r.listed /\ r1.uid = r.uid
    BY <1>0 DEF Process
  <2>6. q \in Process /\ Shaped(q) /\ q.pc \in {"ensure", "gateways"} /\ Lasting(r1, q)
    BY <1>2, <2>4, <2>5, AdvanceFacts
  <2>7. Versions(r, objects') /\ Memo(r, objects')
    BY <1>0, <2>2, VersionsKept, MemoKept DEF Store
  <2>8. Versions(q, objects')
    BY <2>5, <2>6, <2>7 DEF Versions, Lasting, Pruning
  <2>9. Memo(q, objects')
    <3>1. objects'[k].last = r.template /\ objects'[k].keys = {r.template}
      BY <1>1, <1>2, <2>2, ResultFacts DEF Store
    <3>2. q.memo = memo /\ q.template = r.template
      BY <2>5, <2>6 DEF Lasting
    <3> QED BY <2>3, <2>7, <3>1, <3>2 DEF Memo
  <2>10. Good(q, objects', anchor)
    BY <1>1, <1>2, <2>5, <2>6, <2>8, <2>9 DEF Good, Lasting
  <2>11. objects[k].state # "foreign"
    <3>1. CASE w.op = "create"
      BY <1>3, <3>1 DEF Accepted
    <3>2. CASE w.op = "patch"
      BY <1>1, <1>3, <3>2 DEF Accepted, Justified, ReadAt
    <3> QED BY <1>1, <3>1, <3>2
  <2> QED BY <2>1, <2>2, <2>6, <2>10, <2>11 DEF Pruning
<1>4. CASE ~Accepted(w)
  <2>1. UNCHANGED objects /\ (Become(p, Failed(r)) \/ Become(p, Retry(r)))
    BY <1>4 DEF Write
  <2>2. Good(Failed(r), objects, anchor) /\ Failed(r).pc \notin Pruning
    BY <1>0, FailedGood DEF Waiting
  <2>3. Good(Retry(r), objects, anchor) /\ Retry(r).pc \notin Pruning
    <3>1. CASE ~(r.attempt < Retries)
      BY <2>2, <3>1 DEF Retry
    <3>2. CASE r.attempt < Retries
      <4> DEFINE q == [r EXCEPT !.pc = "ensure", !.attempt = r.attempt + 1]
      <4>1. Retry(r) = q
        BY <3>2 DEF Retry
      <4>2. r.attempt + 1 \in 0..Retries
        BY <1>0, <3>2, Fields, BoundsAssumption
      <4>3. q \in Process
        BY <1>0, <4>2 DEF Process, Waiting
      <4>4. q.pc = "ensure" /\ q.uid = r.uid /\ q.resource = r.resource /\ Lasting(r, q)
        BY <1>0 DEF Process, Lasting
      <4>5. Shaped(q)
        BY <1>0, <4>4 DEF Shaped, Ensuring, Pruning
      <4> QED BY <4>1, <4>3, <4>4, <4>5, BetweenTurns DEF Pruning
    <3> QED BY <3>1, <3>2
  <2>4. objects' = objects /\ Newer(objects, objects)
    BY <2>1 DEF Newer
  <2> QED BY <2>1, <2>2, <2>3, <2>4
<1> QED BY <1>3, <1>4

(* What the cleanup lists is the provisioner's own. *)
LEMMA ListGood ==
  ASSUME NEW p \in Procs, Good(proc[p], objects, anchor), Store(objects, anchor), List(p)
  PROVE  \E q : Become(p, q) /\ Good(q, objects, anchor)
<1> DEFINE r == proc[p]
           K == {k \in CleanupOrder[r.i] \X Uid :
                  /\ objects[k].state \in {"owned", "deleting"}
                  /\ k[2] \notin r.desired \/ Obsolete(r.template, k[1])}
           L == {[resource |-> k[1], uid |-> k[2], rv |-> objects[k].rv] : k \in K}
           q == [r EXCEPT !.pc = "prune", !.listed = L]
<1>0. r \in Process /\ Shaped(r) /\ r.pc = "list" /\ r.i <= Len(CleanupOrder) /\ r.i \in Nat /\ r.i > 0
  BY Fields DEF Good, List, Shaped
<1>1. Become(p, q)
  BY DEF List, Local
<1>2. CleanupOrder[r.i] \in SUBSET Resources
  BY <1>0, CleanupAssumption
<1>3. ASSUME NEW k \in K
      PROVE  /\ k \in Key /\ k = <<k[1], k[2]>> /\ k[1] \in Resources /\ k[2] \in Uid
             /\ objects[k].rv \in Nat /\ objects[k].state \in {"owned", "deleting"}
  BY <1>2 DEF Key, Store, Object
<1>4. L \in SUBSET Listed
  BY <1>3 DEF Listed
<1>5. \A x \in L : ReadAt(objects, <<x.resource, x.uid>>, x.rv)
  <2> SUFFICES ASSUME NEW k \in K
               PROVE  ReadAt(objects, k, objects[k].rv)
    BY <1>3
  <2> QED BY <1>3 DEF ReadAt
<1>6. q \in Process
  BY <1>0, <1>4 DEF Process
<1>7. q.pc = "prune" /\ q.i = r.i /\ q.listed = L /\ q.template = r.template /\ q.memo = r.memo
  BY <1>0 DEF Process
<1>8. Shaped(q)
  BY <1>0, <1>7 DEF Shaped, Ensuring, Pruning
<1>9. Versions(q, objects)
  BY <1>5, <1>7 DEF Versions, Pruning
<1>10. Memo(q, objects)
  BY <1>7 DEF Memo, Good
<1> QED BY <1>1, <1>6, <1>7, <1>8, <1>9, <1>10 DEF Good

(* The turn of an object begins with the version that was listed. *)
LEMMA NextObjectGood ==
  ASSUME NEW p \in Procs, Good(proc[p], objects, anchor), NEW x \in proc[p].listed, NextObject(p, x)
  PROVE  \E q : Become(p, q) /\ Good(q, objects, anchor)
<1> DEFINE r == proc[p]
           q == [r EXCEPT !.pc = "owner", !.uid = x.uid, !.listed = @ \ {x},
                          !.resource = x.resource, !.seen = [state |-> "owned", rv |-> x.rv]]
<1>0. /\ r \in Process /\ Shaped(r) /\ r.pc = "prune" /\ r.i > 0 /\ r.listed \in SUBSET Listed
      /\ ReadAt(objects, <<x.resource, x.uid>>, x.rv)
  BY Fields DEF Good, NextObject, Shaped, Versions
<1>1. Become(p, q)
  BY DEF NextObject
<1>2. /\ x.uid \in Uid /\ x.resource \in Resources /\ r.listed \ {x} \in SUBSET Listed
      /\ [state |-> "owned", rv |-> x.rv] \in [state : {"absent", "owned"}, rv : Nat]
  BY <1>0 DEF Listed
<1>3. q \in Process
  BY <1>0, <1>2 DEF Process, Waiting
<1>4. /\ q.pc = "owner" /\ q.uid = x.uid /\ q.resource = x.resource /\ q.seen.rv = x.rv
      /\ q.i = r.i /\ q.listed = r.listed \ {x} /\ q.template = r.template /\ q.memo = r.memo
  BY <1>0 DEF Process
<1>5. Shaped(q)
  BY <1>0, <1>2, <1>4 DEF Shaped, Ensuring, Pruning
<1>6. ReadAt(objects, Target(q), q.seen.rv)
  BY <1>0, <1>4 DEF Target
<1>7. \A y \in q.listed : ReadAt(objects, <<y.resource, y.uid>>, y.rv)
  BY <1>4 DEF Good, Versions
<1>8. Versions(q, objects)
  BY <1>4, <1>6, <1>7 DEF Versions, Pruning
<1>9. Memo(q, objects)
  BY <1>4 DEF Memo, Good
<1> QED BY <1>1, <1>3, <1>4, <1>5, <1>8, <1>9 DEF Good

(* The rest of an object's turn up to its delete, and the end of a list *)
Confirming(p) == PruneDone(p) \/ GetOwner(p) \/ GetOwnerClass(p) \/ CheckBeforeDelete(p)

(* So do the questions asked before an object is deleted. *)
LEMMA ConfirmingGood ==
  ASSUME NEW p \in Procs, Good(proc[p], objects, anchor), Store(objects, anchor), Confirming(p)
  PROVE  \E q : Become(p, q) /\ Good(q, objects, anchor)
<1> DEFINE r == proc[p]
<1>0. r \in Process /\ Shaped(r) /\ Versions(r, objects)
  BY DEF Good
<1>1. CASE PruneDone(p)
  <2> DEFINE q == [r EXCEPT !.pc = "list", !.i = r.i + 1]
  <2>1. Become(p, q)
    BY <1>1 DEF PruneDone, Local
  <2>2. r.i + 1 \in Nat /\ r.i + 1 > 0
    BY <1>0, Fields
  <2>3. q \in Process
    BY <1>0, <2>2 DEF Process, Waiting
  <2>4. q.pc = "list" /\ q.i = r.i + 1 /\ Lasting(r, q)
    BY <1>0 DEF Process, Lasting
  <2>5. Shaped(q)
    BY <2>2, <2>4 DEF Shaped, Ensuring, Pruning
  <2> QED BY <2>1, <2>3, <2>4, <2>5, BetweenTurns DEF Pruning
<1>2. ASSUME NEW pc \in {"ownerclass", "recheck"}, r.pc \in Pruning
      PROVE  Good([r EXCEPT !.pc = pc], objects, anchor)
  <2> DEFINE q == [r EXCEPT !.pc = pc]
  <2>1. q \in Process
    BY <1>0 DEF Process, Waiting
  <2>2. /\ q.pc = pc /\ q.uid = r.uid /\ q.resource = r.resource /\ q.seen = r.seen /\ q.i = r.i
        /\ Lasting(r, q)
    BY <1>0 DEF Process, Lasting
  <2>3. Shaped(q) /\ Target(q) = Target(r)
    BY <1>0, <1>2, <2>2 DEF Shaped, Ensuring, Pruning, Target
  <2>4. Versions(q, objects)
    BY <1>0, <1>2, <2>2, <2>3 DEF Versions, Pruning, Lasting
  <2>5. Memo(q, objects)
    BY <2>2 DEF Memo, Good, Lasting
  <2> QED BY <2>1, <2>2, <2>3, <2>4, <2>5 DEF Good, Lasting
<1>3. CASE GetOwner(p)
  <2>1. /\ r.pc = "owner"
        /\ Become(p, [r EXCEPT !.pc = "ownerclass"]) \/ Become(p, [r EXCEPT !.pc = "recheck"])
    BY <1>3 DEF GetOwner, Local
  <2> QED BY <1>2, <2>1 DEF Pruning
<1>4. CASE GetOwnerClass(p)
  <2>1. /\ r.pc = "ownerclass"
        /\ Become(p, Leave(r, "prune")) \/ Become(p, [r EXCEPT !.pc = "recheck"])
    BY <1>4 DEF GetOwnerClass, Local
  <2>2. CASE Become(p, Leave(r, "prune"))
    <3>1. r.i > 0
      BY <1>0, <2>1 DEF Shaped, Pruning
    <3> QED BY <1>0, <2>2, <3>1, LeaveFacts, BetweenTurns DEF Pruning
  <2> QED BY <1>2, <2>1, <2>2 DEF Pruning
<1>5. CASE CheckBeforeDelete(p) /\ anchor # r.template
  <2>1. r.pc = "recheck" /\ Become(p, Failed(r))
    BY <1>5 DEF CheckBeforeDelete, Local
  <2> QED BY <2>1, FailedGood DEF Waiting
<1>6. CASE CheckBeforeDelete(p) /\ anchor = r.template
  <2> DEFINE q == [r EXCEPT !.pc = "delete"]
  <2>1. r.pc = "recheck" /\ Become(p, q)
    BY <1>6 DEF CheckBeforeDelete, Local
  <2>2. q \in Process
    BY <1>0 DEF Process, Waiting
  <2>3. /\ q.pc = "delete" /\ q.uid = r.uid /\ q.resource = r.resource /\ q.seen = r.seen /\ q.i = r.i
        /\ Lasting(r, q)
    BY <1>0 DEF Process, Lasting
  <2>4. Shaped(q) /\ Target(q) = Target(r)
    BY <1>0, <2>1, <2>3 DEF Shaped, Ensuring, Pruning, Target
  <2>5. ReadAt(objects, Target(q), q.seen.rv)
    BY <1>0, <2>1, <2>3, <2>4 DEF Versions, Pruning
  <2>6. Justified(Request(q), objects)
    <3>1. /\ Request(q).key = Target(q) /\ Target(q) \in Key /\ Request(q).rv = q.seen.rv
          /\ Request(q).template = anchor
      BY <1>6, <2>2, <2>3, <2>4, RequestType DEF Lasting
    <3>2. objects[Target(q)].last <= anchor
      BY <3>1 DEF Store, Sound
    <3> QED BY <2>5, <3>1, <3>2 DEF Justified
  <2>7. Versions(q, objects)
    BY <1>0, <2>3, <2>5, <2>6 DEF Versions, Lasting
  <2>8. Memo(q, objects)
    BY <2>3 DEF Memo, Good, Lasting
  <2> QED BY <2>1, <2>2, <2>3, <2>4, <2>7, <2>8 DEF Good, Lasting
<1> QED BY <1>1, <1>3, <1>4, <1>5, <1>6 DEF Confirming

(* A delete goes to an object of the provisioner's own or is refused. *)
LEMMA DeleteGood ==
  ASSUME anchor \in Nat, NEW p \in Procs, Good(proc[p], objects, anchor), Store(objects, anchor), Delete(p)
  PROVE  /\ \E q : Become(p, q) /\ Good(q, objects', anchor) /\ q.pc \notin Pruning
         /\ Store(objects', anchor) /\ Newer(objects, objects')
         /\ \A k \in Key : objects[k].state = "foreign" => objects'[k] = objects[k]
<1> DEFINE r == proc[p]
           w == Request(r)
           k == w.key
           l == Leave(r, "prune")
           q == [l EXCEPT !.memo[k] = 0]
<1>0. /\ r \in Process /\ Shaped(r) /\ r.pc = "delete" /\ r.i > 0
      /\ Versions(r, objects) /\ Memo(r, objects) /\ r.template <= anchor
  BY DEF Good, Delete, Shaped, Pruning
<1>1. w \in WriteRequest /\ k \in Key /\ w.template <= anchor /\ w.op = "delete" /\ Justified(w, objects)
  BY <1>0, RequestType DEF Versions
<1>2. l \in Process /\ Shaped(l) /\ l.pc = "prune" /\ Lasting(r, l)
  BY <1>0, LeaveFacts
<1>3. ASSUME NEW os \in [Key -> Object], Versions(r, os), Memo(r, os)
      PROVE  Good(q, os, anchor) /\ q.pc \notin Pruning
  <2> DEFINE memo == [l.memo EXCEPT ![k] = 0]
  <2>1. l.memo \in [Key -> Nat] /\ memo \in [Key -> Nat]
    BY <1>1, <1>2, Fields
  <2>2. q \in Process
    <3>1. q = [l EXCEPT !.memo = memo]
      BY <1>2 DEF Process
    <3> QED BY <1>2, <2>1, <3>1 DEF Process
  <2>3. /\ q.pc = "prune" /\ q.i = l.i /\ q.uid = l.uid /\ q.resource = l.resource /\ q.memo = memo
        /\ q.template = r.template /\ q.listed = r.listed
    BY <1>2 DEF Process, Lasting
  <2>4. Shaped(q)
    BY <1>2, <2>3 DEF Shaped
  <2>5. Versions(q, os)
    BY <1>3, <2>3 DEF Versions, Pruning
  <2>6. Memo(q, os)
    <3>1. \A j \in Key : os[j].rv \in Nat
      BY DEF Object
    <3>2. q.memo = [r.memo EXCEPT ![k] = 0] /\ r.memo \in [Key -> Nat]
      BY <1>2, <2>1, <2>3 DEF Lasting
    <3> QED BY <1>3, <2>3, <3>1, <3>2 DEF Memo
  <2> QED BY <1>0, <2>2, <2>3, <2>4, <2>5, <2>6 DEF Good, Pruning
<1>4. objects \in [Key -> Object] /\ Newer(objects, objects)
  BY DEF Store, Newer
<1>5. CASE objects[k].state = "absent"
  <2>1. objects' = objects /\ Become(p, q)
    BY <1>5 DEF Delete
  <2> QED BY <1>0, <1>3, <1>4, <2>1
<1>6. CASE objects[k].state # "absent" /\ ~Accepted(w)
  <2>1. objects' = objects /\ Become(p, Failed(r))
    BY <1>6 DEF Delete
  <2> QED BY <1>0, <1>4, <2>1, FailedGood DEF Waiting
<1>7. CASE objects[k].state # "absent" /\ Accepted(w)
  <2>1. Carry(w) /\ Become(p, q)
    BY <1>7 DEF Delete
  <2>2. /\ Store(objects', anchor) /\ Newer(objects, objects')
        /\ \A j \in Key : j # k => objects'[j] = objects[j]
    BY <1>1, <2>1, CarryFacts
  <2>3. objects[k].state # "foreign"
    BY <1>1, <1>7 DEF Accepted, Justified, ReadAt
  <2>4. objects' \in [Key -> Object] /\ Versions(r, objects') /\ Memo(r, objects')
    BY <1>0, <1>4, <2>2, VersionsKept, MemoKept DEF Store
  <2>5. Good(q, objects', anchor) /\ q.pc \notin Pruning
    BY <1>3, <2>4
  <2> QED BY <2>1, <2>2, <2>3, <2>5
<1> QED BY <1>5, <1>6, <1>7

(* The end of a pass drops memos, and adds none. *)
LEMMA FinishPassGood ==
  ASSUME NEW p \in Procs, Good(proc[p], objects, anchor), Store(objects, anchor), FinishPass(p)
  PROVE  \E q : Become(p, q) /\ Good(q, objects, anchor) /\ q.pc \notin Pruning
<1> DEFINE r == proc[p]
           memo == [k \in Key |-> IF k[2] \in r.desired THEN r.memo[k] ELSE 0]
           q == [r EXCEPT !.pc = "sleep", !.ready = TRUE, !.i = 0, !.desired = {}, !.memo = memo]
<1>0. r \in Process /\ r.memo \in [Key -> Nat]
  BY Fields DEF Good
<1>1. Become(p, q)
  BY DEF FinishPass, Local
<1>2. memo \in [Key -> Nat]
  BY <1>0
<1>3. q \in Process
  BY <1>0, <1>2 DEF Process
<1>4. q.pc = "sleep" /\ q.memo = memo /\ q.listed = r.listed /\ q.template = r.template
  BY <1>0 DEF Process
<1>5. Shaped(q) /\ q.pc \notin Pruning
  BY <1>4 DEF Shaped, Ensuring, Pruning
<1>6. Versions(q, objects)
  BY <1>4 DEF Versions, Pruning, Good
<1>7. Memo(q, objects)
  <2>1. \A k \in Key : objects[k].rv \in Nat
    BY DEF Store, Object
  <2> QED BY <1>4, <2>1 DEF Memo, Good
<1> QED BY <1>1, <1>3, <1>4, <1>5, <1>6, <1>7 DEF Good

(* Failures, ends and reflectors; what a process had asked for may be left behind. *)
LEMMA DisturbGood ==
  ASSUME TypeOK, NEW p \in Procs, Good(proc[p], objects, anchor), Store(objects, anchor),
         Disturb(p) \/ Recreate(p)
  PROVE  /\ \E q : Become(p, q) /\ Good(q, objects, anchor) /\ q.pc \notin Pruning
         /\ \/ late' = late
            \/ proc[p].pc \in {"write", "delete"} /\ late' = late \cup {Request(proc[p])}
<1> DEFINE r == proc[p]
<1>0. anchor \in Templates /\ r.resync \in BOOLEAN /\ objects \in [Key -> Object]
  BY DEF TypeOK, Good, Process, Store
<1>1. CASE RequestFails(p) \/ WriteTimesOut(p)
  <2>1. r.pc \in Waiting /\ Become(p, Failed(r))
    BY <1>1 DEF RequestFails, WriteTimesOut, Waiting
  <2>2. Good(Failed(r), objects, anchor) /\ Failed(r).pc \notin Pruning
    BY <2>1, FailedGood
  <2>3. late' = late \/ (r.pc \in {"write", "delete"} /\ late' = late \cup {Request(r)})
    BY <1>1 DEF RequestFails, WriteTimesOut
  <2> QED BY <2>1, <2>2, <2>3
<1>2. CASE Crash(p) \/ Recreate(p)
  <2>1. Become(p, Off(r.resync))
    BY <1>2 DEF Crash, Recreate
  <2>2. Good(Off(r.resync), objects, anchor) /\ Off(r.resync).pc \notin Pruning
    BY <1>0, OffGood, OffFacts DEF Pruning
  <2>3. late' = late \/ (r.pc \in {"write", "delete"} /\ late' = late \cup {Request(r)})
    BY <1>2 DEF Crash, Recreate
  <2> QED BY <2>1, <2>2, <2>3
<1> QED BY <1>1, <1>2 DEF Disturb

(* A watch that catches up changes the caches, and nothing of the turn under way. *)
LEMMA ReflectGood ==
  ASSUME TypeOK, NEW p \in Procs, Good(proc[p], objects, anchor), Reflect(p)
  PROVE  \E q : /\ Become(p, q) /\ Good(q, objects, anchor)
               /\ q.pc = proc[p].pc /\ q.uid = proc[p].uid /\ q.resource = proc[p].resource
               /\ q.template = proc[p].template
<1> DEFINE r == proc[p]
           c == {u \in Uid : Live(u)}
           g == [r EXCEPT !.cached = c, !.behind = @ \ {"gateways"}, !.notice = TRUE]
           h == [r EXCEPT !.cachedClass = class, !.behind = @ \ {"class"}, !.notice = TRUE]
<1>0. r \in Process /\ r.behind \in SUBSET {"gateways", "class"} /\ class \in BOOLEAN
  BY Fields DEF Good, TypeOK
<1>1. Become(p, g) \/ Become(p, h)
  BY DEF Reflect, ReflectGateways, ReflectClass, Local
<1>2. c \in SUBSET Uid /\ r.behind \ {"gateways"} \in SUBSET {"gateways", "class"}
      /\ r.behind \ {"class"} \in SUBSET {"gateways", "class"}
  BY <1>0
<1>3. g \in Process /\ h \in Process
  BY <1>0, <1>2 DEF Process
<1>4. /\ Lasting(r, g) /\ g.pc = r.pc /\ g.uid = r.uid /\ g.resource = r.resource
      /\ g.seen = r.seen /\ g.i = r.i
  BY <1>0 DEF Process, Lasting
<1>5. /\ Lasting(r, h) /\ h.pc = r.pc /\ h.uid = r.uid /\ h.resource = r.resource
      /\ h.seen = r.seen /\ h.i = r.i
  BY <1>0 DEF Process, Lasting
<1>6. Good(g, objects, anchor) /\ Good(h, objects, anchor)
  BY <1>3, <1>4, <1>5, SameTurn
<1> QED BY <1>1, <1>4, <1>5, <1>6 DEF Lasting

-----------------------------------------------------------------------------
(* One step of the system. *)

(* What the others do costs a process or a request nothing but the versions they change. *)
LEMMA CoreKept ==
  ASSUME NEW os, NEW ot, NEW a \in Nat, NEW b \in Nat, a <= b,
         Store(os, a), Store(ot, b), Newer(os, ot)
  PROVE  /\ \A r : Good(r, os, a) => Good(r, ot, b)
         /\ \A w : Left(w, os, a) => Left(w, ot, b)
<1>0. os \in [Key -> Object] /\ ot \in [Key -> Object]
  BY DEF Store
<1>1. ASSUME NEW r, Good(r, os, a) PROVE Good(r, ot, b)
  <2>1. r \in Process /\ Shaped(r) /\ Versions(r, os) /\ Memo(r, os)
    BY <1>1 DEF Good
  <2>2. Versions(r, ot) /\ Memo(r, ot)
    BY <1>0, <2>1, VersionsKept, MemoKept
  <2>3. r.template \in Nat
    BY <2>1, Fields DEF Templates
  <2>4. r.template <= b
    BY <1>1, <2>3 DEF Good
  <2> QED BY <2>1, <2>2, <2>4 DEF Good
<1>2. ASSUME NEW w, Left(w, os, a) PROVE Left(w, ot, b)
  <2>1. w \in WriteRequest /\ Justified(w, os) /\ w.template <= a
    BY <1>2 DEF Left
  <2>2. Justified(w, ot)
    BY <1>0, <2>1, JustifiedKept
  <2>3. w.template \in Nat
    BY <2>1 DEF WriteRequest, Templates
  <2>4. w.template <= b
    BY <2>1, <2>3
  <2> QED BY <2>1, <2>2, <2>4 DEF Left
<1> QED BY <1>1, <1>2

(* What a step of one process p does to the system. *)
Taken(p) ==
  /\ \E q : Become(p, q) /\ Good(q, objects', anchor)
  /\ Store(objects', anchor) /\ Newer(objects, objects')
  /\ \A k \in Key : objects[k].state = "foreign" => objects'[k] = objects[k]
  /\ \/ late' = late
     \/ proc[p].pc \in {"write", "delete"} /\ late' = late \cup {Request(proc[p])}
  /\ UNCHANGED server

(* Every step of a process, a crash or a lost answer among them, changes the process as Taken says. *)
LEMMA ProcessStep ==
  ASSUME TypeOK, Core, NEW p \in Procs, Run(p) \/ Disturb(p) \/ Reflect(p) \/ Recreate(p)
  PROVE  Taken(p)
<1>0. anchor \in Nat /\ Good(proc[p], objects, anchor) /\ Store(objects, anchor)
  BY DEF TypeOK, Core, Templates
<1>1. ASSUME \E q : Become(p, q) /\ Good(q, objects, anchor), UNCHANGED <<objects, late, server>>
      PROVE  Taken(p)
  BY <1>0, <1>1 DEF Taken, Newer
<1>2. CASE Start(p)
  BY <1>1, <1>2, StartGood DEF Start, Local
<1>3. CASE Selecting(p)
  <2>1. UNCHANGED <<objects, late, server>>
    BY <1>3 DEF Selecting, Wake, CheckAnchor, GatewaysDone, GetGateway, GetClass, NextGateway, Local
  <2> QED BY <1>0, <1>1, <1>3, <2>1, SelectingGood
<1>4. CASE GetObject(p)
  BY <1>0, <1>1, <1>4, GetObjectGood DEF GetObject, Local
<1>5. CASE CheckBeforeWrite(p)
  BY <1>0, <1>1, <1>5, CheckBeforeWriteGood DEF CheckBeforeWrite, Local
<1>6. CASE Write(p)
  BY <1>0, <1>6, WriteGood DEF Write, Taken
<1>7. CASE List(p)
  BY <1>0, <1>1, <1>7, ListGood DEF List, Local
<1>8. CASE \E x \in proc[p].listed : NextObject(p, x)
  BY <1>0, <1>1, <1>8, NextObjectGood DEF NextObject
<1>9. CASE Confirming(p)
  <2>1. UNCHANGED <<objects, late, server>>
    BY <1>9 DEF Confirming, PruneDone, GetOwner, GetOwnerClass, CheckBeforeDelete, Local
  <2> QED BY <1>0, <1>1, <1>9, <2>1, ConfirmingGood
<1>10. CASE Delete(p)
  BY <1>0, <1>10, DeleteGood DEF Delete, Taken
<1>11. CASE FinishPass(p)
  BY <1>0, <1>1, <1>11, FinishPassGood DEF FinishPass, Local
<1>12. CASE Disturb(p) \/ Recreate(p)
  <2>1. UNCHANGED <<objects, server>>
    BY <1>12 DEF Disturb, Recreate, RequestFails, WriteTimesOut, Crash
  <2> QED BY <1>0, <1>12, <2>1, DisturbGood DEF Taken, Newer
<1>13. CASE Reflect(p)
  <2>1. UNCHANGED <<objects, late, server>>
    BY <1>13 DEF Reflect, ReflectGateways, ReflectClass, Local
  <2> QED BY <1>0, <1>1, <1>13, <2>1, ReflectGood
<1> QED
  BY <1>2, <1>3, <1>4, <1>5, <1>6, <1>7, <1>8, <1>9, <1>10, <1>11, <1>12, <1>13
  DEF Run, Ensure, Prune, Selecting, Confirming

(* Processes other than p are where they were, p is where its step took it. *)
LEMMA BecomeFacts ==
  ASSUME proc \in [Procs -> Process], NEW p \in Procs, NEW q, Become(p, q)
  PROVE  /\ proc'[p] = q /\ \A o \in Procs : o # p => proc'[o] = proc[o]
         /\ q \in Process => proc' \in [Procs -> Process]
BY DEF Become

(* A step of a process keeps the core. *)
LEMMA TakenCore ==
  ASSUME TypeOK, Core, NEW p \in Procs, Taken(p)
  PROVE  Core' /\ proc' \in [Procs -> Process] /\ objects' \in [Key -> Object]
         /\ late' \in SUBSET WriteRequest
<1>0. /\ proc \in [Procs -> Process] /\ anchor \in Nat /\ anchor' = anchor
      /\ Store(objects, anchor) /\ Store(objects', anchor) /\ Newer(objects, objects')
  BY DEF TypeOK, Core, Taken, Templates, server
<1>1. PICK q : Become(p, q) /\ Good(q, objects', anchor)
  BY DEF Taken
<1>2. proc'[p] = q /\ \A o \in Procs : o # p => proc'[o] = proc[o]
  BY <1>0, <1>1, BecomeFacts
<1>3. \A r : Good(r, objects, anchor) => Good(r, objects', anchor)
  BY <1>0, CoreKept
<1>4. \A w : Left(w, objects, anchor) => Left(w, objects', anchor)
  BY <1>0, CoreKept
<1>5. \A o \in Procs : Good(proc'[o], objects', anchor)
  BY <1>1, <1>2, <1>3 DEF Core
<1>6. ASSUME proc[p].pc \in {"write", "delete"} PROVE Left(Request(proc[p]), objects, anchor)
  <2>1. Good(proc[p], objects, anchor)
    BY DEF Core
  <2> QED BY <1>6, <2>1, RequestType DEF Good, Left, Versions
<1>7. \A w \in late' : Left(w, objects', anchor)
  BY <1>4, <1>6 DEF Taken, Core
<1>8. Core'
  BY <1>0, <1>5, <1>7 DEF Core
<1> QED BY <1>0, <1>1, <1>7, <1>8, BecomeFacts DEF Store, Left, Good

(* The server, and others, write objects: a late request, a finalizer, a tampering hand. *)
Outside ==
  \/ \E w \in late : LateRequest(w)
  \/ \E k \in Key : Finalize(k)
  \/ \E k \in Key : \E o \in Edited(k) : Tamper(k, o)

(* A late request, a finalizer or another writer moves an object to a newer version only, and *)
(* leaves foreign objects alone.                                                              *)
LEMMA OutsideStep ==
  ASSUME TypeOK, Core, Outside
  PROVE  /\ Store(objects', anchor) /\ Newer(objects, objects')
         /\ \A k \in Key : objects[k].state = "foreign" => objects'[k] = objects[k]
         /\ late' \in SUBSET late /\ UNCHANGED <<server, proc, steady>>
<1>0. anchor \in Nat /\ Store(objects, anchor) /\ objects \in [Key -> Object]
  BY DEF TypeOK, Core, Templates
<1>1. ASSUME NEW w \in late, LateRequest(w)
      PROVE  /\ Store(objects', anchor) /\ Newer(objects, objects')
             /\ \A k \in Key : objects[k].state = "foreign" => objects'[k] = objects[k]
  <2>1. w \in WriteRequest /\ w.template <= anchor /\ Justified(w, objects)
    BY DEF Core, Left
  <2>2. CASE Accepted(w)
    <3>1. Carry(w)
      BY <1>1, <2>2 DEF LateRequest
    <3>2. objects[w.key].state # "foreign"
      <4>1. CASE w.op = "create"
        BY <2>2, <4>1 DEF Accepted
      <4>2. CASE w.op # "create"
        BY <2>1, <2>2, <4>2 DEF Accepted, Justified, ReadAt
      <4> QED BY <4>1, <4>2
    <3> QED BY <1>0, <2>1, <3>1, <3>2, CarryFacts
  <2>3. CASE ~Accepted(w)
    BY <1>0, <1>1, <2>3 DEF LateRequest, Newer
  <2> QED BY <2>2, <2>3
<1>2. ASSUME NEW k \in Key, NEW o, o.rv = objects[k].rv + 1, Sound(o, anchor),
             objects' = [objects EXCEPT ![k] = o], objects[k].state # "foreign"
      PROVE  /\ Store(objects', anchor) /\ Newer(objects, objects')
             /\ \A j \in Key : objects[j].state = "foreign" => objects'[j] = objects[j]
  <2>1. objects'[k] = o /\ \A j \in Key : j # k => objects'[j] = objects[j]
    BY <1>0, <1>2
  <2>2. objects' \in [Key -> Object]
    BY <1>0, <1>2 DEF Sound
  <2>3. \A j \in Key : Sound(objects'[j], anchor)
    BY <1>0, <1>2, <2>1 DEF Store
  <2> QED BY <1>2, <2>1, <2>2, <2>3 DEF Store, Newer
<1>3. ASSUME NEW k \in Key PROVE Sound(Absent(objects[k].rv + 1), anchor)
  <2>1. objects[k].rv + 1 \in Nat /\ 0 \in 0..MaxTemplates /\ 0 <= anchor
    BY <1>0, BoundsAssumption DEF Object
  <2> QED BY <2>1 DEF Absent, Sound, Object
<1>4. ASSUME NEW k \in Key, Finalize(k)
      PROVE  /\ Store(objects', anchor) /\ Newer(objects, objects')
             /\ \A j \in Key : objects[j].state = "foreign" => objects'[j] = objects[j]
  <2> DEFINE o == Absent(objects[k].rv + 1)
  <2>1. objects' = [objects EXCEPT ![k] = o] /\ objects[k].state # "foreign"
    BY <1>4 DEF Finalize
  <2>2. o.rv = objects[k].rv + 1
    BY DEF Absent
  <2> QED BY <1>2, <1>3, <2>1, <2>2
<1>5. ASSUME NEW k \in Key, NEW e \in Edited(k), Tamper(k, e)
      PROVE  /\ Store(objects', anchor) /\ Newer(objects, objects')
             /\ \A j \in Key : objects[j].state = "foreign" => objects'[j] = objects[j]
  <2> DEFINE old == objects[k]
             o == [e EXCEPT !.rv = old.rv + 1]
  <2>0. /\ old \in Object /\ old.last <= anchor /\ old.keys \subseteq {old.last} /\ old.rv + 1 \in Nat
        /\ old.last \in 0..MaxTemplates
    BY <1>0 DEF Store, Sound, Object
  <2>1. objects' = [objects EXCEPT ![k] = o] /\ old.state # "foreign"
    BY <1>5 DEF Tamper
  <2>2. e \in Object /\ e.last <= anchor /\ e.keys = {}
    <3>1. CASE e = Absent(0)
      <4>1. 0 \in 0..MaxTemplates /\ 0 <= anchor
        BY <1>0, BoundsAssumption
      <4> QED BY <3>1, <4>1 DEF Absent, Object
    <3>2. CASE e = [old EXCEPT !.keys = {}]
      BY <2>0, <3>2 DEF Object
    <3>3. CASE e = [old EXCEPT !.state = "foreign", !.last = 0, !.keys = {}]
      <4>1. 0 \in 0..MaxTemplates /\ 0 <= anchor
        BY <1>0, BoundsAssumption
      <4>2. e \in Object
        BY <2>0, <3>3, <4>1 DEF Object
      <4>3. e.last = 0 /\ e.keys = {}
        BY <2>0, <3>3 DEF Object
      <4> QED BY <4>1, <4>2, <4>3
    <3> QED BY <3>1, <3>2, <3>3 DEF Edited
  <2>3. o.rv = old.rv + 1 /\ Sound(o, anchor)
    BY <2>0, <2>2 DEF Object, Sound
  <2> QED BY <1>2, <2>1, <2>3
<1>6. late' \in SUBSET late /\ UNCHANGED <<server, proc, steady>>
  BY DEF Outside, LateRequest, Finalize, Tamper
<1> QED BY <1>1, <1>4, <1>5, <1>6 DEF Outside

(* Gateways and the class change, and the processes are to hear of it. *)
Changes ==
  \/ \E name \in Names : CreateGateway(name) \/ DeleteGateway(name)
  \/ ChangeClass

(* Gateways and classes that come and go leave every process with what it knows. *)
LEMMA AnnounceFacts ==
  ASSUME TypeOK, Core, Changes
  PROVE  /\ proc' \in [Procs -> Process] /\ UNCHANGED <<anchor, objects, late>> /\ StillSteady
         /\ \A p \in Procs : /\ Good(proc'[p], objects, anchor)
                             /\ proc'[p].pc = proc[p].pc /\ proc'[p].uid = proc[p].uid
                             /\ proc'[p].resource = proc[p].resource
                             /\ proc'[p].template = proc[p].template
<1>1. PICK kind \in {"gateways", "class"} : Announce(kind)
  BY DEF Changes, CreateGateway, DeleteGateway, ChangeClass
<1>2. UNCHANGED <<anchor, objects, late>> /\ StillSteady
  BY DEF Changes, CreateGateway, DeleteGateway, ChangeClass
<1>3. ASSUME NEW p \in Procs
      PROVE  /\ Good(proc'[p], objects, anchor)
             /\ proc'[p].pc = proc[p].pc /\ proc'[p].uid = proc[p].uid
             /\ proc'[p].resource = proc[p].resource /\ proc'[p].template = proc[p].template
  <2> DEFINE r == proc[p]
             q == [r EXCEPT !.behind = @ \cup {kind}]
  <2>0. Good(r, objects, anchor) /\ r \in Process
    BY DEF Core, Good
  <2>1. proc'[p] = r \/ proc'[p] = q
    BY <1>1 DEF Announce
  <2>2. r.behind \cup {kind} \in SUBSET {"gateways", "class"}
    BY <2>0, Fields
  <2>3. q \in Process
    BY <2>0, <2>2 DEF Process
  <2>4. /\ Lasting(r, q) /\ q.pc = r.pc /\ q.uid = r.uid /\ q.resource = r.resource
        /\ q.seen = r.seen /\ q.i = r.i
    BY <2>0 DEF Process, Lasting
  <2>5. Good(q, objects, anchor)
    BY <2>0, <2>3, <2>4, SameTurn
  <2> QED BY <2>0, <2>1, <2>4, <2>5 DEF Lasting
<1>4. proc' \in [Procs -> Process]
  <2>1. proc' = [p \in Procs |-> proc'[p]]
    BY <1>1 DEF Announce
  <2>2. \A p \in Procs : proc'[p] \in Process
    BY <1>3 DEF Good
  <2> QED BY <2>1, <2>2
<1> QED BY <1>2, <1>3, <1>4

(* Every step keeps the core. *)
LEMMA CoreStep ==
  ASSUME TypeOK, Core, Next
  PROVE  /\ Core' /\ proc' \in [Procs -> Process] /\ objects' \in [Key -> Object]
         /\ late' \in SUBSET WriteRequest
<1>0. anchor \in Nat /\ Store(objects, anchor)
  BY DEF TypeOK, Core, Templates
<1>1. CASE \E p \in Procs : Run(p) \/ Disturb(p) \/ Reflect(p) \/ Recreate(p)
  BY <1>1, ProcessStep, TakenCore
<1>2. CASE Outside
  <2>1. /\ Store(objects', anchor) /\ Newer(objects, objects') /\ late' \in SUBSET late
        /\ anchor' = anchor /\ proc' = proc
    BY <1>2, OutsideStep DEF server
  <2>2. /\ \A r : Good(r, objects, anchor) => Good(r, objects', anchor)
        /\ \A w : Left(w, objects, anchor) => Left(w, objects', anchor)
    BY <1>0, <2>1, CoreKept
  <2> QED BY <2>1, <2>2 DEF Core, Store, TypeOK
<1>3. CASE Changes
  BY <1>3, AnnounceFacts DEF Core, TypeOK
<1>4. CASE Upgrade
  <2>1. anchor' = anchor + 1 /\ UNCHANGED <<objects, late, proc>>
    BY <1>4 DEF Upgrade
  <2>2. Store(objects, anchor + 1)
    <3>1. \A k \in Key : objects[k].last \in Nat
      BY DEF TypeOK, Object
    <3> QED BY <1>0, <3>1 DEF Store, Sound
  <2>3. anchor + 1 \in Nat /\ anchor <= anchor + 1 /\ Newer(objects, objects)
    BY <1>0 DEF Newer
  <2>4. /\ \A r : Good(r, objects, anchor) => Good(r, objects, anchor + 1)
        /\ \A w : Left(w, objects, anchor) => Left(w, objects, anchor + 1)
    BY <1>0, <2>2, <2>3, CoreKept
  <2> QED BY <2>1, <2>2, <2>4 DEF Core, TypeOK
<1> QED BY <1>1, <1>2, <1>3, <1>4 DEF Next, Outside, Changes, Cluster

(* Every step keeps the types of the server's state and of the bounds. *)
LEMMA TypeStep ==
  ASSUME TypeOK, Core, Next
  PROVE  TypeOK'
<1>0. /\ anchor \in Nat /\ anchor >= 1 /\ MaxTemplates \in Nat /\ MaxIncarnations \in Nat
      /\ gateways \in [Names -> [n : 0..MaxIncarnations, exists : BOOLEAN]]
  BY BoundsAssumption DEF TypeOK, Templates
<1>1. gateways' \in [Names -> [n : 0..MaxIncarnations, exists : BOOLEAN]]
  <2>1. ASSUME NEW name \in Names, CreateGateway(name)
        PROVE  gateways' \in [Names -> [n : 0..MaxIncarnations, exists : BOOLEAN]]
    <3>1. gateways[name].n + 1 \in 0..MaxIncarnations
      BY <1>0, <2>1 DEF CreateGateway
    <3> QED BY <1>0, <2>1, <3>1 DEF CreateGateway
  <2>2. ASSUME NEW name \in Names, DeleteGateway(name)
        PROVE  gateways' \in [Names -> [n : 0..MaxIncarnations, exists : BOOLEAN]]
    BY <1>0, <2>2 DEF DeleteGateway
  <2>3. CASE \E p \in Procs : Run(p) \/ Disturb(p) \/ Reflect(p) \/ Recreate(p)
    BY <1>0, <2>3, ProcessStep DEF Taken, server
  <2>4. CASE Outside
    BY <1>0, <2>4, OutsideStep DEF server
  <2>5. CASE ChangeClass \/ Upgrade
    BY <1>0, <2>5 DEF ChangeClass, Upgrade
  <2> QED BY <2>1, <2>2, <2>3, <2>4, <2>5 DEF Next, Outside, Cluster
<1>2. class' \in BOOLEAN /\ anchor' \in Templates
  <2>1. CASE \E p \in Procs : Run(p) \/ Disturb(p) \/ Reflect(p) \/ Recreate(p)
    BY <2>1, ProcessStep DEF Taken, server, TypeOK
  <2>2. CASE Outside
    BY <2>2, OutsideStep DEF server, TypeOK
  <2>3. CASE Changes
    BY <2>3 DEF Changes, CreateGateway, DeleteGateway, ChangeClass, TypeOK
  <2>4. CASE Upgrade
    BY <1>0, <2>4 DEF Upgrade, TypeOK, Templates
  <2> QED BY <2>1, <2>2, <2>3, <2>4 DEF Next, Outside, Changes, Cluster
<1>3. events' \in 0..MaxEvents /\ strays' \in 0..MaxStrayWrites /\ faults' \in 0..MaxFaults
  <2> DEFINE Counted ==
               /\ events' = events \/ (events < MaxEvents /\ events' = events + 1)
               /\ strays' = strays \/ (strays < MaxStrayWrites /\ strays' = strays + 1)
               /\ faults' = faults \/ (faults < MaxFaults /\ faults' = faults + 1)
  <2>1. ASSUME NEW p \in Procs, Run(p) PROVE Counted
    BY <2>1 DEF Run, Ensure, Prune, Start, Wake, CheckAnchor, NextGateway, GatewaysDone, GetGateway,
       GetClass, GetObject, CheckBeforeWrite, Write, List, NextObject, PruneDone, GetOwner,
       GetOwnerClass, CheckBeforeDelete, Delete, FinishPass, Local, bounds
  <2>2. ASSUME NEW p \in Procs, Disturb(p) \/ Reflect(p) \/ Recreate(p) PROVE Counted
    BY <2>2 DEF Disturb, Reflect, Recreate, RequestFails, WriteTimesOut, Crash, ReflectGateways,
       ReflectClass, Local, bounds
  <2>3. ASSUME Outside PROVE Counted
    BY <2>3 DEF Outside, LateRequest, Finalize, Tamper, bounds
  <2>4. ASSUME Changes \/ Upgrade PROVE Counted
    BY <2>4 DEF Changes, CreateGateway, DeleteGateway, ChangeClass, Upgrade, Event
  <2>5. Counted
    BY <2>1, <2>2, <2>3, <2>4 DEF Next, Outside, Changes, Cluster
  <2> QED BY <2>5, BoundsAssumption DEF TypeOK
<1>4. steady' \in [Procs -> BOOLEAN]
  <2>0. steady \in [Procs -> BOOLEAN]
    BY DEF TypeOK
  <2>1. ASSUME NEW p \in Procs, NEW x, NextObject(p, x) PROVE steady' \in [Procs -> BOOLEAN]
    <3>1. Owned(x.uid) \in BOOLEAN
      BY DEF Owned, Live
    <3> QED BY <2>0, <2>1, <3>1 DEF NextObject
  <2>2. CASE Changes
    <3>1. steady' = [p \in Procs |-> steady[p] /\ proc[p].uid \in Uid /\ Owned(proc[p].uid)']
      BY <2>2 DEF Changes, CreateGateway, DeleteGateway, ChangeClass, StillSteady
    <3> QED BY <3>1, Zenon
  <2>3. ASSUME NEW p \in Procs, Run(p), ~\E x \in proc[p].listed : NextObject(p, x)
        PROVE  steady' = steady
    BY <2>3 DEF Run, Ensure, Prune, Start, Wake, CheckAnchor, NextGateway, GatewaysDone, GetGateway,
       GetClass, GetObject, CheckBeforeWrite, Write, List, PruneDone, GetOwner,
       GetOwnerClass, CheckBeforeDelete, Delete, FinishPass, Local
  <2>4. ASSUME NEW p \in Procs, Disturb(p) \/ Reflect(p) \/ Recreate(p) PROVE steady' = steady
    BY <2>4 DEF Disturb, Reflect, Recreate, RequestFails, WriteTimesOut, Crash, ReflectGateways,
       ReflectClass, Local
  <2>5. CASE Outside \/ Upgrade
    BY <2>0, <2>5, OutsideStep DEF Upgrade
  <2> QED BY <2>0, <2>1, <2>2, <2>3, <2>4, <2>5 DEF Next, Outside, Changes, Cluster
<1> QED BY <1>1, <1>2, <1>3, <1>4, CoreStep DEF TypeOK

(* The live reads of prune: ownership lost is seen as lost, ownership kept as kept. *)
LEMMA SteadyStep ==
  ASSUME IInv, Next
  PROVE  SteadyOwned' /\ DeletesOnlyDisowned'
<1> DEFINE Fine(r, st, own) ==
             /\ st /\ r.pc \in Pruning => own
             /\ r.pc \in {"recheck", "delete"} /\ ~Obsolete(r.template, r.resource) => ~st
<1>0. /\ TypeOK /\ Core /\ proc \in [Procs -> Process] /\ steady \in [Procs -> BOOLEAN]
      /\ \A p \in Procs : Good(proc[p], objects, anchor) /\ proc[p] \in Process
  BY DEF IInv, TypeOK, Core, Good
<1>0a. ASSUME NEW p \in Procs PROVE proc[p] \in Process
  BY <1>0
<1>1. \A p \in Procs : Fine(proc[p], steady[p], Owned(proc[p].uid))
  BY DEF IInv, SteadyOwned, DeletesOnlyDisowned
<1>2. SUFFICES \A p \in Procs : Fine(proc'[p], steady'[p], Owned(proc[p].uid)')
  BY DEF SteadyOwned, DeletesOnlyDisowned
<1>3. ASSUME UNCHANGED <<gateways, class>> PROVE \A u : Owned(u)' = Owned(u)
  BY <1>3 DEF Owned, Live
<1>4. ASSUME NEW p \in Procs, NEW q, Become(p, q), UNCHANGED server,
             \A o \in Procs : o # p => steady'[o] = steady[o],
             Fine(q, steady'[p], Owned(q.uid))
      PROVE  \A o \in Procs : Fine(proc'[o], steady'[o], Owned(proc[o].uid)')
  <2>1. proc'[p] = q /\ \A o \in Procs : o # p => proc'[o] = proc[o]
    BY <1>0, <1>4, BecomeFacts
  <2>2. UNCHANGED <<gateways, class>>
    BY <1>4 DEF server
  <2> QED BY <1>1, <1>4, <2>1, <2>2 DEF Owned, Live
<1>5. ASSUME NEW p \in Procs, NEW q, Become(p, q), UNCHANGED <<server, steady>>,
             q.pc \notin Pruning
      PROVE  \A o \in Procs : Fine(proc'[o], steady'[o], Owned(proc[o].uid)')
  BY <1>4, <1>5 DEF Pruning
<1>6. ASSUME NEW p \in Procs, NEW x \in proc[p].listed, NextObject(p, x)
      PROVE  \A o \in Procs : Fine(proc'[o], steady'[o], Owned(proc[o].uid)')
  <2> DEFINE r == proc[p]
             q == [r EXCEPT !.pc = "owner", !.uid = x.uid, !.listed = @ \ {x},
                            !.resource = x.resource, !.seen = [state |-> "owned", rv |-> x.rv]]
  <2>1. Become(p, q) /\ UNCHANGED server /\ steady' = [steady EXCEPT ![p] = Owned(x.uid)]
    BY <1>6 DEF NextObject
  <2>2. q.pc = "owner" /\ q.uid = x.uid
    BY <1>0a DEF Process
  <2>3. steady'[p] = Owned(x.uid) /\ \A o \in Procs : o # p => steady'[o] = steady[o]
    BY <1>0, <2>1
  <2> QED BY <1>4, <2>1, <2>2, <2>3 DEF Pruning
<1>7. ASSUME NEW p \in Procs, GetOwner(p)
      PROVE  \A o \in Procs : Fine(proc'[o], steady'[o], Owned(proc[o].uid)')
  <2> DEFINE r == proc[p]
             q == [r EXCEPT !.pc = IF Live(r.uid) THEN "ownerclass" ELSE "recheck"]
  <2>1. r.pc = "owner" /\ Become(p, q) /\ UNCHANGED <<server, steady>>
    BY <1>7 DEF GetOwner, Local
  <2>2. q.pc = (IF Live(r.uid) THEN "ownerclass" ELSE "recheck") /\ q.uid = r.uid
    BY <1>0a DEF Process
  <2>3. steady[p] => Owned(r.uid)
    BY <1>1, <2>1 DEF Pruning
  <2>4. Fine(q, steady[p], Owned(q.uid))
    BY <2>2, <2>3 DEF Owned
  <2> QED BY <1>4, <2>1, <2>4
<1>8. ASSUME NEW p \in Procs, GetOwnerClass(p)
      PROVE  \A o \in Procs : Fine(proc'[o], steady'[o], Owned(proc[o].uid)')
  <2> DEFINE r == proc[p]
             q == [r EXCEPT !.pc = "recheck"]
  <2>1. r.pc = "ownerclass" /\ UNCHANGED <<server, steady>>
    BY <1>8 DEF GetOwnerClass, Local
  <2>2. CASE class /\ ~Obsolete(r.template, r.resource)
    <3>1. Become(p, Leave(r, "prune"))
      BY <1>8, <2>2 DEF GetOwnerClass, LiveOwned, Local
    <3>2. Leave(r, "prune").pc \notin Pruning
      BY <1>0a DEF Leave, Process, Pruning
    <3> QED BY <1>5, <2>1, <3>1, <3>2
  <2>3. CASE ~(class /\ ~Obsolete(r.template, r.resource))
    <3>1. Become(p, q)
      BY <1>8, <2>3 DEF GetOwnerClass, LiveOwned, Local
    <3>2. q.pc = "recheck" /\ q.uid = r.uid /\ q.template = r.template /\ q.resource = r.resource
      BY <1>0a DEF Process
    <3>3. steady[p] => Owned(r.uid)
      BY <1>1, <2>1 DEF Pruning
    <3>4. Fine(q, steady[p], Owned(q.uid))
      BY <2>3, <3>2, <3>3 DEF Owned
    <3> QED BY <1>4, <2>1, <3>1, <3>4
  <2> QED BY <2>2, <2>3
<1>9. ASSUME NEW p \in Procs, CheckBeforeDelete(p)
      PROVE  \A o \in Procs : Fine(proc'[o], steady'[o], Owned(proc[o].uid)')
  <2> DEFINE r == proc[p]
             q == [r EXCEPT !.pc = "delete"]
  <2>1. r.pc = "recheck" /\ UNCHANGED <<server, steady>> /\ (Become(p, q) \/ Become(p, Failed(r)))
    BY <1>9 DEF CheckBeforeDelete, Local
  <2>2. CASE Become(p, q)
    <3>1. q.pc = "delete" /\ q.uid = r.uid /\ q.template = r.template /\ q.resource = r.resource
      BY <1>0a DEF Process
    <3>2. Fine(r, steady[p], Owned(r.uid))
      BY <1>1
    <3>3. Fine(q, steady[p], Owned(q.uid))
      BY <2>1, <3>1, <3>2 DEF Pruning
    <3> QED BY <1>4, <2>1, <2>2, <3>3
  <2>3. CASE Become(p, Failed(r))
    BY <1>0, <1>5, <2>1, <2>3, FailedGood DEF Waiting
  <2> QED BY <2>1, <2>2, <2>3
<1>10. ASSUME NEW p \in Procs, Reflect(p)
       PROVE  \A o \in Procs : Fine(proc'[o], steady'[o], Owned(proc[o].uid)')
  <2>1. UNCHANGED <<server, steady>>
    BY <1>10 DEF Reflect, ReflectGateways, ReflectClass, Local
  <2>2. PICK q : /\ Become(p, q) /\ q.pc = proc[p].pc /\ q.uid = proc[p].uid
                 /\ q.resource = proc[p].resource /\ q.template = proc[p].template
    BY <1>0, <1>10, ReflectGood
  <2>3. Fine(q, steady[p], Owned(q.uid))
    BY <1>1, <2>2
  <2> QED BY <1>4, <2>1, <2>2, <2>3
<1>11. ASSUME NEW p \in Procs, PruneDone(p) \/ List(p)
       PROVE  \A o \in Procs : Fine(proc'[o], steady'[o], Owned(proc[o].uid)')
  <2>1. UNCHANGED <<server, steady>>
    BY <1>11 DEF PruneDone, List, Local
  <2>2. \E q : Become(p, q) /\ q.pc \notin Pruning
    <3>1. CASE PruneDone(p)
      <4> DEFINE q == [proc[p] EXCEPT !.pc = "list", !.i = @ + 1]
      <4>1. Become(p, q)
        BY <3>1 DEF PruneDone, Local
      <4>2. q.pc = "list"
        BY <1>0a DEF Process
      <4> QED BY <4>1, <4>2 DEF Pruning
    <3>2. CASE List(p)
      <4>1. PICK L : Become(p, [proc[p] EXCEPT !.pc = "prune", !.listed = L])
        BY <3>2 DEF List, Local
      <4>2. [proc[p] EXCEPT !.pc = "prune", !.listed = L].pc = "prune"
        BY <1>0a DEF Process
      <4> QED BY <4>1, <4>2 DEF Pruning
    <3> QED BY <1>11, <3>1, <3>2
  <2> QED BY <1>5, <2>1, <2>2
<1>12. ASSUME NEW p \in Procs,
              Start(p) \/ Selecting(p) \/ GetObject(p) \/ CheckBeforeWrite(p) \/ Write(p)
                \/ Delete(p) \/ FinishPass(p) \/ Disturb(p) \/ Recreate(p)
       PROVE  \A o \in Procs : Fine(proc'[o], steady'[o], Owned(proc[o].uid)')
  <2>1. UNCHANGED <<server, steady>>
    BY <1>12 DEF Start, Selecting, Wake, CheckAnchor, GatewaysDone, GetGateway, GetClass, NextGateway,
       GetObject, CheckBeforeWrite, Write, Delete, FinishPass, Disturb, Recreate, RequestFails,
       WriteTimesOut, Crash, Local
  <2>2. anchor \in Nat /\ Good(proc[p], objects, anchor) /\ Store(objects, anchor)
    BY <1>0 DEF TypeOK, Core, Templates
  <2>3. \E q : Become(p, q) /\ q.pc \notin Pruning
    BY <1>0, <1>12, <2>2, StartGood, SelectingGood, GetObjectGood, CheckBeforeWriteGood, WriteGood,
       DeleteGood, FinishPassGood, DisturbGood
  <2> QED BY <1>5, <2>1, <2>3
<1>13. CASE Outside \/ Upgrade
  <2>1. UNCHANGED <<gateways, class, proc, steady>>
    BY <1>0, <1>13, OutsideStep DEF Upgrade, server
  <2> QED BY <1>1, <2>1 DEF Owned, Live
<1>14. CASE Changes
  <2>1. steady' = [p \in Procs |-> steady[p] /\ proc[p].uid \in Uid /\ Owned(proc[p].uid)']
    <3>1. StillSteady
      BY <1>14 DEF Changes, CreateGateway, DeleteGateway, ChangeClass
    <3> QED BY <3>1 DEF StillSteady
  <2>2. ASSUME NEW p \in Procs PROVE Fine(proc'[p], steady'[p], Owned(proc[p].uid)')
    <3>1. /\ proc'[p].pc = proc[p].pc /\ proc'[p].resource = proc[p].resource
          /\ proc'[p].template = proc[p].template
      BY <1>0, <1>14, AnnounceFacts
    <3>2. steady'[p] => steady[p] /\ Owned(proc[p].uid)'
      BY <2>1, Zenon
    <3> QED BY <1>1, <3>1, <3>2
  <2> QED BY <2>2
<1> QED
  BY <1>6, <1>7, <1>8, <1>9, <1>10, <1>11, <1>12, <1>13, <1>14
  DEF Next, Run, Ensure, Prune, Selecting, Outside, Changes, Cluster

-----------------------------------------------------------------------------
(* The inductive invariant, and what follows from it. *)

(* The invariant holds at the start: nothing is written and every process is off. *)
LEMMA InitInv == Init => IInv
<1> SUFFICES ASSUME Init PROVE IInv
  OBVIOUS
<1>1. PICK resync \in Resync : proc = [p \in Procs |-> Off(resync)]
  BY DEF Init, Installed
<1>2. resync \in BOOLEAN /\ anchor = 1 /\ anchor \in Templates /\ anchor \in Nat
  BY SwitchAssumption, BoundsAssumption DEF Init, Installed, Templates
<1>3. Sound(Absent(0), anchor) /\ objects = [k \in Key |-> Absent(0)]
  BY <1>2, BoundsAssumption DEF Absent, Sound, Object, Init, Installed
<1>4. Store(objects, anchor)
  BY <1>3 DEF Store, Sound
<1>5. \A p \in Procs : /\ Good(proc[p], objects, anchor) /\ proc[p].pc = "off"
                      /\ proc[p] \in Process
  BY <1>1, <1>2, <1>4, OffGood, OffFacts DEF Store
<1>6. Core
  BY <1>4, <1>5 DEF Core, Init, Installed
<1>7. gateways \in [Names -> [n : 0..MaxIncarnations, exists : BOOLEAN]]
  <2>1. gateways \in [Names -> {[n |-> 0, exists |-> FALSE], [n |-> 1, exists |-> TRUE]}]
    BY DEF Init, Installed
  <2>2. 0 \in 0..MaxIncarnations /\ 1 \in 0..MaxIncarnations
    BY BoundsAssumption
  <2>3. [n |-> 0, exists |-> FALSE] \in [n : 0..MaxIncarnations, exists : BOOLEAN]
    BY <2>2
  <2>4. [n |-> 1, exists |-> TRUE] \in [n : 0..MaxIncarnations, exists : BOOLEAN]
    BY <2>2
  <2> QED BY <2>1, <2>3, <2>4
<1>8. /\ class \in BOOLEAN /\ late \in SUBSET WriteRequest /\ steady \in [Procs -> BOOLEAN]
      /\ events \in 0..MaxEvents /\ strays \in 0..MaxStrayWrites /\ faults \in 0..MaxFaults
  BY BoundsAssumption DEF Init, Installed
<1>9. proc \in [Procs -> Process]
  BY <1>1, <1>2, OffFacts
<1>10. TypeOK
  BY <1>2, <1>4, <1>7, <1>8, <1>9 DEF TypeOK, Store
<1> QED BY <1>5, <1>6, <1>10 DEF IInv, SteadyOwned, DeletesOnlyDisowned, Pruning

(* The invariant is inductive. *)
LEMMA Inductive == IInv /\ [Next]_vars => IInv'
<1> SUFFICES ASSUME IInv, [Next]_vars PROVE IInv'
  OBVIOUS
<1>1. CASE UNCHANGED vars
  <2>1. UNCHANGED <<gateways, class, anchor, objects, late, proc, events, strays, faults, steady>>
    BY <1>1 DEF vars, server, bounds
  <2> QED BY <2>1 DEF IInv, TypeOK, Core, SteadyOwned, DeletesOnlyDisowned, Owned, Live
<1>2. CASE Next
  BY <1>2, TypeStep, CoreStep, SteadyStep DEF IInv
<1> QED BY <1>1, <1>2

(* It holds of every reachable state. *)
LEMMA Invariance == Spec => []IInv
BY InitInv, Inductive, PTL DEF Spec

(* The types hold of every reachable state. *)
THEOREM TypeCorrect == Spec => []TypeOK
<1>1. IInv => TypeOK
  BY DEF IInv
<1> QED BY <1>1, Invariance, PTL

(* No object of a Gateway that stays owned is deleted, however Gateways, the class and the   *)
(* processes change while a cleanup runs (prune, live_owned).                                *)
THEOREM PruneIsLive == Spec => []DeletesOnlyDisowned
<1>1. IInv => DeletesOnlyDisowned
  BY DEF IInv
<1> QED BY <1>1, Invariance, PTL

(* A patch or delete decided under a replaced template is refused wherever a later template has written *)
(* (check_installation between the read and the write, resourceVersion in the write).         *)
THEOREM ReplacedProcessesAreRefused == Spec => []StaleWritesRefused
<1>1. IInv => StaleWritesRefused
  <2> SUFFICES ASSUME IInv, NEW w \in Pending, w.op # "create", Accepted(w)
               PROVE  objects[w.key].last <= w.template
    BY DEF StaleWritesRefused
  <2>1. CASE w \in late
    BY <2>1 DEF IInv, Core, Left, Justified, Accepted
  <2>2. CASE w \notin late
    <3>1. PICK p \in Procs : proc[p].pc \in {"write", "delete"} /\ w = Request(proc[p])
      BY <2>2 DEF Pending
    <3>2. Justified(w, objects)
      BY <3>1 DEF IInv, Core, Good, Versions
    <3> QED BY <3>2 DEF Justified, Accepted
  <2> QED BY <2>1, <2>2
<1> QED BY <1>1, Invariance, PTL

(* A version the memo names has the process's template in full, so the write it saves would  *)
(* have changed nothing (ConfirmedWrite).                                                    *)
THEOREM MemoIsSound == Spec => []MemoSound
<1>1. IInv => MemoSound
  BY DEF IInv, Core, Good, Memo, MemoSound, Confirmed
<1> QED BY <1>1, Invariance, PTL

(* What the provisioner does not own it neither adopts nor prunes, at whatever moment it     *)
(* took the place of an owned object (ensure and prune).                                     *)
THEOREM ForeignObjectsStay == Spec => ForeignUntouched
<1> DEFINE Untouched == \A k \in Key : objects[k].state = "foreign" => objects'[k] = objects[k]
<1>1. IInv /\ [Next]_vars => [Untouched]_vars
  <2> SUFFICES ASSUME IInv, Next PROVE Untouched
    OBVIOUS
  <2>0. TypeOK /\ Core
    BY DEF IInv
  <2>1. CASE \E p \in Procs : Run(p) \/ Disturb(p) \/ Reflect(p) \/ Recreate(p)
    BY <2>0, <2>1, ProcessStep DEF Taken
  <2>2. CASE Outside
    BY <2>0, <2>2, OutsideStep
  <2>3. CASE Changes \/ Upgrade
    BY <2>3 DEF Changes, CreateGateway, DeleteGateway, ChangeClass, Upgrade
  <2> QED BY <2>1, <2>2, <2>3 DEF Next, Outside, Changes, Cluster
<1> QED BY <1>1, Invariance, PTL DEF Spec, ForeignUntouched
=============================================================================
