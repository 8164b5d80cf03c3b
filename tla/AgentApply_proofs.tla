------------------------- MODULE AgentApply_proofs -------------------------
(***************************************************************************)
(* Proofs about AgentApply, for any objects, workers and bounds: an answer *)
(* is never taken for another request's, a batch stops once its caller     *)
(* gave up, and what a batch says it settled with proof, the main process  *)
(* holds.                                                                  *)
(*                                                                         *)
(* For the last: requests go out in the order of the tiers, so a slot is   *)
(* cleared before something is put into it and is not cleared again        *)
(* afterwards; each answer is true of the main process until the next      *)
(* exchange; and a slot settled with proof holds what the desired IR has   *)
(* there, less what is still to be added.  The replay of a head of the     *)
(* batch makes of the baseline exactly that, which takes an induction over *)
(* the head.                                                               *)
(***************************************************************************)
EXTENDS AgentApply, TLAPS

Lists == INSTANCE Lists_proofs

(* Sozu's answer to a request names that request, however its workers take it. *)
LEMMA LandingsAnswer ==
  ASSUME NEW S, NEW routes, NEW r, NEW l \in Landings(S, routes, r)
  PROVE  l.reply.to = r
<1>1. CASE Verdict(S, r) = "apply"
  <2>1. PICK mood \in Moods : l = FanOut(S, routes, r, mood)
    BY <1>1 DEF Landings
  <2> QED BY <2>1 DEF FanOut, Answer
<1>2. CASE Verdict(S, r) = "list"
  BY <1>2 DEF Landings, Answer
<1>3. CASE Verdict(S, r) \notin {"apply", "list"}
  BY <1>3 DEF Landings, Answer
<1> QED BY <1>1, <1>2, <1>3

(* The connection owes no answer. *)
InStep == link.unread = <<>>

(* On a connection that is in step, an exchange ends in step and with the answer to its own *)
(* request, or with none: every attempt that went unanswered cost the connection.           *)
LEMMA ExchangeIsOwn ==
  ASSUME NEW r, InStep, Exchange(r)
  PROVE  reply'.to = r /\ InStep'
<1>1. CASE Answered(r)
  <2>1. PICK l \in Landings(main, serves, r) :
          /\ reply' = Head(Append(link.unread, l.reply))
          /\ link' = [open |-> TRUE, unread |-> Tail(Append(link.unread, l.reply))]
    BY <1>1 DEF Answered
  <2>2. Append(link.unread, l.reply) = <<l.reply>>
    BY DEF InStep
  <2>3. reply' = l.reply /\ link' = [open |-> TRUE, unread |-> <<>>]
    BY <2>1, <2>2
  <2> QED BY <2>3, LandingsAnswer DEF InStep
<1>2. CASE AnsweredOnRetry(r)
  BY <1>2, LandingsAnswer DEF AnsweredOnRetry, Open, InStep
<1>3. CASE UnansweredTwice(r)
  BY <1>3 DEF UnansweredTwice, AfterLostRetry, Closed, NoReply, Answer, InStep
<1>4. CASE NotConnected(r)
  BY <1>4 DEF NotConnected, NoReply, Answer, InStep
<1> QED BY <1>1, <1>2, <1>3, <1>4 DEF Exchange

(* The inductive invariant of RepliesAreOwn: between exchanges nothing is left to read. *)
OwnInv == InStep /\ RepliesAreOwn

(* Every step that exchanges something reads the answer to what it sent. *)
LEMMA OwnStep ==
  ASSUME OwnInv, [Next]_vars
  PROVE  OwnInv'
<1> USE DEF OwnInv
<1>1. ASSUME NEW r \in todo, Send(r) PROVE OwnInv'
  BY <1>1, ExchangeIsOwn DEF Send, RepliesAreOwn
<1>2. CASE LookUp
  BY <1>2, ExchangeIsOwn DEF LookUp, RepliesAreOwn
<1>3. CASE Evict
  <2>1. PICK stored \in reply.stored : Exchange(Remove(stored))
    BY <1>3 DEF Evict
  <2> QED BY <1>3, <2>1, ExchangeIsOwn DEF Evict, RepliesAreOwn, Remove
<1>4. CASE Repair
  <2>1. PICK stored \in Holder : Exchange(Remove(stored))
    BY <1>4 DEF Repair
  <2> QED BY <1>4, <2>1, ExchangeIsOwn DEF Repair, RepliesAreOwn, Remove
<1>5. CASE AddAgain
  BY <1>5, ExchangeIsOwn DEF AddAgain, RepliesAreOwn, batchVars
<1>6. CASE AddReplacement
  BY <1>6, ExchangeIsOwn DEF AddReplacement, RepliesAreOwn, batchVars
<1>7. CASE Abandon \/ Return \/ Settle \/ Refused
  BY <1>7 DEF Abandon, Return, Settle, Refused, Count, Stop, RepliesAreOwn, InStep
<1>8. CASE NoEviction \/ EvictionFails \/ Evicted
  BY <1>8 DEF NoEviction, EvictionFails, Evicted, Count, Stop, RepliesAreOwn, InStep
<1>9. CASE RepairFails \/ ReplacementAbandoned \/ Added
  BY <1>9 DEF RepairFails, ReplacementAbandoned, Added, Count, Stop, RepliesAreOwn, InStep
<1>10. CASE Submit \/ Finish
  BY <1>10 DEF Submit, Finish, RepliesAreOwn, InStep
<1>11. CASE GiveUp \/ Change
  BY <1>11 DEF GiveUp, Change, batchVars, RepliesAreOwn, InStep
<1>12. CASE UNCHANGED vars
  BY <1>12 DEF vars, batchVars, RepliesAreOwn, InStep
<1> QED
  BY <1>1, <1>2, <1>3, <1>4, <1>5, <1>6, <1>7, <1>8, <1>9, <1>10, <1>11, <1>12
  DEF Next, Agent, Caller

(* No answer is ever taken for another request's, whatever is lost and retried            *)
(* (send_with_retry drops every connection that may still owe an answer).                 *)
THEOREM AnswersAreOwn == Spec => []RepliesAreOwn
<1>1. Init => OwnInv
  BY DEF Init, OwnInv, InStep, Closed, RepliesAreOwn
<1>2. OwnInv /\ [Next]_vars => OwnInv'
  BY OwnStep
<1>3. OwnInv => RepliesAreOwn
  BY DEF OwnInv
<1> QED BY <1>1, <1>2, <1>3, PTL DEF Spec

-----------------------------------------------------------------------------
(* A batch stops once its caller gave up. *)

IsSeq(s) == \E S : s \in Seq(S)

(* Appending makes a sequence longer by one. *)
LEMMA AppendIsSeq ==
  ASSUME NEW s, NEW x, IsSeq(s)
  PROVE  /\ IsSeq(Append(s, x)) /\ Len(s) \in Nat
         /\ Len(Append(s, x)) = Len(s) + 1
<1>1. PICK S : s \in Seq(S)
  BY DEF IsSeq
<1>2. s \in Seq(S \cup {x})
  BY <1>1
<1>3. /\ Append(s, x) \in Seq(S \cup {x})
      /\ Len(s) \in Nat /\ Len(Append(s, x)) = Len(s) + 1
  BY <1>2
<1> QED BY <1>3 DEF IsSeq

Between == {"idle", "next", "done", "failed"}

(* While a request is under way, none was settled since the caller gave up; afterwards, one. *)
StopInv ==
  /\ IsSeq(acked) /\ atGiveUp \in Nat
  /\ GaveUp /\ pc \notin Between => Len(acked) <= atGiveUp
  /\ GaveUp /\ pc # "idle" => Len(acked) <= atGiveUp + 1

(* Once the caller gave up, no step but the end of the request under way counts one. *)
LEMMA StopStep ==
  ASSUME StopInv, [Next]_vars
  PROVE  StopInv'
<1> USE DEF StopInv, GaveUp, Between
<1>0. Len(acked) \in Nat
  BY AppendIsSeq
<1>1. ASSUME NEW r \in todo, Send(r) PROVE StopInv'
  BY <1>0, <1>1 DEF Send, callerVars
<1>2. CASE LookUp \/ Evict \/ Repair \/ AddAgain \/ AddReplacement
  BY <1>0, <1>2 DEF LookUp, Evict, Repair, AddAgain, AddReplacement, callerVars, batchVars
<1>3. ASSUME NEW sure, Count(sure), pc \notin Between, UNCHANGED callerVars PROVE StopInv'
  BY <1>0, <1>3, AppendIsSeq DEF Count, callerVars
<1>4. ASSUME Stop, pc # "idle", UNCHANGED callerVars PROVE StopInv'
  BY <1>0, <1>4 DEF Stop, callerVars
<1>5. CASE Settle
  BY <1>3, <1>5 DEF Settle
<1>6. CASE NoEviction
  BY <1>3, <1>6 DEF NoEviction
<1>7. CASE Evicted
  BY <1>3, <1>4, <1>7 DEF Evicted
<1>8. CASE Added
  BY <1>3, <1>4, <1>8 DEF Added
<1>9. CASE Abandon \/ Refused \/ EvictionFails \/ RepairFails \/ ReplacementAbandoned
  BY <1>4, <1>9 DEF Abandon, Refused, EvictionFails, RepairFails, ReplacementAbandoned
<1>10. CASE Return
  BY <1>0, <1>10 DEF Return, callerVars, batchVars
<1>11. CASE Submit \/ Finish
  <2>1. acked' = <<>> /\ atGiveUp' = 0
    BY <1>11 DEF Submit, Finish
  <2>2. IsSeq(<<>>) /\ Len(<<>>) = 0
    BY DEF IsSeq
  <2> QED BY <2>1, <2>2
<1>12. CASE GiveUp
  BY <1>0, <1>12 DEF GiveUp, batchVars
<1>13. CASE Change
  BY <1>0, <1>13 DEF Change, batchVars
<1>14. CASE UNCHANGED vars
  BY <1>0, <1>14 DEF vars, batchVars, callerVars
<1> QED
  BY <1>1, <1>2, <1>5, <1>6, <1>7, <1>8, <1>9, <1>10, <1>11, <1>12, <1>13, <1>14
  DEF Next, Agent, Caller

(* Once the caller gave up, at most the request under way is settled (apply_unless). *)
THEOREM AbandonedBatchesStop == Spec => []AbandonStops
<1>1. Init => StopInv
  BY DEF Init, StopInv, IsSeq
<1>2. StopInv /\ [Next]_vars => StopInv'
  BY StopStep
<1>3. StopInv => AbandonStops
  BY DEF StopInv, AbandonStops
<1> QED BY <1>1, <1>2, <1>3, PTL DEF Spec

-----------------------------------------------------------------------------
(* What the main process holds. *)

(* What Replay computes, state by state. *)
Runs(f, S, head, n) ==
  f = [i \in 0..n |-> IF i = 0 THEN S ELSE Effect(f[i - 1], head[i])]

(* The replay of any head is defined ... *)
LEMMA RunExists ==
  ASSUME NEW S, NEW head, NEW n \in Nat
  PROVE  \E f : Runs(f, S, head, n)
<1> DEFINE T == {m \in Nat : \E f : Runs(f, S, head, m)}
<1>1. 0 \in T
  <2>1. Runs([i \in 0..0 |-> S], S, head, 0)
    BY DEF Runs
  <2> QED
    BY <2>1
<1>2. ASSUME NEW m \in T PROVE m + 1 \in T
  <2>1. PICK f : Runs(f, S, head, m)
    OBVIOUS
  <2> DEFINE g == [i \in 0..(m + 1) |-> IF i = m + 1 THEN Effect(f[m], head[i]) ELSE f[i]]
  <2>2. \A i \in 0..m : g[i] = f[i]
    OBVIOUS
  <2>3. \A i \in 0..(m + 1) : g[i] = IF i = 0 THEN S ELSE Effect(g[i - 1], head[i])
    <3> SUFFICES ASSUME NEW i \in 0..(m + 1)
                 PROVE  g[i] = IF i = 0 THEN S ELSE Effect(g[i - 1], head[i])
      OBVIOUS
    <3>1. CASE i = m + 1
      BY <2>2, <3>1
    <3>2. CASE i \in 0..m
      <4>1. f[i] = IF i = 0 THEN S ELSE Effect(f[i - 1], head[i])
        BY <2>1, <3>2 DEF Runs
      <4> QED
        BY <2>2, <3>2, <4>1
    <3> QED
      BY <3>1, <3>2
  <2>4. Runs(g, S, head, m + 1)
    BY <2>3 DEF Runs
  <2> QED
    BY <2>4
<1>3. T = Nat
  <2>1. T \in SUBSET Nat
    OBVIOUS
  <2> HIDE DEF T
  <2> QED
    BY <1>1, <1>2, <2>1, Lists!NatSetInduction
<1> QED
  BY <1>3

(* ... and there is one only. *)
LEMMA RunUnique ==
  ASSUME NEW S, NEW head, NEW tail, NEW n \in Nat, NEW m \in Nat, n <= m,
         \A i \in 1..n : head[i] = tail[i],
         NEW f, Runs(f, S, head, n), NEW g, Runs(g, S, tail, m)
  PROVE  f[n] = g[n]
<1> DEFINE T == {i \in Nat : i <= n => f[i] = g[i]}
<1>0. /\ \A i \in 0..n : f[i] = IF i = 0 THEN S ELSE Effect(f[i - 1], head[i])
      /\ \A i \in 0..m : g[i] = IF i = 0 THEN S ELSE Effect(g[i - 1], tail[i])
  BY DEF Runs
<1>1. 0 \in T
  BY <1>0
<1>2. ASSUME NEW i \in T PROVE i + 1 \in T
  <2> SUFFICES ASSUME i + 1 <= n PROVE f[i + 1] = g[i + 1]
    OBVIOUS
  <2>1. f[i] = g[i] /\ i + 1 \in 1..n /\ i + 1 \in 0..n /\ i + 1 \in 0..m /\ (i + 1) - 1 = i /\ i + 1 # 0
    OBVIOUS
  <2>2. f[i + 1] = Effect(f[i], head[i + 1]) /\ g[i + 1] = Effect(g[i], tail[i + 1])
    BY <1>0, <2>1
  <2> QED
    BY <2>1, <2>2
<1>3. T = Nat
  <2>1. T \in SUBSET Nat
    OBVIOUS
  <2> HIDE DEF T
  <2> QED
    BY <1>1, <1>2, <2>1, Lists!NatSetInduction
<1> QED
  BY <1>3

(* Replay is the last state of the run. *)
LEMMA ReplayRuns ==
  ASSUME NEW S, NEW head, Len(head) \in Nat
  PROVE  \E f : Runs(f, S, head, Len(head)) /\ Replay(S, head) = f[Len(head)]
<1> DEFINE f == CHOOSE after : after = [i \in 0..Len(head) |->
                  IF i = 0 THEN S ELSE Effect(after[i - 1], head[i])]
<1>1. \E g : g = [i \in 0..Len(head) |-> IF i = 0 THEN S ELSE Effect(g[i - 1], head[i])]
  <2>1. \E g : Runs(g, S, head, Len(head))
    BY RunExists
  <2> QED
    BY <2>1 DEF Runs
<1>2. f = [i \in 0..Len(head) |-> IF i = 0 THEN S ELSE Effect(f[i - 1], head[i])]
  BY <1>1
<1>3. Replay(S, head) = f[Len(head)]
  BY DEF Replay
<1> QED
  BY <1>2, <1>3 DEF Runs

(* Replaying one more request is its effect on what the others made. *)
LEMMA ReplayAppend ==
  ASSUME NEW S, NEW head \in Seq(Request), NEW r \in Request
  PROVE  /\ Replay(S, <<>>) = S
         /\ Replay(S, Append(head, r)) = Effect(Replay(S, head), r)
<1>1. Replay(S, <<>>) = S
  <2>1. Len(<<>>) = 0 /\ Len(<<>>) \in Nat
    OBVIOUS
  <2>2. PICK f : Runs(f, S, <<>>, Len(<<>>)) /\ Replay(S, <<>>) = f[Len(<<>>)]
    BY <2>1, ReplayRuns
  <2>3. f[0] = S
    BY <2>1, <2>2 DEF Runs
  <2> QED
    BY <2>1, <2>2, <2>3
<1>2. Replay(S, Append(head, r)) = Effect(Replay(S, head), r)
  <2> DEFINE n == Len(head)
             more == Append(head, r)
  <2>1. n \in Nat /\ Len(more) = n + 1 /\ more[n + 1] = r /\ \A i \in 1..n : head[i] = more[i]
    OBVIOUS
  <2>2. PICK f : Runs(f, S, head, n) /\ Replay(S, head) = f[n]
    BY <2>1, ReplayRuns
  <2>3. PICK g : Runs(g, S, more, n + 1) /\ Replay(S, more) = g[n + 1]
    <3>1. Len(more) \in Nat
      BY <2>1
    <3> HIDE DEF more
    <3> QED
      BY <2>1, <3>1, ReplayRuns
  <2> HIDE DEF n, more
  <2>4. f[n] = g[n]
    <3>1. n + 1 \in Nat /\ n <= n + 1
      BY <2>1
    <3> QED
      BY <2>1, <2>2, <2>3, <3>1, RunUnique
  <2>5. g[n + 1] = Effect(g[n], more[n + 1])
    BY <2>1, <2>3 DEF Runs
  <2> QED
    BY <2>1, <2>2, <2>3, <2>4, <2>5 DEF more
<1> QED
  BY <1>1, <1>2

-----------------------------------------------------------------------------
(* Sets of objects with one object to a slot. *)

OneEach(S) == S \subseteq Objects /\ \A o, p \in S : Slot(o) = Slot(p) => o = p

(* Two objects in one slot are of one kind. *)
LEMMA SlotKind ==
  ASSUME NEW o, NEW p, Slot(o) = Slot(p)
  PROVE  o.kind = p.kind
<1>1. \A x : Slot(x)[1] = x.kind
  BY DEF Slot
<1> QED
  BY <1>1

(* A slot that is not a route's has one object. *)
LEMMA SlotOwner ==
  ASSUME NEW o \in Objects, NEW p \in Objects, Slot(o) = Slot(p), o.kind # "route"
  PROVE  o = p
BY SlotsAssumption

(* The requests of batches and of repairs: what replaces something is a certificate of one *)
(* listener. *)
Proper(r) ==
  /\ r \in Request
  /\ r.op = "replace" => /\ r.obj.kind = "cert" /\ r.old.kind = "cert" /\ r.obj # r.old
                         /\ r.obj.listener = r.old.listener

(* A request leaves one object to a slot. *)
LEMMA EffectOneEach ==
  ASSUME NEW S, OneEach(S), NEW r, Proper(r)
  PROVE  OneEach(Effect(S, r))
<1>1. r.obj \in Objects /\ r.old \in Objects
  BY DEF Proper, Request
<1>2. CASE r.op = "remove"
  BY <1>2 DEF OneEach, Effect
<1>3. CASE r.op = "replace"
  <2>1. Effect(S, r) = (S \ {r.old}) \cup {r.obj}
    BY <1>3 DEF Effect
  <2>2. \A o \in S : Slot(o) = Slot(r.obj) => o = r.obj
    BY <1>1, <1>3, SlotOwner DEF OneEach, Proper
  <2> QED
    BY <1>1, <2>1, <2>2 DEF OneEach
<1>4. CASE r.op \notin {"remove", "replace"}
  <2>1. Effect(S, r) = (S \ At(S, r.obj)) \cup {r.obj}
    BY <1>4 DEF Effect
  <2> QED
    BY <1>1, <2>1 DEF OneEach, At
<1> QED
  BY <1>2, <1>3, <1>4

Elems(s) == {s[i] : i \in 1..Len(s)}

(* So does the replay of any number of them. *)
LEMMA ReplayOneEach ==
  ASSUME NEW S, OneEach(S), NEW head \in Seq(Request), \A r \in Elems(head) : Proper(r)
  PROVE  OneEach(Replay(S, head))
<1>1. Len(head) \in Nat
  OBVIOUS
<1>2. PICK f : Runs(f, S, head, Len(head)) /\ Replay(S, head) = f[Len(head)]
  BY <1>1, ReplayRuns
<1>3. \A i \in 0..Len(head) : f[i] = IF i = 0 THEN S ELSE Effect(f[i - 1], head[i])
  BY <1>1, <1>2 DEF Runs
<1> DEFINE T == {i \in Nat : i <= Len(head) => OneEach(f[i])}
<1>4. 0 \in T
  BY <1>1, <1>3
<1>5. ASSUME NEW i \in T PROVE i + 1 \in T
  <2> SUFFICES ASSUME i + 1 <= Len(head) PROVE OneEach(f[i + 1])
    OBVIOUS
  <2>1. OneEach(f[i]) /\ i + 1 \in 1..Len(head) /\ i + 1 \in 0..Len(head)
        /\ (i + 1) - 1 = i /\ i + 1 # 0
    BY <1>1
  <2>2. f[i + 1] = Effect(f[i], head[i + 1])
    BY <1>3, <2>1
  <2>3. Proper(head[i + 1])
    BY <2>1 DEF Elems
  <2> QED
    BY <2>1, <2>2, <2>3, EffectOneEach
<1>6. T = Nat
  <2>1. T \in SUBSET Nat
    OBVIOUS
  <2> HIDE DEF T
  <2> QED
    BY <1>4, <1>5, <2>1, Lists!NatSetInduction
<1> QED
  BY <1>1, <1>2, <1>6

-----------------------------------------------------------------------------
(* The batch of a diff. *)

(* An IR the builder asks for has one object to a slot. *)
LEMMA WantedOneEach ==
  ASSUME NEW to \in Wanted
  PROVE  OneEach(to)
<1>1. to \subseteq Objects /\ \A o \in to : At(to, o) = {o}
  BY WantedAssumption
<1>2. ASSUME NEW o \in to, NEW p \in to, Slot(o) = Slot(p) PROVE o = p
  <2>1. p \in At(to, o)
    BY <1>2 DEF At
  <2> QED
    BY <1>1, <2>1
<1> QED
  BY <1>1, <1>2 DEF OneEach

(* A rotation replaces a certificate that goes by one of its listener that comes. *)
LEMMA RotatedFacts ==
  ASSUME NEW from, from \subseteq Objects, NEW to, to \subseteq Objects,
         NEW rotated \in Rotations(from, to), NEW x \in rotated
  PROVE  /\ x.op = "replace" /\ x.obj \in to \ from /\ x.old \in from \ to
         /\ x.obj.kind = "cert" /\ x.old.kind = "cert" /\ x \in Request
         /\ x.obj.listener = x.old.listener
<1> DEFINE pairs == {Replace(p[1], p[2]) :
                       p \in {q \in OfKind(from \ to, "cert") \X OfKind(to \ from, "cert") :
                              q[1].listener = q[2].listener /\ q[1].names = q[2].names}}
<1>1. rotated \subseteq pairs
  BY DEF Rotations
<1>2. PICK p \in OfKind(from \ to, "cert") \X OfKind(to \ from, "cert") :
        p[1].listener = p[2].listener /\ x = Replace(p[1], p[2])
  BY <1>1
<1> QED
  BY <1>2 DEF OfKind, Replace, Request

(* Additions are of what is missing, removals of what is too much, and a certificate that      *)
(* replaces one is neither added, nor the other removed.                                       *)
LEMMA DiffFacts ==
  ASSUME NEW from, from \subseteq Objects, NEW to, to \subseteq Objects,
         NEW B \in Batches(from, to), NEW r \in B
  PROVE  /\ Proper(r) /\ r.op \in {"add", "remove", "replace"}
         /\ r.op = "add" => r = Add(r.obj) /\ r.old = r.obj /\ r.obj \in to \ from
         /\ r.op = "remove" => r = Remove(r.obj) /\ r.old = r.obj /\ r.obj \in from \ to
         /\ r.op = "replace" => /\ r.obj \in to \ from /\ r.old \in from \ to
                                /\ r.obj.kind = "cert" /\ r.old.kind = "cert"
                                /\ Add(r.obj) \notin B /\ Remove(r.old) \notin B
<1>0. PICK rotated \in Rotations(from, to) : B = Diff(from, to, rotated)
  BY DEF Batches
<1> DEFINE replaced == {x.old : x \in rotated} \cup {x.obj : x \in rotated}
<1>1. B = rotated \cup {Add(o) : o \in (to \ from) \ replaced}
                   \cup {Remove(o) : o \in (from \ to) \ replaced}
  BY <1>0 DEF Diff
<1>2. ASSUME NEW x \in rotated
      PROVE  /\ x.op = "replace" /\ x.obj \in to \ from /\ x.old \in from \ to
             /\ x.obj.kind = "cert" /\ x.old.kind = "cert" /\ x \in Request
             /\ x.obj.listener = x.old.listener
  BY <1>0, RotatedFacts
<1>3. CASE r \in rotated
  <2>1. r.obj \in replaced /\ r.old \in replaced
    BY <1>3
  <2>2. \A o : Add(o).op = "add" /\ Add(o).obj = o /\ Remove(o).op = "remove" /\ Remove(o).obj = o
    BY DEF Add, Remove
  <2>3. Add(r.obj) \notin B /\ Remove(r.old) \notin B
    <3>1. Add(r.obj) \notin rotated /\ Remove(r.old) \notin rotated
      BY <1>2, <2>2
    <3>2. ASSUME NEW o, o \notin replaced PROVE Add(o) # Add(r.obj) /\ Remove(o) # Remove(r.old)
      BY <2>1, <2>2, <3>2
    <3>3. \A o : Remove(o) # Add(r.obj) /\ Add(o) # Remove(r.old)
      BY <2>2
    <3> HIDE DEF replaced
    <3> QED
      BY <1>1, <3>1, <3>2, <3>3
  <2> QED
    BY <1>2, <1>3, <2>3 DEF Proper
<1>4. CASE r \in {Add(o) : o \in (to \ from) \ replaced}
  <2>1. PICK o \in to \ from : r = Add(o)
    BY <1>4
  <2> QED
    BY <2>1 DEF Add, Proper, Request
<1>5. CASE r \in {Remove(o) : o \in (from \ to) \ replaced}
  <2>1. PICK o \in from \ to : r = Remove(o)
    BY <1>5
  <2> QED
    BY <2>1 DEF Remove, Proper, Request
<1> QED
  BY <1>1, <1>3, <1>4, <1>5

(* A route that is missing is added. *)
LEMMA MissingIsAdded ==
  ASSUME NEW from, from \subseteq Objects, NEW to, to \subseteq Objects,
         NEW B \in Batches(from, to), NEW o \in to \ from, o.kind # "cert"
  PROVE  Add(o) \in B
<1>1. PICK rotated \in Rotations(from, to) : B = Diff(from, to, rotated)
  BY DEF Batches
<1>2. \A x \in rotated : x.obj # o /\ x.old # o
  BY <1>1, RotatedFacts
<1> QED
  BY <1>1, <1>2 DEF Diff

(* Objects an IR asks for outlive every cluster that is removed on the way to it. *)
LEMMA ClusterSpared ==
  ASSUME NEW from, from \subseteq Objects, NEW to \in Wanted,
         NEW B \in Batches(from, to), NEW r \in B,
         r.op = "remove", r.obj.kind = "cluster", NEW p \in to
  PROVE  p.cluster # r.obj.cluster
<1>0. to \subseteq Objects /\ Refers(to)
  BY WantedAssumption
<1>1. r.obj \in Objects /\ r.obj \notin to /\ r.obj.key = r.obj.cluster
  BY <1>0, DiffFacts, ClustersAssumption DEF OfKind
<1>2. ASSUME NEW q \in to, q.kind = "cluster" PROVE q.key # r.obj.cluster
  <2>1. q.key = r.obj.cluster => Slot(q) = Slot(r.obj)
    BY <1>1, <1>2 DEF Slot
  <2> QED
    BY <1>0, <1>1, <1>2, <2>1, SlotOwner
<1>3. CASE p.kind \in {"route", "backend"}
  BY <1>0, <1>2, <1>3 DEF Refers, Holds, OfKind
<1>4. CASE p.kind = "cluster"
  BY <1>0, <1>2, <1>4, ClustersAssumption DEF OfKind
<1>5. CASE p.kind \in {"cert", "listener"}
  BY <1>0, <1>1, <1>5, ClustersAssumption DEF OfKind
<1> QED
  BY <1>0, <1>3, <1>4, <1>5, ObjectsAssumption DEF Kinds

Touches(r, o) == Slot(o) \in {Slot(r.obj), Slot(r.old)}

(* A slot that the batch has been at is not cleared later on: the removal comes first. *)
LEMMA ClearedFirst ==
  ASSUME NEW from, OneEach(from), NEW to \in Wanted,
         NEW B \in Batches(from, to), NEW a \in B, NEW r \in B, a # r, Tier(a) <= Tier(r),
         NEW o \in {a.obj, a.old}, Touches(r, o)
  PROVE  r.op # "remove"
<1> SUFFICES ASSUME r.op = "remove" PROVE FALSE
  OBVIOUS
<1>0. from \subseteq Objects /\ to \subseteq Objects
  BY WantedOneEach DEF OneEach
<1>1. r = Remove(r.obj) /\ r.obj \in from \ to /\ Slot(o) = Slot(r.obj)
  BY <1>0, DiffFacts DEF Touches
<1>2. CASE a.op = "remove"
  <2>1. a = Remove(a.obj) /\ a.obj \in from /\ o = a.obj
    BY <1>0, <1>2, DiffFacts
  <2> QED
    BY <1>1, <2>1 DEF OneEach
<1>3. CASE a.op = "add"
  <2>1. a.obj \in to /\ o = a.obj
    BY <1>0, <1>3, DiffFacts
  <2>2. a.obj.kind = "route" /\ r.obj.kind = "route"
    BY <1>0, <1>1, <2>1, SlotOwner
  <2>3. Tier(a) = 6 /\ Tier(r) = 5
    BY <1>3, <2>2 DEF Tier
  <2> QED
    BY <2>3
<1>4. CASE a.op = "replace"
  <2>1. /\ a.obj \in to /\ a.old \in from /\ a.obj.kind = "cert" /\ a.old.kind = "cert"
        /\ Remove(a.old) \notin B
    BY <1>0, <1>4, DiffFacts
  <2>2. o = r.obj
    BY <1>0, <1>1, <2>1, SlotOwner
  <2> QED
    BY <1>1, <2>1, <2>2
<1> QED
  BY <1>0, <1>2, <1>3, <1>4, DiffFacts

(* What the slot of o should hold on the way to an IR, with some requests still to come. *)
Due(to, pending, o) == {p \in At(to, o) : Add(p) \notin pending}

(* Objects of one slot see the same. *)
LEMMA SameSlot ==
  ASSUME NEW o, NEW p, Slot(o) = Slot(p)
  PROVE  /\ \A S : At(S, o) = At(S, p)
         /\ \A to, pending : Due(to, pending, o) = Due(to, pending, p)
BY DEF At, Due

(* Request r has done what it asks for. *)
DoneIn(S, r) ==
  IF r.op = "remove" THEN At(S, r.obj) = {}
  ELSE At(S, r.obj) = {r.obj} /\ (r.op = "replace" => r.old \notin S)

(* Sozu's own notion of a request agrees. *)
LEMMA EffectIsDone ==
  ASSUME NEW S, S \subseteq Objects, NEW r, Proper(r)
  PROVE  DoneIn(Effect(S, r), r)
<1>0. r.obj \in Objects /\ r.old \in Objects
  BY DEF Proper, Request
<1>1. CASE r.op = "remove" /\ r.obj.kind = "cluster"
  <2>1. \A o \in S : Slot(o) = Slot(r.obj) => o = r.obj
    BY <1>0, <1>1, SlotOwner
  <2> QED
    BY <1>1, <2>1 DEF DoneIn, Effect, At
<1>2. CASE r.op = "remove" /\ r.obj.kind # "cluster"
  BY <1>2 DEF DoneIn, Effect, At
<1>3. CASE r.op = "replace"
  <2>1. \A o \in S : Slot(o) = Slot(r.obj) => o = r.obj
    BY <1>0, <1>3, SlotOwner DEF Proper
  <2>2. Effect(S, r) = (S \ {r.old}) \cup {r.obj}
    BY <1>3 DEF Effect
  <2> QED
    BY <1>3, <2>1, <2>2 DEF DoneIn, At, Proper
<1>4. CASE r.op \notin {"remove", "replace"}
  <2>1. Effect(S, r) = (S \ At(S, r.obj)) \cup {r.obj}
    BY <1>4 DEF Effect
  <2> QED
    BY <1>4, <2>1 DEF DoneIn, At
<1> QED
  BY <1>1, <1>2, <1>3, <1>4

(* A request of the batch that has done what it asks for, before any addition to its slot, has *)
(* left there what is due.                                                                     *)
LEMMA DoneIsDue ==
  ASSUME NEW from, OneEach(from), NEW to \in Wanted,
         NEW B \in Batches(from, to), NEW r \in B,
         NEW S, S \subseteq Objects, DoneIn(S, r),
         NEW pending, pending \subseteq B, r \notin pending,
         \A t \in B \ (pending \cup {r}) : Tier(t) <= Tier(r),
         NEW o \in {r.obj, r.old}
  PROVE  At(S, o) = Due(to, pending, o)
<1>0. from \subseteq Objects /\ OneEach(to) /\ to \subseteq Objects
  BY WantedOneEach DEF OneEach
<1>1. ASSUME r.obj \in to, At(S, r.obj) = {r.obj}, Add(r.obj) \notin pending
      PROVE  At(S, r.obj) = Due(to, pending, r.obj)
  <2>1. At(to, r.obj) = {r.obj}
    BY <1>0, <1>1 DEF OneEach, At
  <2> QED
    BY <1>1, <2>1 DEF Due
<1>2. CASE r.op = "add"
  <2>1. r = Add(r.obj) /\ o = r.obj /\ r.obj \in to
    BY <1>0, <1>2, DiffFacts
  <2>2. At(S, r.obj) = {r.obj}
    BY <1>2 DEF DoneIn
  <2> QED
    BY <1>1, <2>1, <2>2
<1>3. CASE r.op = "replace"
  <2>1. /\ r.obj \in to /\ r.old \notin to /\ r.old \in Objects /\ r.old.kind = "cert"
        /\ Add(r.obj) \notin pending
    BY <1>0, <1>3, DiffFacts
  <2>2. At(S, r.obj) = {r.obj} /\ r.old \notin S
    BY <1>3 DEF DoneIn
  <2>3. At(S, r.old) = {} /\ At(to, r.old) = {}
    BY <1>0, <2>1, <2>2, SlotOwner DEF At
  <2> QED
    BY <1>1, <2>1, <2>2, <2>3 DEF Due
<1>4. CASE r.op = "remove"
  <2>1. r.obj \in from \ to /\ o = r.obj /\ At(S, r.obj) = {}
    BY <1>0, <1>4, DiffFacts DEF DoneIn
  <2>2. ASSUME NEW p \in At(to, r.obj) PROVE Add(p) \in pending
    <3>1. p \in to /\ Slot(p) = Slot(r.obj) /\ p # r.obj
      BY <2>1 DEF At
    <3>2. p.kind = "route" /\ r.obj.kind = "route"
      BY <1>0, <2>1, <3>1, SlotOwner
    <3>3. p \notin from
      BY <2>1, <3>1 DEF OneEach
    <3>4. Add(p) \in B
      BY <1>0, <3>1, <3>2, <3>3, MissingIsAdded
    <3>5. Tier(Add(p)) = 6 /\ Tier(r) = 5 /\ Add(p) # r
      BY <1>4, <3>2 DEF Tier, Add
    <3> QED
      BY <3>4, <3>5
  <2> QED
    BY <2>1, <2>2 DEF Due
<1> QED
  BY <1>0, <1>2, <1>3, <1>4, DiffFacts

-----------------------------------------------------------------------------
(* What a request leaves alone. *)

(* S2 differs from S by what request r may change: its slot, the certificate it replaces, what *)
(* goes with its cluster.                                                                      *)
Frame(S, S2, r) ==
  /\ S2 \subseteq S \cup {r.obj}
  /\ r.op \in {"remove", "list"} => S2 \subseteq S
  /\ \A o \in S \ S2 :
       \/ Slot(o) = Slot(r.obj)
       \/ r.op = "replace" /\ o = r.old
       \/ r.op = "remove" /\ r.obj.kind = "cluster" /\ o.cluster = r.obj.cluster

(* Two attempts at one request change no more than one. *)
LEMMA FrameTwice ==
  ASSUME NEW S, NEW S1, NEW S2, NEW r, Frame(S, S1, r), Frame(S1, S2, r)
  PROVE  Frame(S, S2, r)
BY DEF Frame

(* The effect of a request stays in its frame. *)
LEMMA EffectFrame ==
  ASSUME NEW S, NEW r, Proper(r), r.op # "list"
  PROVE  Frame(S, Effect(S, r), r)
<1>1. CASE r.op = "remove"
  BY <1>1 DEF Frame, Effect, At
<1>2. CASE r.op = "replace"
  <2>1. Effect(S, r) = (S \ {r.old}) \cup {r.obj}
    BY <1>2 DEF Effect
  <2> QED
    BY <1>2, <2>1 DEF Frame
<1>3. CASE r.op = "add"
  <2>1. Effect(S, r) = (S \ At(S, r.obj)) \cup {r.obj}
    BY <1>3 DEF Effect
  <2> QED
    BY <1>3, <2>1 DEF Frame, At
<1> QED
  BY <1>1, <1>2, <1>3 DEF Proper, Request

(* x is sent for request r of the batch: r itself, or a look-up, an eviction, a repair of its  *)
(* slot.                                                                                       *)
Within(x, r) ==
  /\ Proper(x) /\ Slot(x.obj) = Slot(r.obj)
  /\ x.op = "replace" \/ (x.op = "remove" /\ x.obj.kind = "cluster") => x = r
  /\ x.op = "add" => r.op # "remove"

(* Slots the request has no business with keep what is due there. *)
LEMMA FrameKeeps ==
  ASSUME NEW from, from \subseteq Objects, NEW to \in Wanted,
         NEW B \in Batches(from, to), NEW r \in B,
         NEW x, Within(x, r), NEW S, NEW S2, Frame(S, S2, x),
         NEW o, ~Touches(r, o), At(S, o) \subseteq to
  PROVE  At(S2, o) = At(S, o)
<1>1. ASSUME NEW p \in S2, Slot(p) = Slot(o) PROVE p \in S
  BY <1>1 DEF Frame, Within, Touches
<1>2. ASSUME NEW p \in S, Slot(p) = Slot(o), p \notin S2 PROVE FALSE
  <2>1. p \in to
    BY <1>2 DEF At
  <2>2. CASE x.op = "remove" /\ x.obj.kind = "cluster" /\ p.cluster = x.obj.cluster
    BY <2>1, <2>2, ClusterSpared DEF Within
  <2>3. CASE x.op = "replace" /\ p = x.old
    BY <1>2, <2>3 DEF Within, Touches
  <2>4. CASE Slot(p) = Slot(x.obj)
    BY <1>2, <2>4 DEF Within, Touches
  <2> QED
    BY <1>2, <2>2, <2>3, <2>4 DEF Frame
<1> QED
  BY <1>1, <1>2 DEF At

(* A request is within itself. *)
LEMMA WithinItself ==
  ASSUME NEW from, from \subseteq Objects, NEW to \in Wanted,
         NEW B \in Batches(from, to), NEW r \in B
  PROVE  Within(r, r)
<1>1. to \subseteq Objects
  BY WantedOneEach DEF OneEach
<1> QED
  BY <1>1, DiffFacts DEF Within

-----------------------------------------------------------------------------
(* The replay of a head of the batch records what is due after it. *)

ReplayRight(B, from, to, head) ==
  \A a \in Elems(head) : \A o \in {a.obj, a.old} :
    At(Replay(from, head), o) = Due(to, B \ Elems(head), o)

(* Appending adds one element. *)
LEMMA AppendElems ==
  ASSUME NEW S, NEW s \in Seq(S), NEW x \in S
  PROVE  /\ Elems(Append(s, x)) = Elems(s) \cup {x}
         /\ Append(s, x) \in Seq(S) /\ Len(Append(s, x)) = Len(s) + 1 /\ Len(s) \in Nat
<1>1. /\ Append(s, x) \in Seq(S) /\ Len(Append(s, x)) = Len(s) + 1 /\ Len(s) \in Nat
      /\ \A i \in 1..Len(s) : Append(s, x)[i] = s[i]
      /\ Append(s, x)[Len(s) + 1] = x
  OBVIOUS
<1>2. 1..(Len(s) + 1) = (1..Len(s)) \cup {Len(s) + 1}
  BY <1>1
<1> QED
  BY <1>1, <1>2 DEF Elems

(* One more acknowledged request keeps it so. *)
LEMMA ReplayRightAppend ==
  ASSUME NEW from, OneEach(from), NEW to \in Wanted, NEW B \in Batches(from, to),
         NEW head \in Seq(Request), Elems(head) \subseteq B,
         NEW r \in B, r \notin Elems(head), \A a \in Elems(head) : Tier(a) <= Tier(r),
         ReplayRight(B, from, to, head)
  PROVE  ReplayRight(B, from, to, Append(head, r))
<1> DEFINE S == Replay(from, head)
           S2 == Effect(S, r)
           pending == B \ Elems(head)
           pending2 == B \ Elems(Append(head, r))
<1>0. from \subseteq Objects /\ to \subseteq Objects
  BY WantedOneEach DEF OneEach
<1>1. Proper(r) /\ r \in Request /\ r.op # "list"
  BY <1>0, DiffFacts DEF Proper
<1>2. Replay(from, Append(head, r)) = S2
  BY <1>1, ReplayAppend
<1>3. Elems(Append(head, r)) = Elems(head) \cup {r}
  BY <1>1, AppendElems
<1>4. OneEach(S) /\ OneEach(S2)
  BY <1>0, <1>1, DiffFacts, ReplayOneEach, EffectOneEach
<1> HIDE DEF S
<1>5. ASSUME NEW o \in {r.obj, r.old} PROVE At(S2, o) = Due(to, pending2, o)
  <2>1. DoneIn(S2, r) /\ S2 \subseteq Objects
    BY <1>1, <1>4, EffectIsDone DEF OneEach
  <2>2. \A t \in B \ (pending2 \cup {r}) : Tier(t) <= Tier(r)
    BY <1>3
  <2>3. pending2 \subseteq B /\ r \notin pending2
    BY <1>3
  <2> HIDE DEF S2, pending2
  <2> QED
    BY <1>5, <2>1, <2>2, <2>3, DoneIsDue
<1>6. ASSUME NEW a \in Elems(head), NEW o \in {a.obj, a.old} PROVE At(S2, o) = Due(to, pending2, o)
  <2>1. CASE Touches(r, o)
    <3>1. PICK p \in {r.obj, r.old} : Slot(o) = Slot(p)
      BY <2>1 DEF Touches
    <3> HIDE DEF S2, pending2
    <3> QED
      BY <1>5, <3>1, SameSlot
  <2>2. CASE ~Touches(r, o)
    <3>1. At(S, o) = Due(to, pending, o)
      BY <1>6 DEF ReplayRight, S
    <3>2. At(S2, o) = At(S, o)
      <4>1. At(S, o) \subseteq to
        BY <3>1 DEF Due, At
      <4> QED
        BY <1>0, <1>1, <2>2, <4>1, EffectFrame, WithinItself, FrameKeeps
    <3>3. \A p \in At(to, o) : Add(p) # r
      BY <2>2 DEF At, Add, Touches
    <3>4. Due(to, pending2, o) = Due(to, pending, o)
      BY <1>3, <3>3 DEF Due
    <3> QED
      BY <3>1, <3>2, <3>4
  <2> QED
    BY <2>1, <2>2
<1> QED
  BY <1>2, <1>3, <1>5, <1>6 DEF ReplayRight

-----------------------------------------------------------------------------
(* What Sozu's answers say about its main process. *)

(* Answer a to request r, with S what the main process holds after it. *)
Told(S, r, a) ==
  /\ a.status = "ok" \/ "ok" \in a.answers => r.op # "list" /\ DoneIn(S, r)
  /\ a.status = "gone" => r.op = "remove" /\ r.obj \notin S
  /\ a.status = "exists" => r.op = "add" /\ At(S, r.obj) # {}
  /\ a.status = "nothing" => r.op = "remove" /\ r.obj.kind = "route" /\ ~Holds(S, r.obj.cluster)
  /\ a.status = "empty" => r.op = "replace" /\ CertsAt(S, r.obj.listener) = {}
  /\ a.status = "list" => r.op = "list" /\ a.stored = At(S, r.obj)
  /\ a.stored # {} => a.status = "list"

(* What the main process makes of r, from S to S2. *)
Lands(S, S2, r) ==
  /\ S2 \subseteq Objects /\ Frame(S, S2, r)
  /\ r.op = "remove" /\ r.obj.kind = "cluster" /\ S2 # S => r.obj \in S
  /\ r.op = "remove" /\ r.obj.kind = "route" /\ ~Holds(S, r.obj.cluster) => S2 = S

(* A request that changes nothing lands in every state. *)
LEMMA StillLands ==
  ASSUME NEW S, S \subseteq Objects, NEW r
  PROVE  Lands(S, S, r)
BY DEF Lands, Frame

(* A request the main process applies does what it asks for, within its frame. *)
LEMMA EffectLands ==
  ASSUME NEW S, S \subseteq Objects, NEW r, Proper(r), Verdict(S, r) = "apply"
  PROVE  Lands(S, Effect(S, r), r) /\ DoneIn(Effect(S, r), r) /\ r.op # "list"
<1>1. r.op # "list"
  BY DEF Verdict
<1>2. Effect(S, r) \subseteq Objects
  BY <1>1, EffectFrame DEF Frame, Proper, Request
<1>3. r.op = "remove" /\ r.obj.kind = "cluster" => r.obj \in S
  BY DEF Verdict
<1>4. r.op = "remove" /\ r.obj.kind = "route" => Holds(S, r.obj.cluster)
  BY DEF Verdict
<1> QED
  BY <1>1, <1>2, <1>3, <1>4, EffectFrame, EffectIsDone DEF Lands

(* One landing tells the truth about the main process it leaves. *)
LEMMA LandingTold ==
  ASSUME NEW S, S \subseteq Objects, NEW routes, NEW r, Proper(r), NEW l \in Landings(S, routes, r)
  PROVE  /\ Lands(S, l.main, r) /\ Told(l.main, r, l.reply)
         /\ l.reply.status = "nothing" => l.main = S
<1>1. CASE Verdict(S, r) = "apply"
  <2>1. PICK mood \in Moods : l = FanOut(S, routes, r, mood)
    BY <1>1 DEF Landings
  <2> DEFINE answers == {IF mood[w] = "works" THEN Work(routes[w], r).answer ELSE Refusal(mood[w], r) :
                           w \in {v \in Workers : mood[v] \in {"works", "refuses", "lacks"}}}
             all == \A w \in Workers : mood[w] = "works" /\ Work(routes[w], r).answer = "ok"
  <2>2. /\ l.main = IF "ok" \in answers \/ ~Reverts(r) THEN Effect(S, r) ELSE S
        /\ l.reply = Answer(r, IF all THEN "ok" ELSE "workers", answers, {})
    BY <2>1 DEF FanOut
  <2>3. all => "ok" \in answers
    BY WorkersAssumption
  <2> HIDE DEF answers, all
  <2>4. /\ l.reply.status \in {"ok", "workers"} /\ l.reply.answers = answers
        /\ l.reply.status = "ok" => all
        /\ l.reply.stored = {}
    BY <2>2 DEF Answer
  <2>5. CASE l.main = Effect(S, r)
    <3>1. Lands(S, l.main, r) /\ DoneIn(l.main, r) /\ r.op # "list"
      BY <1>1, <2>5, EffectLands
    <3> QED
      BY <2>4, <3>1 DEF Told
  <2>6. CASE l.main = S /\ "ok" \notin answers
    <3>1. Lands(S, l.main, r)
      BY <2>6, StillLands
    <3> QED
      BY <2>3, <2>4, <2>6, <3>1 DEF Told
  <2> QED
    BY <2>2, <2>5, <2>6
<1>2. CASE Verdict(S, r) = "list"
  <2>1. r.op = "list"
    BY <1>2 DEF Verdict
  <2>2. /\ l.main = S /\ l.reply.answers = {}
        /\ \/ l.reply.status = "list" /\ l.reply.stored = At(S, r.obj)
           \/ l.reply.status = "refused" /\ l.reply.stored = {}
    BY <1>2 DEF Landings, Answer
  <2> QED
    BY <2>1, <2>2, StillLands DEF Told
<1>3. CASE Verdict(S, r) \notin {"apply", "list"}
  <2>1. l.main = S /\ l.reply.answers = {} /\ l.reply.stored = {} /\ l.reply.status = Verdict(S, r)
    BY <1>3 DEF Landings, Answer
  <2>2. Verdict(S, r) \in {"exists", "refused", "nothing", "gone", "empty"}
    BY <1>3 DEF Verdict
  <2>3. /\ Verdict(S, r) = "exists" => r.op = "add" /\ At(S, r.obj) # {}
        /\ Verdict(S, r) = "gone" => r.op = "remove" /\ r.obj \notin S
        /\ Verdict(S, r) = "nothing" => /\ r.op = "remove" /\ r.obj.kind = "route"
                                        /\ ~Holds(S, r.obj.cluster)
        /\ Verdict(S, r) = "empty" => r.op = "replace" /\ CertsAt(S, r.obj.listener) = {}
    BY DEF Verdict
  <2> QED
    BY <2>1, <2>2, <2>3, StillLands DEF Told
<1> QED
  BY <1>1, <1>2, <1>3

(* An attempt that goes unanswered lands like any other, or not at all. *)
LEMMA LossLands ==
  ASSUME NEW S, S \subseteq Objects, NEW routes, NEW r, Proper(r), NEW l \in Losses(S, routes, r)
  PROVE  Lands(S, l.main, r)
<1>1. CASE l \in Landings(S, routes, r)
  BY <1>1, LandingTold
<1>2. CASE l.main = S
  BY <1>2, StillLands
<1> QED
  BY <1>1, <1>2 DEF Losses

(* A second attempt adds nothing to what the first one may have done. *)
LEMMA LandsTwice ==
  ASSUME NEW S, S \subseteq Objects, NEW S1, NEW S2, NEW r, Proper(r),
         Lands(S, S1, r), Lands(S1, S2, r)
  PROVE  Lands(S, S2, r)
<1>1. Frame(S, S2, r)
  BY FrameTwice DEF Lands
<1>2. ASSUME r.op = "remove", r.obj.kind = "route", ~Holds(S, r.obj.cluster) PROVE S2 = S
  <2>1. S1 = S
    BY <1>2 DEF Lands
  <2> QED
    BY <1>2, <2>1 DEF Lands
<1>3. ASSUME r.op = "remove", r.obj.kind = "cluster", S2 # S PROVE r.obj \in S
  BY <1>3 DEF Lands, Frame
<1> QED
  BY <1>1, <1>2, <1>3 DEF Lands

(* An exchange, retried or not: it changes what its request may change, and an answer is true  *)
(* of the main process as it is then.                                                          *)
LEMMA ExchangeTold ==
  ASSUME NEW r, Proper(r), main \subseteq Objects, InStep, Exchange(r)
  PROVE  /\ Lands(main, main', r) /\ Told(main', r, reply')
         /\ reply'.status = "nothing" => main' = main
<1>1. CASE Answered(r)
  <2>1. PICK l \in Landings(main, serves, r) :
          /\ reply' = Head(Append(link.unread, l.reply)) /\ main' = l.main
    BY <1>1 DEF Answered, Take
  <2>2. Append(link.unread, l.reply) = <<l.reply>>
    BY DEF InStep
  <2>3. reply' = l.reply
    BY <2>1, <2>2
  <2> QED
    BY <2>1, <2>3, LandingTold
<1>2. CASE AnsweredOnRetry(r)
  <2>1. PICK f \in Losses(main, serves, r) : \E l \in Landings(f.main, f.serves, r) :
          reply' = l.reply /\ main' = l.main
    BY <1>2 DEF AnsweredOnRetry, Take
  <2>2. PICK l \in Landings(f.main, f.serves, r) : reply' = l.reply /\ main' = l.main
    BY <2>1
  <2>3. Lands(main, f.main, r)
    BY LossLands
  <2>4. f.main \subseteq Objects
    BY <2>3 DEF Lands
  <2>5. /\ Lands(f.main, l.main, r) /\ Told(l.main, r, l.reply)
        /\ l.reply.status = "nothing" => l.main = f.main
    BY <2>4, LandingTold
  <2>6. ASSUME l.reply.status = "nothing" PROVE f.main = main
    <3>1. r.op = "remove" /\ r.obj.kind = "route" /\ ~Holds(f.main, r.obj.cluster)
      BY <2>5, <2>6 DEF Told
    <3>2. \A o \in main : o.kind = "cluster" => o \in f.main
      BY <2>3, <3>1, SlotKind DEF Lands, Frame
    <3>3. ~Holds(main, r.obj.cluster)
      BY <3>1, <3>2 DEF Holds, OfKind
    <3> QED
      BY <2>3, <3>1, <3>3 DEF Lands
  <2> QED
    BY <2>2, <2>3, <2>5, <2>6, LandsTwice
<1>3. CASE UnansweredTwice(r)
  <2>1. PICK f \in Losses(main, serves, r) : \E l \in Losses(f.main, f.serves, r) : main' = l.main
    BY <1>3 DEF UnansweredTwice, Take
  <2>2. Lands(main, f.main, r)
    BY LossLands
  <2>3. f.main \subseteq Objects
    BY <2>2 DEF Lands
  <2>4. Lands(f.main, main', r)
    BY <2>1, <2>3, LossLands
  <2>5. reply' = NoReply(r)
    BY <1>3 DEF UnansweredTwice
  <2> QED
    BY <2>2, <2>4, <2>5, LandsTwice DEF NoReply, Answer, Told
<1>4. CASE NotConnected(r)
  BY <1>4, StillLands DEF NotConnected, NoReply, Answer, Told, sozuVars
<1> QED
  BY <1>1, <1>2, <1>3, <1>4 DEF Exchange

-----------------------------------------------------------------------------
(* The inductive invariant. *)

Acked == Elems(acked)

(* The request taken up and not counted yet. *)
Taken == requests \cap ({req} \ Acked)

Busy == {"reply", "holder", "evicted", "repair", "repaired", "added"}

(* Every request of the diff is still to come, taken up or counted, in the order of the tiers. *)
InOrder ==
  /\ main \subseteq Objects /\ OneEach(shadow) /\ desired \in Wanted
  /\ acked \in Seq(Request)
  /\ pc = "idle" => req.op = "list"
  /\ pc # "idle" =>
       /\ want \in Wanted /\ requests \in Batches(shadow, want)
       /\ todo \subseteq requests /\ Acked \subseteq requests /\ todo \cap Acked = {} /\ req \notin todo
       /\ pc \in Busy => req \in requests \ Acked
       /\ pc \in {"next", "done"} => Taken = {}
       /\ requests \subseteq todo \cup Taken \cup Acked
       /\ \A t \in todo, a \in Acked \cup Taken : Tier(a) <= Tier(t)
       /\ \A a \in Acked, c \in Taken : Tier(a) <= Tier(c)
       /\ pc = "done" => todo = {}

(* The replayable head holds no request settled without proof. *)
ProvenHead ==
  /\ unproven \in 0..Len(acked) /\ left \subseteq Acked
  /\ \A i \in 1..Len(acked) : unproven = 0 \/ i < unproven => acked[i] \notin left

(* The last answer is still true of the main process. *)
AnswerHolds ==
  /\ pc = "reply" => Told(main, req, reply)
  /\ pc = "holder" => RouteTeardown /\ Told(main, List(req.obj), reply)
  /\ pc = "evicted" => /\ RouteTeardown
                       /\ reply.status = "ok" => At(main, req.obj) = {}
                       /\ reply.status = "nothing" => Dangling(req.obj)
  /\ pc \in {"repair", "repaired"} => req.op = "add" /\ req.obj.kind = "route"
  /\ pc = "repair" => Told(main, List(req.obj), reply)
  /\ pc = "added" => /\ req.op \in {"add", "replace"} /\ Told(main, Add(req.obj), reply)
                     /\ req.op = "replace" => req.old \notin main

(* A slot settled with proof holds what is due there, or a route 2.3 cannot remove, or is the  *)
(* one being worked on.                                                                        *)
SlotHeld(o) ==
  \/ At(main, o) = Due(want, todo, o)
  \/ Dangling(o)
  \/ \E c \in Taken : c.op # "remove" /\ Touches(c, o)

SlotsHeld == pc # "idle" => \A a \in Acked \ left : \A o \in {a.obj, a.old} : SlotHeld(o)

(* Every head of what was counted replays to what is due after it. *)
ReplaysRight ==
  pc # "idle" => \A k \in 0..Len(acked) : ReplayRight(requests, shadow, want, SubSeq(acked, 1, k))

HeldInv == InOrder /\ ProvenHead /\ AnswerHolds /\ SlotsHeld /\ ReplaysRight

-----------------------------------------------------------------------------
(* The steps that exchange something with Sozu. *)

(* A route without its cluster stays where it is while requests for other slots land. *)
LEMMA DanglingStays ==
  ASSUME InOrder, pc # "idle", NEW r \in requests, NEW x, Within(x, r), Lands(main, main', x),
         NEW a \in Acked, Tier(a) <= Tier(r), NEW o \in {a.obj, a.old}, ~Touches(r, o), Dangling(o)
  PROVE  Dangling(o)'
<1>0. /\ shadow \subseteq Objects /\ want \subseteq Objects /\ a \in requests /\ main \subseteq Objects
      /\ requests \in Batches(shadow, want)
  BY WantedOneEach DEF InOrder, OneEach
<1>1. PICK p \in At(main, o) : p.kind = "route" /\ ~Holds(main, p.cluster)
  BY DEF Dangling
<1>2. p \in main /\ Slot(p) = Slot(o) /\ o.kind = "route" /\ Slot(p) # Slot(x.obj)
  BY <1>1, SlotKind DEF At, Within, Touches
<1>3. p \in main'
  <2> SUFFICES ASSUME p \notin main' PROVE FALSE
    OBVIOUS
  <2>1. \/ x.op = "replace" /\ p = x.old
        \/ x.op = "remove" /\ x.obj.kind = "cluster" /\ p.cluster = x.obj.cluster
    BY <1>2 DEF Lands, Frame
  <2>2. CASE x.op = "replace" /\ p = x.old
    BY <1>1, <2>2 DEF Within, Proper
  <2>3. CASE x.op = "remove" /\ x.obj.kind = "cluster" /\ p.cluster = x.obj.cluster
    <3>1. x.obj \in main
      BY <1>2, <2>3 DEF Lands
    <3>2. x.obj.key = p.cluster
      BY <1>0, <2>3, <3>1, ClustersAssumption DEF OfKind
    <3> QED
      BY <1>1, <2>3, <3>1, <3>2 DEF Holds, OfKind
  <2> QED
    BY <2>1, <2>2, <2>3
<1>4. ~Holds(main', p.cluster)
  <2> SUFFICES ASSUME NEW q \in main', q.kind = "cluster", q.key = p.cluster PROVE FALSE
    BY DEF Holds, OfKind
  <2>1. q \notin main
    BY <1>1 DEF Holds, OfKind
  <2>2. q = x.obj /\ x.op \notin {"remove", "list"}
    BY <2>1 DEF Lands, Frame
  <2>3. x.op = "add" /\ r.op # "remove"
    BY <2>2 DEF Within, Proper, Request
  <2>4. r.obj.kind = "cluster"
    BY <2>2, SlotKind DEF Within
  <2>5. Tier(r) = 2
    BY <1>0, <2>3, <2>4, DiffFacts DEF Tier
  <2>6. Tier(a) \in {5, 6}
    <3>1. a.op # "replace" /\ a.obj.kind = "route" /\ a.op \in {"add", "remove"}
      BY <1>0, <1>2, DiffFacts
    <3> QED
      BY <3>1 DEF Tier
  <2> QED
    BY <2>5, <2>6
<1> QED
  BY <1>1, <1>2, <1>3, <1>4 DEF Dangling, At

(* An exchange for request r disturbs no other slot that is settled. *)
LEMMA ExchangeKeepsSlots ==
  ASSUME InOrder, SlotsHeld, pc # "idle", NEW r \in requests \ Acked, Taken \subseteq {r},
         \A a \in Acked : Tier(a) <= Tier(r),
         NEW x, Within(x, r), Lands(main, main', x),
         UNCHANGED <<shadow, want, requests, acked, left>>, todo' \in {todo, todo \ {r}}, req' = r
  PROVE  SlotsHeld'
<1>0. /\ shadow \subseteq Objects /\ want \in Wanted /\ Acked \subseteq requests
      /\ requests \in Batches(shadow, want)
  BY DEF InOrder, OneEach
<1>1. Acked' = Acked /\ requests' = requests /\ Taken' = {r}
  BY DEF Acked, Taken
<1>2. ASSUME NEW a \in Acked \ left, NEW o \in {a.obj, a.old} PROVE SlotHeld(o)'
  <2>1. CASE Touches(r, o)
    <3>1. r.op # "remove"
      BY <1>0, <1>2, <2>1, ClearedFirst DEF InOrder
    <3> QED
      BY <1>1, <2>1, <3>1 DEF SlotHeld
  <2>2. CASE ~Touches(r, o)
    <3>1. At(main, o) = Due(want, todo, o) \/ Dangling(o)
      BY <1>2, <2>2 DEF SlotsHeld, SlotHeld
    <3>2. CASE At(main, o) = Due(want, todo, o)
      <4>1. At(main, o) \subseteq want
        BY <3>2 DEF Due, At
      <4>2. At(main', o) = At(main, o)
        BY <1>0, <2>2, <4>1, FrameKeeps DEF Lands
      <4>3. \A p \in At(want, o) : Add(p) # r
        BY <2>2 DEF At, Add, Touches
      <4>4. Due(want, todo', o) = Due(want, todo, o)
        BY <4>3 DEF Due
      <4> QED
        BY <3>2, <4>2, <4>4 DEF SlotHeld
    <3>3. CASE Dangling(o)
      <4>1. Dangling(o)'
        BY <1>2, <2>2, <3>3, DanglingStays
      <4> QED
        BY <4>1 DEF SlotHeld
    <3> QED
      BY <3>1, <3>2, <3>3
  <2> QED
    BY <2>1, <2>2
<1> QED
  BY <1>1, <1>2 DEF SlotsHeld

(* The step of an exchange keeps the batch in order: the request is taken up or stays so. *)
LEMMA ExchangeKeepsOrder ==
  ASSUME InOrder, ProvenHead, ReplaysRight, pc # "idle", NEW r \in requests \ Acked,
         Taken \subseteq {r}, \A a \in Acked : Tier(a) <= Tier(r),
         \A t \in todo : Tier(r) <= Tier(t),
         UNCHANGED <<shadow, want, requests, acked, left, unproven, desired>>,
         todo' = todo \ {r}, req' = r, main' \subseteq Objects, pc' \in Busy
  PROVE  InOrder' /\ ProvenHead' /\ ReplaysRight'
<1>1. Acked' = Acked /\ requests' = requests /\ Taken' = {r}
  BY DEF Acked, Taken
<1>2. pc' # "idle" /\ pc' \notin {"next", "done"}
  BY DEF Busy
<1>3. InOrder'
  BY <1>1, <1>2 DEF InOrder
<1>4. ProvenHead' /\ ReplaysRight'
  BY <1>1, <1>2 DEF ProvenHead, ReplaysRight
<1> QED
  BY <1>3, <1>4

(* What holds of the request under way. *)
LEMMA UnderWay ==
  ASSUME InOrder, pc \in Busy
  PROVE  /\ pc # "idle" /\ req \in requests \ Acked /\ Taken = {req} /\ todo \ {req} = todo
         /\ \A a \in Acked : Tier(a) <= Tier(req)
         /\ \A t \in todo : Tier(req) <= Tier(t)
         /\ shadow \subseteq Objects /\ want \in Wanted /\ want \subseteq Objects
         /\ requests \in Batches(shadow, want)
         /\ Proper(req) /\ Within(req, req) /\ req.obj \in Objects
<1>1. pc # "idle" /\ req \in requests \ Acked /\ Taken = {req} /\ req \notin todo
  BY DEF InOrder, Busy, Taken
<1>2. /\ shadow \subseteq Objects /\ want \in Wanted /\ want \subseteq Objects
      /\ requests \in Batches(shadow, want)
  BY <1>1, WantedOneEach DEF InOrder, OneEach
<1>3. Proper(req) /\ Within(req, req)
  BY <1>1, <1>2, DiffFacts, WithinItself
<1>4. req.obj \in Objects
  BY <1>3 DEF Proper, Request
<1> QED
  BY <1>1, <1>2, <1>3, <1>4 DEF InOrder

(* One more exchange for the request under way keeps all but the answer. *)
LEMMA MoreOfTheSame ==
  ASSUME InStep, HeldInv, pc \in Busy, NEW x, Within(x, req), Exchange(x), pc' \in Busy,
         UNCHANGED <<shadow, want, requests, todo, acked, left, unproven, desired, req>>
  PROVE  /\ InOrder' /\ ProvenHead' /\ ReplaysRight' /\ SlotsHeld'
         /\ Told(main', x, reply') /\ Lands(main, main', x)
         /\ reply'.status = "nothing" => main' = main
<1>1. main \subseteq Objects /\ Proper(x)
  BY DEF HeldInv, InOrder, Within
<1>2. /\ Told(main', x, reply') /\ Lands(main, main', x)
      /\ reply'.status = "nothing" => main' = main
  BY <1>1, ExchangeTold
<1>3. main' \subseteq Objects
  BY <1>2 DEF Lands
<1>4. InOrder' /\ ProvenHead' /\ ReplaysRight'
  BY <1>3, UnderWay, ExchangeKeepsOrder DEF HeldInv
<1>5. SlotsHeld'
  BY <1>2, UnderWay, ExchangeKeepsSlots DEF HeldInv
<1> QED
  BY <1>2, <1>4, <1>5

(* The next request is taken up in the order of the tiers, and its answer is true. *)
LEMMA SendHeld ==
  ASSUME InStep, HeldInv, NEW r \in todo, Send(r)
  PROVE  HeldInv'
<1>0. /\ pc = "next" /\ pc' = "reply" /\ req' = r /\ todo' = todo \ {r} /\ Exchange(r)
      /\ UNCHANGED <<shadow, want, requests, acked, left, unproven, desired>>
      /\ \A t \in todo : Tier(r) <= Tier(t)
  BY DEF Send, callerVars
<1>1. /\ shadow \subseteq Objects /\ want \in Wanted /\ requests \in Batches(shadow, want)
      /\ r \in requests \ Acked /\ Taken = {}
      /\ \A a \in Acked : Tier(a) <= Tier(r)
  BY <1>0 DEF HeldInv, InOrder, OneEach
<1>2. Within(r, r) /\ Proper(r)
  BY <1>1, WithinItself DEF Within
<1>3. Told(main', r, reply') /\ Lands(main, main', r)
  BY <1>0, <1>2, ExchangeTold DEF HeldInv, InOrder
<1>4. main' \subseteq Objects /\ pc' \in Busy
  BY <1>0, <1>3 DEF Lands, Busy
<1>5. InOrder' /\ ProvenHead' /\ ReplaysRight'
  BY <1>0, <1>1, <1>4, ExchangeKeepsOrder DEF HeldInv
<1>6. SlotsHeld'
  BY <1>0, <1>1, <1>2, <1>3, ExchangeKeepsSlots DEF HeldInv
<1>7. AnswerHolds'
  BY <1>0, <1>3 DEF AnswerHolds
<1> QED
  BY <1>5, <1>6, <1>7 DEF HeldInv

(* key_holder changes nothing. *)
LEMMA LookUpHeld ==
  ASSUME InStep, HeldInv, LookUp
  PROVE  HeldInv'
<1>0. /\ pc = "reply" /\ pc \in Busy /\ Exchange(List(req.obj))
      /\ pc' = (IF RouteTeardown THEN "holder" ELSE "repair") /\ pc' \in Busy
      /\ UNCHANGED <<shadow, want, requests, todo, acked, left, unproven, desired, req>>
  BY DEF LookUp, callerVars, Busy
<1>1. req.obj \in Objects
  BY <1>0, UnderWay DEF HeldInv
<1>2. Within(List(req.obj), req)
  BY <1>1 DEF Within, Proper, List, Request
<1>3. /\ InOrder' /\ ProvenHead' /\ ReplaysRight' /\ SlotsHeld'
      /\ Told(main', List(req.obj), reply')
  BY <1>0, <1>2, MoreOfTheSame
<1>4. ~RouteTeardown => req.op = "add" /\ req.obj.kind = "route"
  BY DEF LookUp, MayBeHeldByAnother, DuplicateRoute
<1>5. AnswerHolds'
  <2>1. CASE RouteTeardown
    BY <1>0, <1>3, <2>1 DEF AnswerHolds, RouteTeardown
  <2>2. CASE ~RouteTeardown
    BY <1>0, <1>3, <1>4, <2>2 DEF AnswerHolds
  <2> QED
    BY <2>1, <2>2
<1> QED
  BY <1>3, <1>5 DEF HeldInv

(* A removal of what is stored in the slot of a route is within the request for it. *)
LEMMA RemovalWithin ==
  ASSUME NEW stored \in Objects, Slot(stored) = Slot(req.obj), req.obj.kind = "route"
  PROVE  Within(Remove(stored), req)
<1>1. stored.kind = "route"
  BY SlotKind
<1>2. Remove(stored) \in Request
  BY DEF Remove, Request
<1> QED
  BY <1>1, <1>2 DEF Within, Proper, Remove

(* An eviction stays in the slot of the removal it serves. *)
LEMMA EvictHeld ==
  ASSUME InStep, HeldInv, Evict
  PROVE  HeldInv'
<1>0. /\ pc = "holder" /\ pc \in Busy /\ pc' = "evicted" /\ pc' \in Busy
      /\ reply.status = "list"
      /\ UNCHANGED <<shadow, want, requests, todo, acked, left, unproven, desired, req>>
  BY DEF Evict, callerVars, batchVars, Busy
<1>1. PICK stored \in reply.stored : Exchange(Remove(stored))
  BY DEF Evict
<1>2. stored \in main /\ stored \in Objects /\ Slot(stored) = Slot(req.obj) /\ RouteTeardown
  BY <1>0, <1>1 DEF HeldInv, InOrder, AnswerHolds, Told, At, List
<1>3. Within(Remove(stored), req)
  BY <1>2, RemovalWithin DEF RouteTeardown
<1>4. /\ InOrder' /\ ProvenHead' /\ ReplaysRight' /\ SlotsHeld'
      /\ Told(main', Remove(stored), reply')
      /\ reply'.status = "nothing" => main' = main
  BY <1>0, <1>1, <1>3, MoreOfTheSame
<1>5. reply'.status = "ok" => At(main', req.obj) = {}
  <2>1. reply'.status = "ok" => At(main', stored) = {}
    BY <1>4 DEF Told, DoneIn, Remove
  <2> QED
    BY <1>2, <2>1, SameSlot
<1>6. reply'.status = "nothing" => Dangling(req.obj)'
  <2> SUFFICES ASSUME reply'.status = "nothing" PROVE Dangling(req.obj)'
    OBVIOUS
  <2>1. main' = main /\ stored.kind = "route" /\ ~Holds(main', stored.cluster)
    BY <1>4 DEF Told, Remove
  <2> QED
    BY <1>0, <1>2, <2>1 DEF Dangling, At
<1>7. AnswerHolds'
  BY <1>0, <1>2, <1>5, <1>6 DEF AnswerHolds, RouteTeardown
<1> QED
  BY <1>4, <1>7 DEF HeldInv

(* So does the removal that repairs a duplicate route. *)
LEMMA RepairHeld ==
  ASSUME InStep, HeldInv, Repair
  PROVE  HeldInv'
<1>0. /\ pc = "repair" /\ pc \in Busy /\ pc' = "repaired" /\ pc' \in Busy
      /\ UNCHANGED <<shadow, want, requests, todo, acked, left, unproven, desired, req>>
  BY DEF Repair, callerVars, batchVars, Busy
<1>1. PICK stored \in Holder : Exchange(Remove(stored))
  BY DEF Repair
<1>2. req.op = "add" /\ req.obj.kind = "route" /\ req.obj \in Objects
  BY <1>0, UnderWay DEF HeldInv, AnswerHolds
<1>3. stored \in Objects /\ Slot(stored) = Slot(req.obj)
  BY <1>0, <1>1, <1>2 DEF Holder, HeldInv, InOrder, AnswerHolds, Told, At, List
<1>4. Within(Remove(stored), req)
  BY <1>2, <1>3, RemovalWithin
<1>5. InOrder' /\ ProvenHead' /\ ReplaysRight' /\ SlotsHeld'
  BY <1>0, <1>1, <1>4, MoreOfTheSame
<1>6. AnswerHolds'
  BY <1>0, <1>2 DEF AnswerHolds
<1> QED
  BY <1>5, <1>6 DEF HeldInv

(* The second addition of a route, or a certificate added in place of a replacement. *)
LEMMA AddAgainHeld ==
  ASSUME InStep, HeldInv, AddAgain \/ AddReplacement
  PROVE  HeldInv'
<1>0. /\ pc \in Busy /\ pc' = "added" /\ pc' \in Busy
      /\ UNCHANGED <<shadow, want, requests, todo, acked, left, unproven, desired, req>>
  BY DEF AddAgain, AddReplacement, callerVars, batchVars, Busy
<1>1. /\ req.obj \in Objects /\ req \in requests /\ shadow \subseteq Objects /\ want \subseteq Objects
      /\ requests \in Batches(shadow, want) /\ Proper(req)
  BY <1>0, UnderWay DEF HeldInv
<1>2. /\ Exchange(Add(req.obj)) /\ req.op \in {"add", "replace"}
      /\ req.op = "replace" => CertsAt(main, req.obj.listener) = {}
  <2>1. CASE AddAgain
    <3>1. req.op = "add" /\ Exchange(req)
      BY <2>1 DEF AddAgain, HeldInv, AnswerHolds
    <3>2. req = Add(req.obj)
      BY <1>1, <3>1, DiffFacts
    <3> QED
      BY <3>1, <3>2
  <2>2. CASE AddReplacement
    BY <2>2 DEF AddReplacement, IntoEmptyListener, HeldInv, AnswerHolds, Told
  <2> QED
    BY <2>1, <2>2
<1>3. Within(Add(req.obj), req)
  BY <1>1, <1>2 DEF Within, Proper, Add, Request
<1>4. /\ InOrder' /\ ProvenHead' /\ ReplaysRight' /\ SlotsHeld'
      /\ Told(main', Add(req.obj), reply') /\ Lands(main, main', Add(req.obj))
  BY <1>0, <1>2, <1>3, MoreOfTheSame
<1>5. req.op = "replace" => req.old \notin main'
  <2> SUFFICES ASSUME req.op = "replace" PROVE req.old \notin main'
    OBVIOUS
  <2>1. req.old.kind = "cert" /\ req.old # req.obj /\ req.old.listener = req.obj.listener
    BY <1>1, DiffFacts DEF Proper
  <2>2. main' \subseteq main \cup {req.obj}
    BY <1>4 DEF Lands, Frame, Add
  <2> QED
    BY <1>2, <2>1, <2>2 DEF OfKind, CertsAt
<1>6. AnswerHolds'
  BY <1>0, <1>2, <1>4, <1>5 DEF AnswerHolds
<1> QED
  BY <1>4, <1>6 DEF HeldInv

-----------------------------------------------------------------------------
(* The steps that count the request under way. *)

(* The slots of request r are as they should be. *)
Settled(r) == \A o \in {r.obj, r.old} : At(main, o) = Due(want, todo, o) \/ Dangling(o)

(* A request that has done what it asks for is settled. *)
LEMMA DoneIsSettled ==
  ASSUME HeldInv, pc \in Busy, DoneIn(main, req)
  PROVE  Settled(req)
<1>1. /\ OneEach(shadow) /\ want \in Wanted /\ req \in requests /\ main \subseteq Objects
      /\ requests \in Batches(shadow, want)
      /\ todo \subseteq requests /\ req \notin todo
      /\ \A t \in requests \ (todo \cup {req}) : Tier(t) <= Tier(req)
  BY UnderWay DEF HeldInv, InOrder
<1>2. ASSUME NEW o \in {req.obj, req.old} PROVE At(main, o) = Due(want, todo, o)
  BY <1>1, DoneIsDue
<1> QED
  BY <1>2 DEF Settled

(* The heads of a sequence with one more element. *)
LEMMA HeadsOfAppend ==
  ASSUME NEW S, NEW s \in Seq(S), NEW x \in S, NEW k \in 0..(Len(s) + 1)
  PROVE  SubSeq(Append(s, x), 1, k) = IF k = Len(s) + 1 THEN Append(s, x) ELSE SubSeq(s, 1, k)
<1>1. Len(s) \in Nat /\ Append(s, x) \in Seq(S) /\ Len(Append(s, x)) = Len(s) + 1
  OBVIOUS
<1>2. CASE k = Len(s) + 1
  BY <1>1, <1>2
<1>3. CASE k # Len(s) + 1
  BY <1>1, <1>3
<1> QED
  BY <1>2, <1>3

(* Counting a request keeps the invariant, when its slots are settled or it is a removal that is *)
(* marked as settled without proof.                                                              *)
LEMMA CountedHeld ==
  ASSUME HeldInv, pc \in Busy, pc' = "next", acked' = Append(acked, req),
         UNCHANGED <<main, shadow, want, requests, todo, req, desired>>,
         \/ UNCHANGED <<left, unproven>> /\ Settled(req)
         \/ /\ left' = left \cup {req} /\ req.op = "remove"
            /\ unproven' = IF unproven # 0 THEN unproven ELSE Len(acked) + 1
  PROVE  HeldInv'
<1>0. /\ acked \in Seq(Request) /\ req \in Request /\ req \in requests \ Acked /\ Taken = {req}
      /\ requests \in Batches(shadow, want)
      /\ OneEach(shadow) /\ want \in Wanted /\ \A a \in Acked : Tier(a) <= Tier(req)
  BY UnderWay DEF HeldInv, InOrder, Proper
<1>1. /\ acked' \in Seq(Request) /\ Len(acked') = Len(acked) + 1 /\ Len(acked) \in Nat
      /\ Acked' = Acked \cup {req}
  BY <1>0, AppendElems DEF Acked
<1>2. requests' = requests /\ Taken' = {}
  BY <1>1 DEF Taken
<1>3. InOrder'
  BY <1>0, <1>1, <1>2, UnderWay DEF InOrder, HeldInv, Busy
<1>4. ProvenHead'
  <2>1. /\ \A i \in 1..Len(acked) : acked'[i] = acked[i] /\ acked[i] \in Acked
        /\ acked'[Len(acked) + 1] = req
    BY <1>0 DEF Acked, Elems
  <2>2. left' \subseteq Acked' /\ unproven' \in 0..Len(acked')
    BY <1>1 DEF HeldInv, ProvenHead
  <2>3. ASSUME NEW i \in 1..Len(acked'), unproven' = 0 \/ i < unproven' PROVE acked'[i] \notin left'
    <3>1. CASE i = Len(acked) + 1
      <4>1. unproven' = 0
        BY <1>1, <2>2, <2>3, <3>1
      <4>2. left' = left
        BY <1>1, <4>1
      <4> QED
        BY <1>0, <2>1, <3>1, <4>2 DEF HeldInv, ProvenHead
    <3>2. CASE i \in 1..Len(acked)
      <4>1. acked[i] \notin left
        BY <1>1, <2>3, <3>2 DEF HeldInv, ProvenHead
      <4>2. acked[i] # req
        BY <1>0, <2>1, <3>2
      <4> QED
        BY <2>1, <3>2, <4>1, <4>2
    <3> QED
      BY <1>1, <3>1, <3>2
  <2> QED
    BY <2>2, <2>3 DEF ProvenHead
<1>5. AnswerHolds'
  BY DEF AnswerHolds
<1>6. SlotsHeld'
  <2>1. ASSUME NEW a \in Acked' \ left', NEW o \in {a.obj, a.old}
        PROVE  At(main, o) = Due(want, todo, o) \/ Dangling(o)
    <3>1. CASE a = req
      BY <1>0, <2>1, <3>1 DEF Settled
    <3>2. CASE a # req
      <4>1. SlotHeld(o)
        BY <1>1, <2>1, <3>2 DEF HeldInv, SlotsHeld, Busy
      <4>2. ASSUME req.op # "remove", Touches(req, o)
            PROVE  At(main, o) = Due(want, todo, o) \/ Dangling(o)
        <5>1. PICK p \in {req.obj, req.old} : Slot(o) = Slot(p)
          BY <4>2 DEF Touches
        <5>2. At(main, p) = Due(want, todo, p) \/ Dangling(p)
          BY <4>2 DEF Settled
        <5> QED
          BY <5>1, <5>2, SameSlot DEF Dangling
      <4> QED
        BY <1>0, <4>1, <4>2 DEF SlotHeld
    <3> QED
      BY <3>1, <3>2
  <2>2. \A o : /\ Dangling(o) => Dangling(o)'
               /\ At(main, o) = Due(want, todo, o) => At(main', o) = Due(want', todo', o)
    BY DEF Dangling
  <2> QED
    BY <2>1, <2>2 DEF SlotsHeld, SlotHeld
<1>7. ReplaysRight'
  <2> SUFFICES ASSUME NEW k \in 0..Len(acked') PROVE ReplayRight(requests, shadow, want, SubSeq(acked', 1, k))
    BY DEF ReplaysRight
  <2>1. CASE k = Len(acked) + 1
    <3>1. SubSeq(acked, 1, Len(acked)) = acked
      BY <1>0
    <3>2. ReplayRight(requests, shadow, want, acked)
      <4>1. Len(acked) \in 0..Len(acked) /\ pc # "idle"
        BY <1>1 DEF Busy
      <4>2. ReplayRight(requests, shadow, want, SubSeq(acked, 1, Len(acked)))
        BY <4>1 DEF HeldInv, ReplaysRight
      <4> QED
        BY <3>1, <4>2
    <3>3. Elems(acked) \subseteq requests
      BY UnderWay DEF HeldInv, InOrder, Acked
    <3>4. ReplayRight(requests, shadow, want, Append(acked, req))
      BY <1>0, <3>2, <3>3, ReplayRightAppend DEF Acked
    <3> QED
      BY <1>0, <1>1, <2>1, <3>4, HeadsOfAppend
  <2>2. CASE k # Len(acked) + 1
    <3>1. SubSeq(acked', 1, k) = SubSeq(acked, 1, k) /\ k \in 0..Len(acked)
      BY <1>0, <1>1, <2>2, HeadsOfAppend
    <3> QED
      BY <3>1 DEF HeldInv, ReplaysRight, Busy
  <2> QED
    BY <2>1, <2>2
<1> QED
  BY <1>3, <1>4, <1>5, <1>6, <1>7 DEF HeldInv

(* Whatever counts as proof, only a removal is counted without it, and what is counted with it *)
(* is settled.                                                                                 *)
LEMMA CountHeld ==
  ASSUME HeldInv, pc \in Busy, NEW sure, Count(sure), sure => Settled(req),
         ~sure => req.op = "remove", UNCHANGED <<main, shadow, want, requests, todo, req, desired>>
  PROVE  HeldInv'
<1>1. CASE sure
  BY <1>1, CountedHeld DEF Count
<1>2. CASE ~sure
  BY <1>2, CountedHeld DEF Count
<1> QED
  BY <1>1, <1>2

(* Settle counts as proof only an answer that says the request is done. *)
LEMMA SettleHeld ==
  ASSUME HeldInv, Settle
  PROVE  HeldInv'
<1> DEFINE sure == Ok \/ req.op = "add" \/ GoneFromMainProcess(reply)
<1>0. /\ pc = "reply" /\ pc \in Busy /\ Tolerated /\ Count(sure)
      /\ UNCHANGED <<main, shadow, want, requests, todo, req, desired>>
  BY DEF Settle, Busy, sozuVars, callerVars
<1>1. Told(main, req, reply) /\ req.obj \in Objects /\ main \subseteq Objects
  BY <1>0, UnderWay DEF HeldInv, AnswerHolds, InOrder
<1>2. ASSUME sure PROVE DoneIn(main, req)
  <2>1. CASE reply.status = "ok" \/ "ok" \in reply.answers
    BY <1>1, <2>1 DEF Told
  <2>2. CASE reply.status = "nothing"
    BY <1>0, <1>1, <2>2
       DEF Told, Tolerated, MayBeHeldByAnother, RouteTeardown
  <2>3. CASE reply.status = "gone"
    <3>1. req.op = "remove" /\ req.obj \notin main /\ req.obj.kind # "route"
      BY <1>0, <1>1, <2>3 DEF Told, Tolerated, Ok, RouteTeardown
    <3>2. At(main, req.obj) = {}
      BY <1>1, <3>1, SlotOwner DEF At
    <3> QED
      BY <3>1, <3>2 DEF DoneIn
  <2>4. CASE req.op = "add" /\ req.obj.kind = "listener" /\ reply.status = "exists"
    <3>1. At(main, req.obj) # {}
      BY <1>1, <2>4 DEF Told
    <3>2. At(main, req.obj) = {req.obj}
      BY <1>1, <2>4, <3>1, SlotOwner DEF At
    <3> QED
      BY <2>4, <3>2 DEF DoneIn
  <2> QED
    BY <1>0, <1>2, <2>1, <2>2, <2>3, <2>4 DEF Tolerated, Ok, GoneFromMainProcess
<1>3. ~sure => req.op = "remove"
  BY <1>0 DEF Tolerated
<1>4. sure => Settled(req)
  BY <1>0, <1>2, DoneIsSettled
<1> HIDE DEF sure
<1> QED
  BY <1>0, <1>3, <1>4, CountHeld

(* So does a look-up that finds no other holder. *)
LEMMA NoEvictionHeld ==
  ASSUME HeldInv, NoEviction
  PROVE  HeldInv'
<1> DEFINE sure == ~LeftThere /\ proof
<1>0. /\ pc = "holder" /\ pc \in Busy /\ reply.status = "list" /\ ~Another /\ Count(sure)
      /\ UNCHANGED <<main, shadow, want, requests, todo, req, desired>>
  BY DEF NoEviction, Busy, sozuVars, callerVars
<1>1. RouteTeardown /\ reply.stored = At(main, req.obj)
  BY <1>0 DEF HeldInv, AnswerHolds, Told, List
<1>2. ASSUME sure PROVE DoneIn(main, req)
  BY <1>0, <1>1, <1>2 DEF Another, LeftThere, RouteTeardown, DoneIn
<1>3. ~sure => req.op = "remove"
  BY <1>1 DEF RouteTeardown
<1>4. sure => Settled(req)
  BY <1>0, <1>2, DoneIsSettled
<1> HIDE DEF sure
<1> QED
  BY <1>0, <1>3, <1>4, CountHeld

(* A pass that stops leaves the slots as they are. *)
LEMMA StopHeld ==
  ASSUME HeldInv, Stop, pc # "idle", UNCHANGED <<main, shadow, want, requests, todo, req, desired>>
  PROVE  HeldInv'
<1>1. /\ pc' = "failed" /\ UNCHANGED <<acked, unproven, left>>
      /\ Acked' = Acked /\ requests' = requests /\ Taken' = Taken
  BY DEF Stop, Acked, Taken
<1>2. InOrder' /\ AnswerHolds'
  BY <1>1 DEF HeldInv, InOrder, AnswerHolds, Busy
<1>3. ProvenHead' /\ ReplaysRight'
  BY <1>1 DEF HeldInv, ProvenHead, ReplaysRight
<1>4. \A o : Dangling(o)' = Dangling(o)
  BY DEF Dangling
<1>5. SlotsHeld'
  BY <1>1, <1>4 DEF HeldInv, SlotsHeld, SlotHeld
<1> QED
  BY <1>2, <1>3, <1>5 DEF HeldInv

(* An eviction that went through has emptied the slot; one answered "nothing" met a route without *)
(* its cluster.                                                                                   *)
LEMMA EvictedHeld ==
  ASSUME HeldInv, Evicted
  PROVE  HeldInv'
<1>0. /\ pc = "evicted" /\ pc \in Busy /\ UNCHANGED <<main, shadow, want, requests, todo, req, desired>>
  BY DEF Evicted, Busy, sozuVars, callerVars
<1>1. RouteTeardown /\ req.op = "remove"
  BY <1>0 DEF HeldInv, AnswerHolds, RouteTeardown
<1>2. ASSUME Ok PROVE Settled(req)
  <2>1. CASE reply.status = "ok"
    <3>1. DoneIn(main, req)
      BY <1>0, <1>1, <2>1 DEF HeldInv, AnswerHolds, DoneIn
    <3> QED
      BY <1>0, <3>1, DoneIsSettled
  <2>2. CASE reply.status = "nothing"
    <3>1. Dangling(req.obj)
      BY <1>0, <2>2 DEF HeldInv, AnswerHolds
    <3>2. req.old = req.obj
      BY <1>0, <1>1, UnderWay, DiffFacts DEF HeldInv
    <3> QED
      BY <3>1, <3>2 DEF Settled
  <2> QED
    BY <1>2, <2>1, <2>2 DEF Ok
<1>3. CASE Ok
  <2>1. Count(proof)
    BY <1>3 DEF Evicted
  <2> QED
    BY <1>0, <1>1, <1>2, <1>3, <2>1, CountHeld
<1>4. CASE ~Ok /\ AlreadyGone(reply)
  <2>1. Count(FALSE)
    BY <1>4 DEF Evicted
  <2> QED
    BY <1>0, <1>1, <2>1, CountHeld
<1>5. CASE ~Ok /\ ~AlreadyGone(reply)
  BY <1>0, <1>5, StopHeld DEF Evicted
<1> QED
  BY <1>3, <1>4, <1>5

(* An addition that went through leaves the new object in its slot, and the old one gone. *)
LEMMA AddedHeld ==
  ASSUME HeldInv, Added
  PROVE  HeldInv'
<1>0. /\ pc = "added" /\ pc \in Busy /\ UNCHANGED <<main, shadow, want, requests, todo, req, desired>>
  BY DEF Added, Busy, sozuVars, callerVars
<1>1. /\ req.op \in {"add", "replace"} /\ Told(main, Add(req.obj), reply)
      /\ req.op = "replace" => req.old \notin main
  BY <1>0 DEF HeldInv, AnswerHolds
<1>2. CASE Ok
  <2>1. reply.status = "ok"
    BY <1>1, <1>2 DEF Ok, Told, Add
  <2>2. DoneIn(main, req)
    BY <1>1, <2>1 DEF Told, DoneIn, Add
  <2>3. Settled(req) /\ Count(TRUE)
    BY <1>0, <1>2, <2>2, DoneIsSettled DEF Added
  <2> QED
    BY <1>0, <2>3, CountHeld
<1>3. CASE ~Ok
  BY <1>0, <1>3, StopHeld DEF Added
<1> QED
  BY <1>2, <1>3

-----------------------------------------------------------------------------
(* The steps around a batch. *)

(* Return: nothing is left to do. *)
LEMMA ReturnHeld ==
  ASSUME HeldInv, Return
  PROVE  HeldInv'
<1>1. /\ pc = "next" /\ pc' = "done" /\ todo = {}
      /\ UNCHANGED <<main, shadow, want, requests, todo, acked, unproven, left, req, desired>>
  BY DEF Return, sozuVars, callerVars, batchVars
<1>2. Acked' = Acked /\ requests' = requests /\ Taken' = Taken
  BY <1>1 DEF Acked, Taken
<1>3. InOrder' /\ AnswerHolds'
  BY <1>1, <1>2 DEF HeldInv, InOrder, AnswerHolds, Busy
<1>4. ProvenHead' /\ ReplaysRight'
  BY <1>1, <1>2 DEF HeldInv, ProvenHead, ReplaysRight
<1>5. \A o : Dangling(o)' = Dangling(o)
  BY <1>1 DEF Dangling
<1>6. SlotsHeld'
  BY <1>1, <1>2, <1>5 DEF HeldInv, SlotsHeld, SlotHeld
<1> QED
  BY <1>3, <1>4, <1>6 DEF HeldInv

(* Submit: a new batch has everything before it. *)
LEMMA SubmitHeld ==
  ASSUME HeldInv, Submit
  PROVE  HeldInv'
<1>1. /\ pc = "idle" /\ pc' = "next" /\ want' = desired
      /\ requests' \in Batches(shadow, desired) /\ todo' = requests'
      /\ acked' = <<>> /\ unproven' = 0 /\ left' = {}
      /\ UNCHANGED <<main, shadow, req, desired>>
  BY DEF Submit, sozuVars
<1>2. /\ OneEach(shadow) /\ shadow \subseteq Objects /\ desired \in Wanted
      /\ desired \subseteq Objects /\ req.op = "list"
  BY <1>1, WantedOneEach DEF HeldInv, InOrder, OneEach
<1>3. Acked' = {} /\ requests' = todo' /\ acked' \in Seq(Request) /\ Len(acked') = 0
  BY <1>1 DEF Acked, Elems
<1>4. req \notin requests'
  BY <1>1, <1>2, DiffFacts
<1>5. Taken' = {}
  BY <1>1, <1>3, <1>4 DEF Taken
<1>6. InOrder'
  BY <1>1, <1>2, <1>3, <1>4, <1>5 DEF InOrder, HeldInv, Busy
<1>7. ProvenHead' /\ AnswerHolds' /\ SlotsHeld'
  BY <1>1, <1>3 DEF ProvenHead, AnswerHolds, SlotsHeld
<1>8. ReplaysRight'
  <2> SUFFICES ASSUME NEW k \in 0..Len(acked')
               PROVE  ReplayRight(requests', shadow', want', SubSeq(acked', 1, k))
    BY DEF ReplaysRight
  <2>1. Elems(SubSeq(acked', 1, k)) = {}
    <3>1. k = 0 /\ Len(SubSeq(acked', 1, k)) = 0
      BY <1>1, <1>3
    <3> QED
      BY <3>1 DEF Elems
  <2> QED
    BY <2>1 DEF ReplayRight
<1> QED
  BY <1>6, <1>7, <1>8 DEF HeldInv

(* A head of a sequence has elements of the sequence. *)
LEMMA HeadElems ==
  ASSUME NEW s \in Seq(Request), NEW k \in 0..Len(s)
  PROVE  /\ SubSeq(s, 1, k) \in Seq(Request) /\ Len(SubSeq(s, 1, k)) = k
         /\ \A i \in 1..k : SubSeq(s, 1, k)[i] = s[i]
         /\ Elems(SubSeq(s, 1, k)) = {s[i] : i \in 1..k}
         /\ Elems(SubSeq(s, 1, k)) \subseteq Elems(s)
<1>1. Len(s) \in Nat /\ k \in Nat /\ k <= Len(s)
  OBVIOUS
<1>2. SubSeq(s, 1, k) \in Seq(Request) /\ Len(SubSeq(s, 1, k)) = k
  BY <1>1
<1>3. \A i \in 1..k : SubSeq(s, 1, k)[i] = s[i]
  BY <1>1
<1>4. Elems(SubSeq(s, 1, k)) = {s[i] : i \in 1..k}
  BY <1>2, <1>3 DEF Elems
<1>5. 1..k \subseteq 1..Len(s)
  BY <1>1
<1> QED
  BY <1>2, <1>3, <1>4, <1>5 DEF Elems

(* How much of the batch is replayable. *)
HeadLen == IF unproven = 0 THEN Len(acked) ELSE unproven - 1

(* Replayable is a head of what was counted, and all of it is settled with proof. *)
LEMMA ReplayableIsHead ==
  ASSUME HeldInv
  PROVE  /\ HeadLen \in 0..Len(acked) /\ Replayable = SubSeq(acked, 1, HeadLen)
         /\ \A i \in 1..HeadLen : acked[i] \in Acked \ left
<1>1. acked \in Seq(Request) /\ Len(acked) \in Nat /\ unproven \in 0..Len(acked)
  BY DEF HeldInv, InOrder, ProvenHead
<1>2. HeadLen \in 0..Len(acked)
  BY <1>1 DEF HeadLen
<1>3. Replayable = SubSeq(acked, 1, HeadLen)
  <2>1. SubSeq(acked, 1, Len(acked)) = acked
    BY <1>1
  <2> QED
    BY <2>1 DEF Replayable, HeadLen
<1>4. ASSUME NEW i \in 1..HeadLen PROVE acked[i] \in Acked \ left
  <2>1. i \in 1..Len(acked) /\ (unproven = 0 \/ i < unproven)
    BY <1>1, <1>2 DEF HeadLen
  <2> QED
    BY <2>1 DEF HeldInv, ProvenHead, Acked, Elems
<1> QED
  BY <1>2, <1>3, <1>4

(* Finish: the baseline that is left has one object to a slot. *)
LEMMA FinishHeld ==
  ASSUME HeldInv, Finish
  PROVE  HeldInv'
<1>1. /\ pc \in {"done", "failed"} /\ pc' = "idle" /\ acked' = <<>> /\ unproven' = 0
      /\ left' = {} /\ req' = NoRequest /\ UNCHANGED <<main, desired>> /\ shadow' \in Baselines
  BY DEF Finish, sozuVars
<1>2. OneEach(shadow) /\ want \in Wanted /\ shadow \subseteq Objects /\ want \subseteq Objects
  BY <1>1, WantedOneEach DEF HeldInv, InOrder, OneEach
<1>3. OneEach(Replay(shadow, Replayable))
  <2>1. Replayable \in Seq(Request) /\ Elems(Replayable) \subseteq Acked
    <3>1. acked \in Seq(Request)
      BY DEF HeldInv, InOrder
    <3>2. HeadLen \in 0..Len(acked) /\ Replayable = SubSeq(acked, 1, HeadLen)
      BY ReplayableIsHead
    <3>3. /\ SubSeq(acked, 1, HeadLen) \in Seq(Request)
          /\ Elems(SubSeq(acked, 1, HeadLen)) \subseteq Elems(acked)
      BY <3>1, <3>2, HeadElems
    <3> QED
      BY <3>2, <3>3 DEF Acked
  <2>2. \A r \in Elems(Replayable) : Proper(r)
    BY <1>1, <1>2, <2>1, DiffFacts DEF HeldInv, InOrder
  <2> QED
    BY <1>2, <2>1, <2>2, ReplayOneEach
<1>4. OneEach(shadow')
  <2>1. shadow' \in {shadow, want, Replay(shadow, Replayable)}
    BY <1>1 DEF Baselines
  <2> QED
    BY <1>2, <1>3, <2>1, WantedOneEach
<1>5. Acked' = {} /\ acked' \in Seq(Request) /\ Len(acked') = 0
  BY <1>1 DEF Acked, Elems
<1>6. InOrder'
  BY <1>1, <1>4, <1>5 DEF HeldInv, InOrder, NoRequest, List
<1> QED
  BY <1>1, <1>5, <1>6 DEF HeldInv, ProvenHead, AnswerHolds, SlotsHeld, ReplaysRight

(* GiveUp and Change leave the batch alone. *)
LEMMA CallerHeld ==
  ASSUME HeldInv, UNCHANGED <<main, shadow, pc, want, requests, todo, acked, unproven, req, left, reply>>,
         desired' \in Wanted
  PROVE  HeldInv'
<1>1. Acked' = Acked /\ requests' = requests /\ Taken' = Taken
  BY DEF Acked, Taken
<1>2. \A o : Dangling(o)' = Dangling(o)
  BY DEF Dangling
<1>3. InOrder'
  BY <1>1 DEF HeldInv, InOrder
<1>4. AnswerHolds'
  BY <1>2 DEF HeldInv, AnswerHolds, RouteTeardown
<1>5. ProvenHead' /\ ReplaysRight'
  BY <1>1 DEF HeldInv, ProvenHead, ReplaysRight
<1>6. SlotsHeld'
  BY <1>1, <1>2 DEF HeldInv, SlotsHeld, SlotHeld
<1> QED
  BY <1>3, <1>4, <1>5, <1>6 DEF HeldInv

-----------------------------------------------------------------------------

(* Baseline and main process agree at the start, and no batch is under way. *)
LEMMA HeldInit ==
  ASSUME Init
  PROVE  HeldInv
<1>1. OneEach(shadow) /\ main \subseteq Objects
  BY WantedOneEach DEF Init, OneEach
<1>2. acked = <<>> /\ acked \in Seq(Request) /\ Acked = {} /\ Len(acked) = 0
  BY DEF Init, Acked, Elems
<1>3. InOrder
  BY <1>1, <1>2 DEF Init, InOrder, NoRequest, List
<1> QED
  BY <1>2, <1>3 DEF Init, HeldInv, ProvenHead, AnswerHolds, SlotsHeld, ReplaysRight

(* Every step keeps the invariant. *)
LEMMA HeldStep ==
  ASSUME OwnInv, HeldInv, [Next]_vars
  PROVE  HeldInv'
<1>0. InStep /\ desired \in Wanted
  BY DEF OwnInv, HeldInv, InOrder
<1>1. ASSUME NEW r \in todo, Send(r) PROVE HeldInv'
  BY <1>0, <1>1, SendHeld
<1>2. CASE LookUp
  BY <1>0, <1>2, LookUpHeld
<1>3. CASE Evict
  BY <1>0, <1>3, EvictHeld
<1>4. CASE Repair
  BY <1>0, <1>4, RepairHeld
<1>5. CASE AddAgain \/ AddReplacement
  BY <1>0, <1>5, AddAgainHeld
<1>6. CASE Settle
  BY <1>6, SettleHeld
<1>7. CASE NoEviction
  BY <1>7, NoEvictionHeld
<1>8. CASE Evicted
  BY <1>8, EvictedHeld
<1>9. CASE Added
  BY <1>9, AddedHeld
<1>10. CASE Abandon \/ Refused \/ EvictionFails \/ RepairFails \/ ReplacementAbandoned
  <2>1. Stop /\ pc # "idle" /\ UNCHANGED <<main, shadow, want, requests, todo, req, desired>>
    BY <1>10 DEF Abandon, Refused, EvictionFails, RepairFails, ReplacementAbandoned, sozuVars,
                 callerVars
  <2> QED
    BY <2>1, StopHeld
<1>11. CASE Return
  BY <1>11, ReturnHeld
<1>12. CASE Submit
  BY <1>12, SubmitHeld
<1>13. CASE Finish
  BY <1>13, FinishHeld
<1>14. CASE GiveUp
  BY <1>0, <1>14, CallerHeld DEF GiveUp, sozuVars, batchVars
<1>15. CASE Change
  BY <1>0, <1>15, CallerHeld DEF Change, sozuVars, batchVars
<1>16. CASE UNCHANGED vars
  BY <1>0, <1>16, CallerHeld DEF vars, sozuVars, batchVars, callerVars
<1> QED
  BY <1>1, <1>2, <1>3, <1>4, <1>5, <1>6, <1>7, <1>8, <1>9, <1>10, <1>11, <1>12, <1>13, <1>14,
     <1>15, <1>16 DEF Next, Agent, Caller

(* The invariant holds throughout. *)
LEMMA HeldAlways == Spec => []HeldInv
<1>1. Init => OwnInv /\ HeldInv
  <2>1. Init => OwnInv
    BY DEF Init, OwnInv, InStep, Closed, RepliesAreOwn
  <2> QED
    BY <2>1, HeldInit
<1>2. OwnInv /\ HeldInv /\ [Next]_vars => (OwnInv /\ HeldInv)'
  BY OwnStep, HeldStep
<1> QED
  BY <1>1, <1>2, PTL DEF Spec

(* A batch that went through has nothing more to come: what is due is what is wanted. *)
LEMMA HeldIsSuccess ==
  ASSUME HeldInv
  PROVE  SuccessHeld
<1> SUFFICES ASSUME pc = "done", NEW r \in Acked \ left
             PROVE  At(main, r.obj) = At(want, r.obj) \/ Dangling(r.obj)
  BY DEF SuccessHeld, Acked, Elems
<1>1. Taken = {} /\ todo = {}
  BY DEF HeldInv, InOrder
<1>2. SlotHeld(r.obj)
  BY DEF HeldInv, SlotsHeld
<1>3. Due(want, {}, r.obj) = At(want, r.obj)
  BY DEF Due
<1> QED
  BY <1>1, <1>2, <1>3 DEF SlotHeld

(* After a failure, a slot of the replayable head that no later request was at holds what the  *)
(* replay says: what is due there did not change since.                                        *)
LEMMA HeldIsReplayable ==
  ASSUME HeldInv
  PROVE  ReplayableHeld
<1> DEFINE head == SubSeq(acked, 1, HeadLen)
<1>0. /\ acked \in Seq(Request) /\ Len(acked) \in Nat
      /\ HeadLen \in 0..Len(acked) /\ Replayable = head /\ Len(head) = HeadLen
      /\ \A i \in 1..HeadLen : head[i] = acked[i] /\ acked[i] \in Acked \ left
      /\ Elems(head) = {acked[i] : i \in 1..HeadLen} /\ Elems(head) \subseteq Acked
  BY ReplayableIsHead, HeadElems DEF HeldInv, InOrder, Acked
<1> HIDE DEF head
<1> SUFFICES ASSUME pc = "failed", NEW i \in 1..HeadLen, NEW o \in {acked[i].obj, acked[i].old},
                    ~\E r \in Beyond : Touches(r, o), ~Dangling(o)
             PROVE  At(main, o) = At(Replay(shadow, head), o)
  BY <1>0 DEF ReplayableHeld, Touches
<1>1. acked[i] \in Acked \ left /\ acked[i] \in Elems(head)
  BY <1>0
<1>2. Beyond = {acked[j] : j \in (HeadLen + 1)..Len(acked)} \cup ({req} \ Acked)
  BY <1>0 DEF Beyond, Acked, Elems
<1>3. At(main, o) = Due(want, todo, o)
  <2>1. SlotHeld(o)
    BY <1>1 DEF HeldInv, SlotsHeld
  <2>2. \A c \in Taken : ~Touches(c, o)
    BY <1>2 DEF Taken
  <2> QED
    BY <2>1, <2>2 DEF SlotHeld
<1>4. At(Replay(shadow, head), o) = Due(want, requests \ Elems(head), o)
  <2>1. ReplayRight(requests, shadow, want, head)
    BY <1>0 DEF HeldInv, ReplaysRight, head
  <2> QED
    BY <1>1, <2>1 DEF ReplayRight
<1>5. ASSUME NEW p \in At(want, o) PROVE Add(p) \in todo <=> Add(p) \in requests \ Elems(head)
  <2>1. Touches(Add(p), o)
    BY DEF Touches, Add, At
  <2>2. Add(p) \notin Taken
    BY <1>2, <2>1 DEF Taken
  <2>3. Add(p) \in Acked => Add(p) \in Elems(head)
    <3> SUFFICES ASSUME NEW j \in 1..Len(acked), Add(p) = acked[j] PROVE Add(p) \in Elems(head)
      BY DEF Acked, Elems
    <3>1. j \notin (HeadLen + 1)..Len(acked)
      BY <1>2, <2>1
    <3>2. j \in 1..HeadLen
      BY <1>0, <3>1
    <3> QED
      BY <1>0, <3>2
  <2> QED
    BY <1>0, <2>2, <2>3 DEF HeldInv, InOrder
<1>6. Due(want, todo, o) = Due(want, requests \ Elems(head), o)
  BY <1>5 DEF Due
<1> QED
  BY <1>3, <1>4, <1>6

(* A batch that goes through leaves each key it settled with proof as the desired IR has it,   *)
(* whoever held it before: for any objects, workers, losses and refusals (apply_tracked).      *)
THEOREM SuccessLeavesTheDesired == Spec => []SuccessHeld
<1>1. HeldInv => SuccessHeld
  BY HeldIsSuccess
<1> QED
  BY <1>1, HeldAlways, PTL

(* Replaying the head of a failed batch records nothing the main process does not hold, unless *)
(* a later request was at the same key (ApplyError::replayable, apply_acknowledged).           *)
THEOREM ReplayedHeadsAreHeld == Spec => []ReplayableHeld
<1>1. HeldInv => ReplayableHeld
  BY HeldIsReplayable
<1> QED
  BY <1>1, HeldAlways, PTL
=============================================================================
