----------------------------- MODULE Reconciler -----------------------------
(***************************************************************************)
(* What the controller promises, without its probes, epochs and timers: it *)
(* moves a store towards a desired state by what differs from a baseline,  *)
(* object by object; the baseline advances only over objects that settled, *)
(* is given up only for a store it does not name while the Pod serves, and *)
(* readiness is granted only for a state reached in full.  ControllerLoop  *)
(* implements it.                                                          *)
(***************************************************************************)
EXTENDS Naturals

CONSTANT Objects

VARIABLES
  desired,   \* what the store should hold
  held,      \* what it holds
  socket,    \* which store it is: a restarted one is another
  baseline,  \* [generation, ir]: what the reconciler believes, and of which store
  saved,     \* the baseline as last saved
  aim,       \* the desired state the current round was started for
  pushing,   \* objects that requests, abandoned ones too, may still move
  settled,   \* objects acknowledged in this round
  ready      \* the reconciler has announced a reached state

vars == <<desired, held, socket, baseline, saved, aim, pushing, settled, ready>>

Differing(S, T) == (S \ T) \cup (T \ S)

(* A request turns an object away from the baseline; at most one is under way. *)
Moved(S, base, objects) == (S \ objects) \cup (objects \ base)
OneOf(S) == {{}} \cup {{o} : o \in S}

Saves(b) == saved' \in {saved, b}

Init ==
  /\ desired \in SUBSET Objects
  /\ held = {} /\ socket = 0
  /\ baseline = [generation |-> 0, ir |-> {}] /\ saved = baseline
  /\ aim = {} /\ pushing = {} /\ settled = {}
  /\ ready = FALSE

Want ==
  /\ desired' \in SUBSET Objects
  /\ UNCHANGED <<held, socket, baseline, saved, aim, pushing, settled, ready>>

(* The store dies, or another takes its place. *)
Lose ==
  /\ held' = {}
  /\ socket' \in {socket, socket + 1}
  /\ UNCHANGED <<desired, baseline, saved, aim, pushing, settled, ready>>

Begin ==
  /\ settled = {}
  /\ aim' = desired
  /\ pushing' = pushing \cup Differing(baseline.ir, desired)
  /\ UNCHANGED <<desired, held, socket, baseline, saved, settled, ready>>

Push(o) ==
  /\ o \in pushing
  /\ held' = Moved(held, baseline.ir, {o})
  /\ pushing' \in {pushing, pushing \ {o}}
  /\ settled' \in {settled, settled \cup {o}}
  /\ UNCHANGED <<desired, socket, baseline, saved, aim, ready>>

(* An abandoned request that ends without effect. *)
Drop(o) ==
  /\ o \in pushing
  /\ pushing' = pushing \ {o}
  /\ UNCHANGED <<desired, held, socket, baseline, saved, aim, settled, ready>>

(* The end of a round: settled objects enter the baseline; one more may land unacknowledged, *)
(* and one more be left under way.                                                           *)
Finish(landed, head) ==
  /\ landed \in OneOf(pushing) /\ head \subseteq settled
  /\ held' = Moved(held, baseline.ir, landed)
  /\ baseline' = [baseline EXCEPT !.ir = Moved(@, @, head)]
  /\ Saves(baseline')
  /\ settled' = {}
  /\ pushing' \in OneOf(pushing)
  /\ aim' \in {aim, {}}
  /\ UNCHANGED <<desired, socket, ready>>

Announce ==
  /\ baseline.ir = aim /\ settled = {}
  /\ ready' = TRUE
  /\ aim' = {}
  /\ UNCHANGED <<desired, held, socket, baseline, saved, pushing, settled>>

(* The baseline is given up; while ready, only one of another store. *)
Forget(generation) ==
  /\ ready /\ baseline.ir # {} => baseline.generation # socket
  /\ settled = {}
  /\ baseline' = [generation |-> generation, ir |-> {}]
  /\ Saves(baseline')
  /\ ready' = (ready /\ baseline.ir = {})
  /\ UNCHANGED <<desired, held, socket, aim, pushing, settled>>

(* The reconciler dies and loses everything but what it saved ... *)
Crash(landed) ==
  /\ landed \in OneOf(pushing)
  /\ held' = Moved(held, baseline.ir, landed)
  /\ baseline' = [generation |-> 0, ir |-> {}]
  /\ aim' = {} /\ pushing' = {} /\ settled' = {}
  /\ ready' = FALSE
  /\ UNCHANGED <<desired, socket, saved>>

(* ... which the next one may go on from, if the store is the same. *)
Resume ==
  /\ ~ready /\ settled = {}
  /\ baseline.ir = {} /\ baseline' = saved
  /\ UNCHANGED <<desired, held, socket, saved, aim, pushing, settled, ready>>

Next ==
  \/ Want \/ Lose \/ Begin \/ Announce \/ Resume
  \/ \E o \in Objects : Push(o) \/ Drop(o)
  \/ \E landed, head \in SUBSET Objects : Finish(landed, head)
  \/ \E generation \in 0..socket : Forget(generation)
  \/ \E landed \in SUBSET Objects : Crash(landed)

Spec == Init /\ [][Next]_vars
=============================================================================
