--------------------------- MODULE ControllerLoop ---------------------------
(***************************************************************************)
(* The controller's run loop (crates/controller/src/main.rs) with the      *)
(* shadow it diffs from (shadow.rs), the command-socket connection of its  *)
(* agent (crates/sozu-agent/src/lib.rs) and the Sozu process it programs.  *)
(*                                                                         *)
(* The question is whether the baseline the controller diffs from can      *)
(* describe another Sozu than the one that is running, and what becomes of *)
(* work a failure left behind.  An IR is a set of routing objects; a batch *)
(* adds or removes single objects in any order (its real order is the      *)
(* translator's business); a Sozu process is named by its command socket.  *)
(*                                                                         *)
(* The controller is one task: pc says where it awaits.  The metrics       *)
(* endpoint shares its agent (Scrape), Sozu and the controller crash and   *)
(* restart, and the desired state moves under both.                        *)
(***************************************************************************)
EXTENDS Naturals

CONSTANTS
  Objects,      \* the routing objects an IR can hold
  Args,         \* command lines: which of the two ticks are enabled
  MaxSockets,   \* bound: Sozu processes, the first one included
  MaxFaults,    \* bound: failures the environment may inject
  MaxChanges    \* bound: changes of the desired state

ASSUME ArgsAssumption == Args \subseteq [probe : BOOLEAN, resync : BOOLEAN]
ASSUME BoundsAssumption == MaxSockets \in Nat /\ MaxFaults \in Nat /\ MaxChanges \in Nat

VARIABLES
  \* the environment
  sozu,         \* [up, socket, held]: the process, its socket, what its main process holds
  desired,      \* the IR `build` gives for the reflector caches as they are now
  faults,       \* failures injected so far
  changes,      \* changes of `desired` so far
  file,         \* shadow_file: [generation, ir]; an absent file has no generation
  \* the agent's worker thread
  channel,      \* socket identity bound to the established connection, or NoSocket
  reconnects,   \* SozuAgent::reconnects, the reconnect epoch
  late,         \* the object of a request still in flight after its apply was abandoned
  \* the controller's task
  args,         \* the command line
  pc,           \* where the task awaits
  shadow,       \* [generation, ir]
  acked,        \* acked_reconnects
  ready,        \* what /readyz answers
  pending,      \* pending_reconcile
  unreachable,  \* sozu_unreachable
  retry,        \* the self-scheduled retry timer is armed
  nudge,        \* the change channel holds a notice
  cause,        \* the pass's wakeup; "startup" and "post" for the probes outside a pass
  epoch,        \* probe_sozu_generation's local `pending`
  answer,       \* socket the last generation() reported, or NoSocket for an error
  want,         \* the IR this pass built
  done,         \* objects whose request Sozu acknowledged in this batch
  \* history, read by no action's guard
  doubt         \* objects on which a fault may have parted the shadow and Sozu

sozuVars == <<sozu, desired, faults, changes, file>>
taskVars == <<args, pc, shadow, acked, ready, pending, unreachable, retry, nudge,
              cause, epoch, answer, want, done>>
vars == <<sozuVars, channel, reconnects, late, taskVars, doubt>>

NoSocket == 0

(* Option<SozuGeneration>, reduced to the socket: worker PIDs only decide a log line. *)
Generation == 0..MaxSockets

Shadow == [generation : Generation, ir : SUBSET Objects]

(* Shadow::empty *)
EmptyShadow(generation) == [generation |-> generation, ir |-> {}]

SymDiff(S, T) == (S \ T) \cup (T \ S)

Alive == pc # "down"

(* Shadow state exists only between load_initial and the process's end. *)
Loaded == pc \notin {"down", "capture", "load"}

-----------------------------------------------------------------------------
(* Faults.  n failures of the environment happen in this step. *)

Fault(n) == faults + n <= MaxFaults /\ faults' = faults + n

(* Mutant of Persist: the generation is read again when the file is written. *)
PersistRestamped(s, n) == file' = IF n = 0 THEN [s EXCEPT !.generation = sozu.socket] ELSE file

(* shadow::persist is best effort: n = 1 when the write fails and the old file stays. *)
Persist(s, n) == file' = IF n = 0 THEN s ELSE file

-----------------------------------------------------------------------------
(* SozuAgent::send_with_retry, one job of the worker thread.               *)
(* A terminal response arrives on the connection the agent holds (made     *)
(* lazily, without touching the epoch) or, after a channel error, on a     *)
(* second one (the epoch moves).  n is 1 if a live connection broke.       *)

Reply(n) ==
  /\ sozu.up
  /\ channel' = sozu.socket
  /\ \/ n = 0 /\ channel \in {NoSocket, sozu.socket} /\ UNCHANGED reconnects
     \/ n = 0 /\ channel \notin {NoSocket, sozu.socket} /\ reconnects' = reconnects + 1
     \/ n = 1 /\ channel \in {NoSocket, sozu.socket} /\ reconnects' = reconnects + 1

(* No response: a lazy connect that failed leaves the epoch alone, anything *)
(* that broke an established connection has bumped it.  With Sozu up this   *)
(* takes a fault.                                                           *)
NoReply(n) ==
  /\ channel' = NoSocket
  /\ n = IF sozu.up THEN 1 ELSE 0
  /\ \/ channel = NoSocket /\ UNCHANGED reconnects
     \/ (channel # NoSocket \/ sozu.up) /\ reconnects' = reconnects + 1

(* Jobs queue on one worker thread: behind an abandoned request, none starts. *)
Idle == late = {}

(* SozuAgent::generation: the identity of the connection that answered, unless Sozu refused. *)
AskGeneration ==
  /\ Idle
  /\ \E n \in {0, 1} :
       /\ Fault(n)
       /\ \/ Reply(n) /\ answer' = sozu.socket
          \/ n = 1 /\ Reply(0) /\ answer' = NoSocket
          \/ NoReply(n) /\ answer' = NoSocket

-----------------------------------------------------------------------------
(* Startup: the part of main() from the cache sync to the first reconcile. *)

(* The caches are synced, each InitDone left its notice in the channel; the epoch is *)
(* read before the generation is asked for.                                          *)
Start ==
  /\ pc = "down"
  /\ pc' = "capture"
  /\ acked' = reconnects
  /\ nudge' = TRUE
  /\ UNCHANGED <<sozuVars, channel, reconnects, late, args, shadow, ready, pending, unreachable,
                 retry, cause, epoch, answer, want, done, doubt>>

CaptureGeneration ==
  /\ pc = "capture"
  /\ AskGeneration
  /\ pc' = "load"
  /\ UNCHANGED <<sozu, desired, changes, file, late, args, shadow, acked, ready, pending, unreachable,
                 retry, nudge, cause, epoch, want, done, doubt>>

Resumable == answer # NoSocket /\ file.generation = answer

(* load_initial: resume the file only if the same command socket answered. *)
LoadInitial ==
  /\ pc = "load"
  /\ shadow' = [generation |-> answer, ir |-> IF Resumable THEN file.ir ELSE {}]
  /\ doubt' = IF Resumable THEN doubt ELSE sozu.held
  /\ answer' = NoSocket
  /\ pc' = IF reconnects # acked THEN "probe" ELSE "reconcile"
  /\ UNCHANGED <<sozuVars, channel, reconnects, late, args, acked, ready, pending, unreachable,
                 retry, nudge, cause, epoch, want, done>>

-----------------------------------------------------------------------------
(* probe_sozu_generation, from its three call sites. *)

(* Mutant of ReadEpoch: the epoch is taken one ahead of the counter. *)
ReadEpochAhead ==
  /\ pc = "probe"
  /\ epoch' = reconnects + 1
  /\ pc' = "status"
  /\ UNCHANGED <<sozuVars, channel, reconnects, late, args, shadow, acked, ready, pending, unreachable,
                 retry, nudge, cause, answer, want, done, doubt>>

(* The epoch is read before the probe ... *)
ReadEpoch ==
  /\ pc = "probe"
  /\ epoch' = reconnects
  /\ pc' = "status"
  /\ UNCHANGED <<sozuVars, channel, reconnects, late, args, shadow, acked, ready, pending, unreachable,
                 retry, nudge, cause, answer, want, done, doubt>>

ProbeStatus ==
  /\ pc = "status"
  /\ AskGeneration
  /\ pc' = "verdict"
  /\ UNCHANGED <<sozu, desired, changes, file, late, args, shadow, acked, ready, pending, unreachable,
                 retry, nudge, cause, epoch, want, done, doubt>>

(* Mutants of ShouldReset: an emptiness probe; a reset at every successful probe. *)
ShouldResetIfEmpty == shadow.ir # {} /\ sozu.held = {}
ShouldResetAlways == shadow.ir # {}

(* should_reset, on a probe that succeeded *)
ShouldReset == shadow.ir # {} /\ shadow.generation # answer

(* check_restart_generation's outcome *)
Outcome ==
  IF answer = NoSocket THEN "ProbeFailed" ELSE IF ShouldReset THEN "Reset" ELSE "Unchanged"

RetryByNudge == Outcome = "ProbeFailed" /\ ~args.probe

(* Mutants of Reconciles: a tick forgets pending work; a tick forgets its own reset. *)
ReconcilesWithoutPending == cause # "SozuProbe" \/ Outcome = "Reset"
ReconcilesWithoutReset == cause # "SozuProbe" \/ (pending /\ Outcome = "Unchanged")

(* reconciles(wakeup, check, pending); the startup probe is followed by the first pass *)
Reconciles ==
  \/ cause # "SozuProbe"
  \/ Outcome = "Reset"
  \/ pending /\ Outcome = "Unchanged"

(* Mutant of Acknowledged: the epoch is read after the probe. *)
AcknowledgedLate == IF Outcome = "ProbeFailed" THEN acked ELSE reconnects

(* The epoch probe_sozu_generation acknowledges: what it read first, if the probe answered. *)
Acknowledged == IF Outcome = "ProbeFailed" THEN acked ELSE epoch

(* Mutant of NudgeAfterProbe: a reset found after an apply schedules nothing. *)
NudgeAfterFailureOnly == cause # "startup" /\ RetryByNudge

(* A probe leaves a notice behind when nothing else would act on its outcome. *)
NudgeAfterProbe ==
  \/ cause # "startup" /\ RetryByNudge
  \/ cause = "post" /\ Outcome = "Reset"

(* What the check leaves of the shadow; the startup site gives up a shadow it could not verify. *)
CheckedShadow ==
  CASE Outcome = "Reset" -> EmptyShadow(answer)
    [] Outcome = "Unchanged" -> [shadow EXCEPT !.generation = answer]
    [] Outcome = "ProbeFailed" -> IF cause = "startup" THEN EmptyShadow(NoSocket) ELSE shadow

(* ... and acknowledged only if the probe succeeded.  A reset persists the  *)
(* emptied shadow and drops readiness before the caller goes on.            *)
ProbeVerdict ==
  /\ pc = "verdict"
  /\ shadow' = CheckedShadow
  /\ acked' = Acknowledged
  /\ ready' = (ready /\ Outcome # "Reset")
  /\ \E n \in {0, 1} :
       IF Outcome = "Reset" THEN Fault(n) /\ Persist(CheckedShadow, n)
                            ELSE n = 0 /\ UNCHANGED <<faults, file>>
  /\ doubt' = IF CheckedShadow = shadow THEN doubt ELSE sozu.held
  /\ unreachable' = IF cause = "startup" THEN unreachable ELSE (Outcome = "ProbeFailed")
  /\ nudge' = (nudge \/ NudgeAfterProbe)
  /\ pc' = IF cause # "post" /\ Reconciles THEN "reconcile" ELSE "select"
  /\ epoch' = 0 /\ answer' = NoSocket
  /\ UNCHANGED <<sozu, desired, changes, channel, reconnects, late, args, pending, retry,
                 cause, want, done>>

-----------------------------------------------------------------------------
(* One pass of reconcile(). *)

(* The error arms of main(): the work stays pending; with both ticks off a timer retries it. *)
ReconcileFailed ==
  /\ pending' = TRUE
  /\ retry' = (retry \/ (~args.probe /\ ~args.resync))
  /\ want' = {}
  /\ pc' = "post"

(* verify_gateway_identity, the cache gate, build and the diff; an empty *)
(* diff applies nothing.                                                  *)
Build ==
  /\ pc = "reconcile"
  /\ want' = desired
  /\ pc' = IF desired = shadow.ir THEN "fence" ELSE "apply"
  /\ UNCHANGED <<sozuVars, channel, reconnects, late, args, shadow, acked, ready, pending, unreachable,
                 retry, nudge, cause, epoch, answer, done, doubt>>

BuildFails ==
  /\ pc = "reconcile"
  /\ Fault(1)
  /\ ReconcileFailed
  /\ UNCHANGED <<sozu, desired, changes, file, channel, reconnects, late, args, shadow, acked,
                 ready, unreachable, nudge, cause, epoch, answer, done, doubt>>

Batch == SymDiff(shadow.ir, want)

(* What the requests for the objects S make of `held`: a request of the batch removes what *)
(* the shadow lists and adds what it does not.                                             *)
Applied(held, S) == (held \ S) \cup (S \ shadow.ir)

(* One request of the batch, acknowledged (the agent settles duplicates and missing objects). *)
ApplyRequest(o) ==
  /\ pc = "apply"
  /\ Idle
  /\ o \in Batch \ done
  /\ \E n \in {0, 1} : Fault(n) /\ Reply(n)
  /\ sozu' = [sozu EXCEPT !.held = Applied(@, {o})]
  /\ done' = done \cup {o}
  /\ UNCHANGED <<desired, changes, file, late, args, pc, shadow, acked, ready, pending,
                 unreachable, retry, nudge, cause, epoch, answer, want, doubt>>

(* The whole batch is acknowledged: the shadow advances and is persisted. *)
ApplyDone ==
  /\ pc = "apply"
  /\ Idle
  /\ Batch \subseteq done
  /\ shadow' = [shadow EXCEPT !.ir = want]
  /\ \E n \in {0, 1} : Fault(n) /\ Persist([shadow EXCEPT !.ir = want], n)
  /\ doubt' = doubt \ done
  /\ done' = {}
  /\ pc' = "fence"
  /\ UNCHANGED <<sozu, desired, changes, channel, reconnects, late, args, acked, ready, pending,
                 unreachable, retry, nudge, cause, epoch, answer, want>>

(* Where a request that got no acknowledgement leaves Sozu: it may have landed. *)
MayLand(o, landed) ==
  /\ landed \in IF sozu.up THEN {{}, {o}} ELSE {{}}
  /\ sozu' = [sozu EXCEPT !.held = Applied(@, landed)]

(* Mutant of Replayed: a failed batch advances the shadow to the desired state. *)
ReplayedInFull(head) == [shadow EXCEPT !.ir = want]

(* replay_acknowledged adopts the acknowledged head when the IR can spell the result; *)
(* head = {} also stands for a head it cannot spell.                                  *)
Replayed(head) == [shadow EXCEPT !.ir = Applied(@, head)]

(* The batch stops on a refusal or on a dead connection; only the head that is provably *)
(* applied is replayed, and the file written if that changed the shadow.                *)
ApplyFails(o, landed, head) ==
  /\ pc = "apply"
  /\ Idle
  /\ o \in Batch \ done
  /\ head \subseteq done
  /\ \E n, m, k \in {0, 1} :
       /\ \/ n = 1 /\ landed = {} /\ Reply(0) /\ UNCHANGED sozu
          \/ NoReply(n) /\ MayLand(o, landed)
       /\ k = IF head = done THEN 0 ELSE 1
       /\ Fault(n + m + k)
       /\ shadow' = Replayed(head)
       /\ IF Replayed(head) = shadow THEN m = 0 /\ UNCHANGED file ELSE Persist(Replayed(head), m)
  /\ doubt' = (doubt \ head) \cup (done \ head) \cup landed
  /\ done' = {}
  /\ ReconcileFailed
  /\ UNCHANGED <<desired, changes, late, args, acked, ready, unreachable, nudge, cause,
                 epoch, answer>>

(* The 60 s bound on the apply: the count of what landed never reaches the controller.  The *)
(* worker stops before its next request, or is still busy with one.                         *)
ApplyTimesOut(o) ==
  /\ pc = "apply"
  /\ o \in Batch \ done
  /\ Fault(1)
  /\ late' = late \/ (Idle /\ late' = {o})
  /\ doubt' = doubt \cup done \cup late'
  /\ done' = {}
  /\ ReconcileFailed
  /\ UNCHANGED <<sozu, desired, changes, file, channel, reconnects, args, shadow, acked, ready,
                 unreachable, nudge, cause, epoch, answer>>

(* The abandoned request ends, with or without effect; no other job ran meanwhile. *)
LateRequest(o, landed) ==
  /\ late = {o}
  /\ \E n \in {0, 1} : Fault(n) /\ (Reply(n) \/ NoReply(n))
  /\ MayLand(o, landed)
  /\ late' = {}
  /\ UNCHANGED <<desired, changes, file, taskVars, doubt>>

(* The second identity check and the status writes, then main()'s Ok arm. *)
Fence ==
  /\ pc = "fence"
  /\ ready' = TRUE
  /\ pending' = FALSE
  /\ retry' = FALSE
  /\ want' = {}
  /\ pc' = "post"
  /\ UNCHANGED <<sozuVars, channel, reconnects, late, args, shadow, acked, unreachable, nudge, cause,
                 epoch, answer, done, doubt>>

FenceFails ==
  /\ pc = "fence"
  /\ Fault(1)
  /\ ReconcileFailed
  /\ UNCHANGED <<sozu, desired, changes, file, channel, reconnects, late, args, shadow, acked,
                 ready, unreachable, nudge, cause, epoch, answer, done, doubt>>

(* After every pass: a reconnect that landed during it is investigated at once. *)
PostCheck ==
  /\ pc = "post"
  /\ cause' = "post"
  /\ pc' = IF reconnects # acked THEN "probe" ELSE "select"
  /\ UNCHANGED <<sozuVars, channel, reconnects, late, args, shadow, acked, ready, pending, unreachable,
                 retry, nudge, epoch, answer, want, done, doubt>>

-----------------------------------------------------------------------------
(* The select! at the head of the loop. *)

(* What follows a wakeup: the plain Status of an unreachable Sozu, the generation check, *)
(* or, for a change with no reconnect pending, the pass itself.                           *)
AfterWakeup(why) ==
  /\ cause' = why
  /\ pc' = CASE why = "SozuProbe" /\ unreachable -> "gate"
             [] ~(why = "SozuProbe" /\ unreachable) ->
                  IF why # "Change" \/ reconnects # acked THEN "probe" ELSE "reconcile"
  /\ UNCHANGED <<sozuVars, channel, reconnects, late, args, shadow, acked, ready, pending, unreachable,
                 epoch, answer, want, done, doubt>>

WakeOnChange ==
  /\ pc = "select"
  /\ nudge
  /\ nudge' = FALSE
  /\ UNCHANGED retry
  /\ AfterWakeup("Change")

WakeOnResync ==
  /\ pc = "select"
  /\ args.resync
  /\ UNCHANGED <<nudge, retry>>
  /\ AfterWakeup("Resync")

WakeOnProbe ==
  /\ pc = "select"
  /\ args.probe
  /\ UNCHANGED <<nudge, retry>>
  /\ AfterWakeup("SozuProbe")

WakeOnRetry ==
  /\ pc = "select"
  /\ retry
  /\ retry' = FALSE
  /\ UNCHANGED nudge
  /\ AfterWakeup("Retry")

(* A liveness tick while Sozu was last seen unreachable asks once, quietly, first. *)
UnreachableGate ==
  /\ pc = "gate"
  /\ Idle
  /\ \E n \in {0, 1} :
       /\ Fault(n)
       /\ \/ Reply(n) /\ pc' = "probe"
          \/ n = 1 /\ Reply(0) /\ pc' = "select"
          \/ NoReply(n) /\ pc' = "select"
  /\ UNCHANGED <<sozu, desired, changes, file, late, args, shadow, acked, ready, pending,
                 unreachable, retry, nudge, cause, epoch, answer, want, done, doubt>>

-----------------------------------------------------------------------------
(* The environment. *)

(* A metrics scrape: a job of its own on the worker thread, between two of the task's. *)
Scrape ==
  /\ Alive
  /\ Idle /\ pc # "apply"
  /\ \E n \in {0, 1} : Fault(n) /\ (Reply(n) \/ NoReply(n))
  /\ UNCHANGED <<sozu, desired, changes, file, late, taskVars, doubt>>

(* A Kubernetes object changes; the reflector cache has it before the notice is sent. *)
Change(ir) ==
  /\ changes < MaxChanges
  /\ ir # desired
  /\ desired' = ir
  /\ changes' = changes + 1
  /\ nudge' = Alive
  /\ UNCHANGED <<sozu, faults, file, channel, reconnects, late, args, pc, shadow, acked, ready,
                 pending, unreachable, retry, cause, epoch, answer, want, done, doubt>>

SozuCrash ==
  /\ sozu.up
  /\ sozu.socket < MaxSockets
  /\ sozu' = [sozu EXCEPT !.up = FALSE, !.held = {}]
  /\ UNCHANGED <<desired, faults, changes, file, channel, reconnects, late, taskVars, doubt>>

(* A fresh process recreates its command socket and holds nothing. *)
SozuStart ==
  /\ ~sozu.up
  /\ sozu.socket < MaxSockets
  /\ sozu' = [up |-> TRUE, socket |-> sozu.socket + 1, held |-> {}]
  /\ UNCHANGED <<desired, faults, changes, file, channel, reconnects, late, taskVars, doubt>>

(* The request a crash of the controller can cut off, the objects of it as singletons. *)
InFlight ==
  {{o} : o \in IF pc = "apply" /\ Idle THEN Batch \ done ELSE late}

(* What a controller restart forgets: everything but the file. *)
ControllerCrash(landed) ==
  /\ Alive
  /\ Fault(1)
  /\ landed \in IF sozu.up THEN {{}} \cup InFlight ELSE {{}}
  /\ sozu' = [sozu EXCEPT !.held = Applied(@, landed)]
  /\ pc' = "down"
  /\ channel' = NoSocket
  /\ reconnects' = 0
  /\ late' = {}
  /\ shadow' = EmptyShadow(NoSocket)
  /\ acked' = 0
  /\ ready' = FALSE
  /\ pending' = FALSE
  /\ unreachable' = FALSE
  /\ retry' = FALSE
  /\ nudge' = FALSE
  /\ epoch' = 0
  /\ answer' = NoSocket
  /\ want' = {}
  /\ done' = {}
  /\ doubt' = doubt \cup landed \cup (IF Loaded THEN done \cup SymDiff(file.ir, shadow.ir) ELSE {})
  /\ cause' = "startup"
  /\ UNCHANGED <<desired, changes, file, args>>

-----------------------------------------------------------------------------
Init ==
  /\ sozu = [up |-> FALSE, socket |-> 0, held |-> {}]
  /\ desired \in SUBSET Objects
  /\ faults = 0 /\ changes = 0
  /\ file = EmptyShadow(NoSocket)
  /\ channel = NoSocket /\ reconnects = 0 /\ late = {}
  /\ args \in Args
  /\ pc = "down"
  /\ shadow = EmptyShadow(NoSocket)
  /\ acked = 0
  /\ ready = FALSE /\ pending = FALSE /\ unreachable = FALSE /\ retry = FALSE /\ nudge = FALSE
  /\ cause = "startup"
  /\ epoch = 0 /\ answer = NoSocket
  /\ want = {} /\ done = {} /\ doubt = {}

Startup == Start \/ CaptureGeneration \/ LoadInitial
Probe == ReadEpoch \/ ProbeStatus \/ ProbeVerdict
Apply ==
  \/ \E o \in Objects : ApplyRequest(o)
  \/ ApplyDone
  \/ \E o \in Objects, landed \in SUBSET Objects, head \in SUBSET Objects :
       ApplyFails(o, landed, head)
  \/ \E o \in Objects : ApplyTimesOut(o)
Pass == Build \/ BuildFails \/ Apply \/ Fence \/ FenceFails \/ PostCheck
Wake == WakeOnChange \/ WakeOnResync \/ WakeOnProbe \/ WakeOnRetry \/ UnreachableGate
Task == Startup \/ Probe \/ Pass \/ Wake
Abandoned == \E o \in Objects, landed \in SUBSET Objects : LateRequest(o, landed)
Environment ==
  \/ Scrape
  \/ \E ir \in SUBSET Objects : Change(ir)
  \/ SozuCrash
  \/ SozuStart
  \/ \E landed \in SUBSET Objects : ControllerCrash(landed)

Next == Task \/ Abandoned \/ Environment

Spec == Init /\ [][Next]_vars

(***************************************************************************)
(* The task and the agent's worker run, Kubernetes restarts a dead         *)
(* container, and select! polls its branches in random order, so none that *)
(* keeps being ready is passed over for ever.  No fairness is asked of     *)
(* crashes, scrapes or changes.                                            *)
(***************************************************************************)
Fairness ==
  /\ WF_vars(Task)
  /\ WF_vars(Abandoned)
  /\ WF_vars(SozuStart)
  /\ SF_vars(WakeOnChange)
  /\ SF_vars(WakeOnResync)
  /\ SF_vars(WakeOnProbe)
  /\ SF_vars(WakeOnRetry)

FairSpec == Spec /\ Fairness

-----------------------------------------------------------------------------
(* Properties. *)

TypeOK ==
  /\ sozu \in [up : BOOLEAN, socket : Generation, held : SUBSET Objects]
  /\ desired \in SUBSET Objects /\ want \in SUBSET Objects
  /\ done \in SUBSET Objects /\ doubt \in SUBSET Objects /\ late \in SUBSET Objects
  /\ faults \in 0..MaxFaults /\ changes \in 0..MaxChanges
  /\ file \in Shadow /\ shadow \in Shadow
  /\ channel \in Generation /\ answer \in Generation
  /\ reconnects \in Nat /\ acked \in 0..reconnects /\ epoch \in 0..reconnects
  /\ args \in Args
  /\ pc \in {"down", "capture", "load", "probe", "status", "verdict", "reconcile", "apply",
             "fence", "post", "select", "gate"}
  /\ ready \in BOOLEAN /\ pending \in BOOLEAN /\ unreachable \in BOOLEAN
  /\ retry \in BOOLEAN /\ nudge \in BOOLEAN
  /\ cause \in {"startup", "Change", "Resync", "SozuProbe", "Retry", "post"}

(* A baseline that names the running Sozu describes what that Sozu holds, except for the     *)
(* objects of requests whose outcome was lost (a timeout, a dead connection, a head the IR   *)
(* cannot spell, a crash before the file was written, a baseline given up unproven).  A Sozu *)
(* restart, whenever it lands, is never masked: the generation check of shadow.rs.           *)
BaselineSound ==
  Loaded /\ sozu.up /\ shadow.generation = sozu.socket
    => SymDiff(shadow.ir, sozu.held) \subseteq doubt \cup done

(* The same of the file a restarted controller would resume: a file written against the      *)
(* running Sozu's socket is as good a baseline as the shadow that died with the process.     *)
ResumeSound ==
  ~Loaded /\ sozu.up /\ file.generation = sozu.socket
    => SymDiff(file.ir, sozu.held) \subseteq doubt

(* While the agent's connection is not the one the baseline was proven against, a reconnect  *)
(* is waiting to be investigated: no interleaving of probes, applies and scrapes consumes    *)
(* the epoch (probe_sozu_generation, send_with_retry) without looking at the new socket.     *)
ReconnectPending ==
  Loaded /\ shadow.generation # NoSocket /\ channel # shadow.generation => reconnects # acked

(* The loop never goes to sleep on work: when what it last applied is not what is wanted, a  *)
(* notice is queued, or the failed pass is pending and a tick or the retry timer will run it.*)
NeverSleepsOnWork ==
  pc = "select" /\ shadow.ir # desired
    => nudge \/ (pending /\ (args.probe \/ args.resync \/ retry))

(* Readiness is dropped by a live controller only when the baseline it had did not name the  *)
(* Sozu that is running (unmark_ready): never over a Sozu proven to hold the baseline.       *)
ReadyDropsOnlyForAnotherSozu ==
  [][ready /\ ~ready' /\ pc' # "down" => shadow.generation # sozu.socket]_vars

(* With a tick enabled, and once faults, restarts and changes cease, Sozu comes to hold what *)
(* is desired and stays there, objects in doubt excepted.                                    *)
Converges ==
  args.probe \/ args.resync => <>[](SymDiff(sozu.held, desired) \subseteq doubt)

(* With at most one fault the retry of one desired state is exact: from a loop asleep on a   *)
(* proven baseline with nothing in doubt, the last change reaches Sozu entirely, whatever    *)
(* restarts and whichever single failure come after it (reconcile's comment on its retries). *)
Settled ==
  /\ changes = MaxChanges /\ doubt = {}
  /\ pc = "select" /\ sozu.up /\ shadow.generation = sozu.socket
RetryIsExact ==
  args.probe \/ args.resync => [](Settled => <>[](sozu.held = desired))

(* ... and the Pod becomes and stays ready.                                                  *)
EventuallyReady == args.probe \/ args.resync => <>[]ready

(* The loop implements the abstract reconciler: whatever probes, retries, scrapes and crashes    *)
(* interleave, Sozu is changed only by what differs from the baseline of the pass, the baseline  *)
(* advances only over acknowledged requests (replay_acknowledged), is given up only for another  *)
(* Sozu once the Pod is ready (check_restart_generation), and readiness follows a whole batch.   *)
Pushing == (IF pc = "apply" THEN Batch \ done ELSE {}) \cup late
Abstract ==
  INSTANCE Reconciler WITH held <- sozu.held, socket <- sozu.socket, baseline <- shadow,
    saved <- file, aim <- want, pushing <- Pushing, settled <- done
ImplementsReconciler == Abstract!Spec

(* "One extra full re-apply is the safe way out" (check_restart_generation, shadow.rs): what *)
(* is no longer desired is eventually removed from Sozu.                                     *)
NoOrphans == <>[](sozu.held \subseteq desired)
-----------------------------------------------------------------------------
(* The inductive invariant behind BaselineSound, ResumeSound and ReconnectPending. *)

(* The running Sozu is the one some baseline, in memory or on disk, was proven against. *)
Trusted ==
  sozu.up /\ (shadow.generation = sozu.socket \/ file.generation = sozu.socket)

(* Sockets are recreated, never reused: what the controller knows of them is never ahead. *)
SocketsPast ==
  /\ sozu.up => sozu.socket > 0
  /\ shadow.generation <= sozu.socket /\ file.generation <= sozu.socket
  /\ answer <= sozu.socket
  /\ pc = "verdict" /\ answer # NoSocket => shadow.generation <= answer

(* A connection other than the one just asked about has moved the epoch since it was read. *)
EpochAhead ==
  /\ ReconnectPending
  /\ pc = "load" /\ answer # NoSocket /\ channel # answer => acked < reconnects
  /\ pc = "verdict" /\ answer # NoSocket /\ channel # answer => epoch < reconnects

(* Acknowledged requests belong to the batch, and a trusted Sozu has carried them out. *)
BatchLanded ==
  /\ pc # "apply" => done = {}
  /\ pc = "apply" => done \subseteq Batch
  /\ pc = "apply" /\ Trusted => \A o \in done : o \in sozu.held <=> o \notin shadow.ir

(* A request still in flight is one in doubt; no batch starts and no baseline moves before *)
(* it ends.                                                                                *)
LateInDoubt ==
  /\ late \subseteq doubt
  /\ Idle \/ done = {}
  /\ pc \in {"load", "verdict"} => Idle

BaselineCovered ==
  Loaded /\ Trusted => SymDiff(shadow.ir, sozu.held) \subseteq doubt \cup done

IInv ==
  /\ TypeOK /\ SocketsPast /\ EpochAhead
  /\ BatchLanded /\ LateInDoubt /\ BaselineCovered /\ ResumeSound

(* The inductive invariant behind NeverSleepsOnWork: where work can be, on the task's way from *)
(* one sleep to the next.                                                                      *)
Scheduled ==
  \/ shadow.ir = desired
  \/ nudge
  \/ pending /\ (args.probe \/ args.resync \/ retry)

WorkKept ==
  /\ ~Loaded => cause = "startup"
  /\ pc = "gate" => cause = "SozuProbe"
  /\ pc \in {"select", "gate", "post"} => Scheduled
  /\ pc \in {"probe", "status", "verdict"} /\ cause \in {"post", "SozuProbe"} => Scheduled
  /\ pc \in {"apply", "fence"} => want = desired \/ nudge
  /\ pc = "fence" => shadow.ir = want
=============================================================================
