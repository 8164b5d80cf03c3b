------------------------ MODULE ControllerLoop_proofs ------------------------
(***************************************************************************)
(* Proofs about ControllerLoop for any set of objects, any command lines   *)
(* and any bounds: type correctness first, then the inductive invariant,   *)
(* and last that it implements the abstract Reconciler: the initial states *)
(* map to initial states, and each action to one abstract action or none.  *)
(***************************************************************************)
EXTENDS ControllerLoop, TLAPS

(* The agent's round trips, as far as the rest of the proof needs them: the connection ends  *)
(* up at the running Sozu or at none, and losing an established one moves the epoch.         *)
AgentMoved ==
  /\ channel' \in {NoSocket, sozu.socket}
  /\ reconnects' \in {reconnects, reconnects + 1}
  /\ reconnects' = reconnects => channel \in {NoSocket, channel'}

(* send_with_retry never loses an established connection without bumping the epoch. *)
LEMMA RoundTrip ==
  ASSUME TypeOK, NEW n \in {0, 1}, Reply(n) \/ NoReply(n)
  PROVE  AgentMoved
<1> USE DEF AgentMoved, NoSocket
<1>1. reconnects \in Nat
  BY DEF TypeOK
<1>2. CASE Reply(n)
  BY <1>1, <1>2 DEF Reply
<1>3. CASE NoReply(n)
  BY <1>1, <1>3 DEF NoReply
<1> QED
  BY <1>2, <1>3

(* The types a round trip preserves. *)
LEMMA RoundTripTypes ==
  ASSUME TypeOK, AgentMoved
  PROVE  /\ channel' \in Generation
         /\ reconnects' \in Nat /\ reconnects <= reconnects'
         /\ acked \in 0..reconnects' /\ epoch \in 0..reconnects'
<1>1. sozu.socket \in Generation /\ NoSocket \in Generation
  BY BoundsAssumption DEF TypeOK, Generation, NoSocket
<1> QED
  BY <1>1 DEF TypeOK, AgentMoved

(* A counted fault stays within its bound. *)
LEMMA FaultBound ==
  ASSUME TypeOK, NEW n \in Nat, Fault(n)
  PROVE  faults' \in 0..MaxFaults
BY BoundsAssumption DEF TypeOK, Fault

-----------------------------------------------------------------------------
(* Type correctness. *)

(* The initial states are well typed. *)
LEMMA InitType == Init => TypeOK
<1> SUFFICES ASSUME Init PROVE TypeOK
  OBVIOUS
<1>1. NoSocket \in Generation /\ 0 \in Generation /\ EmptyShadow(NoSocket) \in Shadow
  BY BoundsAssumption DEF EmptyShadow, Shadow, Generation, NoSocket
<1>2. /\ faults \in 0..MaxFaults /\ changes \in 0..MaxChanges
      /\ reconnects \in Nat /\ acked \in 0..reconnects /\ epoch \in 0..reconnects
  BY BoundsAssumption DEF Init
<1>3. sozu \in [up : BOOLEAN, socket : Generation, held : SUBSET Objects]
  BY <1>1 DEF Init
<1> QED
  BY <1>1, <1>2, <1>3 DEF Init, TypeOK

(* The answer of generation() is a socket the running Sozu has, or none. *)
LEMMA AskGenerationFacts ==
  ASSUME TypeOK, AskGeneration
  PROVE  /\ AgentMoved
         /\ faults' \in 0..MaxFaults
         /\ answer' \in {NoSocket, sozu.socket}
         /\ answer' # NoSocket => channel' = answer'
<1>1. PICK n \in {0, 1} : /\ Fault(n)
                          /\ \/ Reply(n) /\ answer' = sozu.socket
                             \/ Reply(0) /\ answer' = NoSocket
                             \/ NoReply(n) /\ answer' = NoSocket
  BY DEF AskGeneration
<1>2. AgentMoved
  BY <1>1, RoundTrip
<1>3. faults' \in 0..MaxFaults
  BY <1>1, FaultBound
<1>4. Reply(n) => channel' = sozu.socket
  BY DEF Reply
<1> QED
  BY <1>1, <1>2, <1>3, <1>4

(* What the probe leaves of the shadow is a shadow; it differs from the old one only by having *)
(* no objects.                                                                                 *)
LEMMA CheckedShadowFacts ==
  ASSUME TypeOK
  PROVE  /\ CheckedShadow \in Shadow
         /\ CheckedShadow # shadow => CheckedShadow.ir = {}
         /\ answer # NoSocket => CheckedShadow.generation = answer
         /\ answer = NoSocket => CheckedShadow.generation \in {NoSocket, shadow.generation}
         /\ Outcome = "Reset" => answer # NoSocket /\ shadow.generation # answer
<1>1. shadow \in [generation : 0..MaxSockets, ir : SUBSET Objects] /\ answer \in 0..MaxSockets
  BY DEF TypeOK, Shadow, Generation
<1>2. CASE answer = NoSocket
  BY <1>1, <1>2, BoundsAssumption
     DEF CheckedShadow, Outcome, EmptyShadow, NoSocket, Shadow, Generation
<1>3. CASE answer # NoSocket /\ ShouldReset
  BY <1>1, <1>3 DEF CheckedShadow, Outcome, ShouldReset, EmptyShadow, NoSocket, Shadow, Generation
<1>4. CASE answer # NoSocket /\ ~ShouldReset
  <2>1. CheckedShadow = [shadow EXCEPT !.generation = answer] /\ Outcome = "Unchanged"
    BY <1>4 DEF CheckedShadow, Outcome
  <2>2. shadow.generation = answer => [shadow EXCEPT !.generation = answer] = shadow
    BY <1>1
  <2> QED
    BY <1>1, <1>4, <2>1, <2>2 DEF ShouldReset, Shadow, Generation
<1> QED
  BY <1>2, <1>3, <1>4

(* Requests touch only objects. *)
LEMMA AppliedType ==
  ASSUME NEW held \in SUBSET Objects, NEW S \in SUBSET Objects
  PROVE  Applied(held, S) \in SUBSET Objects
BY DEF Applied

(* Every step of the task and of its environment keeps the types. *)
LEMMA TypeStep == TypeOK /\ [Next]_vars => TypeOK'
<1> SUFFICES ASSUME TypeOK, [Next]_vars PROVE TypeOK'
  OBVIOUS
<1> USE DEF sozuVars, taskVars
<1>1. CASE UNCHANGED vars
  BY <1>1 DEF vars, TypeOK
<1>2. CASE Start
  BY <1>2 DEF Start, TypeOK
<1>3. CASE CaptureGeneration
  BY <1>3, AskGenerationFacts, RoundTripTypes, BoundsAssumption
     DEF CaptureGeneration, TypeOK, Generation, NoSocket
<1>4. CASE LoadInitial
  BY <1>4, BoundsAssumption DEF LoadInitial, TypeOK, Shadow, Generation, NoSocket
<1>5. CASE ReadEpoch
  BY <1>5 DEF ReadEpoch, TypeOK
<1>6. CASE ProbeStatus
  BY <1>6, AskGenerationFacts, RoundTripTypes, BoundsAssumption
     DEF ProbeStatus, TypeOK, Generation, NoSocket
<1>7. CASE ProbeVerdict
  <2>1. faults' \in 0..MaxFaults /\ file' \in {file, CheckedShadow}
    BY <1>7, FaultBound DEF ProbeVerdict, Persist, TypeOK
  <2>2. acked' \in 0..reconnects'
    BY <1>7 DEF ProbeVerdict, Acknowledged, TypeOK
  <2>3. nudge' \in BOOLEAN /\ ready' \in BOOLEAN /\ unreachable' \in BOOLEAN
    BY <1>7 DEF ProbeVerdict, TypeOK
  <2> QED
    BY <1>7, <2>1, <2>2, <2>3, CheckedShadowFacts, BoundsAssumption
       DEF ProbeVerdict, TypeOK, Generation, NoSocket
<1>8. CASE Build
  BY <1>8 DEF Build, TypeOK
<1>9. CASE BuildFails
  BY <1>9, FaultBound DEF BuildFails, ReconcileFailed, TypeOK
<1>10. ASSUME NEW o \in Objects, ApplyRequest(o) PROVE TypeOK'
  <2>1. AgentMoved /\ faults' \in 0..MaxFaults
    BY <1>10, RoundTrip, FaultBound DEF ApplyRequest
  <2>2. sozu' \in [up : BOOLEAN, socket : Generation, held : SUBSET Objects]
    BY <1>10, AppliedType DEF ApplyRequest, TypeOK
  <2> QED
    BY <1>10, <2>1, <2>2, RoundTripTypes DEF ApplyRequest, TypeOK
<1>11. CASE ApplyDone
  <2>1. faults' \in 0..MaxFaults /\ file' \in Shadow /\ shadow' \in Shadow
    BY <1>11, FaultBound DEF ApplyDone, Persist, TypeOK, Shadow
  <2> QED
    BY <1>11, <2>1 DEF ApplyDone, TypeOK
<1>12. ASSUME NEW o \in Objects, NEW landed \in SUBSET Objects, NEW head \in SUBSET Objects,
              ApplyFails(o, landed, head)
       PROVE  TypeOK'
  <2>1. PICK n \in {0, 1}, m \in {0, 1}, k \in {0, 1} :
          /\ \/ Reply(0) /\ UNCHANGED sozu
             \/ NoReply(n) /\ MayLand(o, landed)
          /\ Fault(n + m + k)
          /\ shadow' = Replayed(head)
          /\ IF Replayed(head) = shadow THEN m = 0 /\ UNCHANGED file
                                        ELSE Persist(Replayed(head), m)
    BY <1>12 DEF ApplyFails
  <2>2. AgentMoved
    BY <2>1, RoundTrip
  <2>3. faults' \in 0..MaxFaults
    BY <2>1, FaultBound
  <2>4. sozu' \in [up : BOOLEAN, socket : Generation, held : SUBSET Objects]
    BY <2>1, AppliedType DEF MayLand, TypeOK
  <2>5. Replayed(head) \in Shadow
    BY AppliedType DEF Replayed, TypeOK, Shadow
  <2>6. shadow' \in Shadow /\ file' \in Shadow
    BY <2>1, <2>5 DEF Persist, TypeOK
  <2> QED
    BY <1>12, <2>2, <2>3, <2>4, <2>6, RoundTripTypes DEF ApplyFails, ReconcileFailed, TypeOK
<1>13. ASSUME NEW o \in Objects, ApplyTimesOut(o) PROVE TypeOK'
  <2>1. faults' \in 0..MaxFaults
    BY <1>13, FaultBound DEF ApplyTimesOut
  <2>2. late' \in SUBSET Objects
    BY <1>13 DEF ApplyTimesOut, TypeOK
  <2> QED
    BY <1>13, <2>1, <2>2 DEF ApplyTimesOut, ReconcileFailed, TypeOK
<1>24. ASSUME NEW o \in Objects, NEW landed \in SUBSET Objects, LateRequest(o, landed)
       PROVE  TypeOK'
  <2>1. AgentMoved /\ faults' \in 0..MaxFaults
    BY <1>24, RoundTrip, FaultBound DEF LateRequest
  <2>2. sozu' \in [up : BOOLEAN, socket : Generation, held : SUBSET Objects]
    BY <1>24, AppliedType DEF LateRequest, MayLand, TypeOK
  <2> QED
    BY <1>24, <2>1, <2>2, RoundTripTypes DEF LateRequest, TypeOK
<1>14. CASE Fence
  BY <1>14 DEF Fence, TypeOK
<1>15. CASE FenceFails
  BY <1>15, FaultBound DEF FenceFails, ReconcileFailed, TypeOK
<1>16. CASE PostCheck
  BY <1>16 DEF PostCheck, TypeOK
<1>17. CASE WakeOnChange \/ WakeOnResync \/ WakeOnProbe \/ WakeOnRetry
  BY <1>17 DEF WakeOnChange, WakeOnResync, WakeOnProbe, WakeOnRetry, AfterWakeup, TypeOK
<1>18. CASE UnreachableGate
  <2>1. AgentMoved /\ faults' \in 0..MaxFaults /\ pc' \in {"probe", "select"}
    BY <1>18, RoundTrip, FaultBound DEF UnreachableGate
  <2> QED
    BY <1>18, <2>1, RoundTripTypes DEF UnreachableGate, TypeOK
<1>19. CASE Scrape
  <2>1. AgentMoved /\ faults' \in 0..MaxFaults
    BY <1>19, RoundTrip, FaultBound DEF Scrape
  <2> QED
    BY <1>19, <2>1, RoundTripTypes DEF Scrape, TypeOK
<1>20. ASSUME NEW ir \in SUBSET Objects, Change(ir) PROVE TypeOK'
  <2>1. changes' \in 0..MaxChanges
    BY <1>20, BoundsAssumption DEF Change, TypeOK
  <2>2. nudge' \in BOOLEAN
    BY <1>20 DEF Change, Alive
  <2> QED
    BY <1>20, <2>1, <2>2 DEF Change, TypeOK
<1>21. CASE SozuCrash
  BY <1>21 DEF SozuCrash, TypeOK
<1>22. CASE SozuStart
  BY <1>22, BoundsAssumption DEF SozuStart, TypeOK, Generation
<1>23. ASSUME NEW landed \in SUBSET Objects, ControllerCrash(landed) PROVE TypeOK'
  <2>1. faults' \in 0..MaxFaults
    BY <1>23, FaultBound DEF ControllerCrash
  <2>6. sozu' \in [up : BOOLEAN, socket : Generation, held : SUBSET Objects]
    BY <1>23, AppliedType DEF ControllerCrash, TypeOK
  <2>2. EmptyShadow(NoSocket) \in Shadow /\ NoSocket \in Generation
    BY BoundsAssumption DEF EmptyShadow, Shadow, Generation, NoSocket
  <2>3. SymDiff(file.ir, shadow.ir) \subseteq Objects
    BY DEF SymDiff, TypeOK, Shadow
  <2>4. doubt' \in SUBSET Objects
    BY <1>23, <2>3 DEF ControllerCrash, TypeOK
  <2>5. reconnects' \in Nat /\ acked' \in 0..reconnects' /\ epoch' \in 0..reconnects'
    BY <1>23 DEF ControllerCrash
  <2> QED
    BY <1>23, <2>1, <2>2, <2>4, <2>5, <2>6 DEF ControllerCrash, TypeOK
<1> QED
  BY <1>1, <1>2, <1>3, <1>4, <1>5, <1>6, <1>7, <1>8, <1>9, <1>10, <1>11, <1>12, <1>13, <1>14,
     <1>15, <1>16, <1>17, <1>18, <1>19, <1>20, <1>21, <1>22, <1>23, <1>24
     DEF Next, Task, Abandoned, Environment, Startup, Probe, Pass, Apply, Wake

(* Every reachable state is well typed: in particular the acknowledged epoch never runs ahead  *)
(* of the agent's counter, whatever order probes, scrapes and crashes come in.                 *)
THEOREM TypeCorrect == Spec => []TypeOK
BY InitType, TypeStep, PTL DEF Spec

-----------------------------------------------------------------------------
(* What the actions have in common, so that each conjunct is argued once per kind of step. *)

(* The steps that ask the agent for one round trip and wait for it. *)
AgentJob ==
  \/ CaptureGeneration \/ ProbeStatus \/ UnreachableGate \/ Scrape
  \/ \E o \in Objects : ApplyRequest(o)
  \/ \E o \in Objects, landed \in SUBSET Objects, head \in SUBSET Objects :
       ApplyFails(o, landed, head)
  \/ \E o \in Objects, landed \in SUBSET Objects : LateRequest(o, landed)

(* The task's steps that touch neither the agent, nor Sozu, nor a baseline. *)
LocalStep ==
  \/ Start \/ ReadEpoch \/ Build \/ BuildFails \/ Fence \/ FenceFails \/ PostCheck
  \/ WakeOnChange \/ WakeOnResync \/ WakeOnProbe \/ WakeOnRetry
  \/ \E ir \in SUBSET Objects : Change(ir)

(* Every step is a job, a local step, or one of the few that move a baseline or a process. *)
LEMMA NextCases ==
  ASSUME Next
  PROVE  \/ AgentJob \/ LocalStep \/ LoadInitial \/ ProbeVerdict \/ ApplyDone
         \/ \E o \in Objects : ApplyTimesOut(o)
         \/ SozuCrash \/ SozuStart \/ \E landed \in SUBSET Objects : ControllerCrash(landed)
BY DEF Next, Task, Abandoned, Environment, Startup, Probe, Pass, Apply, Wake, AgentJob, LocalStep

(* A job leaves Sozu's process and socket alone and moves the connection as a round trip does. *)
LEMMA AgentJobFacts ==
  ASSUME TypeOK, AgentJob
  PROVE  /\ AgentMoved
         /\ sozu'.up = sozu.up /\ sozu'.socket = sozu.socket
         /\ acked' = acked /\ epoch' = epoch
<1> USE DEF taskVars
<1>1. CASE CaptureGeneration \/ ProbeStatus
  BY <1>1, AskGenerationFacts DEF CaptureGeneration, ProbeStatus
<1>2. CASE UnreachableGate \/ Scrape
  BY <1>2, RoundTrip DEF UnreachableGate, Scrape
<1>3. ASSUME NEW o \in Objects, ApplyRequest(o)
      PROVE  /\ AgentMoved
             /\ sozu'.up = sozu.up /\ sozu'.socket = sozu.socket
             /\ acked' = acked /\ epoch' = epoch
  BY <1>3, RoundTrip DEF ApplyRequest, TypeOK
<1>4. ASSUME NEW o \in Objects, NEW landed \in SUBSET Objects, NEW head \in SUBSET Objects,
             ApplyFails(o, landed, head)
      PROVE  /\ AgentMoved
             /\ sozu'.up = sozu.up /\ sozu'.socket = sozu.socket
             /\ acked' = acked /\ epoch' = epoch
  <2>1. AgentMoved /\ (UNCHANGED sozu \/ MayLand(o, landed))
    BY <1>4, RoundTrip DEF ApplyFails
  <2> QED
    BY <1>4, <2>1 DEF ApplyFails, MayLand, TypeOK
<1>5. ASSUME NEW o \in Objects, NEW landed \in SUBSET Objects, LateRequest(o, landed)
      PROVE  /\ AgentMoved
             /\ sozu'.up = sozu.up /\ sozu'.socket = sozu.socket
             /\ acked' = acked /\ epoch' = epoch
  <2>1. AgentMoved
    BY <1>5, RoundTrip DEF LateRequest
  <2> QED
    BY <1>5, <2>1 DEF LateRequest, MayLand, TypeOK
<1> QED
  BY <1>1, <1>2, <1>3, <1>4, <1>5 DEF AgentJob

(* What an apply that fails leaves of the baselines and of Sozu. *)
LEMMA ApplyFailsFacts ==
  ASSUME TypeOK, NEW o \in Objects, NEW landed \in SUBSET Objects, NEW head \in SUBSET Objects,
         ApplyFails(o, landed, head)
  PROVE  /\ shadow' = Replayed(head)
         /\ file' \in {file, Replayed(head)}
         /\ sozu'.held = Applied(sozu.held, landed)
         /\ landed \subseteq {o}
<1>1. PICK n \in {0, 1}, m \in {0, 1}, k \in {0, 1} :
        /\ \/ landed = {} /\ UNCHANGED sozu
           \/ MayLand(o, landed)
        /\ shadow' = Replayed(head)
        /\ IF Replayed(head) = shadow THEN m = 0 /\ UNCHANGED file
                                      ELSE Persist(Replayed(head), m)
  BY DEF ApplyFails
<1>2. sozu'.held = Applied(sozu.held, landed)
  BY <1>1 DEF MayLand, TypeOK, Applied
<1> QED
  BY <1>1, <1>2 DEF MayLand, Persist

(* A crash leaves Sozu's process alone; the request it cut off may have landed. *)
LEMMA CrashFacts ==
  ASSUME TypeOK, NEW landed \in SUBSET Objects, ControllerCrash(landed)
  PROVE  /\ sozu'.up = sozu.up /\ sozu'.socket = sozu.socket
         /\ sozu'.held = Applied(sozu.held, landed)
BY DEF ControllerCrash, TypeOK

-----------------------------------------------------------------------------
(* One lemma per conjunct of IInv. *)

(* Nothing the controller writes down names a socket the running Sozu is not at or past. *)
LEMMA SocketsStep ==
  ASSUME TypeOK, SocketsPast, Next
  PROVE  SocketsPast'
<1> USE DEF SocketsPast, NoSocket, taskVars, sozuVars
<1>0. /\ sozu.socket \in Nat /\ shadow.generation \in Nat /\ file.generation \in Nat
      /\ answer \in Nat
  BY BoundsAssumption DEF TypeOK, Shadow, Generation
<1>1. CASE LocalStep
  BY <1>0, <1>1 DEF LocalStep, Start, ReadEpoch, Build, BuildFails, Fence, FenceFails, PostCheck,
     WakeOnChange, WakeOnResync, WakeOnProbe, WakeOnRetry, AfterWakeup, Change, ReconcileFailed
<1>2. CASE CaptureGeneration \/ ProbeStatus
  BY <1>0, <1>2, AskGenerationFacts DEF CaptureGeneration, ProbeStatus
<1>3. CASE UnreachableGate \/ Scrape
  BY <1>0, <1>3 DEF UnreachableGate, Scrape
<1>4. ASSUME NEW o \in Objects, ApplyRequest(o) PROVE SocketsPast'
  <2>1. sozu'.up = sozu.up /\ sozu'.socket = sozu.socket
    BY <1>4, AgentJobFacts DEF AgentJob
  <2> QED
    BY <1>0, <1>4, <2>1 DEF ApplyRequest
<1>5. ASSUME NEW o \in Objects, NEW landed \in SUBSET Objects, NEW head \in SUBSET Objects,
             ApplyFails(o, landed, head)
      PROVE  SocketsPast'
  <2>1. sozu'.up = sozu.up /\ sozu'.socket = sozu.socket
    BY <1>5, AgentJobFacts DEF AgentJob
  <2>2. Replayed(head).generation = shadow.generation
    BY DEF Replayed, TypeOK, Shadow
  <2> QED
    BY <1>0, <1>5, <2>1, <2>2, ApplyFailsFacts DEF ApplyFails, ReconcileFailed
<1>6. ASSUME NEW o \in Objects, ApplyTimesOut(o) PROVE SocketsPast'
  BY <1>0, <1>6 DEF ApplyTimesOut, ReconcileFailed
<1>13. ASSUME NEW o \in Objects, NEW landed \in SUBSET Objects, LateRequest(o, landed)
       PROVE  SocketsPast'
  <2>1. sozu'.up = sozu.up /\ sozu'.socket = sozu.socket
    BY <1>13, AgentJobFacts DEF AgentJob
  <2> QED
    BY <1>0, <1>13, <2>1 DEF LateRequest
<1>7. CASE LoadInitial
  BY <1>0, <1>7 DEF LoadInitial
<1>8. CASE ProbeVerdict
  <2>1. file' \in {file, CheckedShadow}
    BY <1>8 DEF ProbeVerdict, Persist
  <2>2. CheckedShadow.generation <= sozu.socket
    BY <1>0, CheckedShadowFacts
  <2> QED
    BY <1>0, <1>8, <2>1, <2>2 DEF ProbeVerdict
<1>9. CASE ApplyDone
  <2>1. [shadow EXCEPT !.ir = want].generation = shadow.generation
    BY DEF TypeOK, Shadow
  <2> QED
    BY <1>0, <1>9, <2>1 DEF ApplyDone, Persist
<1>10. CASE SozuCrash
  BY <1>0, <1>10 DEF SozuCrash, TypeOK
<1>11. CASE SozuStart
  BY <1>0, <1>11 DEF SozuStart
<1>12. ASSUME NEW landed \in SUBSET Objects, ControllerCrash(landed) PROVE SocketsPast'
  BY <1>0, <1>12, CrashFacts DEF ControllerCrash, EmptyShadow
<1> QED
  BY <1>1, <1>2, <1>3, <1>4, <1>5, <1>6, <1>7, <1>8, <1>9, <1>10, <1>11, <1>12, <1>13, NextCases
     DEF AgentJob

(* Whoever no longer sees socket g behind the connection sees a larger epoch, or already did   *)
(* not see it before the job.                                                                  *)
LEMMA EpochMoves ==
  ASSUME TypeOK, AgentJob, NEW g, g # NoSocket, channel' # g
  PROVE  /\ reconnects' \in Nat /\ reconnects \in Nat
         /\ reconnects' > reconnects \/ (reconnects' = reconnects /\ channel # g)
<1>1. AgentMoved
  BY AgentJobFacts
<1>2. reconnects \in Nat
  BY DEF TypeOK
<1> QED
  BY <1>1, <1>2 DEF AgentMoved

(* A job keeps the baseline's generation, and the answer unless it asked for one. *)
LEMMA AgentJobShadow ==
  ASSUME TypeOK, AgentJob
  PROVE  /\ shadow'.generation = shadow.generation
         /\ \/ answer' = answer /\ pc' \notin {"load", "verdict"}
            \/ answer' = answer /\ pc' = pc
            \/ answer' # NoSocket => channel' = answer'
         /\ Loaded' => Loaded
<1> USE DEF taskVars, Loaded
<1>1. CASE CaptureGeneration \/ ProbeStatus
  BY <1>1, AskGenerationFacts DEF CaptureGeneration, ProbeStatus
<1>2. CASE UnreachableGate \/ Scrape
  BY <1>2 DEF UnreachableGate, Scrape
<1>3. ASSUME NEW o \in Objects, ApplyRequest(o)
      PROVE  UNCHANGED <<shadow, answer, pc>>
  BY <1>3 DEF ApplyRequest
<1>4. ASSUME NEW o \in Objects, NEW landed \in SUBSET Objects, NEW head \in SUBSET Objects,
             ApplyFails(o, landed, head)
      PROVE  /\ shadow'.generation = shadow.generation
             /\ answer' = answer /\ pc = "apply" /\ pc' = "post"
  <2>1. Replayed(head).generation = shadow.generation
    BY DEF Replayed, TypeOK, Shadow
  <2> QED
    BY <1>4, <2>1, ApplyFailsFacts DEF ApplyFails, ReconcileFailed
<1>5. ASSUME NEW o \in Objects, NEW landed \in SUBSET Objects, LateRequest(o, landed)
      PROVE  UNCHANGED <<shadow, answer, pc>>
  BY <1>5 DEF LateRequest
<1> QED
  BY <1>1, <1>2, <1>3, <1>4, <1>5 DEF AgentJob

(* The epoch argument: a probe acknowledges only the epoch it read before it asked, so a       *)
(* connection that moved later is still unacknowledged when its verdict is in.                 *)
LEMMA EpochStep ==
  ASSUME TypeOK, EpochAhead, Next
  PROVE  EpochAhead'
<1> USE DEF EpochAhead, ReconnectPending, taskVars, sozuVars
<1>0. reconnects \in Nat /\ acked \in 0..reconnects /\ epoch \in 0..reconnects
  BY DEF TypeOK
<1>1. CASE AgentJob
  <2>1. acked' = acked /\ epoch' = epoch
    BY <1>1, AgentJobFacts
  <2>2. ReconnectPending'
    BY <1>0, <1>1, <2>1, EpochMoves, AgentJobShadow
  <2>3. ASSUME pc' = "load", answer' # NoSocket, channel' # answer' PROVE acked' < reconnects'
    BY <1>0, <1>1, <2>1, <2>3, EpochMoves, AgentJobShadow
  <2>4. ASSUME pc' = "verdict", answer' # NoSocket, channel' # answer' PROVE epoch' < reconnects'
    BY <1>0, <1>1, <2>1, <2>4, EpochMoves, AgentJobShadow
  <2> QED
    BY <2>2, <2>3, <2>4
<1>2. CASE Start \/ ReadEpoch
  BY <1>2 DEF Start, ReadEpoch, Loaded
<1>3. CASE Build \/ BuildFails \/ Fence \/ FenceFails \/ PostCheck
  BY <1>3 DEF Build, BuildFails, Fence, FenceFails, PostCheck, ReconcileFailed, Loaded
<1>4. CASE WakeOnChange \/ WakeOnResync \/ WakeOnProbe \/ WakeOnRetry
  BY <1>4 DEF WakeOnChange, WakeOnResync, WakeOnProbe, WakeOnRetry, AfterWakeup, Loaded
<1>5. ASSUME NEW ir \in SUBSET Objects, Change(ir) PROVE EpochAhead'
  BY <1>5 DEF Change, Loaded
<1>6. CASE LoadInitial
  BY <1>0, <1>6 DEF LoadInitial, NoSocket
<1>7. CASE ProbeVerdict
  <2>1. CASE answer = NoSocket
    <3>1. acked' = acked
      BY <1>7, <2>1 DEF ProbeVerdict, Acknowledged, Outcome
    <3> QED
      BY <1>7, <2>1, <3>1, CheckedShadowFacts DEF ProbeVerdict, Loaded
  <2>2. CASE answer # NoSocket
    <3>1. acked' = epoch
      BY <1>7, <2>2 DEF ProbeVerdict, Acknowledged, Outcome
    <3> QED
      BY <1>0, <1>7, <2>2, <3>1, CheckedShadowFacts DEF ProbeVerdict, Loaded
  <2> QED
    BY <2>1, <2>2
<1>8. CASE ApplyDone
  <2>1. shadow'.generation = shadow.generation
    BY <1>8 DEF ApplyDone, TypeOK, Shadow
  <2> QED
    BY <1>8, <2>1 DEF ApplyDone, Loaded
<1>9. CASE SozuCrash \/ SozuStart
  BY <1>9 DEF SozuCrash, SozuStart, Loaded
<1>10. ASSUME NEW landed \in SUBSET Objects, ControllerCrash(landed) PROVE EpochAhead'
  BY <1>10 DEF ControllerCrash, Loaded
<1>11. ASSUME NEW o \in Objects, ApplyTimesOut(o) PROVE EpochAhead'
  BY <1>11 DEF ApplyTimesOut, ReconcileFailed, Loaded
<1> QED
  BY <1>1, <1>2, <1>3, <1>4, <1>5, <1>6, <1>7, <1>8, <1>9, <1>10, <1>11, NextCases DEF LocalStep

(* A restarted Sozu has a socket no baseline can name yet. *)
LEMMA RestartUntrusted ==
  ASSUME TypeOK, SocketsPast, SozuCrash \/ SozuStart
  PROVE  ~Trusted'
<1>1. sozu.socket \in Nat /\ shadow.generation \in Nat /\ file.generation \in Nat
  BY BoundsAssumption DEF TypeOK, Shadow, Generation
<1>2. CASE SozuCrash
  BY <1>2 DEF SozuCrash, Trusted, TypeOK
<1>3. CASE SozuStart
  BY <1>1, <1>3 DEF SozuStart, Trusted, SocketsPast, taskVars
<1> QED
  BY <1>2, <1>3

(* Steps of the task and changes leave the running Sozu, both baselines and the batch alone. *)
LEMMA LocalFacts ==
  ASSUME LocalStep
  PROVE  /\ UNCHANGED <<sozu, shadow, file, late, done, doubt>>
         /\ pc' \notin {"load", "verdict"} \/ pc' = pc
         /\ Loaded' = Loaded
         /\ pc' = "apply" => UNCHANGED <<pc, want>> \/ pc = "reconcile"
         /\ pc = "apply" => UNCHANGED <<pc, want>>
<1> USE DEF sozuVars, taskVars, Loaded
<1>1. CASE Start \/ ReadEpoch \/ PostCheck
  BY <1>1 DEF Start, ReadEpoch, PostCheck
<1>2. CASE Build \/ BuildFails \/ Fence \/ FenceFails
  BY <1>2 DEF Build, BuildFails, Fence, FenceFails, ReconcileFailed
<1>3. CASE WakeOnChange \/ WakeOnResync \/ WakeOnProbe \/ WakeOnRetry
  <2>1. \A why \in {"Change", "Resync", "SozuProbe", "Retry"} :
          AfterWakeup(why) => /\ UNCHANGED <<sozuVars, shadow, late, done, doubt>>
                              /\ pc' \in {"gate", "probe", "reconcile"}
    BY DEF AfterWakeup
  <2> QED
    BY <1>3, <2>1 DEF WakeOnChange, WakeOnResync, WakeOnProbe, WakeOnRetry
<1>4. ASSUME NEW ir \in SUBSET Objects, Change(ir)
      PROVE  UNCHANGED <<sozu, shadow, file, late, done, doubt, pc, want>>
  BY <1>4 DEF Change
<1> QED
  BY <1>1, <1>2, <1>3, <1>4 DEF LocalStep

(* Acknowledged requests are those of the batch, and stay carried out in a trusted Sozu. *)
LEMMA BatchStep ==
  ASSUME TypeOK, SocketsPast, BatchLanded, LateInDoubt, Next
  PROVE  BatchLanded'
<1> USE DEF BatchLanded, Batch, taskVars, sozuVars
<1>1. CASE LocalStep
  BY <1>1, LocalFacts DEF Trusted
<1>2. CASE CaptureGeneration \/ ProbeStatus \/ UnreachableGate \/ Scrape
  BY <1>2 DEF CaptureGeneration, ProbeStatus, UnreachableGate, Scrape
<1>3. ASSUME NEW o \in Objects, ApplyRequest(o) PROVE BatchLanded'
  <2>1. /\ sozu'.up = sozu.up /\ sozu'.socket = sozu.socket
        /\ sozu'.held = Applied(sozu.held, {o})
    BY <1>3 DEF ApplyRequest, TypeOK
  <2>2. UNCHANGED <<shadow, file, want, pc>> /\ pc = "apply" /\ o \in Batch
        /\ done' = done \cup {o}
    BY <1>3 DEF ApplyRequest
  <2>3. Trusted' => Trusted
    BY <2>1, <2>2 DEF Trusted
  <2>4. ASSUME Trusted, NEW x \in done' PROVE x \in sozu'.held <=> x \notin shadow'.ir
    BY <2>1, <2>2, <2>4 DEF Applied
  <2> QED
    BY <2>2, <2>3, <2>4
<1>4. ASSUME NEW o \in Objects, NEW landed \in SUBSET Objects, NEW head \in SUBSET Objects,
             ApplyFails(o, landed, head)
      PROVE  BatchLanded'
  BY <1>4 DEF ApplyFails, ReconcileFailed
<1>5. ASSUME NEW o \in Objects, ApplyTimesOut(o) PROVE BatchLanded'
  BY <1>5 DEF ApplyTimesOut, ReconcileFailed
<1>6. CASE LoadInitial \/ ProbeVerdict \/ ApplyDone
  BY <1>6 DEF LoadInitial, ProbeVerdict, ApplyDone
<1>8. ASSUME NEW landed \in SUBSET Objects, ControllerCrash(landed) PROVE BatchLanded'
  BY <1>8 DEF ControllerCrash
<1>9. ASSUME NEW o \in Objects, NEW landed \in SUBSET Objects, LateRequest(o, landed)
      PROVE  BatchLanded'
  <2>1. UNCHANGED taskVars /\ done = {}
    BY <1>9 DEF LateRequest, LateInDoubt, Idle
  <2> QED
    BY <2>1
<1>7. CASE SozuCrash \/ SozuStart
  <2>1. UNCHANGED taskVars
    BY <1>7 DEF SozuCrash, SozuStart
  <2> QED
    BY <1>7, <2>1, RestartUntrusted
<1> QED
  BY <1>1, <1>2, <1>3, <1>4, <1>5, <1>6, <1>7, <1>8, <1>9, NextCases DEF AgentJob

(* An abandoned request stays in doubt until it has ended, and the worker does nothing else.   *)
LEMMA LateStep ==
  ASSUME TypeOK, BatchLanded, LateInDoubt, Next
  PROVE  LateInDoubt'
<1> USE DEF LateInDoubt, Idle, taskVars, sozuVars
<1>1. CASE LocalStep
  BY <1>1, LocalFacts
<1>2. CASE CaptureGeneration \/ ProbeStatus
  BY <1>2 DEF CaptureGeneration, ProbeStatus, AskGeneration
<1>3. CASE UnreachableGate \/ Scrape
  BY <1>3 DEF UnreachableGate, Scrape
<1>4. ASSUME NEW o \in Objects, ApplyRequest(o) PROVE LateInDoubt'
  BY <1>4 DEF ApplyRequest
<1>5. ASSUME NEW o \in Objects, NEW landed \in SUBSET Objects, NEW head \in SUBSET Objects,
             ApplyFails(o, landed, head)
      PROVE  LateInDoubt'
  BY <1>5 DEF ApplyFails
<1>6. ASSUME NEW o \in Objects, ApplyTimesOut(o) PROVE LateInDoubt'
  BY <1>6 DEF ApplyTimesOut, ReconcileFailed
<1>7. ASSUME NEW o \in Objects, NEW landed \in SUBSET Objects, LateRequest(o, landed)
      PROVE  LateInDoubt'
  BY <1>7 DEF LateRequest
<1>8. CASE LoadInitial \/ ApplyDone
  BY <1>8 DEF LoadInitial, ApplyDone
<1>9. CASE ProbeVerdict
  BY <1>9 DEF ProbeVerdict
<1>10. CASE SozuCrash \/ SozuStart
  BY <1>10 DEF SozuCrash, SozuStart
<1>11. ASSUME NEW landed \in SUBSET Objects, ControllerCrash(landed) PROVE LateInDoubt'
  BY <1>11 DEF ControllerCrash
<1> QED
  BY <1>1, <1>2, <1>3, <1>4, <1>5, <1>6, <1>7, <1>8, <1>9, <1>10, <1>11, NextCases DEF AgentJob

(* Each object of the shadow agrees with a trusted Sozu, or is acknowledged in this batch, or  *)
(* is one a fault put in doubt.                                                                *)
LEMMA CoveredStep ==
  ASSUME TypeOK, SocketsPast, BatchLanded, LateInDoubt, BaselineCovered, ResumeSound, Next
  PROVE  BaselineCovered'
<1> USE DEF taskVars, sozuVars
<1>1. CASE LocalStep
  BY <1>1, LocalFacts DEF BaselineCovered, Trusted, SymDiff
<1>2. CASE CaptureGeneration \/ ProbeStatus \/ UnreachableGate \/ Scrape
  BY <1>2 DEF CaptureGeneration, ProbeStatus, UnreachableGate, Scrape, BaselineCovered, Trusted,
     Loaded
<1>3. ASSUME NEW o \in Objects, ApplyRequest(o) PROVE BaselineCovered'
  <2>1. /\ sozu'.up = sozu.up /\ sozu'.socket = sozu.socket
        /\ sozu'.held = Applied(sozu.held, {o})
    BY <1>3 DEF ApplyRequest, TypeOK
  <2>2. UNCHANGED <<shadow, file, pc, doubt>> /\ done' = done \cup {o}
    BY <1>3 DEF ApplyRequest
  <2>3. (Loaded /\ Trusted)' => Loaded /\ Trusted
    BY <2>1, <2>2 DEF Trusted, Loaded
  <2> QED
    BY <2>1, <2>2, <2>3 DEF BaselineCovered, SymDiff, Applied
<1>4. ASSUME NEW o \in Objects, NEW landed \in SUBSET Objects, NEW head \in SUBSET Objects,
             ApplyFails(o, landed, head)
      PROVE  BaselineCovered'
  <2>1. /\ shadow'.generation = shadow.generation
        /\ shadow'.ir = Applied(shadow.ir, head)
        /\ file'.generation \in {file.generation, shadow.generation}
        /\ sozu'.held = Applied(sozu.held, landed)
    <3>1. /\ Replayed(head).generation = shadow.generation
          /\ Replayed(head).ir = Applied(shadow.ir, head)
      BY DEF Replayed, TypeOK, Shadow
    <3> QED
      BY <1>4, <3>1, ApplyFailsFacts
  <2>2. sozu'.up = sozu.up /\ sozu'.socket = sozu.socket
    BY <1>4, AgentJobFacts DEF AgentJob
  <2>3. /\ pc = "apply" /\ head \subseteq done
        /\ doubt' = (doubt \ head) \cup (done \ head) \cup landed
    BY <1>4 DEF ApplyFails
  <2>4. Trusted' => Trusted /\ Loaded
    BY <2>1, <2>2, <2>3 DEF Trusted, Loaded
  <2>5. ASSUME Trusted, NEW x \in SymDiff(shadow'.ir, sozu'.held), x \notin landed PROVE x \in doubt'
    <3>1. x \in sozu'.held <=> x \in sozu.held
      BY <2>1, <2>5 DEF Applied
    <3>2. CASE x \in head
      BY <2>1, <2>3, <2>5, <3>1, <3>2 DEF BatchLanded, Applied, SymDiff
    <3>3. CASE x \notin head
      <4>1. x \in SymDiff(shadow.ir, sozu.held)
        BY <2>1, <2>5, <3>1, <3>3 DEF Applied, SymDiff
      <4> QED
        BY <2>3, <2>4, <2>5, <3>3, <4>1 DEF BaselineCovered, Loaded
    <3> QED
      BY <3>2, <3>3
  <2> QED
    BY <2>3, <2>4, <2>5 DEF BaselineCovered
<1>5. ASSUME NEW o \in Objects, ApplyTimesOut(o) PROVE BaselineCovered'
  <2>1. /\ UNCHANGED <<sozu, shadow, file>> /\ pc = "apply"
        /\ doubt' = doubt \cup done \cup late'
    BY <1>5 DEF ApplyTimesOut
  <2> QED
    BY <2>1 DEF BaselineCovered, Trusted, Loaded
<1>11. ASSUME NEW o \in Objects, NEW landed \in SUBSET Objects, LateRequest(o, landed)
       PROVE  BaselineCovered'
  <2>1. sozu'.up = sozu.up /\ sozu'.socket = sozu.socket
    BY <1>11, AgentJobFacts DEF AgentJob
  <2>2. /\ sozu'.held = Applied(sozu.held, landed)
        /\ landed \subseteq {o} /\ late = {o}
    BY <1>11 DEF LateRequest, MayLand, TypeOK
  <2>3. UNCHANGED <<shadow, file, pc, doubt, done>>
    BY <1>11 DEF LateRequest
  <2>4. (Loaded /\ Trusted)' => Loaded /\ Trusted
    BY <2>1, <2>3 DEF Trusted, Loaded
  <2> QED
    BY <2>2, <2>3, <2>4 DEF BaselineCovered, SymDiff, Applied, LateInDoubt
<1>6. CASE LoadInitial
  <2>1. pc = "load" /\ ~Loaded /\ UNCHANGED <<sozu, file, done>>
    BY <1>6 DEF LoadInitial, Loaded
  <2>2. CASE Resumable
    BY <1>6, <2>1, <2>2 DEF LoadInitial, Resumable, BaselineCovered, Trusted, ResumeSound
  <2>3. CASE ~Resumable
    BY <1>6, <2>1, <2>3 DEF LoadInitial, BaselineCovered, SymDiff
  <2> QED
    BY <2>2, <2>3
<1>7. CASE ProbeVerdict
  <2>1. /\ Loaded /\ UNCHANGED <<sozu, done>> /\ shadow' = CheckedShadow
        /\ file' \in {file, CheckedShadow}
        /\ doubt' = IF CheckedShadow = shadow THEN doubt ELSE sozu.held
    BY <1>7 DEF ProbeVerdict, Loaded, Persist
  <2>2. CASE CheckedShadow = shadow
    BY <2>1, <2>2 DEF BaselineCovered, Trusted
  <2>3. CASE CheckedShadow # shadow
    BY <2>1, <2>3, CheckedShadowFacts DEF BaselineCovered, SymDiff
  <2> QED
    BY <2>2, <2>3
<1>8. CASE ApplyDone
  <2>1. /\ pc = "apply" /\ Batch \subseteq done /\ doubt' = doubt \ done
        /\ UNCHANGED sozu
        /\ shadow'.generation = shadow.generation /\ shadow'.ir = want
        /\ file'.generation \in {file.generation, shadow.generation}
    BY <1>8 DEF ApplyDone, Persist, TypeOK, Shadow
  <2>2. Trusted' => Trusted /\ Loaded
    BY <2>1 DEF Trusted, Loaded
  <2>3. ASSUME Trusted, NEW x \in SymDiff(want, sozu.held) PROVE x \in doubt \ done
    <3>1. x \notin done
      BY <2>1, <2>3 DEF BatchLanded, Batch, SymDiff
    <3>2. x \in SymDiff(shadow.ir, sozu.held)
      BY <2>1, <2>3, <3>1 DEF Batch, SymDiff
    <3> QED
      BY <2>1, <2>3, <3>1, <3>2 DEF BaselineCovered, Loaded
  <2> QED
    BY <2>1, <2>2, <2>3 DEF BaselineCovered
<1>9. CASE SozuCrash \/ SozuStart
  BY <1>9, RestartUntrusted DEF BaselineCovered
<1>10. ASSUME NEW landed \in SUBSET Objects, ControllerCrash(landed) PROVE BaselineCovered'
  BY <1>10 DEF ControllerCrash, BaselineCovered, Loaded
<1> QED
  BY <1>1, <1>2, <1>3, <1>4, <1>5, <1>6, <1>7, <1>8, <1>9, <1>10, <1>11, NextCases DEF AgentJob

(* What a crash leaves on disk is as good as the shadow it lost: where file and shadow differ, *)
(* the crash puts the objects in doubt.                                                        *)
LEMMA ResumeStep ==
  ASSUME TypeOK, SocketsPast, LateInDoubt, BaselineCovered, ResumeSound, Next
  PROVE  ResumeSound'
<1> USE DEF taskVars, sozuVars
<1>1. CASE LocalStep
  BY <1>1, LocalFacts DEF ResumeSound
<1>2. CASE CaptureGeneration \/ ProbeStatus \/ UnreachableGate \/ Scrape
  BY <1>2 DEF CaptureGeneration, ProbeStatus, UnreachableGate, Scrape, ResumeSound, Loaded
<1>3. ASSUME NEW o \in Objects, ApplyRequest(o) PROVE Loaded'
  BY <1>3 DEF ApplyRequest, Loaded
<1>4. ASSUME NEW o \in Objects, NEW landed \in SUBSET Objects, NEW head \in SUBSET Objects,
             ApplyFails(o, landed, head)
      PROVE  Loaded'
  BY <1>4 DEF ApplyFails, ReconcileFailed, Loaded
<1>5. ASSUME NEW o \in Objects, ApplyTimesOut(o) PROVE Loaded'
  BY <1>5 DEF ApplyTimesOut, ReconcileFailed, Loaded
<1>9. ASSUME NEW o \in Objects, NEW landed \in SUBSET Objects, LateRequest(o, landed)
      PROVE  ResumeSound'
  <2>1. sozu'.up = sozu.up /\ sozu'.socket = sozu.socket
    BY <1>9, AgentJobFacts DEF AgentJob
  <2>2. /\ sozu'.held = Applied(sozu.held, landed)
        /\ landed \subseteq {o} /\ late = {o}
    BY <1>9 DEF LateRequest, MayLand, TypeOK
  <2>3. UNCHANGED <<file, pc, doubt>>
    BY <1>9 DEF LateRequest
  <2> QED
    BY <2>1, <2>2, <2>3 DEF ResumeSound, SymDiff, Applied, LateInDoubt, Loaded
<1>6. CASE LoadInitial \/ ProbeVerdict \/ ApplyDone
  BY <1>6 DEF LoadInitial, ProbeVerdict, ApplyDone, ResumeSound, Loaded
<1>7. CASE SozuCrash \/ SozuStart
  BY <1>7, RestartUntrusted DEF ResumeSound, Trusted
<1>8. ASSUME NEW landed \in SUBSET Objects, ControllerCrash(landed) PROVE ResumeSound'
  <2>1. /\ UNCHANGED file
        /\ sozu'.up = sozu.up /\ sozu'.socket = sozu.socket
        /\ sozu'.held = Applied(sozu.held, landed)
    BY <1>8, CrashFacts DEF ControllerCrash
  <2>2. CASE Loaded
    <3>1. doubt' = doubt \cup landed \cup done \cup SymDiff(file.ir, shadow.ir)
      BY <1>8, <2>2 DEF ControllerCrash
    <3> QED
      BY <2>1, <2>2, <3>1 DEF ResumeSound, BaselineCovered, Trusted, SymDiff, Applied
  <2>3. CASE ~Loaded
    <3>1. doubt' = doubt \cup landed
      BY <1>8, <2>3 DEF ControllerCrash
    <3> QED
      BY <2>1, <2>3, <3>1 DEF ResumeSound, SymDiff, Applied
  <2> QED
    BY <2>2, <2>3
<1> QED
  BY <1>1, <1>2, <1>3, <1>4, <1>5, <1>6, <1>7, <1>8, <1>9, NextCases DEF AgentJob, ResumeSound

(* IInv is inductive. *)
LEMMA Inductive == IInv /\ [Next]_vars => IInv'
<1> SUFFICES ASSUME IInv, [Next]_vars PROVE IInv'
  OBVIOUS
<1>1. CASE UNCHANGED vars
  BY <1>1 DEF vars, sozuVars, taskVars, IInv, TypeOK, SocketsPast, EpochAhead, ReconnectPending,
     BatchLanded, Batch, LateInDoubt, Idle, BaselineCovered, Trusted, ResumeSound, Loaded
<1>2. CASE Next
  BY <1>2, TypeStep, SocketsStep, EpochStep, BatchStep, LateStep, CoveredStep, ResumeStep DEF IInv
<1> QED
  BY <1>1, <1>2

(* The initial state: no Sozu, no file, nothing applied. *)
LEMMA InitInv == Init => IInv
<1> SUFFICES ASSUME Init PROVE IInv
  OBVIOUS
<1>1. TypeOK
  BY InitType
<1>2. SocketsPast
  BY DEF Init, SocketsPast, EmptyShadow, NoSocket
<1>3. EpochAhead /\ BatchLanded /\ LateInDoubt
  BY DEF Init, EpochAhead, ReconnectPending, BatchLanded, LateInDoubt, Loaded
<1>4. BaselineCovered /\ ResumeSound
  BY DEF Init, BaselineCovered, ResumeSound, Loaded
<1> QED
  BY <1>1, <1>2, <1>3, <1>4 DEF IInv

(* The inductive invariant holds in every reachable state. *)
LEMMA Invariance == Spec => []IInv
BY InitInv, Inductive, PTL DEF Spec

(* A baseline naming the running Sozu's socket describes it, objects in doubt excepted,        *)
(* however restarts, reconnects, timeouts and partial applies interleave.                      *)
THEOREM BaselineIsSound == Spec => []BaselineSound
<1>1. IInv => BaselineSound
  BY DEF IInv, BaselineCovered, BaselineSound, Trusted
<1> QED
  BY <1>1, Invariance, PTL

(* The persisted file is as good a baseline as the shadow it was written from, at whatever     *)
(* point the controller dies.                                                                  *)
THEOREM ResumeIsSound == Spec => []ResumeSound
<1>1. IInv => ResumeSound
  BY DEF IInv
<1> QED
  BY <1>1, Invariance, PTL

(* No reconnect is acknowledged before the socket behind it was looked at. *)
THEOREM ReconnectsStayPending == Spec => []ReconnectPending
<1>1. IInv => ReconnectPending
  BY DEF IInv, EpochAhead
<1> QED
  BY <1>1, Invariance, PTL

(* Only the verdict of a probe drops readiness, and only on a Reset. *)
LEMMA ReadyDrops ==
  ASSUME TypeOK, Next, ready, ~ready', pc' # "down"
  PROVE  ProbeVerdict /\ Outcome = "Reset"
<1> USE DEF taskVars, sozuVars
<1>1. CASE AgentJob
  <2>1. ASSUME NEW o \in Objects, ApplyRequest(o) PROVE ready' = ready
    BY <2>1 DEF ApplyRequest
  <2>2. ASSUME NEW o \in Objects, NEW landed \in SUBSET Objects, NEW head \in SUBSET Objects,
               ApplyFails(o, landed, head)
        PROVE  ready' = ready
    BY <2>2 DEF ApplyFails
  <2>3. ASSUME NEW o \in Objects, NEW landed \in SUBSET Objects, LateRequest(o, landed)
        PROVE  ready' = ready
    BY <2>3 DEF LateRequest
  <2>4. CASE CaptureGeneration \/ ProbeStatus \/ UnreachableGate \/ Scrape
    BY <2>4 DEF CaptureGeneration, ProbeStatus, UnreachableGate, Scrape
  <2> QED
    BY <1>1, <2>1, <2>2, <2>3, <2>4 DEF AgentJob
<1>2. CASE LocalStep
  BY <1>2 DEF LocalStep, Start, ReadEpoch, Build, BuildFails, Fence, FenceFails, PostCheck,
     WakeOnChange, WakeOnResync, WakeOnProbe, WakeOnRetry, AfterWakeup, Change
<1>3. CASE LoadInitial \/ ApplyDone \/ SozuCrash \/ SozuStart
  BY <1>3 DEF LoadInitial, ApplyDone, SozuCrash, SozuStart
<1>5. ASSUME NEW o \in Objects PROVE ~ApplyTimesOut(o)
  BY DEF ApplyTimesOut
<1>6. ASSUME NEW landed \in SUBSET Objects PROVE ~ControllerCrash(landed)
  BY DEF ControllerCrash
<1>4. CASE ProbeVerdict
  BY <1>4 DEF ProbeVerdict
<1> QED
  BY <1>1, <1>2, <1>3, <1>4, <1>5, <1>6, NextCases

(* Readiness is dropped only over a Sozu the baseline does not name. *)
THEOREM ReadyDropsForAnotherSozu == Spec => ReadyDropsOnlyForAnotherSozu
<1>1. IInv /\ [Next]_vars
        => [ready /\ ~ready' /\ pc' # "down" => shadow.generation # sozu.socket]_vars
  <2> SUFFICES ASSUME IInv, Next, ready, ~ready', pc' # "down"
               PROVE  shadow.generation # sozu.socket
    OBVIOUS
  <2>1. pc = "verdict" /\ answer # NoSocket /\ shadow.generation # answer
    BY ReadyDrops, CheckedShadowFacts DEF IInv, ProbeVerdict
  <2>2. shadow.generation <= answer /\ answer <= sozu.socket
    BY <2>1 DEF IInv, SocketsPast
  <2>3. shadow.generation \in Nat /\ answer \in Nat /\ sozu.socket \in Nat
    BY BoundsAssumption DEF IInv, TypeOK, Shadow, Generation
  <2> QED
    BY <2>1, <2>2, <2>3
<1> QED
  BY <1>1, Invariance, PTL DEF Spec, ReadyDropsOnlyForAnotherSozu

-----------------------------------------------------------------------------
(* The loop never sleeps on work. *)

(* A failed pass leaves itself pending with something that will run it again. *)
LEMMA FailureIsScheduled ==
  ASSUME TypeOK, ReconcileFailed, UNCHANGED args
  PROVE  Scheduled'
<1>1. args.probe \in BOOLEAN /\ args.resync \in BOOLEAN
  BY ArgsAssumption DEF TypeOK
<1> QED
  BY <1>1 DEF ReconcileFailed, Scheduled

(* A probe's verdict sends the task to its next sleep only with its outcome taken care of. *)
LEMMA VerdictKeepsWork ==
  ASSUME TypeOK, WorkKept, ProbeVerdict
  PROVE  WorkKept'
<1>0. /\ pc = "verdict" /\ UNCHANGED <<desired, args, pending, retry, cause, want>>
      /\ shadow' = CheckedShadow
      /\ nudge' = (nudge \/ NudgeAfterProbe)
      /\ pc' = IF cause # "post" /\ Reconciles THEN "reconcile" ELSE "select"
  BY DEF ProbeVerdict
<1>1. CASE pc' = "reconcile"
  BY <1>0, <1>1 DEF WorkKept, Loaded
<1>2. CASE pc' = "select"
  <2>1. cause \in {"post", "SozuProbe"}
    BY <1>0, <1>2 DEF Reconciles
  <2>2. Scheduled
    BY <1>0, <2>1 DEF WorkKept
  <2>3. CASE Outcome = "Reset"
    <3>1. NudgeAfterProbe
      BY <1>0, <1>2, <2>3 DEF Reconciles, NudgeAfterProbe
    <3> QED
      BY <1>0, <1>2, <3>1 DEF WorkKept, Scheduled, Loaded
  <2>4. CASE Outcome # "Reset"
    <3>1. Outcome \in {"Reset", "Unchanged", "ProbeFailed"}
      BY DEF Outcome
    <3>2. CheckedShadow.ir = shadow.ir
      BY <2>1, <2>4, <3>1 DEF CheckedShadow, TypeOK, Shadow
    <3> QED
      BY <1>0, <1>2, <2>2, <3>2 DEF WorkKept, Scheduled, Loaded
  <2> QED
    BY <2>3, <2>4
<1> QED
  BY <1>0, <1>1, <1>2

(* Work that is not applied yet stays scheduled on the way from one sleep to the next. *)
LEMMA WorkStep ==
  ASSUME TypeOK, WorkKept, Next
  PROVE  WorkKept'
<1> USE DEF taskVars, sozuVars
<1>1. CASE Start \/ CaptureGeneration \/ LoadInitial
  BY <1>1 DEF Start, CaptureGeneration, LoadInitial, WorkKept, Loaded
<1>16. ASSUME NEW landed \in SUBSET Objects, ControllerCrash(landed) PROVE WorkKept'
  BY <1>16 DEF ControllerCrash, WorkKept, Loaded
<1>2. CASE ReadEpoch \/ ProbeStatus
  BY <1>2 DEF ReadEpoch, ProbeStatus, WorkKept, Scheduled, Loaded
<1>3. CASE ProbeVerdict
  BY <1>3, VerdictKeepsWork
<1>4. CASE Build
  BY <1>4 DEF Build, WorkKept, Loaded
<1>5. CASE BuildFails \/ FenceFails
  <2>1. pc' = "post" /\ Scheduled'
    BY <1>5, FailureIsScheduled DEF BuildFails, FenceFails, ReconcileFailed
  <2> QED
    BY <2>1 DEF WorkKept, Loaded
<1>6. ASSUME NEW o \in Objects, ApplyRequest(o) PROVE WorkKept'
  BY <1>6 DEF ApplyRequest, WorkKept, Loaded
<1>7. CASE ApplyDone
  <2>1. shadow'.ir = want
    BY <1>7 DEF ApplyDone, TypeOK, Shadow
  <2> QED
    BY <1>7, <2>1 DEF ApplyDone, WorkKept, Loaded
<1>8. ASSUME NEW o \in Objects, NEW landed \in SUBSET Objects, NEW head \in SUBSET Objects,
             ApplyFails(o, landed, head)
      PROVE  WorkKept'
  <2>1. pc' = "post" /\ Scheduled'
    BY <1>8, FailureIsScheduled DEF ApplyFails, ReconcileFailed
  <2> QED
    BY <2>1 DEF WorkKept, Loaded
<1>9. ASSUME NEW o \in Objects, ApplyTimesOut(o) PROVE WorkKept'
  <2>1. pc' = "post" /\ Scheduled'
    BY <1>9, FailureIsScheduled DEF ApplyTimesOut, ReconcileFailed
  <2> QED
    BY <2>1 DEF WorkKept, Loaded
<1>10. CASE Fence \/ PostCheck
  BY <1>10 DEF Fence, PostCheck, WorkKept, Scheduled, Loaded
<1>11. CASE WakeOnChange \/ WakeOnRetry
  <2>1. \A why \in {"Change", "Retry"} :
          AfterWakeup(why) => cause' = why /\ pc' \in {"probe", "reconcile"}
    BY DEF AfterWakeup
  <2> QED
    BY <1>11, <2>1 DEF WakeOnChange, WakeOnRetry, WorkKept, Loaded
<1>12. CASE WakeOnResync \/ WakeOnProbe
  <2>1. pc = "select" /\ UNCHANGED <<desired, shadow, nudge, pending, args, retry>>
        /\ \/ cause' = "Resync" /\ pc' = "probe"
           \/ cause' = "SozuProbe" /\ pc' \in {"gate", "probe"}
    BY <1>12 DEF WakeOnResync, WakeOnProbe, AfterWakeup
  <2> QED
    BY <2>1 DEF WorkKept, Scheduled, Loaded
<1>13. CASE UnreachableGate
  BY <1>13 DEF UnreachableGate, WorkKept, Scheduled, Loaded
<1>14. ASSUME NEW ir \in SUBSET Objects, Change(ir) PROVE WorkKept'
  <2>1. UNCHANGED <<pc, cause, want, shadow>> /\ nudge' = Alive
    BY <1>14 DEF Change
  <2> QED
    BY <2>1 DEF WorkKept, Scheduled, Loaded, Alive
<1>15. CASE Scrape \/ SozuCrash \/ SozuStart
  BY <1>15 DEF Scrape, SozuCrash, SozuStart, WorkKept, Scheduled, Loaded
<1>17. ASSUME NEW o \in Objects, NEW landed \in SUBSET Objects, LateRequest(o, landed)
       PROVE  WorkKept'
  BY <1>17 DEF LateRequest, WorkKept, Scheduled, Loaded
<1> QED
  BY <1>1, <1>2, <1>3, <1>4, <1>5, <1>6, <1>7, <1>8, <1>9, <1>10, <1>11, <1>12, <1>13, <1>14,
     <1>15, <1>16, <1>17 DEF Next, Task, Abandoned, Environment, Startup, Probe, Pass, Apply, Wake

(* When the loop goes to sleep with another state applied than the one desired, a notice, a    *)
(* tick or the retry timer will wake it for a pass.                                            *)
THEOREM LoopNeverSleepsOnWork == Spec => []NeverSleepsOnWork
<1>1. Init => TypeOK /\ WorkKept
  BY InitType DEF Init, WorkKept, Loaded
<1>2. TypeOK /\ WorkKept /\ [Next]_vars => (TypeOK /\ WorkKept)'
  <2>1. ASSUME WorkKept, UNCHANGED vars PROVE WorkKept'
    BY <2>1 DEF vars, sozuVars, taskVars, WorkKept, Scheduled, Loaded
  <2> QED
    BY <2>1, TypeStep, WorkStep
<1>3. WorkKept => NeverSleepsOnWork
  BY DEF WorkKept, Scheduled, NeverSleepsOnWork
<1> QED
  BY <1>1, <1>2, <1>3, PTL DEF Spec

-----------------------------------------------------------------------------
(* The run loop implements Reconciler. *)

(* What the mapping needs beyond IInv: a round is open only during a pass, the worker is busy  *)
(* with at most one abandoned request, and a process that has not finished its first pass is   *)
(* not ready and, before load_initial, has no baseline.                                        *)
RoundShape ==
  /\ pc \notin {"apply", "fence"} => want = {}
  /\ pc = "fence" => shadow.ir = want
  /\ late = {} \/ \E o \in Objects : late = {o}
  /\ ~Loaded => ~ready /\ shadow.ir = {}
  /\ cause = "startup" /\ pc # "post" => ~ready

(* No round is open in the initial states. *)
LEMMA InitShape == Init => RoundShape
BY DEF Init, RoundShape, Loaded, EmptyShadow

(* Every step opens or closes a round whole. *)
LEMMA ShapeStep ==
  ASSUME TypeOK, RoundShape, [Next]_vars
  PROVE  RoundShape'
<1> USE DEF taskVars, sozuVars
<1>0. CASE UNCHANGED vars
  BY <1>0 DEF vars, RoundShape, Loaded
<1>1. CASE Start \/ CaptureGeneration \/ ReadEpoch \/ ProbeStatus
  BY <1>1 DEF Start, CaptureGeneration, ReadEpoch, ProbeStatus, RoundShape, Loaded
<1>2. CASE LoadInitial
  BY <1>2 DEF LoadInitial, RoundShape, Loaded
<1>3. CASE ProbeVerdict
  BY <1>3 DEF ProbeVerdict, RoundShape, Loaded
<1>4. CASE Build \/ BuildFails \/ Fence \/ FenceFails
  BY <1>4 DEF Build, BuildFails, Fence, FenceFails, ReconcileFailed, RoundShape, Loaded
<1>5. ASSUME NEW o \in Objects, ApplyRequest(o) PROVE RoundShape'
  BY <1>5 DEF ApplyRequest, RoundShape, Loaded
<1>6. CASE ApplyDone
  <2>1. shadow'.ir = want
    BY <1>6 DEF ApplyDone, TypeOK, Shadow
  <2> QED
    BY <1>6, <2>1 DEF ApplyDone, RoundShape, Loaded
<1>7. ASSUME NEW o \in Objects, NEW landed \in SUBSET Objects, NEW head \in SUBSET Objects,
             ApplyFails(o, landed, head)
      PROVE  RoundShape'
  BY <1>7 DEF ApplyFails, ReconcileFailed, RoundShape, Loaded
<1>8. ASSUME NEW o \in Objects, ApplyTimesOut(o) PROVE RoundShape'
  BY <1>8 DEF ApplyTimesOut, ReconcileFailed, RoundShape, Loaded
<1>9. CASE PostCheck
  BY <1>9 DEF PostCheck, RoundShape, Loaded
<1>10. CASE WakeOnChange \/ WakeOnResync \/ WakeOnProbe \/ WakeOnRetry
  <2>1. \A why \in {"Change", "Resync", "SozuProbe", "Retry"} :
          AfterWakeup(why) => /\ cause' = why /\ pc' \in {"gate", "probe", "reconcile"}
                              /\ UNCHANGED <<want, late, shadow, ready>>
    BY DEF AfterWakeup
  <2> QED
    BY <1>10, <2>1 DEF WakeOnChange, WakeOnResync, WakeOnProbe, WakeOnRetry, RoundShape, Loaded
<1>11. CASE UnreachableGate
  BY <1>11 DEF UnreachableGate, RoundShape, Loaded
<1>12. CASE Scrape \/ SozuCrash \/ SozuStart
  BY <1>12 DEF Scrape, SozuCrash, SozuStart, RoundShape, Loaded
<1>13. ASSUME NEW ir \in SUBSET Objects, Change(ir) PROVE RoundShape'
  BY <1>13 DEF Change, RoundShape, Loaded
<1>14. ASSUME NEW landed \in SUBSET Objects, ControllerCrash(landed) PROVE RoundShape'
  BY <1>14 DEF ControllerCrash, EmptyShadow, RoundShape, Loaded
<1>15. ASSUME NEW o \in Objects, NEW landed \in SUBSET Objects, LateRequest(o, landed)
       PROVE  RoundShape'
  BY <1>15 DEF LateRequest, RoundShape, Loaded
<1> QED
  BY <1>0, <1>1, <1>2, <1>3, <1>4, <1>5, <1>6, <1>7, <1>8, <1>9, <1>10, <1>11, <1>12, <1>13,
     <1>14, <1>15 DEF Next, Task, Abandoned, Environment, Startup, Probe, Pass, Apply, Wake
-----------------------------------------------------------------------------
(* The mapping, action by action. *)

(* The initial states map to initial states. *)
LEMMA InitMaps == Init => Abstract!Init
BY DEF Init, Abstract!Init, EmptyShadow, NoSocket, Pushing

(* What requests make of a set of objects is the abstract move from the same baseline. *)
LEMMA AppliedIsMoved ==
  ASSUME NEW held, NEW S
  PROVE  /\ Applied(held, S) = Abstract!Moved(held, shadow.ir, S)
         /\ Abstract!Moved(held, shadow.ir, {}) = held
BY DEF Applied, Abstract!Moved

(* Steps that neither open nor close a round, nor move Sozu or a baseline, are stutters. *)
LEMMA QuietStutters ==
  ASSUME UNCHANGED <<desired, sozu, shadow, file, want, late, done, ready>>,
         (pc # "apply" /\ pc' # "apply") \/ UNCHANGED pc
  PROVE  UNCHANGED Abstract!vars
BY DEF Abstract!vars, Pushing, Batch

(* A pass begins a round; with nothing to apply the round is already complete. *)
LEMMA BuildMaps ==
  ASSUME BatchLanded, Build
  PROVE  Abstract!Begin
<1>1. done = {} /\ Pushing = late
  BY DEF Build, BatchLanded, Pushing
<1>2. Pushing' = late \cup SymDiff(shadow.ir, desired)
  BY <1>1 DEF Build, Pushing, Batch, SymDiff
<1> QED
  BY <1>1, <1>2 DEF Build, sozuVars, Abstract!Begin, Abstract!Differing, SymDiff

(* An acknowledged request moves one object of the round and settles it. *)
LEMMA RequestMaps ==
  ASSUME TypeOK, NEW o \in Objects, ApplyRequest(o)
  PROVE  Abstract!Push(o)
<1>1. Pushing = Batch \ done /\ Pushing' = Pushing \ {o} /\ o \in Pushing
  BY DEF ApplyRequest, Pushing, Batch, Idle
<1>2. sozu'.held = Applied(sozu.held, {o}) /\ sozu'.socket = sozu.socket
  BY DEF ApplyRequest, TypeOK
<1> QED
  BY <1>1, <1>2, AppliedIsMoved DEF ApplyRequest, Abstract!Push

(* A batch acknowledged in full ends its round with every object of it in the baseline. *)
LEMMA DoneMaps ==
  ASSUME TypeOK, BatchLanded, ApplyDone
  PROVE  Abstract!Finish({}, done)
<1>1. done = Batch /\ late = {}
  BY DEF ApplyDone, BatchLanded, Idle
<1>2. Abstract!Moved(shadow.ir, shadow.ir, done) = want
  BY <1>1 DEF Abstract!Moved, Batch, SymDiff
<1>3. /\ shadow' = [shadow EXCEPT !.ir = want]
      /\ file' \in {file, shadow'}
  BY DEF ApplyDone, Persist
<1>4. Pushing' = {}
  BY <1>1 DEF ApplyDone, Pushing
<1>5. Abstract!Moved(sozu.held, shadow.ir, {}) = sozu.held
  BY AppliedIsMoved
<1> QED
  BY <1>2, <1>3, <1>4, <1>5 DEF ApplyDone, Abstract!Finish, Abstract!Saves, Abstract!OneOf

(* A batch that stops ends its round with the replayed head in the baseline. *)
LEMMA FailsMaps ==
  ASSUME TypeOK, NEW o \in Objects, NEW landed \in SUBSET Objects, NEW head \in SUBSET Objects,
         ApplyFails(o, landed, head)
  PROVE  Abstract!Finish(landed, head)
<1>1. /\ shadow' = Replayed(head) /\ file' \in {file, Replayed(head)}
      /\ sozu'.held = Applied(sozu.held, landed) /\ landed \subseteq {o}
  BY ApplyFailsFacts
<1>2. sozu'.socket = sozu.socket
  BY AgentJobFacts DEF AgentJob
<1>3. o \in Pushing /\ Pushing' = {}
  BY DEF ApplyFails, ReconcileFailed, Pushing, Batch, Idle
<1>4. landed \in Abstract!OneOf(Pushing)
  <2>1. landed = {} \/ landed = {o}
    BY <1>1
  <2> QED
    BY <1>3, <2>1 DEF Abstract!OneOf
<1>5. Replayed(head) = [shadow EXCEPT !.ir = Abstract!Moved(shadow.ir, shadow.ir, head)]
  BY AppliedIsMoved DEF Replayed
<1>6. sozu'.held = Abstract!Moved(sozu.held, shadow.ir, landed)
  BY <1>1, AppliedIsMoved
<1> QED
  BY <1>1, <1>2, <1>3, <1>4, <1>5, <1>6
     DEF ApplyFails, ReconcileFailed, Abstract!Finish, Abstract!Saves, Abstract!OneOf

(* A pass given up with nothing to replay ends its round with the baseline as it was: the      *)
(* timeout of an apply, which may leave its request under way, and a failure of the fence.     *)
LEMMA GivenUpMaps ==
  ASSUME TypeOK, RoundShape, BatchLanded, LateInDoubt,
         (\E o \in Objects : ApplyTimesOut(o)) \/ FenceFails
  PROVE  Abstract!Finish({}, {})
<1>1. UNCHANGED <<sozu, desired, file, shadow, ready>> /\ want' = {} /\ done' = {}
  BY DEF ApplyTimesOut, FenceFails, ReconcileFailed, BatchLanded
<1>2. Pushing' = late'
  BY DEF ApplyTimesOut, FenceFails, ReconcileFailed, Pushing
<1>3. late' = {} \/ \E o \in Pushing : late' = {o}
  <2>1. CASE FenceFails
    BY <2>1 DEF FenceFails, RoundShape, Pushing
  <2>2. ASSUME NEW o \in Objects, ApplyTimesOut(o)
        PROVE  late' = {} \/ \E x \in Pushing : late' = {x}
    <3>1. o \in Pushing /\ late \subseteq Pushing
      BY <2>2 DEF ApplyTimesOut, Pushing
    <3> QED
      BY <2>2, <3>1 DEF ApplyTimesOut, RoundShape
  <2> QED
    BY <2>1, <2>2
<1>4. shadow = [shadow EXCEPT !.ir = Abstract!Moved(shadow.ir, shadow.ir, {})]
  <2>1. Abstract!Moved(shadow.ir, shadow.ir, {}) = shadow.ir
    BY AppliedIsMoved
  <2> QED
    BY <2>1 DEF TypeOK, Shadow
<1>5. Abstract!Moved(sozu.held, shadow.ir, {}) = sozu.held
  BY AppliedIsMoved
<1> QED
  BY <1>1, <1>2, <1>3, <1>4, <1>5 DEF Abstract!Finish, Abstract!Saves, Abstract!OneOf

(* The abandoned request moves its object, late, or goes without effect; when the pass under   *)
(* way has the same object in its batch, it is still to be moved.                              *)
LEMMA LateMaps ==
  ASSUME TypeOK, LateInDoubt, NEW o \in Objects, NEW landed \in SUBSET Objects,
         LateRequest(o, landed)
  PROVE  Abstract!Push(o) \/ Abstract!Drop(o) \/ UNCHANGED Abstract!vars
<1>1. /\ late = {o} /\ late' = {} /\ done = {}
      /\ UNCHANGED <<desired, file, pc, shadow, want, done, ready>>
  BY DEF LateRequest, LateInDoubt, Idle, taskVars
<1>2. /\ o \in Pushing
      /\ Pushing' = Pushing \/ Pushing' = Pushing \ {o}
  BY <1>1 DEF Pushing, Batch
<1>3. landed = {} \/ landed = {o}
  BY DEF LateRequest, MayLand
<1>4. sozu'.held = Applied(sozu.held, landed) /\ sozu'.socket = sozu.socket
  BY DEF LateRequest, MayLand, TypeOK
<1>5. CASE landed = {o}
  BY <1>1, <1>2, <1>4, <1>5, AppliedIsMoved DEF Abstract!Push
<1>6. CASE landed = {}
  <2>1. sozu'.held = sozu.held
    BY <1>4, <1>6, AppliedIsMoved
  <2> QED
    BY <1>1, <1>2, <1>4, <2>1 DEF Abstract!Drop, Abstract!vars
<1> QED
  BY <1>3, <1>5, <1>6

(* Readiness is announced for a round reached in full. *)
LEMMA FenceMaps ==
  ASSUME RoundShape, BatchLanded, Fence
  PROVE  Abstract!Announce
BY DEF Fence, sozuVars, RoundShape, BatchLanded, Pushing, Abstract!Announce

(* load_initial resumes the saved baseline or gives up the one of a dead process. *)
LEMMA LoadMaps ==
  ASSUME TypeOK, SocketsPast, RoundShape, BatchLanded, LoadInitial
  PROVE  Abstract!Resume \/ \E generation \in 0..sozu.socket : Abstract!Forget(generation)
<1>1. ~ready /\ shadow.ir = {} /\ done = {} /\ Pushing = late /\ Pushing' = late
  BY DEF LoadInitial, RoundShape, Loaded, BatchLanded, Pushing
<1>2. CASE Resumable
  <2>1. shadow' = file
    BY <1>2 DEF LoadInitial, Resumable, TypeOK, Shadow
  <2> QED
    BY <1>1, <2>1 DEF LoadInitial, sozuVars, Abstract!Resume
<1>3. CASE ~Resumable
  <2>1. shadow' = [generation |-> answer, ir |-> {}] /\ answer \in 0..sozu.socket
    BY <1>3 DEF LoadInitial, SocketsPast, TypeOK, Generation
  <2>2. UNCHANGED <<sozu, desired, file, ready, want, done>> /\ ready' = (ready /\ shadow.ir = {})
    BY <1>1 DEF LoadInitial, sozuVars, TypeOK
  <2>3. Abstract!Forget(answer)
    BY <1>1, <2>1, <2>2 DEF Abstract!Forget, Abstract!Saves
  <2> QED
    BY <2>1, <2>3
<1> QED
  BY <1>2, <1>3

(* The verdict of a probe keeps the baseline or gives it up; one that a ready Pod has, only    *)
(* for another Sozu.                                                                           *)
LEMMA VerdictMaps ==
  ASSUME TypeOK, SocketsPast, RoundShape, BatchLanded, ProbeVerdict
  PROVE  \/ UNCHANGED Abstract!vars
         \/ \E generation \in 0..sozu.socket : Abstract!Forget(generation)
<1>1. /\ UNCHANGED <<sozu, desired, late, want, done>> /\ done = {}
      /\ shadow' = CheckedShadow /\ ready' = (ready /\ Outcome # "Reset")
      /\ Outcome # "Reset" => file' = file
      /\ file' \in {file, CheckedShadow}
      /\ pc = "verdict" /\ pc' # "apply"
  BY DEF ProbeVerdict, Persist, BatchLanded
<1>2. Pushing = late /\ Pushing' = late
  BY <1>1 DEF Pushing
<1>3. answer \in 0..sozu.socket /\ shadow.generation \in Nat /\ sozu.socket \in Nat /\ answer \in Nat
  BY BoundsAssumption DEF SocketsPast, TypeOK, Generation, Shadow
<1>4. CASE Outcome = "Reset"
  <2>1. /\ CheckedShadow = [generation |-> answer, ir |-> {}] /\ shadow.ir # {}
        /\ answer # NoSocket /\ shadow.generation # answer
    BY <1>4 DEF CheckedShadow, EmptyShadow, Outcome, ShouldReset
  <2>2. shadow.generation # sozu.socket
    BY <1>1, <1>3, <2>1 DEF SocketsPast
  <2>3. Abstract!Forget(answer)
    BY <1>1, <1>2, <1>4, <2>1, <2>2 DEF Abstract!Forget, Abstract!Saves
  <2> QED
    BY <1>3, <2>3
<1>5. CASE Outcome = "Unchanged"
  <2>1. CheckedShadow = [shadow EXCEPT !.generation = answer]
    BY <1>5 DEF CheckedShadow
  <2>2. shadow.ir = {} \/ shadow.generation = answer
    BY <1>5 DEF Outcome, ShouldReset
  <2>3. ASSUME shadow.generation = answer PROVE UNCHANGED Abstract!vars
    <3>1. CheckedShadow = shadow
      BY <2>1, <2>3 DEF TypeOK, Shadow
    <3> QED
      BY <1>1, <1>2, <1>5, <3>1 DEF Abstract!vars, TypeOK
  <2>4. ASSUME shadow.ir = {} PROVE Abstract!Forget(answer)
    <3>1. CheckedShadow = [generation |-> answer, ir |-> {}]
      BY <2>1, <2>4 DEF TypeOK, Shadow
    <3> QED
      BY <1>1, <1>2, <1>5, <2>4, <3>1 DEF Abstract!Forget, Abstract!Saves
  <2> QED
    BY <1>3, <2>2, <2>3, <2>4
<1>6. CASE Outcome = "ProbeFailed"
  <2>1. CASE cause = "startup"
    <3>1. CheckedShadow = [generation |-> 0, ir |-> {}]
      BY <1>6, <2>1 DEF CheckedShadow, EmptyShadow, NoSocket
    <3>2. ~ready
      BY <1>1, <2>1 DEF RoundShape
    <3>3. Abstract!Forget(0)
      BY <1>1, <1>2, <1>6, <3>1, <3>2 DEF Abstract!Forget, Abstract!Saves
    <3> QED
      BY <1>3, <3>3
  <2>2. CASE cause # "startup"
    <3>1. CheckedShadow = shadow
      BY <1>6, <2>2 DEF CheckedShadow
    <3> QED
      BY <1>1, <1>2, <1>6, <3>1 DEF Abstract!vars, TypeOK
  <2> QED
    BY <2>1, <2>2
<1> QED
  BY <1>4, <1>5, <1>6 DEF Outcome

(* A crash of the controller loses all but the file; the request it cuts off may land. *)
LEMMA CrashMaps ==
  ASSUME TypeOK, NEW landed \in SUBSET Objects, ControllerCrash(landed)
  PROVE  Abstract!Crash(landed)
<1>1. sozu'.socket = sozu.socket /\ sozu'.held = Abstract!Moved(sozu.held, shadow.ir, landed)
  BY CrashFacts, AppliedIsMoved
<1>2. landed \in Abstract!OneOf(Pushing)
  <2>1. landed = {} \/ landed \in InFlight
    BY DEF ControllerCrash
  <2> QED
    BY <2>1 DEF InFlight, Pushing, Abstract!OneOf
<1>3. Pushing' = {}
  BY DEF ControllerCrash, Pushing
<1> QED
  BY <1>1, <1>2, <1>3 DEF ControllerCrash, EmptyShadow, NoSocket, Abstract!Crash

(* Sozu dies or is replaced, with all it held. *)
LEMMA LossMaps ==
  ASSUME TypeOK, SozuCrash \/ SozuStart
  PROVE  Abstract!Lose
<1>1. /\ sozu'.held = {} /\ sozu'.socket \in {sozu.socket, sozu.socket + 1}
      /\ UNCHANGED <<desired, file, late, taskVars>>
  <2>1. CASE SozuCrash
    BY <2>1 DEF SozuCrash, TypeOK
  <2>2. CASE SozuStart
    BY <2>2 DEF SozuStart
  <2> QED
    BY <2>1, <2>2
<1>2. Pushing' = Pushing
  BY <1>1 DEF Pushing, Batch, taskVars
<1> QED
  BY <1>1, <1>2 DEF taskVars, Abstract!Lose

(* Every step of the loop and of its environment maps to an abstract step or to none. *)
LEMMA StepMaps ==
  ASSUME IInv, RoundShape, [Next]_vars
  PROVE  [Abstract!Next]_(Abstract!vars)
<1> USE DEF taskVars, sozuVars
<1>0. TypeOK /\ SocketsPast /\ BatchLanded /\ LateInDoubt
  BY DEF IInv
<1>1. CASE UNCHANGED vars
  BY <1>1, QuietStutters DEF vars
<1>2. CASE Start \/ CaptureGeneration \/ ReadEpoch \/ ProbeStatus \/ PostCheck \/ UnreachableGate
           \/ Scrape
  BY <1>2, QuietStutters
     DEF Start, CaptureGeneration, ReadEpoch, ProbeStatus, PostCheck, UnreachableGate, Scrape
<1>3. CASE WakeOnChange \/ WakeOnResync \/ WakeOnProbe \/ WakeOnRetry
  <2>1. \A why \in {"Change", "Resync", "SozuProbe", "Retry"} :
          AfterWakeup(why) => /\ pc' \in {"gate", "probe", "reconcile"}
                              /\ UNCHANGED <<sozuVars, late, shadow, ready, want, done>>
    BY DEF AfterWakeup
  <2>2. /\ pc = "select" /\ pc' \in {"gate", "probe", "reconcile"}
        /\ UNCHANGED <<sozuVars, late, shadow, ready, want, done>>
    BY <1>3, <2>1 DEF WakeOnChange, WakeOnResync, WakeOnProbe, WakeOnRetry
  <2> QED
    BY <2>2, QuietStutters
<1>4. CASE BuildFails
  <2>1. want = {} /\ want' = {}
    BY <1>4 DEF BuildFails, ReconcileFailed, RoundShape
  <2> QED
    BY <1>4, <2>1, QuietStutters DEF BuildFails, ReconcileFailed
<1>5. CASE Build
  BY <1>0, <1>5, BuildMaps DEF Abstract!Next
<1>6. ASSUME NEW o \in Objects, ApplyRequest(o) PROVE Abstract!Next
  BY <1>0, <1>6, RequestMaps DEF Abstract!Next
<1>7. CASE ApplyDone
  <2>1. {} \in SUBSET Objects /\ done \in SUBSET Objects
    BY <1>0 DEF TypeOK
  <2> QED
    BY <1>0, <1>7, <2>1, DoneMaps DEF Abstract!Next
<1>8. ASSUME NEW o \in Objects, NEW landed \in SUBSET Objects, NEW head \in SUBSET Objects,
             ApplyFails(o, landed, head)
      PROVE  Abstract!Next
  BY <1>0, <1>8, FailsMaps DEF Abstract!Next
<1>9. CASE (\E o \in Objects : ApplyTimesOut(o)) \/ FenceFails
  <2>1. {} \in SUBSET Objects
    OBVIOUS
  <2> QED
    BY <1>0, <1>9, <2>1, GivenUpMaps DEF Abstract!Next
<1>10. CASE Fence
  BY <1>0, <1>10, FenceMaps DEF Abstract!Next
<1>11. CASE LoadInitial
  BY <1>0, <1>11, LoadMaps DEF Abstract!Next
<1>12. CASE ProbeVerdict
  BY <1>0, <1>12, VerdictMaps DEF Abstract!Next
<1>13. ASSUME NEW o \in Objects, NEW landed \in SUBSET Objects, LateRequest(o, landed)
       PROVE  [Abstract!Next]_(Abstract!vars)
  BY <1>0, <1>13, LateMaps DEF Abstract!Next
<1>14. CASE SozuCrash \/ SozuStart
  BY <1>0, <1>14, LossMaps DEF Abstract!Next
<1>15. ASSUME NEW landed \in SUBSET Objects, ControllerCrash(landed) PROVE Abstract!Next
  BY <1>0, <1>15, CrashMaps DEF Abstract!Next
<1>16. ASSUME NEW ir \in SUBSET Objects, Change(ir) PROVE Abstract!Want
  BY <1>16 DEF Change, Pushing, Batch, Abstract!Want
<1> QED
  BY <1>1, <1>2, <1>3, <1>4, <1>5, <1>6, <1>7, <1>8, <1>9, <1>10, <1>11, <1>12, <1>13, <1>14,
     <1>15, <1>16
     DEF Next, Task, Abandoned, Environment, Startup, Probe, Pass, Apply, Wake, Abstract!Next

(* Whatever probes, retries, scrapes and crashes interleave, the run loop is a Reconciler:     *)
(* Sozu is changed only by what differs from the baseline of the pass (the diff of reconcile), *)
(* the baseline advances only over acknowledged requests (replay_acknowledged) and is given up *)
(* under a ready Pod only for another Sozu (check_restart_generation), and readiness is        *)
(* granted only for a desired state reached in full.                                           *)
THEOREM LoopImplementsReconciler == Spec => ImplementsReconciler
<1>1. TypeOK /\ RoundShape /\ [Next]_vars => RoundShape'
  BY ShapeStep
<1>2. IInv => TypeOK
  BY DEF IInv
<1>3. Spec => []RoundShape
  BY <1>1, <1>2, InitShape, Invariance, PTL DEF Spec
<1>4. IInv /\ RoundShape /\ [Next]_vars => [Abstract!Next]_(Abstract!vars)
  BY StepMaps
<1> QED
  BY <1>3, <1>4, InitMaps, Invariance, PTL DEF Spec, ImplementsReconciler, Abstract!Spec
=============================================================================
