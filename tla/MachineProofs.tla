---------------------------- MODULE MachineProofs ----------------------------
(***************************************************************************)
(* What a machine with a worker on it guarantees for any number of jobs,   *)
(* plugins and failures.  The worker with a real builder and a real        *)
(* detector behaves as Worker says, so that what WorkerProofs has of a     *)
(* worker holds; its builds keep the invariant of BuildPipelineProofs; and *)
(* Azure is not given the machine before the worker is told.               *)
(***************************************************************************)
EXTENDS Machine, WorkerProofs, BuildPipelineProofs

LEMMA HostIsWorker == Host \in Workers /\ Slots = {1}
BY MachineAssumption DEF Slots

-----------------------------------------------------------------------------
(* The worker.                                                             *)

(* A step of the builder fails by the environment or not at all.           *)
LEMMA BuilderFaults ==
    ASSUME PipelineStep \/ TimerStep \/ Cancel \/ \E c \in Commands : DaemonStep(c)
    PROVE  Fault \/ UNCHANGED faults
<1>1. \A c, done : CallStep(c, done) => Fault \/ UNCHANGED faults
  BY DEF CallStep, CreateContainer, AttachContainer, StartContainer, RegisterWait, WaitTooLate,
         RemoveContainer, CreateFails, AttachFails, StartFails, WaitFails, RemoveFails,
         StatusArrives, OutputComplete, Fails
<1>2. Command => Fault \/ UNCHANGED faults
  BY <1>1 DEF Command, RunCommand
<1>3. PipelineStep => Fault \/ UNCHANGED faults
  BY <1>2 DEF PipelineStep, Begin, MakeBuildDir, Rejected, PrepareEnvironment, EnvironmentFails,
              PullImage, PullFails, NextCommand, BinaryBuilt, CommandFailed, Store, StoreFails,
              Fails
<1> QED
  BY <1>3 DEF TimerStep, BuildTimeout, GetTimeout, Cancel, Ends, DaemonStep, Exits, AutoRemove,
              CopierEnds

(* What Build returns is what BuildReturns lets a build return.            *)
LEMMA FinishIsReturn ==
    ASSUME FinishBuild
    PROVE  WorkerStep(Host)
<1>1. BuildReturns(Host, 1)
  <2>1. CASE stage = "ok"
    BY <2>1 DEF FinishBuild, BuildReturns, TheRun, Verdicts
  <2>2. CASE stage # "ok" /\ TheRun.cancelled
    BY <2>2 DEF FinishBuild, BuildReturns, TheRun
  <2>3. CASE stage # "ok" /\ ~ TheRun.cancelled
    BY <2>3 DEF FinishBuild, BuildReturns, TheRun, Verdicts
  <2> QED
    BY <2>1, <2>2, <2>3
<1> QED
  BY <1>1, HostIsWorker DEF WorkerStep, RunStep

LEMMA MachineStep ==
    ASSUME MachineNext
    PROVE  \/ WorkerStep(Host)
           \/ OthersStep
           \/ MachineTaken
           \/ UNCHANGED <<queueVars, workerVars>> /\ (Fault \/ UNCHANGED faults)
<1>1. LoopAndBuilder => WorkerStep(Host)
  BY DEF LoopAndBuilder, WorkerStep
<1>2. RecordAndLeave => WorkerStep(Host)
  BY HostIsWorker DEF RecordAndLeave, WorkerStep
<1>3. PreemptedByEvent \/ CancelJobAndBuild \/ ReleaseJobs => WorkerStep(Host)
  BY DEF PreemptedByEvent, CancelJobAndBuild, ReleaseJobs, WorkerStep, WatchStep
<1>4. ProcessChanges => WorkerStep(Host)
  BY DEF ProcessChanges, WorkerStep
<1>5. Requested => OthersStep
  BY DEF Requested, OthersStep, ApiStatement
<1>6. Build \/ CopyOutput \/ TimeLimit \/ DaemonActs =>
        UNCHANGED <<queueVars, workerVars>> /\ (Fault \/ UNCHANGED faults)
  BY BuilderFaults DEF Build, CopyOutput, TimeLimit, DaemonActs, DaemonStep
<1>7. Detect \/ Noticed => UNCHANGED <<queueVars, workerVars>> /\ UNCHANGED faults
  BY DEF Detect, DetectorStep, Noticed, Notice
<1> QED
  BY <1>1, <1>2, <1>3, <1>4, <1>5, <1>6, <1>7, FinishIsReturn DEF MachineNext

LEMMA WorkerKeeps ==
    ASSUME WorkerInv, [MachineNext]_machineVars
    PROVE  WorkerInv'
<1>1. faults \in 0 .. MaxFaults
  BY DEF WorkerInv, WorkerTypeOK
<1>2. CASE OthersStep
  BY <1>1, <1>2, WorkerStutter DEF OthersStep
<1>3. CASE MachineTaken
  BY <1>1, <1>3, HostIsWorker, EndKeeps DEF MachineTaken
<1>4. CASE UNCHANGED workerVars /\ (Fault \/ UNCHANGED faults)
  <2>1. faults' \in 0 .. MaxFaults
    BY <1>1, <1>4, FaultsAssumption DEF Fault
  <2> QED
    BY <1>4, <2>1, WorkerStutter
<1> QED
  BY <1>2, <1>3, <1>4, HostIsWorker, MachineStep, StepKeeps DEF machineVars

-----------------------------------------------------------------------------
(* The builder.                                                            *)

(* Failures of the others count, and change nothing else for the builder.  *)
LEMMA BuilderWaits ==
    ASSUME PipelineInv, UNCHANGED builderVars, faults' \in 0 .. MaxFaults
    PROVE  PipelineInv'
BY DEF PipelineInv, PipelineTypeOK, CallAgrees, InOrder, AllDone, builderVars, sandboxVars,
       pipelineVars

LEMMA BuilderForgotten ==
    ASSUME PipelineInv, BuildIsOver, faults' \in 0 .. MaxFaults
    PROVE  PipelineInv'
<1>1. 1 \in Commands
  BY CommandNumbers
<1>2. /\ call' \in [Commands -> CallStages]
      /\ container' \in [Commands -> ContainerStates]
      /\ exit' \in [Commands -> {"none", "zero", "nonzero"}]
      /\ copier' \in [Commands -> BOOLEAN]
  BY DEF BuildIsOver, CallStages, ContainerStates
<1>3. PipelineTypeOK'
  BY <1>1, <1>2 DEF BuildIsOver, PipelineTypeOK, Stages
<1>4. InOrder'
  BY CommandNumbers DEF BuildIsOver, InOrder
<1>5. AllDone' /\ \A c \in Commands : CallAgrees(c)'
  BY DEF BuildIsOver, AllDone, CallAgrees
<1> QED
  BY <1>3, <1>4, <1>5 DEF PipelineInv

(* What a step of the machine is for the builder.                          *)
LEMMA BuilderMoves ==
    ASSUME MachineNext
    PROVE  PipelineNext \/ BuildIsOver \/ UNCHANGED builderVars
<1>1. LoopAndBuilder => PipelineNext \/ UNCHANGED builderVars
  BY DEF LoopAndBuilder, PipelineNext, PipelineStep
<1>2. FinishBuild => BuildIsOver
  BY DEF FinishBuild
<1>3. RecordAndLeave \/ PreemptedByEvent \/ ReleaseJobs => UNCHANGED builderVars
  BY DEF RecordAndLeave, PreemptedByEvent, ReleaseJobs
<1>4. CancelJobAndBuild => PipelineNext \/ UNCHANGED builderVars
  BY DEF CancelJobAndBuild, PipelineNext
<1>5. Build \/ TimeLimit => PipelineNext
  BY DEF Build, TimeLimit, PipelineNext
<1>6. CopyOutput \/ DaemonActs => PipelineNext
  BY DEF CopyOutput, DaemonActs, PipelineNext, Daemon, DaemonStep
<1>7. ProcessChanges \/ MachineTaken => BuildIsOver \/ UNCHANGED builderVars
  BY DEF ProcessChanges, MachineTaken, OthersDie
<1>8. Detect \/ Noticed \/ Requested => UNCHANGED builderVars
  BY DEF Detect, Noticed, Requested
<1> QED
  BY <1>1, <1>2, <1>3, <1>4, <1>5, <1>6, <1>7, <1>8 DEF MachineNext

LEMMA BuilderKeeps ==
    ASSUME WorkerInv, PipelineInv, [MachineNext]_machineVars
    PROVE  PipelineInv'
<1>1. faults' \in 0 .. MaxFaults
  BY WorkerKeeps DEF WorkerInv, WorkerTypeOK
<1>2. CASE MachineNext
  BY <1>1, <1>2, BuilderMoves, BuilderWaits, BuilderForgotten, StepInv
<1>3. CASE UNCHANGED machineVars
  BY <1>1, <1>3, BuilderWaits DEF machineVars
<1> QED
  BY <1>2, <1>3

-----------------------------------------------------------------------------
(* The detector.                                                           *)

\* The worker has the event before it, or does not need it any more.
Told == channel > 0 \/ watch[Host].pc # "watching" \/ ~ Alive(Host)

\* An event on its way, and one that is acknowledged.
EventsInv ==
    /\ detector = "sent" => notice = "scheduled event" /\ Told
    /\ notice = "none" => channel = 0
    /\ notice = "signal" /\ detector = "tick" => channel = 0

AckInv == acked => Told

DetectorInv == PreemptionTypeOK /\ EventsInv /\ AckInv

(* A worker that has begun to release its jobs, or is dead, stays so.      *)
LEMMA WorkerRemembers ==
    ASSUME WorkerInv, NEW w \in Workers, WorkerStep(w),
           watch[w].pc # "watching" \/ ~ Alive(w)
    PROVE  watch'[w].pc # "watching" \/ ~ Alive(w)'
<1>0. /\ loop \in [Workers -> {"select", "claiming", "claimed", "draining", "returned", "dead"}]
      /\ DOMAIN watch = Workers
      /\ watch[w] \in [pc : {"watching", "preempted", "next", "row", "cancel", "done"},
                       todo : SUBSET Keys, key : Keys \cup {NoKey}]
  BY DEF WorkerInv, WorkerTypeOK
<1>1. CASE LoopStep(w)
  <2>1. UNCHANGED watch /\ loop[w] # "dead"
    BY <1>1 DEF LoopStep, TryClaim, ClaimOne, ClaimNone, ClaimFails, BackToSelect, Register,
                LoopSeesStop, FillSem, StartReturns
  <2> QED
    BY <2>1 DEF Alive
<1>2. ASSUME NEW s \in Slots, RunStep(w, s) \/ BeatStep(w, s)
      PROVE  UNCHANGED <<watch, loop>>
  BY <1>2 DEF RunStep, BuildReturns, RecordAttempt, RecordJob, RecordFails, RemoveActive,
              ReleaseSem, BeatStep, Heartbeat, HeartbeatFails, RunVars
<1>3. CASE WatchStep(w)
  <2>1. UNCHANGED loop
    BY <1>3 DEF WatchStep, Preempt, BeginRelease, ReleaseFirst, ReleaseSecond, ReleaseFails,
                CancelJob, ReleaseDone, WatchVars
  <2>2. \E pc \in {"preempted", "next", "row", "cancel", "done"} : watch'[w].pc = pc
    <3>1. CASE Preempt(w)
      BY <1>0, <3>1 DEF Preempt, SetWatch
    <3>2. CASE BeginRelease(w)
      BY <1>0, <3>2 DEF BeginRelease, SetWatch
    <3>3. CASE \E k \in Keys : ReleaseFirst(w, k)
      BY <1>0, <3>3 DEF ReleaseFirst, SetWatch
    <3>4. CASE ReleaseSecond(w)
      BY <1>0, <3>4 DEF ReleaseSecond, SetWatch
    <3>5. CASE ReleaseFails(w)
      <4>1. CASE watch[w].pc = "row"
        BY <1>0, <3>5, <4>1 DEF ReleaseFails, SetWatch
      <4>2. CASE watch[w].pc = "next"
        <5>1. PICK k : watch' = [watch EXCEPT ![w] = [watch[w] EXCEPT !.pc = "cancel", !.key = k]]
          BY <3>5, <4>2 DEF ReleaseFails, SetWatch
        <5> QED
          BY <1>0, <5>1
      <4> QED
        BY <3>5, <4>1, <4>2 DEF ReleaseFails
    <3>6. CASE CancelJob(w)
      BY <1>0, <3>6 DEF CancelJob, SetWatch
    <3>7. CASE ReleaseDone(w)
      BY <1>0, <3>7 DEF ReleaseDone, SetWatch
    <3> QED
      BY <1>3, <3>1, <3>2, <3>3, <3>4, <3>5, <3>6, <3>7 DEF WatchStep
  <2> QED
    BY <2>2
<1>4. CASE ProcessStep(w)
  BY <1>0, <1>4 DEF ProcessStep, RequestStop, Exit, Crash, ProcessEnds, Alive
<1> QED
  BY <1>1, <1>2, <1>3, <1>4 DEF WorkerStep, Alive

LEMMA ToldStays ==
    ASSUME WorkerInv, MachineNext, Told, channel \in 0 .. 1
    PROVE  Told'
<1> USE HostIsWorker DEF Told
<1>1. CASE MachineTaken \/ (ProcessChanges /\ loop'[Host] = "dead")
  BY <1>1 DEF MachineTaken, ProcessChanges, ProcessEnds, WorkerInv, WorkerTypeOK, Alive
<1>2. CASE PreemptedByEvent
  <2>1. watch' = [watch EXCEPT ![Host] = [watch[Host] EXCEPT !.pc = "preempted"]]
    BY <1>2 DEF PreemptedByEvent, Preempt, SetWatch
  <2> QED
    BY <2>1 DEF WorkerInv, WorkerTypeOK
<1>3. CASE WorkerStep(Host) /\ UNCHANGED channel
  BY <1>3, WorkerRemembers
<1>4. CASE UNCHANGED <<loop, watch>> /\ channel' \in {channel, 1, channel + 1}
  BY <1>4 DEF Alive
<1>5. LoopAndBuilder \/ FinishBuild \/ RecordAndLeave \/ CancelJobAndBuild \/ ReleaseJobs =>
        WorkerStep(Host) /\ UNCHANGED channel
  BY FinishIsReturn
     DEF LoopAndBuilder, FinishBuild, RecordAndLeave, CancelJobAndBuild, ReleaseJobs,
         WorkerStep, WatchStep, detectorVars
<1>6. ProcessChanges => \/ loop'[Host] = "dead"
                        \/ WorkerStep(Host) /\ UNCHANGED channel
  BY DEF ProcessChanges, WorkerStep, detectorVars
<1>7. Build \/ CopyOutput \/ TimeLimit \/ DaemonActs \/ Requested \/ Noticed =>
        UNCHANGED <<loop, watch, channel>>
  BY DEF Build, CopyOutput, TimeLimit, DaemonActs, Requested, Noticed, Notice, workerVars,
         detectorVars
<1>8. Detect => UNCHANGED <<loop, watch>> /\ channel' \in {channel, 1, channel + 1}
  BY DEF Detect, DetectorStep, Poll, Acknowledge, Signalled, DetectorStops, workerVars
<1> QED
  BY <1>1, <1>2, <1>3, <1>4, <1>5, <1>6, <1>7, <1>8 DEF MachineNext

LEMMA DetectorKeeps ==
    ASSUME WorkerInv, DetectorInv, [MachineNext]_machineVars
    PROVE  DetectorInv'
<1>0. EventsInv /\ AckInv /\ PreemptionTypeOK
  BY DEF DetectorInv
<1>a. channel \in 0 .. 1
  BY <1>0 DEF PreemptionTypeOK
<1>b. /\ notice \in {"none", "scheduled event", "signal"}
      /\ detector \in {"tick", "sent", "stopped"}
  BY <1>0 DEF PreemptionTypeOK, DetectorStages
<1>1. Told => Told'
  <2>1. CASE UNCHANGED machineVars
    BY <2>1 DEF machineVars, workerVars, detectorVars, Told, Alive
  <2>2. CASE MachineNext
    BY <1>a, <2>2, ToldStays
  <2> QED
    BY <2>1, <2>2
<1>2. \/ UNCHANGED detectorVars
      \/ Noticed \/ PreemptedByEvent \/ Detect \/ OthersDie
  BY DEF MachineNext, LoopAndBuilder, FinishBuild, RecordAndLeave, CancelJobAndBuild,
         ReleaseJobs, Build, CopyOutput, ProcessChanges, MachineTaken, TimeLimit, DaemonActs,
         Requested, machineVars
<1>3. EventsInv'
  <2>1. CASE UNCHANGED detectorVars
    BY <1>0, <1>1, <2>1 DEF detectorVars, EventsInv
  <2>2. CASE Noticed
    BY <1>0, <1>1, <2>2 DEF Noticed, Notice, EventsInv
  <2>3. CASE PreemptedByEvent
    <3>1. channel # 0 /\ UNCHANGED <<notice, detector>>
      BY <1>a, <2>3 DEF PreemptedByEvent, ReceiveEvent
    <3>2. notice # "none" /\ ~ (notice = "signal" /\ detector = "tick")
      BY <1>0, <3>1 DEF EventsInv
    <3> QED
      BY <1>0, <1>1, <3>1, <3>2 DEF EventsInv
  <2>4. CASE Detect
    <3>1. CASE Poll(stopRequested[Host])
      <4>1. channel' = 1
        BY <3>1 DEF Poll
      <4>2. notice' = "scheduled event"
        BY <3>1 DEF Poll
      <4>3. Told'
        <5>1. channel' > 0
          BY <4>1
        <5> QED
          BY <5>1 DEF Told
      <4> QED
        BY <4>1, <4>2, <4>3 DEF EventsInv
    <3>2. CASE Acknowledge
      BY <1>0, <3>2 DEF Acknowledge, EventsInv
    <3>3. CASE Signalled
      BY <1>0, <3>3 DEF Signalled, EventsInv
    <3>4. CASE DetectorStops(stopRequested[Host])
      BY <1>0, <3>4 DEF DetectorStops, EventsInv
    <3> QED
      BY <2>4, <3>1, <3>2, <3>3, <3>4 DEF Detect, DetectorStep
  <2>5. CASE OthersDie
    BY <2>5 DEF OthersDie, EventsInv
  <2> QED
    BY <1>2, <2>1, <2>2, <2>3, <2>4, <2>5
<1>4. AckInv'
  <2>1. acked' = acked \/ (acked' = TRUE /\ Told)
    <3>1. CASE Detect /\ Acknowledge
      <4>1. Told
        BY <1>0, <3>1 DEF Acknowledge, EventsInv
      <4>2. acked' \in {acked, TRUE}
        BY <3>1 DEF Acknowledge
      <4> QED
        BY <4>1, <4>2
    <3>2. CASE UNCHANGED detectorVars \/ Noticed \/ PreemptedByEvent \/ OthersDie
      BY <3>2 DEF detectorVars, Noticed, Notice, PreemptedByEvent, ReceiveEvent, OthersDie
    <3>3. CASE Detect /\ ~ Acknowledge
      BY <3>3 DEF Detect, DetectorStep, Poll, Signalled, DetectorStops
    <3> QED
      BY <1>2, <3>1, <3>2, <3>3
  <2> QED
    BY <1>0, <1>1, <2>1 DEF AckInv
<1>5. PreemptionTypeOK'
  <2>1. channel' \in 0 .. 1
    <3>1. CASE UNCHANGED channel \/ channel' = 0 \/ channel' = 1
      BY <1>a, <3>1
    <3>2. CASE PreemptedByEvent
      BY <1>a, <3>2 DEF PreemptedByEvent, ReceiveEvent
    <3>3. CASE Detect
      <4>1. CASE Signalled
        BY <1>0, <1>b, <4>1 DEF Signalled, EventsInv
      <4> QED
        BY <3>1, <3>3, <4>1 DEF Detect, DetectorStep, Poll, Acknowledge, DetectorStops
    <3> QED
      BY <1>2, <3>1, <3>2, <3>3 DEF detectorVars, Noticed, Notice, OthersDie
  <2>2. notice' \in {"none", "scheduled event", "signal"}
    BY <1>b, <1>2
       DEF detectorVars, Noticed, Notice, PreemptedByEvent, ReceiveEvent, Detect, DetectorStep,
           Poll, Acknowledge, Signalled, DetectorStops, OthersDie
  <2>3. detector' \in {"tick", "sent", "stopped"}
    BY <1>b, <1>2
       DEF detectorVars, Noticed, Notice, PreemptedByEvent, ReceiveEvent, Detect, DetectorStep,
           Poll, Acknowledge, Signalled, DetectorStops, OthersDie
  <2>4. acked' \in BOOLEAN
    <3>1. acked' = acked \/ acked' \in {acked, TRUE}
      BY <1>2
         DEF detectorVars, Noticed, Notice, PreemptedByEvent, ReceiveEvent, Detect, DetectorStep,
             Poll, Acknowledge, Signalled, DetectorStops, OthersDie
    <3>2. acked \in BOOLEAN
      BY <1>0 DEF PreemptionTypeOK
    <3> QED
      BY <3>1, <3>2
  <2> QED
    BY <2>1, <2>2, <2>3, <2>4 DEF PreemptionTypeOK, DetectorStages
<1> QED
  BY <1>3, <1>4, <1>5 DEF DetectorInv

-----------------------------------------------------------------------------
(* The invariant of the machine.                                           *)

MachineInv == WorkerInv /\ PipelineInv /\ DetectorInv

LEMMA MachineInvInit == MachineInit => MachineInv
<1>1. DetectorInit => EventsInv
  BY DEF DetectorInit, EventsInv
<1>2. DetectorInit => AckInv
  BY DEF DetectorInit, AckInv
<1>3. ASSUME DetectorInit PROVE  PreemptionTypeOK
  <2>1. notice \in {"none", "scheduled event", "signal"} /\ detector \in DetectorStages
    BY <1>3 DEF DetectorInit, DetectorStages
  <2>2. channel \in 0 .. 1
    BY <1>3 DEF DetectorInit
  <2>3. acked \in BOOLEAN
    BY <1>3 DEF DetectorInit
  <2> QED
    BY <2>1, <2>2, <2>3 DEF PreemptionTypeOK
<1> QED
  BY <1>1, <1>2, <1>3, WorkerInitInv, InitInv DEF MachineInit, MachineInv, DetectorInv

LEMMA MachineInvStep == MachineInv /\ [MachineNext]_machineVars => MachineInv'
BY WorkerKeeps, BuilderKeeps, DetectorKeeps DEF MachineInv

LEMMA MachineInvHolds == MachineSpec => []MachineInv
BY MachineInvInit, MachineInvStep, PTL DEF MachineSpec

(* The state of build and detector is of its type, in particular: the      *)
(* detector never sends a second event into a channel with room for one,   *)
(* where it would wait for ever.                                           *)
THEOREM MachineTypeCorrect == MachineSpec => []MachineTypeOK
<1>1. MachineInv => MachineTypeOK
  BY DEF MachineInv, PipelineInv, DetectorInv, EventsInv, AckInv, MachineTypeOK, PreemptionTypeOK
<1> QED
  BY <1>1, MachineInvHolds, PTL

(* An event that is acknowledged, which lets Azure take the machine, is    *)
(* known to the worker or waits for it in the channel, although            *)
(* acknowledgements may be lost and the event be sent again.               *)
THEOREM AckAfterNoticeHolds == MachineSpec => []AckAfterNotice
<1>1. MachineInv => AckAfterNotice
  BY DEF MachineInv, DetectorInv, AckInv, Told, AckAfterNotice
<1> QED
  BY <1>1, MachineInvHolds, PTL

(* The worker on the machine implements the worker of Worker: whatever     *)
(* commands, daemon, time limits and detector do, its steps are those of   *)
(* WorkersNext, or the loss of the machine.                                *)
THEOREM WorkerOnMachineHolds == MachineSpec => WorkerOnMachine
<1>1. MachineInit => QueueInit /\ WorkerInit
  BY DEF MachineInit
<1>2. [MachineNext]_machineVars =>
        [WorkersNext \/ MachineTaken \/ BuilderFault]_<<queueVars, workerVars, faults>>
  BY MachineStep, HostIsWorker DEF WorkersNext, BuilderFault, machineVars
<1> QED
  BY <1>1, <1>2, PTL DEF MachineSpec, WorkerOnMachine
=============================================================================
