------------------------------- MODULE Machine -------------------------------
(***************************************************************************)
(* One machine with a worker process on it: the worker (Worker), whose     *)
(* builds go through the stages of BuildPipeline instead of returning      *)
(* whenever they like, and the detector (Preemption) that tells it when    *)
(* the machine is to be taken away.  What a process that ends leaves with  *)
(* the Docker daemon is not followed any further.                          *)
(*                                                                         *)
(* The worker builds one job at a time, and what a behaviour shows is one  *)
(* build of it: AttemptBound is 1.  Time passes only as the time limits of *)
(* the build and the notice of the preemption; heartbeats and rescues are  *)
(* left to Worker and BuildServer.                                         *)
(***************************************************************************)
EXTENDS Worker, BuildPipeline, Preemption

CONSTANT Host  \* the worker process on the machine

ASSUME MachineAssumption ==
    /\ Workers = {Host}
    /\ MaxConcurrent = 1
    /\ AttemptBound = 1

\* Builder.Build and its commands.
builderVars == <<sandboxVars, pipelineVars>>

machineVars == <<queueVars, workerVars, builderVars, detectorVars, faults>>

TheRun == run[Host][1]

MachineInit ==
    /\ QueueInit
    /\ WorkerInit
    /\ PipelineInit
    /\ DetectorInit

-----------------------------------------------------------------------------
(* The worker.                                                             *)

\* The goroutine of a job starts with the call of Builder.Build.
LoopAndBuilder ==
    /\ LoopStep(Host)
    /\ IF loop[Host] = "claimed" THEN Begin ELSE UNCHANGED builderVars
    /\ UNCHANGED detectorVars

\* Mutant: an error of a cancelled build is recorded like any other.
FinishFailed ==
    /\ TheRun.pc = "building"
    /\ BuildReturned
    /\ SetRun(Host, 1, [TheRun EXCEPT !.pc = "attempt",
                          !.outcome = IF stage = "ok" THEN "completed" ELSE "failed"])
    /\ BuildIsOver
    /\ UNCHANGED <<queueVars, RunVars, sem, active, detectorVars, faults>>

\* Builder.Build has returned to processBuild: a result is recorded although
\* the job is cancelled, an error is not.
FinishBuild ==
    /\ TheRun.pc = "building"
    /\ BuildReturned
    /\ SetRun(Host, 1,
         IF stage = "ok" THEN [TheRun EXCEPT !.pc = "attempt", !.outcome = "completed"]
         ELSE IF TheRun.cancelled THEN Returned(TheRun)
         ELSE [TheRun EXCEPT !.pc = "attempt", !.outcome = "failed"])
    /\ BuildIsOver
    /\ UNCHANGED <<queueVars, RunVars, sem, active, detectorVars, faults>>

RecordAndLeave ==
    /\ TheRun.pc # "building"
    /\ RunStep(Host, 1)
    /\ UNCHANGED <<builderVars, detectorVars>>

\* for event := range events
PreemptedByEvent ==
    /\ Preempt(Host)
    /\ ReceiveEvent
    /\ UNCHANGED builderVars

\* The context of the job is the parent of the one Builder.Build works with.
CancelJobAndBuild ==
    /\ CancelJob(Host)
    /\ IF Underway /\ ~ JobDone THEN Cancel ELSE UNCHANGED builderVars
    /\ UNCHANGED detectorVars

ReleaseJobs ==
    /\ \/ BeginRelease(Host)
       \/ \E k \in Keys : ReleaseFirst(Host, k)
       \/ ReleaseSecond(Host)
       \/ ReleaseFails(Host)
       \/ ReleaseDone(Host)
    /\ UNCHANGED <<builderVars, detectorVars>>

Build ==
    /\ stage # "idle"
    /\ PipelineStep
    /\ UNCHANGED <<queueVars, workerVars, detectorVars>>

CopyOutput ==
    /\ \E c \in Commands : CopierEnds(c)
    /\ UNCHANGED <<queueVars, workerVars, pipelineVars, detectorVars>>

-----------------------------------------------------------------------------
(* The detector, the machine, and the clients.                             *)

Detect ==
    /\ Alive(Host)
    /\ Host \in Preemptible
    /\ DetectorStep(stopRequested[Host])
    /\ UNCHANGED <<queueVars, workerVars, builderVars>>

\* The goroutines of the builder and of the detector go with the process.
OthersDie ==
    /\ BuildIsOver
    /\ detector' = "stopped"
    /\ channel' = 0
    /\ UNCHANGED <<notice, acked>>

\* A stop is requested, or the process ends; the machine stays.
ProcessChanges ==
    /\ ProcessStep(Host)
    /\ IF loop'[Host] = "dead" THEN OthersDie
       ELSE UNCHANGED <<builderVars, detectorVars>>

\* Azure takes the machine: the event was acknowledged, or its time has come.
MachineTaken ==
    /\ notice = "scheduled event"
    /\ Alive(Host)
    /\ ProcessEnds(Host)
    /\ OthersDie
    /\ UNCHANGED faults

TimeLimit == TimerStep /\ UNCHANGED <<queueVars, workerVars, detectorVars>>

DaemonActs ==
    /\ \E c \in Commands : Exits(c) \/ AutoRemove(c)
    /\ UNCHANGED <<queueVars, workerVars, pipelineVars, detectorVars>>

Noticed == Notice /\ UNCHANGED <<queueVars, workerVars, builderVars>>

Requested ==
    /\ \E k \in Keys : InsertJob(k)
    /\ UNCHANGED <<workerVars, builderVars, detectorVars, faults>>

MachineNext ==
    \/ LoopAndBuilder
    \/ FinishBuild
    \/ RecordAndLeave
    \/ PreemptedByEvent
    \/ CancelJobAndBuild
    \/ ReleaseJobs
    \/ Build
    \/ CopyOutput
    \/ Detect
    \/ ProcessChanges
    \/ MachineTaken
    \/ TimeLimit
    \/ DaemonActs
    \/ Noticed
    \/ Requested

MachineSpec == MachineInit /\ [][MachineNext]_machineVars

\* The upload of a binary has no limit and does not look at a context: that it
\* comes to an end is an assumption about the storage.
StorageAnswers == WF_machineVars(Build /\ stage = "store")

\* The goroutines run, the daemon answers and the timers fire.  Commands need
\* not come to an end; nobody has to stop, kill or preempt anything.
MachineFairness ==
    /\ WF_machineVars(LoopAndBuilder)
    /\ WF_machineVars(FinishBuild \/ RecordAndLeave \/ (Build /\ stage # "store"))
    /\ WF_machineVars(PreemptedByEvent \/ CancelJobAndBuild \/ ReleaseJobs)
    /\ WF_machineVars(CopyOutput)
    /\ WF_machineVars(Detect)
    /\ WF_machineVars(TimeLimit)

FairMachineSpec == MachineSpec /\ MachineFairness /\ StorageAnswers

-----------------------------------------------------------------------------
(* Type correctness of what the machine adds to its worker: the build, and *)
(* the detector, whose channel never has to take a second event.           *)
MachineTypeOK == PipelineTypeOK /\ PreemptionTypeOK

(* Azure may take the machine once an event is acknowledged: by then the   *)
(* event is in the channel, or the worker has begun to release its jobs.   *)
AckAfterNotice ==
    acked => channel > 0 \/ watch[Host].pc # "watching" \/ ~ Alive(Host)

(* A worker that is told of a preemption comes to an end by itself,        *)
(* whatever it is doing, although an acknowledgement may be lost and an    *)
(* event come twice, and although the commands of a build need not: the    *)
(* event leads to the release of its jobs, and the cancelled context, or a *)
(* time limit, ends each wait of a build, except for the upload of its     *)
(* binary, which has to end by itself (StorageAnswers).                    *)
NoticeHandled == notice # "none" ~> loop[Host] \in {"returned", "dead"}

\* A failure that hits the builder; for the worker it is one of somebody else.
BuilderFault == Fault /\ UNCHANGED <<queueVars, workerVars>>

(* Whatever the commands, the daemon and the detector do, the worker on    *)
(* the machine behaves as Worker says a worker does, and the runs of the   *)
(* build server assume; only the loss of its machine is new.               *)
WorkerOnMachine ==
    /\ QueueInit /\ WorkerInit
    /\ [][WorkersNext \/ MachineTaken \/ BuilderFault]_<<queueVars, workerVars, faults>>
=============================================================================
