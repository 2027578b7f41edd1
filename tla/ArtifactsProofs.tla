--------------------------- MODULE ArtifactsProofs ---------------------------
(***************************************************************************)
(* However the server's jobs are disturbed, a completed one has its files; *)
(* and those of an undisturbed one, stored and downloaded, are the binary  *)
(* and the signature that its last attempt has written.  For any number of *)
(* workers, slots, jobs, requests, downloads and failures.                 *)
(***************************************************************************)
EXTENDS Artifacts, DisturbanceProofs

HasBinary(k) == store[k].binary.state # "absent"
HasSignature(k) == store[k].signature.state # "absent"
HasFiles(k) == HasBinary(k) /\ (Signing => HasSignature(k))

\* Attempts by number.  That AttemptOf finds one does not matter here, and it
\* is not shown: Max({}) is what it is otherwise.
Number == Nat \cup {Max({})}

FileType == [state : {"absent", "partial", "whole", "mixed"}, attempt : Number]
UploadType == [stage : Stages, attempt : Number]

FilesTypeOK ==
    /\ store \in [Keys -> [binary : FileType, signature : FileType]]
    /\ upload \in [Workers -> [Slots -> UploadType]]

\* A build that has passed a stage has left the files of that stage.
StagesHaveFiles ==
    \A w \in Workers, s \in Slots :
        LET stage == upload[w][s].stage
            k == run[w][s].key
        IN  /\ stage # "none" => run[w][s].pc = "building"
            /\ Signing /\ stage \in {"signing", "signed", "storing", "stored"} => HasSignature(k)
            /\ stage \in {"storing", "stored"} => HasBinary(k)

\* A verdict on its way to the tables.
VerdictsHaveFiles ==
    \A w \in Workers, s \in Slots :
        run[w][s].pc \in {"attempt", "job"} /\ run[w][s].outcome = "completed" =>
            HasFiles(run[w][s].key)

FilesInv ==
    /\ ServerInv
    /\ FilesTypeOK
    /\ StagesHaveFiles
    /\ VerdictsHaveFiles
    /\ CompletedHasFiles

-----------------------------------------------------------------------------
(* What the server does to goroutines and jobs.                            *)

\* r has become q: a goroutine of the same job, with the verdict it had.
GoesOn(r, q) ==
    /\ q.key = r.key
    /\ q.pc = "building" => r.pc = "building"
    /\ q.pc = "attempt" => r.pc = "building" \/ (r.pc = "attempt" /\ q.outcome = r.outcome)
    /\ q.pc = "job" => r.pc \in {"attempt", "job"} /\ q.outcome = r.outcome

\* The goroutine in slot s of w goes on, begins, or has no verdict to record.
Continues(w, s) ==
    \/ GoesOn(run[w][s], run'[w][s])
    \/ (run[w][s].pc = "idle" /\ run'[w][s].pc = "building")
    \/ run'[w][s].pc \notin {"building", "attempt", "job"}

LEMMA OthersContinue ==
    ASSUME WorkerTypeOK, NEW v \in Workers, NEW t, NEW q, run' = [run EXCEPT ![v][t] = q],
           NEW w \in Workers, NEW s \in Slots, w # v \/ s # t
    PROVE  Continues(w, s)
BY DEF WorkerTypeOK, Continues, GoesOn

LEMMA WorkersContinue ==
    ASSUME WorkerInv, NEW v \in Workers, WorkerStep(v), NEW w \in Workers, NEW s \in Slots
    PROVE  Continues(w, s)
<1>0. WorkerTypeOK /\ run \in [Workers -> [Slots -> Run]]
  BY DEF WorkerInv, WorkerTypeOK
<1>1. CASE UNCHANGED run
  BY <1>1 DEF Continues, GoesOn
<1>2. CASE Register(v)
  <2>1. PICK t \in Slots \ Busy(v) : run' = [run EXCEPT ![v][t] = NewRun(inHand[v])]
    BY <1>2 DEF Register, SetRun
  <2>2. CASE w = v /\ s = t
    BY <1>0, <2>1, <2>2 DEF Continues, Busy, NewRun
  <2> QED
    BY <1>0, <2>1, <2>2, OthersContinue
<1>3. ASSUME NEW t \in Slots, RunStep(v, t)
      PROVE  Continues(w, s)
  <2> DEFINE r == run[v][t]
  <2>0. r \in Run
    BY <1>0
  <2>1. PICK q : run' = [run EXCEPT ![v][t] = q] /\ (GoesOn(r, q) \/ q.pc \in {"remove", "release", "idle"})
    <3>1. ASSUME NEW outcome, r.pc = "building"
          PROVE  GoesOn(r, [r EXCEPT !.pc = "attempt", !.outcome = outcome])
      BY <2>0, <3>1 DEF GoesOn, Run
    <3>2. r.pc = "attempt" => GoesOn(r, [r EXCEPT !.pc = "job"])
      BY <2>0 DEF GoesOn, Run
    <3>3. Returned(r).pc = "remove" /\ [r EXCEPT !.pc = "release"].pc = "release" /\ NoRun.pc = "idle"
      BY <2>0 DEF Returned, Run, NoRun
    <3> QED
      BY <1>3, <3>1, <3>2, <3>3
         DEF RunStep, BuildReturns, RecordAttempt, RecordJob, RecordFails, RemoveActive,
             ReleaseSem, SetRun
  <2>2. CASE w = v /\ s = t
    BY <1>0, <2>1, <2>2 DEF Continues
  <2> QED
    BY <1>0, <2>1, <2>2, OthersContinue
<1>4. ASSUME NEW t \in Slots, BeatStep(v, t)
      PROVE  Continues(w, s)
  <2>1. PICK beat : run' = [run EXCEPT ![v][t] = [run[v][t] EXCEPT !.beat = beat]]
    BY <1>4 DEF BeatStep, Heartbeat, HeartbeatFails, SetRun
  <2>2. CASE w = v /\ s = t
    BY <1>0, <2>1, <2>2 DEF Continues, GoesOn, Run
  <2> QED
    BY <1>0, <2>1, <2>2, OthersContinue
<1>5. CASE CancelJob(v)
  <2>1. PICK t : run' = [run EXCEPT ![v][t] = [run[v][t] EXCEPT !.cancelled = TRUE, !.beat = "off"]]
    BY <1>5 DEF CancelJob, SetRun
  <2>2. CASE w = v /\ s = t
    BY <1>0, <2>1, <2>2 DEF Continues, GoesOn, Run
  <2> QED
    BY <1>0, <2>1, <2>2, OthersContinue
<1>6. CASE ProcessEnds(v)
  BY <1>0, <1>6 DEF ProcessEnds, NoRun, Continues, GoesOn
<1>7. LoopStep(v) => Register(v) \/ UNCHANGED run
  BY DEF LoopStep, TryClaim, ClaimOne, ClaimNone, ClaimFails, BackToSelect, LoopSeesStop,
         FillSem, StartReturns
<1>8. WatchStep(v) => CancelJob(v) \/ UNCHANGED run
  BY DEF WatchStep, Preempt, BeginRelease, ReleaseFirst, ReleaseSecond, ReleaseFails, ReleaseDone
<1>9. ProcessStep(v) => ProcessEnds(v) \/ UNCHANGED run
  BY DEF ProcessStep, RequestStop, Exit, Crash
<1> QED
  BY <1>1, <1>2, <1>3, <1>4, <1>5, <1>6, <1>7, <1>8, <1>9 DEF WorkerStep

LEMMA GoroutinesContinue ==
    ASSUME ServerInv, Next, NEW w \in Workers, NEW s \in Slots
    PROVE  Continues(w, s)
<1>0. WorkerInv /\ run \in [Workers -> [Slots -> Run]]
  BY DEF ServerInv, WorkerInv, WorkerTypeOK
<1>1. CASE \E v \in Workers : WorkerStep(v)
  BY <1>0, <1>1, WorkersContinue
<1>2. CASE TimePasses
  BY <1>0, <1>2 DEF TimePasses, ClockTick, Continues, GoesOn, Run
<1>3. CASE UNCHANGED run
  BY <1>3 DEF Continues, GoesOn
<1> QED
  BY <1>1, <1>2, <1>3 DEF Next, workerVars

(* A job becomes completed only by the verdict of a goroutine.             *)
LEMMA CompletedByVerdict ==
    ASSUME ServerInv, Next, NEW k \in Keys,
           jobs'[k].status = "completed", jobs[k].status # "completed"
    PROVE  \E w \in Workers, s \in Slots :
               run[w][s].key = k /\ run[w][s].pc = "job" /\ run[w][s].outcome = "completed"
<1>0. /\ jobs \in [Keys -> Job] /\ jobs[k] \in Job
      /\ WorkerInv /\ JanitorTypeOK /\ ApiTypeOK
  BY DEF ServerInv, QueueTypeOK
<1>1. ASSUME NEW w \in Workers, WorkerStep(w)
      PROVE  \E s \in Slots :
               run[w][s].key = k /\ run[w][s].pc = "job" /\ run[w][s].outcome = "completed"
  <2>1. ASSUME NEW l \in Keys, ClaimNextBuild(w, l)
        PROVE  FALSE
    BY <1>0, <2>1 DEF ClaimNextBuild, Job
  <2>2. ASSUME NEW l, UpdateHeartbeat(l, w)
        PROVE  FALSE
    BY <1>0, <2>2 DEF UpdateHeartbeat, Job
  <2>3. ASSUME NEW l, ReleaseRow(l, w)
        PROVE  FALSE
    BY <1>0, <2>3 DEF ReleaseRow, Unlocked, Job
  <2>4. jobs' # jobs
    OBVIOUS
  <2>5. ~ LoopStep(w)
    BY <2>1, <2>4 DEF LoopStep, TryClaim, ClaimOne, ClaimNone, ClaimFails, Register,
                      LoopSeesStop, FillSem, StartReturns, queueVars
  <2>6. ~ WatchStep(w)
    BY <2>3, <2>4 DEF WatchStep, Preempt, BeginRelease, ReleaseFirst, ReleaseAttempt,
                      ReleaseSecond, ReleaseFails, CancelJob, ReleaseDone, queueVars
  <2>7. ~ ProcessStep(w)
    BY <2>4 DEF ProcessStep, RequestStop, Exit, Crash, ProcessEnds, queueVars
  <2>8. ASSUME NEW s \in Slots, BeatStep(w, s)
        PROVE  FALSE
    BY <2>2, <2>4, <2>8 DEF BeatStep, Heartbeat, HeartbeatFails, queueVars
  <2>9. PICK s \in Slots : RunStep(w, s)
    BY <1>1, <2>5, <2>6, <2>7, <2>8 DEF WorkerStep
  <2>10. RecordJob(w, s)
    BY <2>4, <2>9 DEF RunStep, BuildReturns, RecordAttempt, UpdateAttempt, RecordFails,
                      RemoveActive, ReleaseSem, queueVars
  <2>11. UpdateJob(run[w][s].key, run[w][s].outcome) /\ run[w][s].pc = "job"
    BY <2>10 DEF RecordJob
  <2>12. run[w][s].key \in Keys /\ run[w][s].outcome \in Verdicts
    BY <1>0, <2>11 DEF WorkerInv, GoroutinesAgree
  <2> QED
    BY <1>0, <2>11, <2>12 DEF UpdateJob, Unlocked, Job, Verdicts
<1>2. ~ JanitorStep
  <2>1. ASSUME NEW cutoff, RescueJobs(cutoff)
        PROVE  FALSE
    BY <1>0, <2>1 DEF RescueJobs, Unlocked, Job
  <2>2. ASSUME RetryFailedBuilds
        PROVE  FALSE
    <3>1. jobs'[k] \in {jobs[k], Unlocked(jobs[k], "pending")}
      BY <2>2, Zenon DEF RetryFailedBuilds
    <3> QED
      BY <1>0, <3>1 DEF Unlocked, Job
  <2>3. jobs' # jobs
    OBVIOUS
  <2>4. ~ RetryCycle
    BY <2>2 DEF RetryCycle
  <2>5. ASSUME NEW j \in Cycles, RescueStep(j)
        PROVE  FALSE
    BY <2>1, <2>3, <2>5
       DEF RescueStep, RescueBegins, RescueFirst, RescueAttempts, RescueSecond, RescueFails,
           queueVars
  <2> QED
    BY <2>4, <2>5 DEF JanitorStep
<1>3. ~ ApiStep
  <2>1. ASSUME NEW l \in Keys, InsertJob(l)
        PROVE  FALSE
    BY <1>0, <2>1 DEF InsertJob, NoJob
  <2>2. ASSUME NEW l \in Keys, ResetBuildAttempts(l)
        PROVE  FALSE
    BY <1>0, <2>2 DEF ResetBuildAttempts, Unlocked, Job
  <2>3. \A c \in Requests : req[c].key \in Keys
    BY <1>0 DEF ApiTypeOK, Request
  <2> QED
    BY <2>1, <2>2, <2>3
       DEF ApiStep, ArriveBuild, ArriveCompat, Create, HandlerStep, ReadBuild, ForceReset,
           Reread, ReadCompat, Poll, ApiFails, WriteDeadline, GiveUp, queueVars
<1>4. ~ TimePasses
  BY <1>0 DEF TimePasses, ClockTick, Tick, Job
<1> QED
  BY <1>1, <1>2, <1>3, <1>4 DEF Next

-----------------------------------------------------------------------------
(* Steps of the server, and of an upload.                                  *)

LEMMA MaxOfNumbers ==
    ASSUME NEW S \in SUBSET Nat
    PROVE  Max(S) \in Number
<1>1. CASE \E x \in S : \A y \in S : x >= y
  BY <1>1 DEF Max, Number
<1>2. CASE ~ \E x \in S : \A y \in S : x >= y
  <2>1. \A x : (x \in S /\ \A y \in S : x >= y) <=> (x \in {} /\ \A y \in {} : x >= y)
    BY <1>2
  <2>2. Max(S) = Max({})
    BY <2>1, Zenon DEF Max
  <2> QED
    BY <2>2 DEF Number
<1> QED
  BY <1>1, <1>2

(* An upload begins and ends with the goroutine that builds.               *)
LEMMA UploadFollows ==
    ASSUME ServerStep, NEW w \in Workers, NEW s \in Slots
    PROVE  /\ run'[w][s].pc # "building" => upload'[w][s].stage = "none"
           /\ run'[w][s].pc = "building" /\ run[w][s].pc # "building" =>
                  upload'[w][s].stage = "compile"
           /\ run'[w][s].pc = "building" /\ run[w][s].pc = "building" =>
                  upload'[w][s] = upload[w][s]
<1>1. CASE run'[w][s].pc # "building"
  <2>1. upload'[w][s] = NoUpload
    BY <1>1 DEF ServerStep
  <2> QED
    BY <1>1, <2>1 DEF NoUpload
<1>2. CASE run'[w][s].pc = "building" /\ run[w][s].pc # "building"
  <2>1. upload'[w][s] = [stage |-> "compile", attempt |-> AttemptOf(w, run'[w][s].key)]
    BY <1>2 DEF ServerStep
  <2> QED
    BY <1>2, <2>1
<1>3. CASE run'[w][s].pc = "building" /\ run[w][s].pc = "building"
  BY <1>3 DEF ServerStep
<1> QED
  BY <1>1, <1>2, <1>3

LEMMA ServerStepKeepsFiles ==
    ASSUME FilesInv, ServerStep
    PROVE  FilesInv'
<1>0. /\ ServerInv /\ FilesTypeOK /\ StagesHaveFiles /\ VerdictsHaveFiles /\ CompletedHasFiles
      /\ Next /\ UNCHANGED store
      /\ WorkerInv /\ run \in [Workers -> [Slots -> Run]]
  BY DEF FilesInv, ServerStep, ServerInv, WorkerInv, WorkerTypeOK
<1>1. ServerInv'
  BY <1>0, ServerInvStep
<1>2. \A w \in Workers, s \in Slots : Continues(w, s)
  BY <1>0, GoroutinesContinue
<1>4. FilesTypeOK'
  <2>1. ASSUME NEW w \in Workers, NEW s \in Slots
        PROVE  upload'[w][s] \in UploadType
    <3>1. CASE run'[w][s].pc # "building"
      <4>1. upload'[w][s] = NoUpload
        BY <3>1 DEF ServerStep
      <4>2. 0 \in Number
        BY DEF Number
      <4> QED
        BY <4>1, <4>2 DEF UploadType, NoUpload, Stages
    <3>2. CASE run'[w][s].pc = "building" /\ run[w][s].pc = "building"
      BY <1>0, <3>2, UploadFollows DEF FilesTypeOK
    <3>3. CASE run'[w][s].pc = "building" /\ run[w][s].pc # "building"
      <4> DEFINE k == run'[w][s].key
      <4>1. k \in Keys
        BY <1>1, <3>3 DEF ServerInv, WorkerInv, GoroutinesAgree
      <4>2. DOMAIN attempts[k] \subseteq Nat
        BY <1>0, <4>1 DEF ServerInv, QueueTypeOK
      <4>3. AttemptOf(w, k) \in Number
        BY <4>2, MaxOfNumbers DEF AttemptOf
      <4>4. upload'[w][s] = [stage |-> "compile", attempt |-> AttemptOf(w, k)]
        BY <3>3 DEF ServerStep
      <4> QED
        BY <4>3, <4>4 DEF UploadType, Stages
    <3> QED
      BY <3>1, <3>2, <3>3
  <2> QED
    BY <1>0, <2>1 DEF FilesTypeOK, ServerStep
<1>5. StagesHaveFiles'
  <2>1. ASSUME NEW w \in Workers, NEW s \in Slots, upload'[w][s].stage \notin {"none", "compile"}
        PROVE  upload'[w][s] = upload[w][s] /\ run'[w][s].key = run[w][s].key
    <3>1. run'[w][s].pc = "building" /\ run[w][s].pc = "building"
      BY <2>1, UploadFollows
    <3> QED
      BY <1>2, <3>1, UploadFollows DEF Continues, GoesOn
  <2>2. \A w \in Workers, s \in Slots : upload'[w][s].stage # "none" => run'[w][s].pc = "building"
    BY UploadFollows
  <2> QED
    BY <1>0, <2>1, <2>2 DEF StagesHaveFiles, HasBinary, HasSignature
<1>6. VerdictsHaveFiles'
  <2>1. ASSUME NEW w \in Workers, NEW s \in Slots,
               run'[w][s].pc \in {"attempt", "job"}, run'[w][s].outcome = "completed"
        PROVE  HasFiles(run[w][s].key) /\ run'[w][s].key = run[w][s].key
    <3>1. GoesOn(run[w][s], run'[w][s])
      BY <1>2, <2>1 DEF Continues
    <3>2. CASE run[w][s].pc \in {"attempt", "job"} /\ run[w][s].outcome = "completed"
      BY <1>0, <3>1, <3>2 DEF GoesOn, VerdictsHaveFiles
    <3>3. CASE run[w][s].pc = "building" /\ run'[w][s].pc = "attempt"
      <4>1. upload[w][s].stage = "stored"
        BY <2>1, <3>3 DEF ServerStep, Finished
      <4> QED
        BY <1>0, <3>1, <4>1 DEF GoesOn, StagesHaveFiles, HasFiles
    <3> QED
      BY <2>1, <3>1, <3>2, <3>3 DEF GoesOn
  <2> QED
    BY <1>0, <2>1 DEF VerdictsHaveFiles, HasFiles, HasBinary, HasSignature
<1>7. CompletedHasFiles'
  <2>1. ASSUME NEW k \in Keys, jobs'[k].status = "completed"
        PROVE  HasFiles(k)
    <3>1. CASE jobs[k].status = "completed"
      BY <1>0, <3>1 DEF CompletedHasFiles, HasFiles, HasBinary, HasSignature
    <3>2. CASE jobs[k].status # "completed"
      BY <1>0, <2>1, <3>2, CompletedByVerdict DEF VerdictsHaveFiles
    <3> QED
      BY <3>1, <3>2
  <2> QED
    BY <1>0, <2>1 DEF CompletedHasFiles, HasFiles, HasBinary, HasSignature
<1> QED
  BY <1>1, <1>4, <1>5, <1>6, <1>7 DEF FilesInv

(* Files appear and change; what was there is never taken away.            *)
LEMMA UploadKeepsFiles ==
    ASSUME FilesInv, NEW w \in Workers, NEW s \in Slots, UploadStep(w, s)
    PROVE  FilesInv'
<1> DEFINE u == upload[w][s]
<1>0. /\ ServerInv /\ FilesTypeOK /\ StagesHaveFiles /\ VerdictsHaveFiles /\ CompletedHasFiles
      /\ WorkerInv /\ faults \in 0 .. MaxFaults
  BY DEF FilesInv, ServerInv, WorkerInv, WorkerTypeOK
<1>1. UNCHANGED <<queueVars, workerVars, rescue, req, download>> /\ faults' \in 0 .. MaxFaults
  <2>1. /\ UNCHANGED <<queueVars, workerVars, rescue, req, download>>
        /\ Fault \/ faults' = faults
    BY DEF UploadStep, CreateSignature, WriteSignature, CreateBinary, WriteBinary, CloseFails, vars
  <2>2. Fault => faults' \in 0 .. MaxFaults
    BY <1>0, FaultsAssumption DEF Fault
  <2> QED
    BY <1>0, <2>1, <2>2
<1>2. ServerInv'
  <2>1. WorkerInv'
    BY <1>0, <1>1, WorkerStutter
  <2> QED
    BY <1>0, <1>1, <2>1
       DEF ServerInv, QueueTypeOK, queueVars, JanitorTypeOK, ApiTypeOK, StuckAreClosed, Cutoff,
           IsStuck, AllClosed
<1>3. PICK k \in Keys : k = run[w][s].key /\ u.stage # "none"
  <2>1. u.stage # "none"
    BY DEF UploadStep, CreateSignature, WriteSignature, CreateBinary, WriteBinary, CloseFails
  <2> QED
    BY <1>0, <2>1 DEF StagesHaveFiles, WorkerInv, GoroutinesAgree
<1>4. u \in UploadType /\ u.attempt \in Number /\ 0 \in Number
  BY <1>0 DEF FilesTypeOK, UploadType, Number
<1> DEFINE Goes(stage) ==
      /\ stage \in Stages \ {"none"}
      /\ upload' = [upload EXCEPT ![w][s].stage = stage]
      /\ Signing /\ stage # "compile" => HasSignature(k)'
      /\ stage \in {"storing", "stored"} => HasBinary(k)'
    Stay == \A l \in Keys : /\ HasBinary(l) => HasBinary(l)'
                            /\ HasSignature(l) => HasSignature(l)'
    StoreType == [Keys -> [binary : FileType, signature : FileType]]
<1>5. ASSUME NEW file \in FileType, file.state # "absent",
             store' = [store EXCEPT ![k].signature = file]
      PROVE  store' \in StoreType /\ Stay /\ HasSignature(k)'
  BY <1>0, <1>3, <1>5 DEF FilesTypeOK, HasBinary, HasSignature
<1>6. ASSUME NEW file \in FileType, file.state # "absent",
             store' = [store EXCEPT ![k].binary = file]
      PROVE  store' \in StoreType /\ Stay /\ HasBinary(k)'
  BY <1>0, <1>3, <1>6 DEF FilesTypeOK, HasBinary, HasSignature
<1>7. Created(u.attempt) \in FileType /\ Created(u.attempt).state # "absent"
  BY <1>4 DEF Created, FileType
<1>8. ASSUME NEW file
      PROVE  Written(file, u.attempt) \in FileType /\ Written(file, u.attempt).state # "absent"
  BY <1>4 DEF Written, FileType
<1>9. u.stage # "compile" /\ Signing => HasSignature(k)
  BY <1>0, <1>3 DEF StagesHaveFiles, FilesTypeOK, UploadType, Stages
<1>10. store' \in StoreType /\ Stay /\ \E stage : Goes(stage)
  <2>1. CASE CreateSignature(w, s)
    <3>1. store' \in StoreType /\ Stay /\ HasSignature(k)'
      BY <1>3, <1>5, <1>7, <2>1 DEF CreateSignature
    <3>2. Goes("signing")
      BY <2>1, <3>1 DEF CreateSignature, SetStage, Stages
    <3> QED
      BY <3>1, <3>2
  <2>2. CASE WriteSignature(w, s)
    <3>1. store' = [store EXCEPT ![k].signature = Written(store[k].signature, u.attempt)]
      BY <1>0, <1>3, <2>2 DEF WriteSignature, FilesTypeOK
    <3>2. store' \in StoreType /\ Stay /\ HasSignature(k)'
      BY <1>5, <1>8, <3>1
    <3>3. Goes("signed")
      BY <2>2, <3>2 DEF WriteSignature, SetStage, Stages
    <3> QED
      BY <3>2, <3>3
  <2>3. CASE CreateBinary(w, s)
    <3>1. store' \in StoreType /\ Stay /\ HasBinary(k)'
      BY <1>3, <1>6, <1>7, <2>3 DEF CreateBinary
    <3>2. Signing => HasSignature(k)'
      BY <1>3, <1>9, <2>3, <3>1 DEF CreateBinary
    <3>3. Goes("storing")
      BY <2>3, <3>1, <3>2 DEF CreateBinary, SetStage, Stages
    <3> QED
      BY <3>1, <3>3
  <2>4. CASE WriteBinary(w, s)
    <3>1. store' = [store EXCEPT ![k].binary = Written(store[k].binary, u.attempt)]
      BY <1>0, <1>3, <2>4 DEF WriteBinary, FilesTypeOK
    <3>2. store' \in StoreType /\ Stay /\ HasBinary(k)'
      BY <1>6, <1>8, <3>1
    <3>3. Signing => HasSignature(k)'
      BY <1>3, <1>9, <2>4, <3>2 DEF WriteBinary
    <3>4. Goes("stored")
      BY <2>4, <3>2, <3>3 DEF WriteBinary, SetStage, Stages
    <3> QED
      BY <3>2, <3>4
  <2>5. CASE CloseFails(w, s)
    <3>1. UNCHANGED store /\ u.stage \in {"signing", "storing"}
      BY <2>5 DEF CloseFails
    <3>2. store' \in StoreType /\ Stay
      BY <1>0, <3>1 DEF FilesTypeOK, HasBinary, HasSignature
    <3>3. Signing => HasSignature(k)'
      BY <1>3, <1>9, <3>1, <3>2
    <3>4. u.stage = "storing" => HasBinary(k)'
      BY <1>0, <1>3, <3>2 DEF StagesHaveFiles
    <3>5. Goes(IF u.stage = "signing" THEN "signed" ELSE "stored")
      BY <2>5, <3>1, <3>3, <3>4 DEF CloseFails, SetStage, Stages
    <3> QED
      BY <3>2, <3>5
  <2> QED
    BY <2>1, <2>2, <2>3, <2>4, <2>5 DEF UploadStep
<1>11. PICK stage : Goes(stage)
  BY <1>10
<1>12. FilesTypeOK'
  BY <1>0, <1>10, <1>11 DEF FilesTypeOK, UploadType
<1>13. UNCHANGED <<jobs, run>>
  BY <1>1 DEF queueVars, workerVars
<1>14. \A l \in Keys : HasFiles(l) => HasFiles(l)'
  BY <1>10 DEF HasFiles
<1>15. StagesHaveFiles'
  <2> SUFFICES ASSUME NEW v \in Workers, NEW t \in Slots, NEW l, l = run[v][t].key
               PROVE  LET q == upload'[v][t].stage
                      IN  /\ q # "none" => run[v][t].pc = "building"
                          /\ Signing /\ q \in {"signing", "signed", "storing", "stored"} =>
                                 HasSignature(l)'
                          /\ q \in {"storing", "stored"} => HasBinary(l)'
    BY <1>13 DEF StagesHaveFiles, HasBinary, HasSignature
  <2>1. CASE v = w /\ t = s
    <3>1. upload'[w][s].stage = stage
      BY <1>0, <1>11 DEF FilesTypeOK, UploadType
    <3> QED
      BY <1>0, <1>3, <1>11, <2>1, <3>1 DEF StagesHaveFiles
  <2>2. CASE v # w \/ t # s
    <3>1. upload'[v][t] = upload[v][t]
      BY <1>0, <1>11, <2>2 DEF FilesTypeOK
    <3>2. upload[v][t].stage # "none" => run[v][t].key \in Keys
      BY <1>0 DEF StagesHaveFiles, WorkerInv, GoroutinesAgree
    <3> QED
      BY <1>0, <1>10, <3>1, <3>2 DEF StagesHaveFiles
  <2> QED
    BY <2>1, <2>2
<1>16. VerdictsHaveFiles'
  <2>1. \A v \in Workers, t \in Slots : run[v][t].pc \in {"attempt", "job"} => run[v][t].key \in Keys
    BY <1>0 DEF WorkerInv, GoroutinesAgree
  <2> QED
    BY <1>0, <1>13, <1>14, <2>1 DEF VerdictsHaveFiles, HasFiles, HasBinary, HasSignature
<1>17. CompletedHasFiles'
  BY <1>0, <1>13, <1>14 DEF CompletedHasFiles, HasFiles, HasBinary, HasSignature
<1> QED
  BY <1>2, <1>12, <1>15, <1>16, <1>17 DEF FilesInv

-----------------------------------------------------------------------------
LEMMA FilesInvInit == Init /\ ArtifactsInit => FilesInv
<1> SUFFICES ASSUME Init, ArtifactsInit PROVE FilesInv
  OBVIOUS
<1>1. ServerInv
  BY ServerInvInit
<1>2. \A w \in Workers, s \in Slots : run[w][s].pc = "idle" /\ upload[w][s] = NoUpload
  BY DEF Init, WorkerInit, NoRun, ArtifactsInit
<1>3. \A k \in Keys : jobs[k].status = "absent"
  BY DEF Init, QueueInit, NoJob
<1>4. FilesTypeOK
  <2>1. 0 \in Number
    BY DEF Number
  <2>2. NoFile \in FileType /\ NoUpload \in UploadType
    BY <2>1 DEF NoFile, FileType, NoUpload, UploadType, Stages
  <2> QED
    BY <2>2 DEF ArtifactsInit, FilesTypeOK
<1>5. StagesHaveFiles
  BY <1>2 DEF StagesHaveFiles, NoUpload
<1> QED
  BY <1>1, <1>2, <1>3, <1>4, <1>5 DEF FilesInv, VerdictsHaveFiles, CompletedHasFiles

LEMMA FilesInvStep ==
    ASSUME FilesInv, [ArtifactsNext]_<<vars, artifactVars>>
    PROVE  FilesInv'
<1>1. ASSUME UNCHANGED <<vars, store, upload>>
      PROVE  FilesInv'
  <2>1. ServerInv'
    BY <1>1, ServerInvStep DEF FilesInv
  <2>2. UNCHANGED <<jobs, run>>
    BY <1>1 DEF vars, queueVars, workerVars
  <2> QED
    BY <1>1, <2>1, <2>2
       DEF FilesInv, FilesTypeOK, StagesHaveFiles, VerdictsHaveFiles, CompletedHasFiles,
           HasFiles, HasBinary, HasSignature
<1>2. ASSUME NEW d \in Downloads, DownloadStep(d)
      PROVE  FilesInv'
  BY <1>1, <1>2
     DEF DownloadStep, ReadStatus, OpenBinary, OpenSignature, CopySignature, CopyBinary
<1> QED
  BY <1>1, <1>2, ServerStepKeepsFiles, UploadKeepsFiles DEF ArtifactsNext, artifactVars

(* However a job was disturbed, by workers that lost it and build on, by   *)
(* failed uploads, rescues and forced rebuilds: once it is completed its   *)
(* binary exists, and its signature if there are any, so that no download  *)
(* fails for want of them.                                                 *)
THEOREM CompletedHasFilesHolds == ArtifactsSpec => []CompletedHasFiles
<1>1. FilesInv => CompletedHasFiles
  BY DEF FilesInv
<1> QED
  BY <1>1, FilesInvInit, FilesInvStep, PTL DEF ArtifactsSpec

-----------------------------------------------------------------------------
(* Undisturbed jobs: the one builder that works on such a job is the one   *)
(* that writes its files.                                                  *)

Whole(n) == [state |-> "whole", attempt |-> n]

\* The files of a job are those that its newest attempt has written.
Served(k) ==
    LET n == Len(attempts[k]) IN
    /\ store[k].binary = Whole(n)
    /\ Signing => store[k].signature = Whole(n)

\* The files of job k are those that the upload u, of its newest attempt, has
\* got to.
UploadAgrees(u, k) ==
    LET n == Len(attempts[k]) IN
    /\ u.attempt = n
    /\ Signing /\ u.stage = "signing" => store[k].signature = Created(n)
    /\ Signing /\ u.stage \in {"signed", "storing", "stored"} => store[k].signature = Whole(n)
    /\ u.stage = "storing" => store[k].binary = Created(n)
    /\ u.stage = "stored" => store[k].binary = Whole(n)

BuilderAgrees(w, s, k) ==
    /\ run[w][s].pc = "building" => UploadAgrees(upload[w][s], k)
    /\ run[w][s].pc # "building" /\ run[w][s].outcome = "completed" => Served(k)

FilesAgree(k) ==
    Clean(k) =>
        /\ jobs[k].status = "completed" => Served(k)
        /\ \A w \in Workers, s \in Slots : Builds(w, s, k) => BuilderAgrees(w, s, k)

DownloadTypeOK ==
    download \in [Downloads -> [pc : {"new", "binary", "signature", "copy", "rest", "done"},
                                key : Keys, reply : {"none", "not_ready", "error", "file"},
                                signature : FileType, binary : FileType]]

\* A handler that reads the files of a job reads those of its newest attempt.
DownloadAgrees(d) ==
    LET k == download[d].key IN
    /\ download[d].pc # "done" => download[d].reply = "none"
    /\ Clean(k) =>
           /\ download[d].pc \notin {"new", "done"} => jobs[k].status = "completed"
           /\ download[d].pc = "rest" /\ Signing => download[d].signature = Whole(Len(attempts[k]))
           /\ download[d].reply = "file" => Genuine(download[d])

\* What the tables and the workers promise of a job.
JobsInv == FilesInv /\ JobInv /\ QueueInv /\ HoldersInv /\ StoryInv

MatchInv == \A k \in Keys : FilesAgree(k)
ClientsInv == DownloadTypeOK /\ \A d \in Downloads : DownloadAgrees(d)

(* An upload that fails is a disturbance; all other steps of an upload, and *)
(* those of a download, are none of the server's.                          *)
LEMMA ArtifactsStepDoes ==
    ASSUME JobsInv, [ArtifactsNext]_<<vars, artifactVars>>
    PROVE  /\ JobInv'
           /\ [QueueNext]_queueVars
           /\ \A k \in Keys : JobStep(k) /\ DisturbancesGrow(k)
<1>0. JobInv /\ ServerInv
  BY DEF JobsInv, JobInv
<1>1. CASE [Next]_vars
  BY <1>0, <1>1, JobInvStep, StepDoes, StepDisturbs, ServerIssues
<1>2. CASE UNCHANGED <<queueVars, workerVars, rescue, req>> /\ Fault
  <2>1. FilesInv'
    BY FilesInvStep DEF JobsInv
  <2>2. JobInv'
    BY <1>0, <1>2, <2>1
       DEF FilesInv, JobInv, queueVars, workerVars, HandlersAgree, WorkersAgree, AbsentIsEmpty
  <2>3. ASSUME NEW k \in Keys
        PROVE  JobStep(k) /\ DisturbancesGrow(k)
    <3>1. /\ Holders(k)' = Holders(k) /\ TakenDown' = TakenDown /\ Forced(k)' = Forced(k)
          /\ Spent(k)' = Spent(k) /\ loop' = loop
      BY <1>2
         DEF queueVars, workerVars, Holders, Holds, Builds, Expected, TakenDown, Forced, Spent,
             Releasable
    <3>2. SameRow(k) /\ faults' = faults + 1
      BY <1>2 DEF queueVars, SameRow, SameOwner, Fault
    <3> QED
      BY <3>1, <3>2 DEF JobStep, Failing, Shrinks, DisturbancesGrow
  <2> QED
    BY <1>2, <2>2, <2>3 DEF queueVars
<1>3. ServerStep => Next
  BY DEF ServerStep
<1>4. ASSUME NEW w \in Workers, NEW s \in Slots, UploadStep(w, s)
      PROVE  UNCHANGED vars \/ (UNCHANGED <<queueVars, workerVars, rescue, req>> /\ Fault)
  BY <1>4
     DEF UploadStep, CreateSignature, WriteSignature, CreateBinary, WriteBinary, CloseFails
<1>5. ASSUME NEW d \in Downloads, DownloadStep(d)
      PROVE  UNCHANGED vars
  BY <1>5
     DEF DownloadStep, ReadStatus, OpenBinary, OpenSignature, CopySignature, CopyBinary
<1>6. [Next]_vars \/ (UNCHANGED <<queueVars, workerVars, rescue, req>> /\ Fault)
  BY <1>3, <1>4, <1>5 DEF ArtifactsNext
<1> QED
  BY <1>1, <1>2, <1>6

LEMMA JobsInvInit == Init /\ ArtifactsInit => JobsInv
<1> SUFFICES ASSUME Init, ArtifactsInit PROVE JobsInv
  OBVIOUS
<1>1. HoldersInv
  BY HoldersInvInit
<1>2. StoryInv
  BY StoryInvInit
<1>3. QueueInv
  BY InitInv DEF Init
<1> QED
  BY <1>1, <1>2, <1>3, FilesInvInit, JobInvInit DEF JobsInv

LEMMA JobsInvStep ==
    ASSUME JobsInv, [ArtifactsNext]_<<vars, artifactVars>>
    PROVE  JobsInv'
<1>1. JobInv' /\ QueueInv' /\ FilesInv'
  BY ArtifactsStepDoes, InvStep, FilesInvStep DEF JobsInv
<1>2. ASSUME NEW k \in Keys
      PROVE  HoldersBounded(k)' /\ StoryAgrees(k)'
  <2>1. JobInv /\ HoldersBounded(k) /\ StoryAgrees(k) /\ JobStep(k) /\ DisturbancesGrow(k)
    BY ArtifactsStepDoes DEF JobsInv, HoldersInv, StoryInv
  <2> QED
    BY <2>1, HoldersStep, StoryStep, FaultsNatural
<1> QED
  BY <1>1, <1>2 DEF JobsInv, HoldersInv, StoryInv

(* Who holds an undisturbed job owns it, and nobody else holds it.         *)
LEMMA HolderOwns ==
    ASSUME JobsInv, NEW k \in Keys, Clean(k), NEW w \in Workers, NEW i, NEW st,
           <<w, i, st>> \in Holders(k)
    PROVE  /\ Owns(w, k)
           /\ \A h \in Holders(k) : h = <<w, i, st>>
<1>1. /\ \A g, h \in Holders(k) : g = h
      /\ Tended(k)
  BY CleanHolders DEF JobsInv, HoldersInv
<1>2. PICK v \in Workers : Tends(v, k)
  BY <1>1 DEF Tended
<1>3. \E j, q : <<v, j, q>> \in Holders(k)
  <2>1. CASE InHand(v, k)
    <3>1. 0 \in 0 .. MaxConcurrent /\ "building" \in Statuses
      BY WorkerAssumption DEF Statuses
    <3>2. <<v, 0, "building">> \in Holders(k)
      BY <2>1, <3>1 DEF InHand, Holders, Holds
    <3> QED
      BY <3>2
  <2>2. CASE \E s \in Slots : Beats(v, s, k)
    BY <2>2, BuilderHolds DEF Beats, JobsInv
  <2> QED
    BY <1>2, <2>1, <2>2 DEF Tends
<1>4. v = w
  BY <1>1, <1>3
<1> QED
  BY <1>1, <1>2, <1>4 DEF Tends

(* So that the attempt it finds is the newest.                             *)
LEMMA OwnersAttempt ==
    ASSUME QueueInv, NEW w \in Workers, NEW k \in Keys, Owns(w, k)
    PROVE  AttemptOf(w, k) = Len(attempts[k])
<1> DEFINE S == {i \in DOMAIN attempts[k] : attempts[k][i].worker = w}
           n == Len(attempts[k])
<1>1. /\ attempts[k] \in Seq(Attempt) /\ attempts[k] # << >>
      /\ attempts[k][n].worker = w
  BY DEF QueueInv, QueueTypeOK, RowOK, Owns
<1>2. n \in S /\ n \in Nat /\ \A i \in S : i \in Nat /\ n >= i
  BY <1>1
<1> HIDE DEF S, n
<1>3. Max(S) \in S /\ \A y \in S : Max(S) >= y
  <2>1. \E x \in S : \A y \in S : x >= y
    BY <1>2
  <2> QED
    BY <2>1, Zenon DEF Max
<1>4. Max(S) = n
  <2>1. PICK m \in S : m = Max(S)
    BY <1>3
  <2>2. m \in Nat /\ n >= m /\ m >= n
    BY <1>2, <1>3, <2>1
  <2> QED
    BY <1>2, <2>1, <2>2
<1> QED
  BY <1>4 DEF AttemptOf, S, n

(* The goroutines that build an undisturbed job build it no longer when it *)
(* is in the queue or completed, and its attempts grow only by a claim.    *)
LEMMA CleanFilesStep ==
    ASSUME JobsInv, NEW k \in Keys, JobStep(k), DisturbancesGrow(k), Clean(k)'
    PROVE  /\ Clean(k)
           /\ \/ Claimed(k)
              \/ Len(attempts'[k]) = Len(attempts[k])
           /\ jobs[k].status = "completed" =>
                  jobs'[k].status = "completed" /\ ~ Claimed(k)
           /\ jobs'[k].status = "completed" /\ jobs[k].status # "completed" =>
                  \E w \in Workers, s \in Slots :
                     Builds(w, s, k) /\ run[w][s].pc = "job" /\ run[w][s].outcome = "completed"
<1>1. /\ Clean(k)
      /\ \/ Quiet(k) \/ HandedOver(k) \/ Recorded(k) \/ Concluded(k)
         \/ Claimed(k) \/ Inserted(k) \/ Retried(k)
  BY CleanStep DEF JobsInv, StoryInv
<1>2. attempts[k] \in Seq(Attempt)
  BY DEF JobsInv, QueueInv, QueueTypeOK
<1>3. CASE Quiet(k) \/ HandedOver(k) \/ Recorded(k)
  <2>1. jobs'[k].status = jobs[k].status
    BY <1>3 DEF Quiet, HandedOver, Recorded, SameRow, SameOwner
  <2>2. Len(attempts'[k]) = Len(attempts[k])
    <3>1. \A st \in Verdicts : st \in Statuses \ {"pending"} /\ ErrorOf(st) \in Errors
      BY DEF Verdicts, Statuses, Errors, ErrorOf
    <3>2. \/ attempts'[k] = attempts[k]
          \/ \E st \in Verdicts : attempts'[k] = Closed(attempts[k], Workers, st, ErrorOf(st))
      BY <1>3 DEF Quiet, HandedOver, Recorded, SameRow
    <3> QED
      BY <1>2, <3>1, <3>2, ClosedShape
  <2>3. jobs[k].status = "completed" => ~ Claimed(k)
    BY DEF Claimed, ClaimedBy
  <2> QED
    BY <1>1, <2>1, <2>2, <2>3
<1>4. CASE Concluded(k)
  <2>1. PICK w \in Workers, s \in Slots, st \in Verdicts :
           jobs'[k].status = st /\ <<w, s, st>> \in Holders(k)
    BY <1>4 DEF Concluded, Loses
  <2>2. Owns(w, k)
    BY <1>1, <2>1, HolderOwns
  <2>3. Builds(w, s, k) /\ st = Expected(w, s)
    BY <2>1, WorkerAssumption DEF Holders, Holds, Slots
  <2>4. run[w][s].pc = "job" /\ run[w][s].outcome = st
    BY <2>3 DEF Expected, Verdicts
  <2> QED
    BY <1>1, <1>4, <2>1, <2>2, <2>3, <2>4 DEF Concluded, Owns
<1>5. CASE Claimed(k)
  BY <1>1, <1>5 DEF Claimed, ClaimedBy
<1>6. CASE Inserted(k) \/ Retried(k)
  <2>1. jobs'[k].status = "pending" /\ attempts'[k] = attempts[k] /\ jobs[k].status # "completed"
    BY <1>6 DEF Inserted, Retried, Requeued, CanRetry
  <2> QED
    BY <1>1, <2>1
<1> QED
  BY <1>1, <1>3, <1>4, <1>5, <1>6

(* A goroutine that begins to build an undisturbed job takes it from its   *)
(* claim loop.                                                             *)
LEMMA BuilderBegins ==
    ASSUME JobsInv, JobInv', NEW k \in Keys, JobStep(k), DisturbancesGrow(k), Clean(k)',
           NEW w \in Workers, NEW s \in Slots, Builds(w, s, k)', ~ Builds(w, s, k)
    PROVE  <<w, 0, "building">> \in Holders(k) /\ attempts'[k] = attempts[k]
<1> DEFINE e == IF run'[w][s].pc = "job" THEN run'[w][s].outcome ELSE "building"
<1>1. <<w, s, e>> \in Holders(k)'
  <2>1. e \in Statuses
    BY DEF JobInv, ServerInv, WorkerInv, GoroutinesAgree, Verdicts, Statuses
  <2>2. s \in 0 .. MaxConcurrent /\ s # 0
    BY WorkerAssumption DEF Slots
  <2> QED
    BY <2>1, <2>2 DEF Holders, Holds, Expected
<1>2. ASSUME NEW st
      PROVE  <<w, s, st>> \notin Holders(k)
  <2>1. s # 0
    BY WorkerAssumption DEF Slots
  <2> QED
    BY <2>1 DEF Holders, Holds
<1>3. ~ Quiet(k) /\ ~ Concluded(k) /\ ~ Inserted(k) /\ ~ Retried(k)
  BY <1>1, <1>2 DEF Quiet, Shrinks, Concluded, Loses, Inserted, Retried, Requeued
<1>4. ~ Recorded(k)
  BY <1>1, <1>2 DEF Recorded, Swaps
<1>5. ~ Claimed(k)
  <2>1. \A v : <<w, s, e>> # <<v, 0, "building">>
    BY WorkerAssumption DEF Slots
  <2> QED
    BY <1>1, <1>2, <2>1 DEF Claimed
<1>6. HandedOver(k)
  BY <1>3, <1>4, <1>5, CleanStep DEF JobsInv, StoryInv
<1> QED
  BY <1>1, <1>2, <1>6 DEF HandedOver, SameRow, Swaps

(* A step of the server finds the files of an undisturbed job as its       *)
(* builder has left them: only that builder can complete the job.          *)
LEMMA ServerKeepsMatch ==
    ASSUME JobsInv, JobInv', ServerStep, NEW k \in Keys, FilesAgree(k),
           JobStep(k), DisturbancesGrow(k)
    PROVE  FilesAgree(k)'
<1> SUFFICES ASSUME Clean(k)'
             PROVE  /\ jobs'[k].status = "completed" => Served(k)'
                    /\ \A w \in Workers, s \in Slots : Builds(w, s, k)' => BuilderAgrees(w, s, k)'
  BY DEF FilesAgree
<1> DEFINE n == Len(attempts[k])
<1>0. /\ UNCHANGED store /\ Clean(k)
      /\ ServerInv /\ Next
  BY CleanFilesStep DEF ServerStep, JobsInv, JobInv
<1>1. Served(k) /\ Len(attempts'[k]) = n => Served(k)'
  BY <1>0 DEF Served, Whole
<1>2. ASSUME NEW w \in Workers, NEW s \in Slots, Builds(w, s, k)
      PROVE  /\ BuilderAgrees(w, s, k)
             /\ jobs[k].status = "building"
             /\ Len(attempts'[k]) = n
  <2>1. <<w, s, Expected(w, s)>> \in Holders(k)
    BY <1>2, BuilderHolds DEF JobsInv
  <2>2. Owns(w, k)
    BY <1>0, <2>1, HolderOwns
  <2>3. ~ Claimed(k)
    BY <2>2 DEF Owns, Claimed, ClaimedBy
  <2> QED
    BY <1>0, <1>2, <2>2, <2>3, CleanFilesStep DEF FilesAgree, Owns
<1>3. ASSUME jobs'[k].status = "completed"
      PROVE  Served(k)'
  <2>1. CASE jobs[k].status = "completed"
    <3>1. Len(attempts'[k]) = n
      BY <2>1, CleanFilesStep
    <3> QED
      BY <1>0, <1>1, <2>1, <3>1 DEF FilesAgree
  <2>2. CASE jobs[k].status # "completed"
    <3>1. PICK w \in Workers, s \in Slots :
             Builds(w, s, k) /\ run[w][s].pc = "job" /\ run[w][s].outcome = "completed"
      BY <1>3, <2>2, CleanFilesStep
    <3> QED
      BY <1>1, <1>2, <3>1 DEF BuilderAgrees
  <2> QED
    BY <2>1, <2>2
<1>4. ASSUME NEW w \in Workers, NEW s \in Slots, Builds(w, s, k)'
      PROVE  BuilderAgrees(w, s, k)'
  <2>0. Continues(w, s)
    BY <1>0, GoroutinesContinue
  <2>1. CASE Builds(w, s, k)
    <3>1. BuilderAgrees(w, s, k) /\ Len(attempts'[k]) = n
      BY <1>2, <2>1
    <3>2. GoesOn(run[w][s], run'[w][s])
      BY <1>4, <2>0, <2>1 DEF Continues, Builds
    <3>3. CASE run'[w][s].pc = "building"
      <4>1. run[w][s].pc = "building" /\ upload'[w][s] = upload[w][s]
        BY <3>2, <3>3, UploadFollows DEF GoesOn
      <4> QED
        BY <1>0, <3>1, <3>3, <4>1 DEF BuilderAgrees, UploadAgrees, Whole, Created
    <3>4. CASE run'[w][s].pc # "building" /\ run'[w][s].outcome = "completed"
      <4>1. CASE run[w][s].pc # "building" /\ run[w][s].outcome = "completed"
        BY <1>1, <3>1, <3>4, <4>1 DEF BuilderAgrees
      <4>2. CASE run[w][s].pc = "building" /\ run'[w][s].pc = "attempt"
        <5>1. upload[w][s].stage = "stored"
          BY <3>4, <4>2 DEF ServerStep, Finished
        <5>2. Served(k)
          BY <3>1, <4>2, <5>1 DEF BuilderAgrees, UploadAgrees, Served
        <5> QED
          BY <1>1, <3>1, <3>4, <5>2 DEF BuilderAgrees
      <4> QED
        BY <1>4, <2>1, <3>2, <3>4, <4>1, <4>2 DEF GoesOn, Builds
    <3> QED
      BY <3>3, <3>4 DEF BuilderAgrees
  <2>2. CASE ~ Builds(w, s, k)
    <3>1. <<w, 0, "building">> \in Holders(k) /\ attempts'[k] = attempts[k]
      BY <1>4, <2>2, BuilderBegins
    <3>2. AttemptOf(w, k) = n
      BY <1>0, <3>1, HolderOwns, OwnersAttempt DEF JobsInv
    <3>3. run'[w][s].key = k /\ run'[w][s].pc = "building" /\ run[w][s].pc = "idle"
      BY <1>4, <2>0, <2>2 DEF Continues, GoesOn, Builds
    <3>4. upload'[w][s] = [stage |-> "compile", attempt |-> AttemptOf(w, k)]
      BY <3>3 DEF ServerStep
    <3>5. UploadAgrees(upload[w][s], k)'
      BY <3>1, <3>2, <3>4 DEF UploadAgrees
    <3> QED
      BY <3>3, <3>5 DEF BuilderAgrees
  <2> QED
    BY <2>1, <2>2
<1> QED
  BY <1>3, <1>4

(* The upload of a goroutine writes the files of the job that it builds,   *)
(* and no other goroutine builds that job.                                 *)
LEMMA UploadKeepsMatch ==
    ASSUME JobsInv, NEW w \in Workers, NEW s \in Slots, UploadStep(w, s),
           NEW k \in Keys, FilesAgree(k)
    PROVE  FilesAgree(k)'
<1> DEFINE u == upload[w][s]
           l == run[w][s].key
           n == Len(attempts[k])
<1>0. /\ store \in [Keys -> [binary : FileType, signature : FileType]]
      /\ upload \in [Workers -> [Slots -> UploadType]]
      /\ StagesHaveFiles /\ JobInv
      /\ faults \in Nat
  BY FaultsNatural DEF JobsInv, FilesInv, FilesTypeOK
<1>1. CASE CloseFails(w, s)
  <2>1. faults' = faults + 1
    BY <1>1 DEF CloseFails, Fault
  <2>2. faults' # 0
    BY <1>0, <2>1
  <2> QED
    BY <2>2 DEF FilesAgree, Clean
<1>2. CASE UNCHANGED vars /\ ~ CloseFails(w, s)
  <2>1. /\ UNCHANGED <<jobs, attempts, run>>
        /\ Clean(k)' = Clean(k)
        /\ \A v \in Workers, t \in Slots : Builds(v, t, k)' = Builds(v, t, k)
    BY <1>2 DEF vars, queueVars, workerVars, Clean, TakenDown, Forced, Builds
  <2>2. \E stage \in Stages : upload' = [upload EXCEPT ![w][s].stage = stage]
    BY <1>2 DEF UploadStep, CreateSignature, WriteSignature, CreateBinary, WriteBinary,
                CloseFails, SetStage, Stages
  <2>3. u.stage # "none"
    BY DEF UploadStep, CreateSignature, WriteSignature, CreateBinary, WriteBinary, CloseFails
  <2>4. run[w][s].pc = "building" /\ l \in Keys
    BY <1>0, <2>3 DEF StagesHaveFiles, JobInv, ServerInv, WorkerInv, GoroutinesAgree
  <2>5. ASSUME NEW v \in Workers, NEW t \in Slots, v # w \/ t # s
        PROVE  upload'[v][t] = upload[v][t]
    BY <1>0, <2>2, <2>5
  <2>6. CASE l # k
    <3>1. store'[k] = store[k]
      BY <1>0, <1>2, <2>4, <2>6
         DEF UploadStep, CreateSignature, WriteSignature, CreateBinary, WriteBinary
    <3>2. \A v \in Workers, t \in Slots : Builds(v, t, k) => upload'[v][t] = upload[v][t]
      BY <2>5, <2>6 DEF Builds
    <3>3. Served(k)' = Served(k)
      BY <2>1, <3>1 DEF Served, Whole
    <3>4. \A v \in Workers, t \in Slots :
             Builds(v, t, k) => BuilderAgrees(v, t, k)' = BuilderAgrees(v, t, k)
      BY <2>1, <3>1, <3>2, <3>3 DEF BuilderAgrees, UploadAgrees, Whole, Created
    <3> QED
      BY <2>1, <3>3, <3>4 DEF FilesAgree
  <2>7. CASE l = k /\ Clean(k)
    <3>1. Builds(w, s, k)
      BY <2>4, <2>7 DEF Builds
    <3>2. <<w, s, Expected(w, s)>> \in Holders(k)
      BY <1>0, <3>1, BuilderHolds
    <3>3. /\ Owns(w, k)
          /\ \A h \in Holders(k) : h = <<w, s, Expected(w, s)>>
      BY <2>7, <3>2, HolderOwns
    <3>4. ASSUME NEW v \in Workers, NEW t \in Slots, Builds(v, t, k)
          PROVE  v = w /\ t = s
      BY <1>0, <3>3, <3>4, BuilderHolds
    <3>5. UploadAgrees(u, k)
      BY <2>4, <2>7, <3>1 DEF FilesAgree, BuilderAgrees
    <3>6. UploadAgrees(upload[w][s], k)'
      <4>1. /\ u.attempt = n /\ u \in UploadType /\ upload'[w][s].attempt = n
            /\ upload'[w][s].stage \in Stages
        BY <1>0, <2>2, <3>5 DEF UploadAgrees, UploadType
      <4>2. CASE CreateSignature(w, s)
        <5>1. upload'[w][s].stage = "signing" /\ store'[k].signature = Created(n)
          BY <1>0, <2>7, <4>1, <4>2 DEF CreateSignature, SetStage, UploadType
        <5> QED
          BY <2>1, <4>1, <5>1 DEF UploadAgrees, Created
      <4>3. CASE WriteSignature(w, s)
        <5>1. /\ upload'[w][s].stage = "signed" /\ u.stage = "signing"
              /\ store'[k].signature = Written(store[k].signature, n)
          BY <1>0, <2>7, <4>1, <4>3 DEF WriteSignature, SetStage, UploadType
        <5>2. Signing => store'[k].signature = Whole(n)
          BY <3>5, <5>1 DEF UploadAgrees, Written, Whole
        <5> QED
          BY <2>1, <4>1, <5>1, <5>2 DEF UploadAgrees, Whole
      <4>4. CASE CreateBinary(w, s)
        <5>1. /\ upload'[w][s].stage = "storing" /\ (Signing => u.stage = "signed")
              /\ store'[k].binary = Created(n) /\ store'[k].signature = store[k].signature
          BY <1>0, <2>7, <4>1, <4>4 DEF CreateBinary, SetStage, UploadType
        <5> QED
          BY <2>1, <3>5, <4>1, <5>1 DEF UploadAgrees, Created, Whole
      <4>5. CASE WriteBinary(w, s)
        <5>1. /\ upload'[w][s].stage = "stored" /\ u.stage = "storing"
              /\ store'[k].binary = Written(store[k].binary, n)
              /\ store'[k].signature = store[k].signature
          BY <1>0, <2>7, <4>1, <4>5 DEF WriteBinary, SetStage, UploadType
        <5>2. store'[k].binary = Whole(n)
          BY <3>5, <5>1 DEF UploadAgrees, Written, Whole
        <5> QED
          BY <2>1, <3>5, <4>1, <5>1, <5>2 DEF UploadAgrees, Whole
      <4> QED
        BY <1>2, <4>2, <4>3, <4>4, <4>5 DEF UploadStep
    <3>7. BuilderAgrees(w, s, k)'
      BY <2>1, <2>4, <3>6 DEF BuilderAgrees
    <3> QED
      BY <2>1, <3>3, <3>4, <3>7 DEF FilesAgree, Owns
  <2> QED
    BY <2>1, <2>6, <2>7 DEF FilesAgree
<1>3. CloseFails(w, s) \/ UNCHANGED vars
  BY DEF UploadStep, CreateSignature, WriteSignature, CreateBinary, WriteBinary
<1> QED
  BY <1>1, <1>2, <1>3

LEMMA MatchInvInit == Init /\ ArtifactsInit => MatchInv
BY DEF Init, QueueInit, NoJob, WorkerInit, NoRun, Builds, FilesAgree, MatchInv

LEMMA MatchInvStep ==
    ASSUME JobsInv, MatchInv, [ArtifactsNext]_<<vars, artifactVars>>
    PROVE  MatchInv'
<1>0. JobInv' /\ \A k \in Keys : JobStep(k) /\ DisturbancesGrow(k)
  BY ArtifactsStepDoes
<1>1. CASE ServerStep
  BY <1>0, <1>1, ServerKeepsMatch DEF MatchInv
<1>2. CASE \E w \in Workers, s \in Slots : UploadStep(w, s)
  BY <1>2, UploadKeepsMatch DEF MatchInv
<1>3. CASE UNCHANGED <<vars, store, upload>>
  <2>1. ASSUME NEW k \in Keys
        PROVE  FilesAgree(k)' = FilesAgree(k)
    BY <1>3
       DEF vars, queueVars, workerVars, Clean, TakenDown, Forced, Builds, FilesAgree,
           BuilderAgrees, UploadAgrees, Served, Whole, Created
  <2> QED
    BY <2>1 DEF MatchInv
<1>4. ASSUME NEW d \in Downloads, DownloadStep(d)
      PROVE  UNCHANGED <<vars, store, upload>>
  BY <1>4
     DEF DownloadStep, ReadStatus, OpenBinary, OpenSignature, CopySignature, CopyBinary
<1> QED
  BY <1>1, <1>2, <1>3, <1>4 DEF ArtifactsNext, artifactVars

(* Once an undisturbed job is completed its files change no more, so that  *)
(* a handler may read one after the other.                                 *)
LEMMA OtherStepsKeepDownloads ==
    ASSUME JobsInv, ClientsInv, NEW d \in Downloads, download'[d] = download[d],
           \A k \in Keys : JobStep(k) /\ DisturbancesGrow(k)
    PROVE  DownloadAgrees(d)'
<1> DEFINE k == download[d].key
<1>0. k \in Keys /\ DownloadAgrees(d)
  BY DEF ClientsInv, DownloadTypeOK
<1>1. CASE Clean(k)'
  <2>1. /\ Clean(k)
        /\ jobs[k].status = "completed" =>
               jobs'[k].status = "completed" /\ Len(attempts'[k]) = Len(attempts[k])
    BY <1>0, <1>1, CleanFilesStep
  <2> QED
    BY <1>0, <2>1 DEF DownloadAgrees, Whole, Genuine
<1>2. CASE ~ Clean(k)'
  BY <1>0, <1>2 DEF DownloadAgrees
<1> QED
  BY <1>1, <1>2

LEMMA DownloadKeepsClients ==
    ASSUME JobsInv, MatchInv, ClientsInv, NEW e \in Downloads, DownloadStep(e)
    PROVE  ClientsInv'
<1> DEFINE D == [pc : {"new", "binary", "signature", "copy", "rest", "done"},
                 key : Keys, reply : {"none", "not_ready", "error", "file"},
                 signature : FileType, binary : FileType]
           r == download[e]
           q == download'[e]
           k == download[e].key
<1>0. /\ download \in [Downloads -> D] /\ r \in D /\ k \in Keys
      /\ DownloadAgrees(e)
      /\ store[k] \in [binary : FileType, signature : FileType]
      /\ FilesAgree(k)
  BY DEF ClientsInv, DownloadTypeOK, JobsInv, FilesInv, FilesTypeOK, MatchInv
<1>1. UNCHANGED <<vars, store, upload>>
  BY DEF DownloadStep, ReadStatus, OpenBinary, OpenSignature, CopySignature, CopyBinary
<1>2. /\ UNCHANGED <<jobs, attempts>>
      /\ \A l \in Keys : Clean(l)' = Clean(l)
  BY <1>1 DEF vars, queueVars, workerVars, Clean, TakenDown, Forced
<1>3. \/ /\ \/ r.pc = "new" /\ jobs[k].status = "completed"
            \/ r.pc \in {"binary", "signature"}
         /\ \E pc \in {"binary", "signature", "copy"} : q = [r EXCEPT !.pc = pc]
         /\ download' = [download EXCEPT ![e] = q]
      \/ /\ r.pc \in {"new", "binary", "signature"}
         /\ \E reply \in {"not_ready", "error"} : q = [r EXCEPT !.pc = "done", !.reply = reply]
         /\ download' = [download EXCEPT ![e] = q]
      \/ /\ r.pc = "binary" /\ ~ Signing
         /\ q = [r EXCEPT !.pc = "rest"]
         /\ download' = [download EXCEPT ![e] = q]
      \/ /\ r.pc = "copy"
         /\ q = [r EXCEPT !.pc = "rest", !.signature = store[k].signature]
         /\ download' = [download EXCEPT ![e] = q]
      \/ /\ r.pc = "rest"
         /\ q = [r EXCEPT !.pc = "done", !.reply = "file", !.binary = store[k].binary]
         /\ download' = [download EXCEPT ![e] = q]
  <2>1. ASSUME NEW x, SetDownload(e, x)
        PROVE  q = x /\ download' = [download EXCEPT ![e] = q]
    BY <1>0, <2>1 DEF SetDownload
  <2>2. CASE ReadStatus(e)
    BY <2>1, <2>2 DEF ReadStatus, Refuse, DownloadGoesTo
  <2>3. CASE OpenBinary(e)
    BY <2>1, <2>3 DEF OpenBinary, Refuse, DownloadGoesTo
  <2>4. CASE OpenSignature(e)
    BY <2>1, <2>4 DEF OpenSignature, Refuse, DownloadGoesTo
  <2>5. CASE CopySignature(e)
    BY <2>1, <2>5 DEF CopySignature
  <2>6. CASE CopyBinary(e)
    BY <2>1, <2>6 DEF CopyBinary
  <2> QED
    BY <2>2, <2>3, <2>4, <2>5, <2>6 DEF DownloadStep
<1>4. q \in D /\ q.key = k
  BY <1>0, <1>3
<1>5. DownloadTypeOK'
  BY <1>0, <1>3, <1>4 DEF DownloadTypeOK
<1>6. q.pc # "done" => q.reply = "none"
  BY <1>0, <1>3 DEF DownloadAgrees
<1>7. ASSUME Clean(k)
      PROVE  /\ q.pc \notin {"new", "done"} => jobs[k].status = "completed"
             /\ q.pc = "rest" /\ Signing => q.signature = Whole(Len(attempts[k]))
             /\ q.reply = "file" => Genuine(q)
  <2>1. r.pc \notin {"new", "done"} => jobs[k].status = "completed" /\ Served(k)
    BY <1>0, <1>7 DEF DownloadAgrees, FilesAgree
  <2>2. q.pc \notin {"new", "done"} => jobs[k].status = "completed"
    BY <1>0, <1>3, <2>1
  <2>3. q.pc = "rest" /\ Signing => q.signature = Whole(Len(attempts[k]))
    BY <1>0, <1>3, <2>1 DEF Served
  <2>4. ASSUME q.reply = "file"
        PROVE  Genuine(q)
    <3>1. r.pc = "rest" /\ q = [r EXCEPT !.pc = "done", !.reply = "file", !.binary = store[k].binary]
      BY <1>0, <1>3, <2>4 DEF DownloadAgrees
    <3>2. q.binary = Whole(Len(attempts[k])) /\ q.signature = r.signature
      BY <1>0, <2>1, <3>1 DEF Served
    <3>3. Signing => r.signature = Whole(Len(attempts[k]))
      BY <1>0, <1>7, <3>1 DEF DownloadAgrees
    <3> QED
      BY <3>2, <3>3 DEF Genuine, Whole
  <2> QED
    BY <2>2, <2>3, <2>4
<1>8. DownloadAgrees(e)'
  <2>1. Genuine(download[e])' <=> Genuine(q)
    BY DEF Genuine
  <2> QED
    BY <1>0, <1>2, <1>4, <1>6, <1>7, <2>1 DEF DownloadAgrees, Whole
<1>9. ASSUME NEW d \in Downloads, d # e
      PROVE  DownloadAgrees(d)'
  <2>1. download'[d] = download[d] /\ download[d].key \in Keys /\ DownloadAgrees(d)
    BY <1>0, <1>3, <1>9 DEF ClientsInv
  <2> QED
    BY <1>2, <2>1 DEF DownloadAgrees, Genuine, Whole
<1> QED
  BY <1>5, <1>8, <1>9 DEF ClientsInv

LEMMA ClientsInvInit == Init /\ ArtifactsInit => ClientsInv
<1> SUFFICES ASSUME Init, ArtifactsInit PROVE ClientsInv
  OBVIOUS
<1>1. NoFile \in FileType
  BY DEF NoFile, FileType, Number
<1>2. DownloadTypeOK
  BY <1>1 DEF ArtifactsInit, DownloadTypeOK
<1>3. \A d \in Downloads : download[d].pc = "new" /\ download[d].reply = "none"
  BY DEF ArtifactsInit
<1> QED
  BY <1>2, <1>3 DEF ClientsInv, DownloadAgrees

LEMMA ClientsInvStep ==
    ASSUME JobsInv, MatchInv, ClientsInv, [ArtifactsNext]_<<vars, artifactVars>>
    PROVE  ClientsInv'
<1>1. CASE UNCHANGED download
  <2>1. \A d \in Downloads : DownloadAgrees(d)'
    BY <1>1, ArtifactsStepDoes, OtherStepsKeepDownloads
  <2> QED
    BY <1>1, <2>1 DEF ClientsInv, DownloadTypeOK
<1>2. ASSUME NEW w \in Workers, NEW s \in Slots, UploadStep(w, s)
      PROVE  UNCHANGED download
  BY <1>2
     DEF UploadStep, CreateSignature, WriteSignature, CreateBinary, WriteBinary, CloseFails
<1> QED
  BY <1>1, <1>2, DownloadKeepsClients DEF ArtifactsNext, ServerStep, artifactVars

LEMMA ArtifactsInvHolds == ArtifactsSpec => [](JobsInv /\ MatchInv /\ ClientsInv)
<1> DEFINE Inv == JobsInv /\ MatchInv /\ ClientsInv
<1>1. Init /\ ArtifactsInit => Inv
  BY JobsInvInit, MatchInvInit, ClientsInvInit
<1>2. Inv /\ [ArtifactsNext]_<<vars, artifactVars>> => Inv'
  BY JobsInvStep, MatchInvStep, ClientsInvStep
<1> QED
  BY <1>1, <1>2, PTL DEF ArtifactsSpec

LEMMA UndisturbedJob ==
    ASSUME JobsInv, NEW k \in Keys, Undisturbed(k)
    PROVE  Clean(k)
BY FaultsNatural, UndisturbedIsClean DEF JobsInv, HoldersInv, HoldersBounded

(* A completed job that nothing disturbed has the two files that its last  *)
(* attempt wrote, whole, although earlier attempts may have failed halfway *)
(* through theirs: nobody but the goroutine whose verdict completes the    *)
(* job has written to them since it began.                                 *)
THEOREM ArtifactsMatchHolds == ArtifactsSpec => []ArtifactsMatch
<1>1. ASSUME JobsInv, MatchInv
      PROVE  ArtifactsMatch
  <2>1. ASSUME NEW k \in Keys, jobs[k].status = "completed", Undisturbed(k)
        PROVE  Served(k)
    BY <1>1, <2>1, UndisturbedJob DEF MatchInv, FilesAgree
  <2>2. ASSUME NEW k \in Keys, Served(k)
        PROVE  Genuine(store[k]) /\ store[k].binary.attempt = Len(attempts[k])
    <3>1. store[k].binary = Whole(Len(attempts[k]))
      BY <2>2 DEF Served
    <3>2. Signing => store[k].signature = store[k].binary
      BY <2>2 DEF Served
    <3> QED
      BY <3>1, <3>2 DEF Genuine, Whole
  <2> QED
    BY <2>1, <2>2 DEF ArtifactsMatch
<1> QED
  BY <1>1, ArtifactsInvHolds, PTL

(* What a client downloads of an undisturbed job is a binary and the       *)
(* signature of that binary, although the handler looks at the job and     *)
(* then reads one file after the other with no lock.                       *)
THEOREM DownloadIsGenuineHolds == ArtifactsSpec => []DownloadIsGenuine
<1>1. ASSUME JobsInv, ClientsInv
      PROVE  DownloadIsGenuine
  BY <1>1, UndisturbedJob DEF DownloadIsGenuine, ClientsInv, DownloadTypeOK, DownloadAgrees
<1> QED
  BY <1>1, ArtifactsInvHolds, PTL
=============================================================================
