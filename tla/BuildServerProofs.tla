-------------------------- MODULE BuildServerProofs --------------------------
(***************************************************************************)
(* What the composed server guarantees for any number of workers, slots,   *)
(* jobs, requests and overlapping rescue cycles, and for any number of     *)
(* failures: it uses the tables as BuildQueue allows, so that the theorems *)
(* about the tables hold of it, and a rescue leaves no open attempt.       *)
(***************************************************************************)
EXTENDS BuildServer, WorkerProofs, BuildQueueProofs

\* A statement of a program, which anything but time is.
Statement ==
    \/ \E w \in Workers, k \in Keys : WorkerStatement(w, k)
    \/ JanitorStatement
    \/ \E k \in Keys : ApiStatement(k)

-----------------------------------------------------------------------------
(* The programs issue no other statements than those of the queue.         *)

LEMMA WorkerIssues ==
    ASSUME QueueTypeOK, WorkerInv, NEW w \in Workers, WorkerStep(w)
    PROVE  Statement \/ UNCHANGED queueVars
<1>1. CASE LoopStep(w)
  BY <1>1 DEF LoopStep, TryClaim, ClaimOne, ClaimNone, ClaimFails, Register, LoopSeesStop,
              FillSem, StartReturns, Statement, WorkerStatement
<1>2. ASSUME NEW s \in Slots, RunStep(w, s)
      PROVE  Statement \/ UNCHANGED queueVars
  <2>1. /\ run[w][s].pc # "idle" => run[w][s].key \in Keys
        /\ run[w][s].pc \in {"attempt", "job"} => run[w][s].outcome \in Verdicts
    BY DEF WorkerInv, GoroutinesAgree
  <2>2. CASE RecordAttempt(w, s)
    BY <2>1, <2>2 DEF RecordAttempt, Statement, WorkerStatement
  <2>3. CASE RecordJob(w, s)
    BY <2>1, <2>3 DEF RecordJob, Statement, WorkerStatement
  <2> QED
    BY <1>2, <2>2, <2>3 DEF RunStep, BuildReturns, RecordFails, RemoveActive, ReleaseSem
<1>3. ASSUME NEW s \in Slots, BeatStep(w, s)
      PROVE  Statement \/ UNCHANGED queueVars
  <2>1. CASE HeartbeatFails(w, s)
    BY <2>1 DEF HeartbeatFails
  <2>2. CASE Heartbeat(w, s)
    <3> DEFINE k == run[w][s].key
    <3>1. UpdateHeartbeat(k, w)
      BY <2>2 DEF Heartbeat
    <3>2. CASE k \in Keys
      BY <3>1, <3>2 DEF Statement, WorkerStatement
    <3>3. CASE k \notin Keys
      BY <3>1, <3>3 DEF UpdateHeartbeat, QueueTypeOK, queueVars
    <3> QED
      BY <3>2, <3>3
  <2> QED
    BY <1>3, <2>1, <2>2 DEF BeatStep
<1>4. CASE WatchStep(w)
  <2>1. watch[w].pc = "row" => watch[w].key \in Keys
    BY DEF WorkerInv, GoroutinesAgree, WorkerTypeOK
  <2>2. ASSUME NEW k \in Keys, ReleaseFirst(w, k)
        PROVE  Statement
    BY <2>2 DEF ReleaseFirst, Statement, WorkerStatement
  <2>3. CASE ReleaseSecond(w)
    BY <2>1, <2>3 DEF ReleaseSecond, Statement, WorkerStatement
  <2> QED
    BY <1>4, <2>2, <2>3 DEF WatchStep, Preempt, BeginRelease, ReleaseFails, CancelJob, ReleaseDone
<1>5. CASE ProcessStep(w)
  BY <1>5 DEF ProcessStep, RequestStop, Exit, Crash, ProcessEnds
<1> QED
  BY <1>1, <1>2, <1>3, <1>4, <1>5 DEF WorkerStep

LEMMA CutoffInRange ==
    ASSUME JanitorTypeOK, NEW j \in Cycles
    PROVE  Cutoff(j) \in Cutoffs /\ Cutoff(j) \in Nat
BY BoundsAssumption DEF JanitorTypeOK, Cutoff, Cutoffs

LEMMA JanitorIssues ==
    ASSUME JanitorTypeOK, JanitorStep
    PROVE  Statement \/ UNCHANGED queueVars
BY CutoffInRange
   DEF JanitorStep, RescueStep, RescueBegins, RescueFirst, RescueSecond, RescueFails, RetryCycle,
       Statement, JanitorStatement

LEMMA ApiIssues ==
    ASSUME ApiTypeOK, ApiStep
    PROVE  Statement \/ UNCHANGED queueVars
<1>1. PICK c \in Requests : \/ ArriveBuild(c) \/ ArriveCompat(c) \/ HandlerStep(c)
                            \/ WriteDeadline(c) \/ GiveUp(c)
  BY DEF ApiStep
<1>2. req[c].key \in Keys
  BY DEF ApiTypeOK, Request
<1> QED
  BY <1>1, <1>2
     DEF ArriveBuild, ArriveCompat, Create, HandlerStep, ReadBuild, ForceReset, Reread,
         ReadCompat, Poll, ApiFails, WriteDeadline, GiveUp, Statement, ApiStatement

-----------------------------------------------------------------------------
(* Type correctness of janitor and handlers.                               *)

LEMMA JanitorKeepsTypes ==
    ASSUME JanitorTypeOK, faults \in 0 .. MaxFaults, JanitorStep
    PROVE  JanitorTypeOK' /\ faults' \in 0 .. MaxFaults
<1>1. CASE RetryCycle
  BY <1>1 DEF RetryCycle, JanitorTypeOK
<1>2. ASSUME NEW j \in Cycles, RescueStep(j)
      PROVE  JanitorTypeOK' /\ faults' \in 0 .. MaxFaults
  BY <1>2, BoundsAssumption, FaultsAssumption
     DEF RescueStep, RescueBegins, RescueFirst, RescueSecond, RescueFails, IdleCycle, Fault,
         JanitorTypeOK
<1> QED
  BY <1>1, <1>2 DEF JanitorStep

LEMMA ApiKeepsTypes ==
    ASSUME ApiTypeOK, faults \in 0 .. MaxFaults, ApiStep
    PROVE  ApiTypeOK' /\ faults' \in 0 .. MaxFaults
<1>1. PICK c \in Requests : \/ ArriveBuild(c) \/ ArriveCompat(c) \/ HandlerStep(c)
                            \/ WriteDeadline(c) \/ GiveUp(c)
  BY DEF ApiStep
<1>2. faults' \in 0 .. MaxFaults
  BY <1>1, FaultsAssumption
     DEF ArriveBuild, ArriveCompat, Create, HandlerStep, ReadBuild, ForceReset, Reread,
         ReadCompat, Poll, ApiFails, WriteDeadline, GiveUp, Fault
<1>3. \/ \E pc \in {"read", "reset", "poll", "late"} : GoTo(c, pc)
      \/ req' = [req EXCEPT ![c].pc = "reread", ![c].reset = TRUE]
      \/ \E reply \in Replies : Reply(c, reply)
  BY <1>1
     DEF ArriveBuild, ArriveCompat, Create, HandlerStep, ReadBuild, ForceReset, Reread, Answer,
         ReadCompat, Poll, ApiFails, WriteDeadline, GiveUp, Replies
<1>4. req[c] \in Request
  BY DEF ApiTypeOK
<1>5. CASE \E pc \in {"read", "reset", "poll", "late"} : GoTo(c, pc)
  BY <1>2, <1>4, <1>5 DEF ApiTypeOK, Request, GoTo
<1>6. CASE req' = [req EXCEPT ![c].pc = "reread", ![c].reset = TRUE]
  BY <1>2, <1>4, <1>6 DEF ApiTypeOK, Request
<1>7. CASE \E reply \in Replies : Reply(c, reply)
  <2>1. \E reply \in Replies : req' = [req EXCEPT ![c].pc = "done", ![c].reply = reply]
    BY <1>7 DEF Reply, Replies
  <2>2. PICK reply \in Replies :
           req' = [req EXCEPT ![c] = [req[c] EXCEPT !.pc = "done", !.reply = reply]]
    BY <2>1
  <2>3. [req[c] EXCEPT !.pc = "done", !.reply = reply] \in Request
    BY <1>4 DEF Request
  <2> QED
    BY <1>2, <2>2, <2>3 DEF ApiTypeOK
<1> QED
  BY <1>3, <1>5, <1>6, <1>7

-----------------------------------------------------------------------------
(* Rescue cycles.                                                          *)

AllClosed(history) == \A i \in DOMAIN history : history[i].status # "building"

\* Between the statements of a cycle: what is stuck has no open attempt.
StuckAreClosed ==
    \A j \in Cycles : rescue[j].pc = "jobs" =>
        \A k \in Keys : IsStuck(k, Cutoff(j)) => AllClosed(attempts[k])

ServerInv ==
    /\ QueueTypeOK
    /\ WorkerInv
    /\ JanitorTypeOK
    /\ ApiTypeOK
    /\ StuckAreClosed

(* Closing attempts leaves none open that was not.                         *)
LEMMA ClosedStays ==
    ASSUME NEW h, NEW W, NEW st, NEW err, AllClosed(h)
    PROVE  AllClosed(Closed(h, W, st, err))
BY DEF AllClosed, Closed

(* No statement makes a job stuck, or opens an attempt of one that is.     *)
LEMMA NoNewlyStuck ==
    ASSUME QueueTypeOK, Statement, NEW cutoff \in Nat, NEW k \in Keys,
           jobs'[k].status = "building", jobs'[k].heartbeat > cutoff
    PROVE  IsStuck(k, cutoff) /\ (AllClosed(attempts[k]) => AllClosed(attempts'[k]))
<1>0. /\ jobs \in [Keys -> Job] /\ attempts \in [Keys -> Seq(Attempt)]
      /\ jobs[k] \in Job /\ attempts[k] \in Seq(Attempt)
  BY DEF QueueTypeOK
<1>1. ASSUME UNCHANGED jobs, AllClosed(attempts[k]) => AllClosed(attempts'[k])
      PROVE  IsStuck(k, cutoff) /\ (AllClosed(attempts[k]) => AllClosed(attempts'[k]))
  BY <1>1 DEF IsStuck
<1>2. ASSUME UNCHANGED attempts, jobs'[k] # jobs[k] => jobs'[k].status # "building" \/ jobs'[k].heartbeat = 0
      PROVE  IsStuck(k, cutoff) /\ (AllClosed(attempts[k]) => AllClosed(attempts'[k]))
  BY <1>2 DEF IsStuck
<1>3. ASSUME NEW w \in Workers, NEW l \in Keys, WorkerStatement(w, l)
      PROVE  IsStuck(k, cutoff) /\ (AllClosed(attempts[k]) => AllClosed(attempts'[k]))
  <2>1. CASE ClaimNextBuild(w, l)
    <3>1. k # l
      BY <1>0, <2>1 DEF ClaimNextBuild, IsStuck
    <3> QED
      BY <1>0, <2>1, <3>1 DEF ClaimNextBuild, IsStuck
  <2>2. ASSUME NEW st \in Verdicts, UpdateAttempt(l, st)
        PROVE  IsStuck(k, cutoff) /\ (AllClosed(attempts[k]) => AllClosed(attempts'[k]))
    <3>1. \/ attempts'[k] = attempts[k]
          \/ attempts'[k] = Closed(attempts[k], Workers, st, ErrorOf(st))
      BY <1>0, <2>2 DEF UpdateAttempt
    <3> QED
      BY <1>1, <2>2, <3>1, ClosedStays DEF UpdateAttempt
  <2>3. ASSUME NEW st \in Verdicts, UpdateJob(l, st)
        PROVE  IsStuck(k, cutoff) /\ (AllClosed(attempts[k]) => AllClosed(attempts'[k]))
    BY <1>0, <1>2, <2>3 DEF UpdateJob, Unlocked, Verdicts, Job
  <2>4. CASE UpdateHeartbeat(l, w)
    BY <1>0, <1>2, <2>4 DEF UpdateHeartbeat
  <2>5. CASE ReleaseAttempt(l, w)
    <3>1. \/ attempts'[k] = attempts[k]
          \/ attempts'[k] = Closed(attempts[k], {w}, "failed", "released")
      BY <1>0, <2>5 DEF ReleaseAttempt
    <3> QED
      BY <1>1, <2>5, <3>1, ClosedStays DEF ReleaseAttempt
  <2>6. CASE ReleaseRow(l, w)
    BY <1>0, <1>2, <2>6 DEF ReleaseRow, Unlocked, Job
  <2> QED
    BY <1>3, <2>1, <2>2, <2>3, <2>4, <2>5, <2>6 DEF WorkerStatement
<1>4. CASE JanitorStatement
  <2>1. ASSUME NEW c \in Cutoffs, RescueAttempts(c)
        PROVE  IsStuck(k, cutoff) /\ (AllClosed(attempts[k]) => AllClosed(attempts'[k]))
    <3>1. \/ attempts'[k] = attempts[k]
          \/ attempts'[k] = Closed(attempts[k], Workers, "failed", "rescued")
      BY <2>1 DEF RescueAttempts
    <3> QED
      BY <1>1, <2>1, <3>1, ClosedStays DEF RescueAttempts
  <2>2. ASSUME NEW c \in Cutoffs, RescueJobs(c)
        PROVE  IsStuck(k, cutoff) /\ (AllClosed(attempts[k]) => AllClosed(attempts'[k]))
    BY <1>0, <1>2, <2>2 DEF RescueJobs, Unlocked, Job
  <2>3. CASE RetryFailedBuilds
    BY <1>0, <1>2, <2>3 DEF RetryFailedBuilds, Unlocked, Job
  <2> QED
    BY <1>4, <2>1, <2>2, <2>3 DEF JanitorStatement
<1>5. ASSUME NEW l \in Keys, ApiStatement(l)
      PROVE  IsStuck(k, cutoff) /\ (AllClosed(attempts[k]) => AllClosed(attempts'[k]))
  <2>1. CASE InsertJob(l)
    BY <1>0, <1>2, <2>1 DEF InsertJob, NoJob
  <2>2. CASE ResetBuildAttempts(l)
    BY <1>0, <1>2, <2>2 DEF ResetBuildAttempts, Unlocked, Job
  <2> QED
    BY <1>5, <2>1, <2>2 DEF ApiStatement
<1> QED
  BY <1>3, <1>4, <1>5 DEF Statement

(* Time makes a job stuck for a cutoff no sooner than for the cutoff as it *)
(* was a tick ago.                                                         *)
LEMMA NoSoonerStuck ==
    ASSUME QueueTypeOK, Tick, NEW cutoff \in Nat, NEW k \in Keys,
           jobs'[k].status = "building", jobs'[k].heartbeat > cutoff + 1
    PROVE  IsStuck(k, cutoff) /\ attempts'[k] = attempts[k]
<1>1. jobs[k] \in Job
  BY DEF QueueTypeOK
<1>2. jobs'[k] = IF jobs[k].heartbeat \in 0 .. MaxAge - 1
                 THEN [jobs[k] EXCEPT !.heartbeat = @ + 1] ELSE jobs[k]
  BY DEF Tick
<1>3. jobs[k].heartbeat \in Int /\ MaxAge \in Nat
  BY <1>1, BoundsAssumption DEF Job, NoHeartbeat, MaxAge
<1> QED
  BY <1>1, <1>2, <1>3 DEF Tick, IsStuck, Job

(* A cycle between its statements loses nothing by a step of anybody else. *)
LEMMA CycleWaits ==
    ASSUME QueueTypeOK, JanitorTypeOK, StuckAreClosed, Statement \/ UNCHANGED queueVars,
           NEW j \in Cycles, rescue'[j] = rescue[j], rescue[j].pc = "jobs",
           NEW k \in Keys, IsStuck(k, Cutoff(j))'
    PROVE  AllClosed(attempts'[k])
<1>1. Cutoff(j) \in Nat
  BY CutoffInRange
<1>2. jobs'[k].status = "building" /\ jobs'[k].heartbeat > Cutoff(j)
  BY DEF IsStuck, Cutoff
<1>3. CASE Statement
  <2>1. IsStuck(k, Cutoff(j)) /\ (AllClosed(attempts[k]) => AllClosed(attempts'[k]))
    BY <1>1, <1>2, <1>3, NoNewlyStuck
  <2> QED
    BY <2>1 DEF StuckAreClosed
<1>4. CASE UNCHANGED queueVars
  BY <1>2, <1>4 DEF queueVars, StuckAreClosed, IsStuck
<1> QED
  BY <1>3, <1>4

(* The first statement of a cycle closes the attempts of what is stuck.    *)
LEMMA FirstCloses ==
    ASSUME QueueTypeOK, NEW cutoff, NEW k \in Keys, RescueAttempts(cutoff), IsStuck(k, cutoff)
    PROVE  AllClosed(attempts'[k])
<1>1. attempts'[k] = Closed(attempts[k], Workers, "failed", "rescued")
  BY DEF RescueAttempts
<1>2. \A i \in DOMAIN attempts[k] : attempts[k][i] \in Attempt
  BY DEF QueueTypeOK
<1> QED
  BY <1>1, <1>2 DEF AllClosed, Closed, Attempt

LEMMA StuckStayClosed ==
    ASSUME ServerInv, [Next]_vars
    PROVE  StuckAreClosed'
<1>0. QueueTypeOK /\ JanitorTypeOK /\ StuckAreClosed
  BY DEF ServerInv
<1>1. ASSUME NEW j \in Cycles, rescue'[j].pc = "jobs", NEW k \in Keys, IsStuck(k, Cutoff(j))'
      PROVE  AllClosed(attempts'[k])
  <2>1. CASE \E w \in Workers : WorkerStep(w) /\ UNCHANGED <<rescue, req>>
    <3>1. Statement \/ UNCHANGED queueVars
      BY <2>1, WorkerIssues DEF ServerInv
    <3> QED
      BY <1>0, <1>1, <2>1, <3>1, CycleWaits
  <2>2. CASE JanitorStep
    <3>1. Statement \/ UNCHANGED queueVars
      BY <1>0, <2>2, JanitorIssues
    <3>2. CASE rescue'[j] = rescue[j]
      BY <1>0, <1>1, <3>1, <3>2, CycleWaits
    <3>3. CASE rescue'[j] # rescue[j]
      <4>1. RescueFirst(j)
        BY <1>0, <1>1, <2>2, <3>3
           DEF JanitorStep, RescueStep, RescueBegins, RescueFirst, RescueSecond, RescueFails,
               RetryCycle, IdleCycle, JanitorTypeOK
      <4>2. RescueAttempts(Cutoff(j)) /\ jobs' = jobs
        BY <4>1 DEF RescueFirst, RescueAttempts
      <4>3. rescue'[j].elapsed = rescue[j].elapsed
        BY <1>0, <4>1 DEF RescueFirst, JanitorTypeOK
      <4>4. IsStuck(k, Cutoff(j))
        BY <1>1, <4>2, <4>3 DEF IsStuck, Cutoff
      <4> QED
        BY <1>0, <4>2, <4>4, FirstCloses
    <3> QED
      BY <3>2, <3>3
  <2>3. CASE ApiStep /\ UNCHANGED <<workerVars, rescue>>
    <3>1. Statement \/ UNCHANGED queueVars
      BY <2>3, ApiIssues DEF ServerInv
    <3> QED
      BY <1>0, <1>1, <2>3, <3>1, CycleWaits
  <2>4. CASE TimePasses
    <3>1. Tick
      BY <2>4 DEF TimePasses, ClockTick
    <3>2. rescue[j].pc = "jobs" /\ rescue'[j].elapsed = rescue[j].elapsed + 1
      BY <1>0, <1>1, <2>4 DEF TimePasses, CyclesAge, JanitorTypeOK
    <3>3. Cutoff(j) \in Nat
      BY <1>0, CutoffInRange
    <3>4. jobs'[k].status = "building" /\ jobs'[k].heartbeat > Cutoff(j) + 1
      BY <1>0, <1>1, <3>2, BoundsAssumption DEF IsStuck, Cutoff, JanitorTypeOK
    <3>5. IsStuck(k, Cutoff(j)) /\ attempts'[k] = attempts[k]
      BY <1>0, <3>1, <3>3, <3>4, NoSoonerStuck
    <3> QED
      BY <1>0, <3>2, <3>5 DEF StuckAreClosed
  <2>5. CASE UNCHANGED vars
    BY <1>0, <1>1, <2>5, CycleWaits DEF vars
  <2> QED
    BY <2>1, <2>2, <2>3, <2>4, <2>5 DEF Next
<1> QED
  BY <1>1 DEF StuckAreClosed

-----------------------------------------------------------------------------
(* The invariant of the server.                                            *)

LEMMA ServerIssues ==
    ASSUME ServerInv, [Next]_vars
    PROVE  [QueueNext]_queueVars
<1>1. Statement => QueueNext
  BY DEF Statement, QueueNext
<1>2. CASE \E w \in Workers : WorkerStep(w)
  BY <1>1, <1>2, WorkerIssues DEF ServerInv
<1>3. CASE JanitorStep
  BY <1>1, <1>3, JanitorIssues DEF ServerInv
<1>4. CASE ApiStep
  BY <1>1, <1>4, ApiIssues DEF ServerInv
<1>5. CASE TimePasses
  BY <1>5 DEF TimePasses, ClockTick, QueueNext
<1>6. CASE UNCHANGED vars
  BY <1>6 DEF vars
<1> QED
  BY <1>2, <1>3, <1>4, <1>5, <1>6 DEF Next

LEMMA ServerInvInit == Init => ServerInv
<1> SUFFICES ASSUME Init PROVE ServerInv
  OBVIOUS
<1>1. QueueTypeOK
  BY InitType DEF Init
<1>2. WorkerInv
  BY WorkerInitInv, FaultsAssumption DEF Init
<1>3. JanitorTypeOK
  BY BoundsAssumption DEF Init, JanitorInit, JanitorTypeOK
<1>4. ApiTypeOK
  <2>1. \A k \in Keys : NewRequest(k) \in Request
    BY DEF NewRequest, Request, Replies
  <2> QED
    BY <2>1 DEF Init, ApiInit, ApiTypeOK
<1>5. StuckAreClosed
  BY DEF Init, JanitorInit, StuckAreClosed
<1> QED
  BY <1>1, <1>2, <1>3, <1>4, <1>5 DEF ServerInv

LEMMA ServerInvStep ==
    ASSUME ServerInv, [Next]_vars
    PROVE  ServerInv'
<1>0. /\ QueueTypeOK /\ WorkerInv /\ JanitorTypeOK /\ ApiTypeOK
      /\ faults \in 0 .. MaxFaults
  BY DEF ServerInv, WorkerInv, WorkerTypeOK
<1>1. QueueTypeOK'
  BY <1>0, ServerIssues, TypeStep
<1>2. StuckAreClosed'
  BY StuckStayClosed
<1>3. CASE \E w \in Workers : WorkerStep(w) /\ UNCHANGED <<rescue, req>>
  <2>1. WorkerInv'
    BY <1>0, <1>3, StepKeeps
  <2>2. JanitorTypeOK' /\ ApiTypeOK'
    BY <1>0, <1>3 DEF JanitorTypeOK, ApiTypeOK
  <2> QED
    BY <1>1, <1>2, <2>1, <2>2 DEF ServerInv
<1>4. CASE JanitorStep /\ UNCHANGED <<workerVars, req>>
  <2>1. JanitorTypeOK' /\ faults' \in 0 .. MaxFaults
    BY <1>0, <1>4, JanitorKeepsTypes
  <2>2. WorkerInv'
    BY <1>0, <1>4, <2>1, WorkerStutter
  <2>3. ApiTypeOK'
    BY <1>0, <1>4 DEF ApiTypeOK
  <2> QED
    BY <1>1, <1>2, <2>1, <2>2, <2>3 DEF ServerInv
<1>5. CASE ApiStep /\ UNCHANGED <<workerVars, rescue>>
  <2>1. ApiTypeOK' /\ faults' \in 0 .. MaxFaults
    BY <1>0, <1>5, ApiKeepsTypes
  <2>2. WorkerInv'
    BY <1>0, <1>5, <2>1, WorkerStutter
  <2>3. JanitorTypeOK'
    BY <1>0, <1>5 DEF JanitorTypeOK
  <2> QED
    BY <1>1, <1>2, <2>1, <2>2, <2>3 DEF ServerInv
<1>6. CASE TimePasses
  <2>1. WorkerInv'
    BY <1>0, <1>6, ClockKeeps DEF TimePasses
  <2>2. JanitorTypeOK'
    BY <1>0, <1>6, BoundsAssumption DEF TimePasses, CyclesAge, JanitorTypeOK
  <2>3. ApiTypeOK'
    BY <1>0, <1>6 DEF TimePasses, ApiTypeOK
  <2> QED
    BY <1>1, <1>2, <2>1, <2>2, <2>3 DEF ServerInv
<1>7. CASE UNCHANGED vars
  BY <1>0, <1>1, <1>2, <1>7, WorkerStutter DEF vars, ServerInv, JanitorTypeOK, ApiTypeOK
<1> QED
  BY <1>3, <1>4, <1>5, <1>6, <1>7 DEF Next

LEMMA ServerInvHolds == Spec => []ServerInv
BY ServerInvInit, ServerInvStep, PTL DEF Spec

-----------------------------------------------------------------------------
(* The theorems.                                                           *)

(* The state of workers, rescue cycles and handlers is of its type,        *)
(* whatever their interleaving.                                            *)
THEOREM ServerTypeCorrect == Spec => []ServerTypeOK
<1>1. ServerInv => ServerTypeOK
  BY DEF ServerInv, WorkerInv, ServerTypeOK
<1> QED
  BY <1>1, ServerInvHolds, PTL

(* The composed server is an implementation of the queue: whatever workers,*)
(* janitor and handlers do, the tables go only through the statements of   *)
(* db.go, so that every theorem of BuildQueueProofs holds in the server.   *)
THEOREM ServerImplementsQueue == Spec => QueueSpec
<1>1. Init => QueueInit
  BY DEF Init
<1>2. ServerInv /\ [Next]_vars => [QueueNext]_queueVars
  BY ServerIssues
<1> QED
  BY <1>1, <1>2, ServerInvHolds, PTL DEF Spec, QueueSpec

(* One of them, stated for the server: a job has an owner and a heartbeat  *)
(* exactly while it is being built, so that the janitor sees it if it      *)
(* hangs.                                                                  *)
THEOREM ServerLocksBuilding == Spec => []LockIffBuilding
BY ServerImplementsQueue, LockIffBuildingHolds, PTL

(* A goroutine that has work to record for a job is known to its worker,   *)
(* however builds, heartbeats, releases and claims interleave.             *)
THEOREM ServerActiveIsRunning == Spec => []ActiveIsRunning
<1>1. ServerInv => ActiveIsRunning
  BY DEF ServerInv, WorkerInv
<1> QED
  BY <1>1, ServerInvHolds, PTL

(* A rescue puts no job back into the queue with an attempt of it open,    *)
(* with any number of rescue cycles overlapping each other and the claims, *)
(* heartbeats, verdicts and releases of any number of workers.             *)
THEOREM RescueLeavesNoOpenAttemptHolds == Spec => RescueLeavesNoOpenAttempt
<1> DEFINE Leaves(j, k) ==
      /\ rescue[j].pc = "jobs"
      /\ rescue' # rescue
      /\ jobs[k].status = "building"
      /\ jobs'[k].status = "pending"
      => \A i \in DOMAIN attempts[k] : attempts[k][i].status # "building"
<1>1. ASSUME ServerInv, [Next]_vars, NEW j \in Cycles, NEW k \in Keys
      PROVE  Leaves(j, k)
  <2> SUFFICES ASSUME rescue' # rescue, jobs[k].status = "building", jobs'[k].status = "pending"
               PROVE  AllClosed(attempts[k])
    BY DEF AllClosed
  <2>1. CASE JanitorStep
    <3>1. PICK i \in Cycles : RescueSecond(i)
      BY <2>1 DEF JanitorStep, RescueStep, RescueBegins, RescueFirst, RescueFails, RetryCycle,
                  RescueAttempts, queueVars
    <3>2. IsStuck(k, Cutoff(i)) /\ rescue[i].pc = "jobs"
      BY <3>1 DEF RescueSecond, RescueJobs
    <3> QED
      BY <1>1, <3>2 DEF ServerInv, StuckAreClosed
  <2>2. CASE TimePasses
    BY <2>2 DEF TimePasses, ClockTick, Tick
  <2>3. CASE UNCHANGED rescue
    BY <2>3
  <2> QED
    BY <1>1, <2>1, <2>2, <2>3 DEF Next, vars
<1>2. ServerInv /\ [Next]_vars => [\A j \in Cycles : \A k \in Keys : Leaves(j, k)]_<<queueVars, rescue>>
  BY <1>1
<1> QED
  BY <1>2, ServerInvHolds, PTL DEF Spec, RescueLeavesNoOpenAttempt
=============================================================================
