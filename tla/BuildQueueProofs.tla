--------------------------- MODULE BuildQueueProofs ---------------------------
(***************************************************************************)
(* What BuildQueue guarantees for every set of keys and workers and every  *)
(* bound, whatever statements the clients issue and in whatever order.     *)
(***************************************************************************)
EXTENDS BuildQueue, TLAPS, FiniteSetTheorems

(* Closing attempts changes neither the length of a history nor whose the  *)
(* attempts are, and leaves attempts with a verdict alone.                 *)
LEMMA ClosedShape ==
    ASSUME NEW h \in Seq(Attempt), NEW W, NEW st \in Statuses \ {"pending"}, NEW err \in Errors
    PROVE  /\ Closed(h, W, st, err) \in Seq(Attempt)
           /\ Len(Closed(h, W, st, err)) = Len(h)
           /\ \A i \in 1 .. Len(h) :
                 /\ Closed(h, W, st, err)[i].worker = h[i].worker
                 /\ h[i].status # "building" => Closed(h, W, st, err)[i] = h[i]
<1> DEFINE c == Closed(h, W, st, err)
<1>1. \A i \in 1 .. Len(h) : h[i] \in Attempt
  OBVIOUS
<1>2. /\ DOMAIN c = 1 .. Len(h)
      /\ \A i \in 1 .. Len(h) :
            c[i] = IF h[i].status = "building" /\ h[i].worker \in W
                   THEN [h[i] EXCEPT !.status = st, !.error = err] ELSE h[i]
  <2>1. DOMAIN h = 1 .. Len(h)
    OBVIOUS
  <2> QED
    BY <2>1, Zenon DEF Closed
<1>3. \A i \in 1 .. Len(h) :
         /\ c[i] \in Attempt
         /\ c[i].worker = h[i].worker
         /\ h[i].status # "building" => c[i] = h[i]
  BY <1>1, <1>2 DEF Attempt
<1>4. c \in [1 .. Len(h) -> Attempt]
  BY <1>2, <1>3, Zenon DEF Closed
<1>5. c \in Seq(Attempt) /\ Len(c) = Len(h)
  BY <1>4, Len(h) \in Nat
<1> QED
  BY <1>3, <1>5

(* The number of rows is a natural number: the next created_at.            *)
LEMMA PresentCardinality == Cardinality(Present) \in Nat
BY KeysAssumption, FS_Subset, FS_CardinalityType DEF Present

(* The ages a heartbeat can have: none, fresh, and one tick older than any *)
(* that is not saturated.                                                  *)
LEMMA Ages ==
    /\ NoHeartbeat \in NoHeartbeat .. MaxAge
    /\ 0 \in NoHeartbeat .. MaxAge
    /\ \A age \in 0 .. MaxAge - 1 : age + 1 \in NoHeartbeat .. MaxAge
BY BoundsAssumption DEF NoHeartbeat, MaxAge

-----------------------------------------------------------------------------
(* Type correctness.                                                       *)

LEMMA InitType == QueueInit => QueueTypeOK
BY Ages DEF QueueInit, QueueTypeOK, Job, NoJob

LEMMA UnlockedType ==
    ASSUME NEW job \in Job, NEW st \in Statuses
    PROVE  Unlocked(job, st) \in Job
BY Ages DEF Unlocked, Job

LEMMA TypeStep == QueueTypeOK /\ [QueueNext]_queueVars => QueueTypeOK'
<1> SUFFICES ASSUME QueueTypeOK, [QueueNext]_queueVars PROVE QueueTypeOK'
  OBVIOUS
<1> USE DEF QueueTypeOK
<1>1. ASSUME NEW k \in Keys, InsertJob(k) PROVE QueueTypeOK'
  <2>1. [NoJob EXCEPT !.status = "pending", !.created_at = Cardinality(Present)] \in Job
    BY PresentCardinality, Ages DEF NoJob, Job, Statuses
  <2> QED
    BY <1>1, <2>1 DEF InsertJob
<1>2. ASSUME NEW w \in Workers, NEW k \in Keys, ClaimNextBuild(w, k) PROVE QueueTypeOK'
  <2>1. [jobs[k] EXCEPT !.status = "building", !.worker = w, !.heartbeat = 0] \in Job
    BY Ages DEF Job, Statuses
  <2>2. jobs' = [jobs EXCEPT ![k] =
            [jobs[k] EXCEPT !.status = "building", !.worker = w, !.heartbeat = 0]]
    BY <1>2, <2>1 DEF ClaimNextBuild, Job
  <2>3. [worker |-> w, status |-> "building", error |-> "none"] \in Attempt
    BY DEF Attempt, Statuses, Errors
  <2>4. attempts' \in [Keys -> Seq(Attempt)]
    BY <1>2, <2>3 DEF ClaimNextBuild
  <2> QED
    BY <2>1, <2>2, <2>4
<1>3. ASSUME NEW k \in Keys, NEW st \in Verdicts, UpdateAttempt(k, st) PROVE QueueTypeOK'
  <2>1. st \in Statuses \ {"pending"} /\ ErrorOf(st) \in Errors
    BY DEF Verdicts, Statuses, Errors, ErrorOf
  <2>2. Closed(attempts[k], Workers, st, ErrorOf(st)) \in Seq(Attempt)
    BY <2>1, ClosedShape
  <2> QED
    BY <1>3, <2>2 DEF UpdateAttempt
<1>4. ASSUME NEW k \in Keys, NEW st \in Verdicts, UpdateJob(k, st) PROVE QueueTypeOK'
  <2>1. Unlocked(jobs[k], st) \in Job
    BY UnlockedType DEF Verdicts, Statuses
  <2>2. [Unlocked(jobs[k], st) EXCEPT !.storage_key = (st = "completed"),
                                      !.completed_at = (st = "completed")] \in Job
    BY <2>1 DEF Job
  <2> QED
    BY <1>4, <2>2 DEF UpdateJob
<1>5. ASSUME NEW w \in Workers, NEW k \in Keys, UpdateHeartbeat(k, w) PROVE QueueTypeOK'
  <2>1. [jobs[k] EXCEPT !.heartbeat = 0] \in Job
    BY Ages DEF Job
  <2> QED
    BY <1>5, <2>1 DEF UpdateHeartbeat
<1>6. ASSUME NEW w \in Workers, NEW k \in Keys, ReleaseAttempt(k, w) PROVE QueueTypeOK'
  <2>1. Closed(attempts[k], {w}, "failed", "released") \in Seq(Attempt)
    BY ClosedShape DEF Statuses, Errors
  <2> QED
    BY <1>6, <2>1 DEF ReleaseAttempt
<1>7. ASSUME NEW w \in Workers, NEW k \in Keys, ReleaseRow(k, w) PROVE QueueTypeOK'
  BY <1>7, UnlockedType DEF ReleaseRow, Statuses
<1>8. ASSUME NEW cutoff \in Cutoffs, RescueAttempts(cutoff) PROVE QueueTypeOK'
  <2>1. \A k \in Keys : Closed(attempts[k], Workers, "failed", "rescued") \in Seq(Attempt)
    BY ClosedShape DEF Statuses, Errors
  <2> QED
    BY <1>8, <2>1 DEF RescueAttempts
<1>9. ASSUME NEW cutoff \in Cutoffs, RescueJobs(cutoff) PROVE QueueTypeOK'
  BY <1>9, UnlockedType DEF RescueJobs, Statuses
<1>10. ASSUME RetryFailedBuilds PROVE QueueTypeOK'
  BY <1>10, UnlockedType DEF RetryFailedBuilds, Statuses
<1>11. ASSUME NEW k \in Keys, ResetBuildAttempts(k) PROVE QueueTypeOK'
  <2>1. Unlocked(jobs[k], "pending") \in Job
    BY UnlockedType DEF Statuses
  <2>2. [Unlocked(jobs[k], "pending") EXCEPT !.completed_at = FALSE] \in Job
    BY <2>1 DEF Job
  <2> QED
    BY <1>11, <2>2 DEF ResetBuildAttempts
<1>12. ASSUME Tick PROVE QueueTypeOK'
  <2>1. \A k \in Keys : jobs[k].heartbeat \in 0 .. MaxAge - 1 =>
                          [jobs[k] EXCEPT !.heartbeat = @ + 1] \in Job
    BY Ages DEF Job
  <2> QED
    BY <1>12, <2>1 DEF Tick
<1>13. ASSUME UNCHANGED queueVars PROVE QueueTypeOK'
  BY <1>13 DEF queueVars
<1> QED
  BY <1>1, <1>2, <1>3, <1>4, <1>5, <1>6, <1>7, <1>8, <1>9, <1>10, <1>11, <1>12, <1>13
     DEF QueueNext, WorkerStatement, JanitorStatement, ApiStatement

(* The tables hold only values of their columns' types.                    *)
THEOREM QueueTypeCorrect == QueueSpec => []QueueTypeOK
BY InitType, TypeStep, PTL DEF QueueSpec

-----------------------------------------------------------------------------
(* The safety invariants.  LockIffBuilding, the two halves of              *)
(* CompletedIsServable and OwnerIsNewestAttempt are inductive together     *)
(* with the types; each speaks of one job, so one lemma says when a step   *)
(* keeps them for that job, and the actions are instances of it.           *)

RowOK(job, history) ==
    /\ job.status = "building" <=> job.worker # NoWorker
    /\ job.status = "building" <=> job.heartbeat # NoHeartbeat
    /\ job.status = "completed" => job.storage_key
    /\ job.status = "completed" <=> job.completed_at
    /\ job.status = "building" =>
          /\ history # << >>
          /\ history[Len(history)].worker = job.worker

QueueInv == QueueTypeOK /\ \A k \in Keys : RowOK(jobs[k], attempts[k])

LEMMA InvImplies ==
    QueueInv => LockIffBuilding /\ CompletedIsServable /\ OwnerIsNewestAttempt
BY DEF QueueInv, RowOK, LockIffBuilding, CompletedIsServable, OwnerIsNewestAttempt

LEMMA InitInv == QueueInit => QueueInv
BY InitType DEF QueueInit, QueueInv, RowOK, NoJob

(* A row that is not building any more has neither owner nor heartbeat.    *)
LEMMA UnlockedRow ==
    ASSUME NEW job \in Job, NEW st \in Statuses
    PROVE  /\ Unlocked(job, st).status = st
           /\ Unlocked(job, st).worker = NoWorker
           /\ Unlocked(job, st).heartbeat = NoHeartbeat
           /\ Unlocked(job, st).storage_key = job.storage_key
           /\ Unlocked(job, st).completed_at = job.completed_at
BY DEF Unlocked, Job

(* Handing a job back as pending keeps RowOK, if it was not completed.     *)
LEMMA BackToPending ==
    ASSUME NEW job \in Job, NEW h, RowOK(job, h), job.status # "completed"
    PROVE  RowOK(Unlocked(job, "pending"), h)
<1>1. job.completed_at = FALSE
  BY DEF RowOK, Job
<1> QED
  BY <1>1, UnlockedRow DEF RowOK, Statuses

(* Closing attempts keeps RowOK: the newest attempt stays whose it was.    *)
LEMMA ClosedKeepsRow ==
    ASSUME NEW job, NEW h \in Seq(Attempt), RowOK(job, h),
           NEW W, NEW st \in Statuses \ {"pending"}, NEW err \in Errors
    PROVE  RowOK(job, Closed(h, W, st, err))
<1> DEFINE c == Closed(h, W, st, err)
<1>1. c \in Seq(Attempt) /\ Len(c) = Len(h)
      /\ \A i \in 1 .. Len(h) : c[i].worker = h[i].worker
  BY ClosedShape
<1>2. h # << >> => c # << >> /\ c[Len(c)].worker = h[Len(h)].worker
  BY <1>1
<1> QED
  BY <1>2 DEF RowOK

LEMMA InvStep == QueueInv /\ [QueueNext]_queueVars => QueueInv'
<1> SUFFICES ASSUME QueueInv, [QueueNext]_queueVars
             PROVE  \A k \in Keys : RowOK(jobs[k], attempts[k])'
  BY TypeStep DEF QueueInv
<1> DEFINE Rows == \A k \in Keys : RowOK(jobs'[k], attempts'[k])
<1> SUFFICES Rows
  OBVIOUS
<1>0. /\ jobs \in [Keys -> Job]
      /\ attempts \in [Keys -> Seq(Attempt)]
      /\ \A k \in Keys : jobs[k] \in Job /\ attempts[k] \in Seq(Attempt)
      /\ \A k \in Keys : RowOK(jobs[k], attempts[k])
  BY DEF QueueInv, QueueTypeOK
<1>1. ASSUME NEW k \in Keys, InsertJob(k) PROVE Rows
  <2>1. RowOK([NoJob EXCEPT !.status = "pending", !.created_at = Cardinality(Present)],
              attempts[k])
    BY DEF RowOK, NoJob
  <2> QED
    BY <1>0, <1>1, <2>1 DEF InsertJob
<1>2. ASSUME NEW w \in Workers, NEW k \in Keys, ClaimNextBuild(w, k) PROVE Rows
  <2>1. jobs[k].status = "pending"
    BY <1>2 DEF ClaimNextBuild, Oldest, Pending
  <2> DEFINE job == [jobs[k] EXCEPT !.status = "building", !.worker = w, !.heartbeat = 0]
             new == [worker |-> w, status |-> "building", error |-> "none"]
             h == Append(attempts[k], new)
  <2>2. jobs' = [jobs EXCEPT ![k] = job] /\ attempts' = [attempts EXCEPT ![k] = h]
    BY <1>2 DEF ClaimNextBuild
  <2>3. job.status = "building" /\ job.worker = w /\ job.heartbeat = 0
        /\ job.storage_key = jobs[k].storage_key
        /\ job.completed_at = jobs[k].completed_at
    BY <1>0 DEF Job
  <2>4. jobs[k].completed_at = FALSE
    BY <1>0, <2>1 DEF RowOK, Job
  <2>5. h # << >> /\ h[Len(h)].worker = w
    <3>1. new \in Attempt
      BY DEF Attempt, Statuses, Errors
    <3>2. Len(h) = Len(attempts[k]) + 1 /\ h[Len(attempts[k]) + 1] = new
      BY <1>0, <3>1
    <3> QED
      BY <1>0, <3>2
  <2>6. w # NoWorker /\ 0 # NoHeartbeat
    BY WorkersAssumption DEF NoHeartbeat
  <2>7. RowOK(job, h)
    BY <2>3, <2>4, <2>5, <2>6 DEF RowOK
  <2> QED
    BY <1>0, <2>2, <2>7
<1>3. ASSUME NEW k \in Keys, NEW st \in Verdicts, UpdateAttempt(k, st) PROVE Rows
  <2>1. RowOK(jobs[k], Closed(attempts[k], Workers, st, ErrorOf(st)))
    BY <1>0, ClosedKeepsRow DEF Verdicts, Statuses, ErrorOf, Errors
  <2> QED
    BY <1>0, <1>3, <2>1 DEF UpdateAttempt
<1>4. ASSUME NEW k \in Keys, NEW st \in Verdicts, UpdateJob(k, st) PROVE Rows
  <2> DEFINE u == Unlocked(jobs[k], st)
             job == [u EXCEPT !.storage_key = (st = "completed"),
                              !.completed_at = (st = "completed")]
  <2> HIDE DEF u
  <2>0. jobs[k] \in Job /\ st \in Statuses
    BY <1>0 DEF Verdicts, Statuses
  <2>1. u \in Job /\ u.status = st /\ u.worker = NoWorker /\ u.heartbeat = NoHeartbeat
    BY <2>0, UnlockedType, UnlockedRow, Zenon DEF u
  <2>2. /\ job.status = st /\ job.worker = NoWorker /\ job.heartbeat = NoHeartbeat
        /\ job.storage_key = (st = "completed")
        /\ job.completed_at = (st = "completed")
    BY <2>1 DEF Job
  <2>3. RowOK(job, attempts[k])
    BY <2>2 DEF RowOK, Verdicts
  <2> QED
    BY <1>0, <1>4, <2>3 DEF UpdateJob, u
<1>5. ASSUME NEW w \in Workers, NEW k \in Keys, UpdateHeartbeat(k, w) PROVE Rows
  <2>1. Owns(w, k) => RowOK([jobs[k] EXCEPT !.heartbeat = 0], attempts[k])
    BY <1>0 DEF Owns, RowOK, Job, NoHeartbeat
  <2> QED
    BY <1>0, <1>5, <2>1 DEF UpdateHeartbeat
<1>6. ASSUME NEW w \in Workers, NEW k \in Keys, ReleaseAttempt(k, w) PROVE Rows
  <2>1. RowOK(jobs[k], Closed(attempts[k], {w}, "failed", "released"))
    BY <1>0, ClosedKeepsRow DEF Statuses, Errors
  <2> QED
    BY <1>0, <1>6, <2>1 DEF ReleaseAttempt
<1>7. ASSUME NEW w \in Workers, NEW k \in Keys, ReleaseRow(k, w) PROVE Rows
  <2>1. Owns(w, k) => RowOK(Unlocked(jobs[k], "pending"), attempts[k])
    BY <1>0, BackToPending DEF Owns
  <2> QED
    BY <1>0, <1>7, <2>1 DEF ReleaseRow
<1>8. ASSUME NEW cutoff \in Cutoffs, RescueAttempts(cutoff) PROVE Rows
  <2>1. \A k \in Keys : RowOK(jobs[k], Closed(attempts[k], Workers, "failed", "rescued"))
    BY <1>0, ClosedKeepsRow DEF Statuses, Errors
  <2> QED
    BY <1>0, <1>8, <2>1 DEF RescueAttempts
<1>9. ASSUME NEW cutoff \in Cutoffs, RescueJobs(cutoff) PROVE Rows
  <2>1. \A k \in Keys : IsStuck(k, cutoff) => RowOK(Unlocked(jobs[k], "pending"), attempts[k])
    BY <1>0, BackToPending DEF IsStuck
  <2> QED
    BY <1>0, <1>9, <2>1 DEF RescueJobs
<1>10. ASSUME RetryFailedBuilds PROVE Rows
  <2>1. \A k \in Keys : CanRetry(k) => RowOK(Unlocked(jobs[k], "pending"), attempts[k])
    BY <1>0, BackToPending DEF CanRetry
  <2> QED
    BY <1>0, <1>10, <2>1 DEF RetryFailedBuilds
<1>11. ASSUME NEW k \in Keys, ResetBuildAttempts(k) PROVE Rows
  <2> DEFINE u == Unlocked(jobs[k], "pending")
             job == [u EXCEPT !.completed_at = FALSE]
  <2>1. u \in Job /\ u.status = "pending" /\ u.worker = NoWorker
        /\ u.heartbeat = NoHeartbeat
    BY <1>0, UnlockedType, UnlockedRow DEF Statuses
  <2>2. RowOK(job, attempts[k])
    BY <2>1 DEF RowOK, Job
  <2> QED
    BY <1>0, <1>11, <2>2 DEF ResetBuildAttempts
<1>12. ASSUME Tick PROVE Rows
  <2>1. \A k \in Keys : jobs[k].heartbeat \in 0 .. MaxAge - 1 =>
           RowOK([jobs[k] EXCEPT !.heartbeat = @ + 1], attempts[k])
    BY <1>0 DEF RowOK, Job, NoHeartbeat
  <2> QED
    BY <1>0, <1>12, <2>1 DEF Tick
<1>13. ASSUME UNCHANGED queueVars PROVE Rows
  BY <1>0, <1>13 DEF queueVars
<1> QED
  BY <1>1, <1>2, <1>3, <1>4, <1>5, <1>6, <1>7, <1>8, <1>9, <1>10, <1>11, <1>12, <1>13
     DEF QueueNext, WorkerStatement, JanitorStatement, ApiStatement

THEOREM QueueInvariant == QueueSpec => []QueueInv
BY InitInv, InvStep, PTL DEF QueueSpec

(* No building job is invisible to the janitor.                            *)
THEOREM LockIffBuildingHolds == QueueSpec => []LockIffBuilding
BY QueueInvariant, InvImplies, PTL

(* A completed job can always be served, and only a completed one looks so. *)
THEOREM CompletedIsServableHolds == QueueSpec => []CompletedIsServable
BY QueueInvariant, InvImplies, PTL

(* A building job is owned by the worker of its newest attempt.            *)
THEOREM OwnerIsNewestAttemptHolds == QueueSpec => []OwnerIsNewestAttempt
BY QueueInvariant, InvImplies, PTL

-----------------------------------------------------------------------------
(* The action properties.                                                  *)

HistoryKept(h, new) ==
    /\ Len(h) <= Len(new)
    /\ \A i \in DOMAIN h :
          /\ new[i].worker = h[i].worker
          /\ h[i].status # "building" => new[i] = h[i]

LEMMA ClosedKeepsHistory ==
    ASSUME NEW h \in Seq(Attempt), NEW W, NEW st \in Statuses \ {"pending"}, NEW err \in Errors
    PROVE  HistoryKept(h, Closed(h, W, st, err))
<1>1. Len(Closed(h, W, st, err)) = Len(h) /\ Len(h) \in Nat
  BY ClosedShape
<1>2. DOMAIN h = 1 .. Len(h)
  OBVIOUS
<1> QED
  BY <1>1, <1>2, ClosedShape DEF HistoryKept

LEMMA VerdictsStep ==
    ASSUME QueueTypeOK, [QueueNext]_queueVars
    PROVE  \A k \in Keys : HistoryKept(attempts[k], attempts'[k])
<1> DEFINE Kept == \A k \in Keys : HistoryKept(attempts[k], attempts'[k])
<1> SUFFICES Kept
  OBVIOUS
<1>0. /\ attempts \in [Keys -> Seq(Attempt)]
      /\ \A k \in Keys : attempts[k] \in Seq(Attempt)
  BY DEF QueueTypeOK
<1>1. \A k \in Keys : HistoryKept(attempts[k], attempts[k])
  BY <1>0 DEF HistoryKept
<1>2. ASSUME UNCHANGED attempts PROVE Kept
  BY <1>1, <1>2
<1>3. ASSUME NEW w \in Workers, NEW k \in Keys, ClaimNextBuild(w, k) PROVE Kept
  <2> DEFINE new == [worker |-> w, status |-> "building", error |-> "none"]
  <2>1. new \in Attempt
    BY DEF Attempt, Statuses, Errors
  <2>2. HistoryKept(attempts[k], Append(attempts[k], new))
    BY <1>0, <2>1 DEF HistoryKept
  <2>3. attempts' = [attempts EXCEPT ![k] = Append(@, new)]
    BY <1>3 DEF ClaimNextBuild
  <2> QED
    BY <1>0, <1>1, <2>2, <2>3
<1>4. ASSUME NEW k \in Keys, NEW st \in Verdicts, UpdateAttempt(k, st) PROVE Kept
  <2>1. HistoryKept(attempts[k], Closed(attempts[k], Workers, st, ErrorOf(st)))
    BY <1>0, ClosedKeepsHistory DEF Verdicts, Statuses, Errors, ErrorOf
  <2> QED
    BY <1>0, <1>1, <1>4, <2>1 DEF UpdateAttempt
<1>5. ASSUME NEW w \in Workers, NEW k \in Keys, ReleaseAttempt(k, w) PROVE Kept
  <2>1. HistoryKept(attempts[k], Closed(attempts[k], {w}, "failed", "released"))
    BY <1>0, ClosedKeepsHistory DEF Statuses, Errors
  <2> QED
    BY <1>0, <1>1, <1>5, <2>1 DEF ReleaseAttempt
<1>6. ASSUME NEW cutoff \in Cutoffs, RescueAttempts(cutoff) PROVE Kept
  <2>1. \A k \in Keys :
           HistoryKept(attempts[k], Closed(attempts[k], Workers, "failed", "rescued"))
    BY <1>0, ClosedKeepsHistory DEF Statuses, Errors
  <2> QED
    BY <1>0, <1>1, <1>6, <2>1 DEF RescueAttempts
<1> QED
  BY <1>2, <1>3, <1>4, <1>5, <1>6
     DEF QueueNext, WorkerStatement, JanitorStatement, ApiStatement, queueVars,
         UpdateJob, UpdateHeartbeat, ReleaseRow, RescueJobs, RetryFailedBuilds,
         InsertJob, ResetBuildAttempts, Tick

(* No statement rewrites an attempt that has its verdict.                  *)
THEOREM VerdictsAreFinalHolds == QueueSpec => VerdictsAreFinal
<1> DEFINE Kept == \A k \in Keys : HistoryKept(attempts[k], attempts'[k])
<1>1. QueueTypeOK /\ [QueueNext]_queueVars => [Kept]_queueVars
  BY VerdictsStep
<1>2. [Kept]_queueVars =>
      [\A k \in Keys :
          /\ Len(attempts[k]) <= Len(attempts'[k])
          /\ \A i \in DOMAIN attempts[k] :
                /\ attempts'[k][i].worker = attempts[k][i].worker
                /\ attempts[k][i].status # "building" =>
                       attempts'[k][i] = attempts[k][i]]_queueVars
  BY DEF HistoryKept
<1> QED
  BY <1>1, <1>2, QueueTypeCorrect, PTL DEF QueueSpec, VerdictsAreFinal

LEMMA LockStep ==
    ASSUME QueueTypeOK, [QueueNext]_queueVars, NEW k \in Keys,
           jobs'[k].worker \notin {NoWorker, jobs[k].worker}
    PROVE  jobs[k].status = "pending" /\ Len(attempts'[k]) = Len(attempts[k]) + 1
<1>0. /\ jobs \in [Keys -> Job]
      /\ attempts \in [Keys -> Seq(Attempt)]
      /\ \A l \in Keys : jobs[l] \in Job /\ attempts[l] \in Seq(Attempt)
  BY DEF QueueTypeOK
<1>1. ASSUME NEW w \in Workers, NEW l \in Keys, ClaimNextBuild(w, l)
      PROVE  jobs[k].status = "pending" /\ Len(attempts'[k]) = Len(attempts[k]) + 1
  <2>1. l = k
    BY <1>0, <1>1 DEF ClaimNextBuild
  <2>2. jobs[k].status = "pending"
    BY <1>1, <2>1 DEF ClaimNextBuild, Oldest, Pending
  <2> DEFINE new == [worker |-> w, status |-> "building", error |-> "none"]
  <2>3. new \in Attempt
    BY DEF Attempt, Statuses, Errors
  <2>4. attempts'[k] = Append(attempts[k], new)
    BY <1>0, <1>1, <2>1 DEF ClaimNextBuild
  <2> QED
    BY <1>0, <2>2, <2>3, <2>4
<1>2. ASSUME NEW l \in Keys, InsertJob(l) PROVE jobs'[k].worker \in {NoWorker, jobs[k].worker}
  BY <1>0, <1>2 DEF InsertJob, NoJob
<1>3. ASSUME NEW l \in Keys, NEW st \in Verdicts, UpdateJob(l, st)
      PROVE  jobs'[k].worker \in {NoWorker, jobs[k].worker}
  <2>0. Unlocked(jobs[l], st) \in Job /\ Unlocked(jobs[l], st).worker = NoWorker
    <3>1. jobs[l] \in Job /\ st \in Statuses
      BY <1>0 DEF Verdicts, Statuses
    <3> QED
      BY <3>1, UnlockedRow, UnlockedType
  <2>1. [Unlocked(jobs[l], st) EXCEPT !.storage_key = (st = "completed"),
                                      !.completed_at = (st = "completed")].worker = NoWorker
    BY <2>0 DEF Job
  <2> QED
    BY <1>0, <1>3, <2>1 DEF UpdateJob
<1>4. ASSUME NEW l \in Keys, NEW w \in Workers, UpdateHeartbeat(l, w)
      PROVE  jobs'[k].worker \in {NoWorker, jobs[k].worker}
  BY <1>0, <1>4 DEF UpdateHeartbeat, Job
<1>5. ASSUME NEW l \in Keys, NEW w \in Workers, ReleaseRow(l, w)
      PROVE  jobs'[k].worker \in {NoWorker, jobs[k].worker}
  BY <1>0, <1>5, UnlockedRow DEF ReleaseRow, Statuses
<1>6. ASSUME NEW cutoff \in Cutoffs, RescueJobs(cutoff)
      PROVE  jobs'[k].worker \in {NoWorker, jobs[k].worker}
  BY <1>0, <1>6, UnlockedRow DEF RescueJobs, Statuses
<1>7. ASSUME RetryFailedBuilds PROVE jobs'[k].worker \in {NoWorker, jobs[k].worker}
  BY <1>0, <1>7, UnlockedRow DEF RetryFailedBuilds, Statuses
<1>8. ASSUME NEW l \in Keys, ResetBuildAttempts(l)
      PROVE  jobs'[k].worker \in {NoWorker, jobs[k].worker}
  <2>1. [Unlocked(jobs[l], "pending") EXCEPT !.completed_at = FALSE].worker = NoWorker
    BY <1>0, UnlockedRow, UnlockedType DEF Statuses, Job
  <2> QED
    BY <1>0, <1>8, <2>1 DEF ResetBuildAttempts
<1>9. ASSUME Tick PROVE jobs'[k].worker = jobs[k].worker
  BY <1>0, <1>9 DEF Tick, Job
<1>10. ASSUME UNCHANGED jobs PROVE jobs'[k].worker = jobs[k].worker
  BY <1>10
<1> QED
  BY <1>1, <1>2, <1>3, <1>4, <1>5, <1>6, <1>7, <1>8, <1>9, <1>10
     DEF QueueNext, WorkerStatement, JanitorStatement, ApiStatement, queueVars,
         UpdateAttempt, ReleaseAttempt, RescueAttempts

(* A job changes hands only through a claim of a pending job.              *)
THEOREM LockPassesThroughPendingHolds == QueueSpec => LockPassesThroughPending
<1> DEFINE Passed == \A k \in Keys :
              jobs'[k].worker \notin {NoWorker, jobs[k].worker} =>
                  /\ jobs[k].status = "pending"
                  /\ Len(attempts'[k]) = Len(attempts[k]) + 1
<1>1. QueueTypeOK /\ [QueueNext]_queueVars => [Passed]_queueVars
  BY LockStep
<1> QED
  BY <1>1, QueueTypeCorrect, PTL DEF QueueSpec, LockPassesThroughPending
=============================================================================
