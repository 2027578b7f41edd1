----------------------------- MODULE BuildQueue -----------------------------
(***************************************************************************)
(* The build queue: the PostgreSQL tables build_jobs and build_attempts    *)
(* (pkg/db/migrations/001_initial_schema.sql) and the SQL statements of    *)
(* pkg/db/db.go, the only code that touches them.                          *)
(*                                                                         *)
(* Every statement runs in a transaction of its own: the functions of      *)
(* db.go are given the connection pool, never a transaction.  A function   *)
(* that issues two statements (UpdateBuildStatus, ReleaseJob,              *)
(* RescueStuckBuilds) is therefore two actions here, and anything may      *)
(* happen between them.  QueueNext lets any client issue any statement at  *)
(* any moment; the modules of the clients restrict that to what each       *)
(* client does.                                                            *)
(*                                                                         *)
(* Time is counted in ticks of the heartbeat interval (30 s), and a row    *)
(* keeps the age of its heartbeat_at instead of the timestamp.             *)
(***************************************************************************)
EXTENDS Integers, FiniteSets, Sequences

CONSTANTS
    Keys,            \* build keys (hashes of build configurations)
    Workers,         \* ids of worker processes, one per process lifetime
    NoWorker,        \* SQL NULL in current_worker_id
    MaxAttempts,     \* build_jobs.max_attempts (the schema's default is 3)
    StuckThreshold,  \* ticks without heartbeat before a job counts as stuck
    MaxAhead,        \* bound: ticks a janitor's clock may be ahead of the database's
    MaxElapsed,      \* bound: ticks by which the cutoff of a rescue cycle may be late
    MaxLocked,       \* bound: pending rows locked by other sessions at a claim
    AttemptBound     \* bound: attempts a model lets one job collect

ASSUME KeysAssumption == IsFiniteSet(Keys)
ASSUME WorkersAssumption == NoWorker \notin Workers
ASSUME BoundsAssumption ==
    /\ MaxAttempts \in Nat \ {0}
    /\ StuckThreshold \in Nat
    /\ MaxAhead \in 0 .. StuckThreshold
    /\ MaxElapsed \in Nat
    /\ MaxLocked \in Nat
    /\ AttemptBound \in Nat

VARIABLES
    jobs,      \* build_jobs, one row per key; "absent" where there is no row
    attempts   \* build_attempts per key, in the order of attempt_number

queueVars == <<jobs, attempts>>

-----------------------------------------------------------------------------
(* Rows.  locked_at is set and cleared together with current_worker_id and *)
(* is read by nobody; updated_at is read by nobody either.                 *)

Statuses == {"pending", "building", "completed", "failed"}
Errors == {"none", "build", "released", "rescued"}

\* SQL NULL in heartbeat_at: no comparison with it is true, hence below any age.
NoHeartbeat == -1
\* Ages saturate where they exceed every cutoff a rescue cycle compares with.
MaxAge == StuckThreshold + MaxElapsed + 1

Job == [status : Statuses \cup {"absent"},
        worker : Workers \cup {NoWorker},
        heartbeat : NoHeartbeat .. MaxAge,
        storage_key : BOOLEAN,     \* NOT NULL
        completed_at : BOOLEAN,    \* NOT NULL
        created_at : Nat]          \* position in the order of insertion

Attempt == [worker : Workers, status : Statuses \ {"pending"}, error : Errors]

NoJob == [status |-> "absent", worker |-> NoWorker, heartbeat |-> NoHeartbeat,
          storage_key |-> FALSE, completed_at |-> FALSE, created_at |-> 0]

QueueInit ==
    /\ jobs = [k \in Keys |-> NoJob]
    /\ attempts = [k \in Keys |-> << >>]

-----------------------------------------------------------------------------
(* What the WHERE clauses select and what the SET clauses write.           *)

Present == {k \in Keys : jobs[k].status # "absent"}

Pending == {k \in Keys : jobs[k].status = "pending"}

\* ORDER BY created_at ASC LIMIT 1
Oldest(S) == {k \in S : \A l \in S : jobs[k].created_at <= jobs[l].created_at}

Owns(w, k) == jobs[k].status = "building" /\ jobs[k].worker = w

\* heartbeat_at < cutoff, with the cutoff given as an age
IsStuck(k, cutoff) == jobs[k].status = "building" /\ jobs[k].heartbeat > cutoff

\* Mutant: a status change that forgets to clear heartbeat_at.
UnlockedKeepingHeartbeat(job, st) == [job EXCEPT !.status = st, !.worker = NoWorker]

Unlocked(job, st) ==
    [job EXCEPT !.status = st, !.worker = NoWorker, !.heartbeat = NoHeartbeat]

\* Mutant: attempts of the workers are closed whatever their status is.
ClosedAgain(history, W, st, err) ==
    [i \in DOMAIN history |->
        IF history[i].worker \in W
        THEN [history[i] EXCEPT !.status = st, !.error = err]
        ELSE history[i]]

Closed(history, W, st, err) ==
    [i \in DOMAIN history |->
        IF history[i].status = "building" /\ history[i].worker \in W
        THEN [history[i] EXCEPT !.status = st, !.error = err]
        ELSE history[i]]

-----------------------------------------------------------------------------
(* The statements.  One whose WHERE clause selects no row changes nothing. *)

InsertJob(k) ==  \* CreateBuild: INSERT ... ON CONFLICT DO NOTHING
    /\ jobs' = IF k \in Present THEN jobs
               ELSE [jobs EXCEPT ![k] =
                       [NoJob EXCEPT !.status = "pending",
                                     !.created_at = Cardinality(Present)]]
    /\ UNCHANGED attempts

\* Rows a claim may find locked by other sessions, and skip.
LockedRows == {S \in SUBSET Pending : Cardinality(S) <= MaxLocked}

\* Mutant: the claim finds an attempt of the job already there and adds none.
ClaimWithoutAttempt(w, k) ==
    /\ \E skipped \in LockedRows : k \in Oldest(Pending \ skipped)
    /\ Len(attempts[k]) < AttemptBound
    /\ jobs' = [jobs EXCEPT ![k].status = "building", ![k].worker = w,
                            ![k].heartbeat = 0]
    /\ attempts' = [attempts EXCEPT ![k] =
                      IF @ # << >> THEN @
                      ELSE <<[worker |-> w, status |-> "building", error |-> "none"]>>]

\* Mutant: the claim also selects jobs that are being built.
ClaimOfBuilding(w, k) ==
    /\ jobs[k].status \in {"pending", "building"}
    /\ Len(attempts[k]) < AttemptBound
    /\ jobs' = [jobs EXCEPT ![k].status = "building", ![k].worker = w,
                            ![k].heartbeat = 0]
    /\ attempts' = [attempts EXCEPT ![k] =
                      Append(@, [worker |-> w, status |-> "building", error |-> "none"])]

\* Mutant: the claim leaves heartbeat_at for the first heartbeat to set.
ClaimWithoutHeartbeat(w, k) ==
    /\ \E skipped \in LockedRows : k \in Oldest(Pending \ skipped)
    /\ Len(attempts[k]) < AttemptBound
    /\ jobs' = [jobs EXCEPT ![k].status = "building", ![k].worker = w]
    /\ attempts' = [attempts EXCEPT ![k] =
                      Append(@, [worker |-> w, status |-> "building", error |-> "none"])]

ClaimNextBuild(w, k) ==
    /\ \E skipped \in LockedRows : k \in Oldest(Pending \ skipped)
    /\ Len(attempts[k]) < AttemptBound
    /\ jobs' = [jobs EXCEPT ![k].status = "building", ![k].worker = w,
                            ![k].heartbeat = 0]
    /\ attempts' = [attempts EXCEPT ![k] =
                      Append(@, [worker |-> w, status |-> "building", error |-> "none"])]

ErrorOf(st) == IF st = "completed" THEN "none" ELSE "build"

\* Mutant: the attempt is closed only when the build failed.
UpdateFailedAttempt(k, st) ==
    /\ attempts' = IF st = "failed"
                   THEN [attempts EXCEPT ![k] = Closed(@, Workers, st, ErrorOf(st))]
                   ELSE attempts
    /\ UNCHANGED jobs

UpdateAttempt(k, st) ==  \* UpdateBuildStatus, first statement
    /\ attempts' = [attempts EXCEPT ![k] = Closed(@, Workers, st, ErrorOf(st))]
    /\ UNCHANGED jobs

UpdateJob(k, st) ==  \* UpdateBuildStatus, second statement
    /\ jobs' = IF k \notin Present THEN jobs
               ELSE [jobs EXCEPT ![k] =
                       [Unlocked(@, st) EXCEPT !.storage_key = (st = "completed"),
                                               !.completed_at = (st = "completed")]]
    /\ UNCHANGED attempts

\* Mutant: the WHERE clause of the heartbeat asks for a pending job.
HeartbeatOfPending(k, w) ==
    /\ jobs' = IF jobs[k].status = "pending" THEN [jobs EXCEPT ![k].heartbeat = 0]
               ELSE jobs
    /\ UNCHANGED attempts

UpdateHeartbeat(k, w) ==
    /\ jobs' = IF Owns(w, k) THEN [jobs EXCEPT ![k].heartbeat = 0] ELSE jobs
    /\ UNCHANGED attempts

\* Mutant: the attempt gets the status that the job is released to.
ReleaseAttemptToPending(k, w) ==
    /\ attempts' = [attempts EXCEPT ![k] = Closed(@, {w}, "pending", "released")]
    /\ UNCHANGED jobs

ReleaseAttempt(k, w) ==  \* ReleaseJob, first statement
    /\ attempts' = [attempts EXCEPT ![k] = Closed(@, {w}, "failed", "released")]
    /\ UNCHANGED jobs

\* Mutant: the release clears the heartbeat and leaves the status.
ReleaseHeartbeat(k, w) ==
    /\ jobs' = IF Owns(w, k) THEN [jobs EXCEPT ![k].heartbeat = NoHeartbeat] ELSE jobs
    /\ UNCHANGED attempts

ReleaseRow(k, w) ==  \* ReleaseJob, second statement
    /\ jobs' = IF Owns(w, k) THEN [jobs EXCEPT ![k] = Unlocked(@, "pending")] ELSE jobs
    /\ UNCHANGED attempts

RescueAttempts(cutoff) ==  \* RescueStuckBuilds, first statement
    /\ attempts' = [k \in Keys |->
                      IF IsStuck(k, cutoff)
                      THEN Closed(attempts[k], Workers, "failed", "rescued")
                      ELSE attempts[k]]
    /\ UNCHANGED jobs

RescueJobs(cutoff) ==  \* RescueStuckBuilds, second statement
    /\ jobs' = [k \in Keys |->
                  IF IsStuck(k, cutoff) THEN Unlocked(jobs[k], "pending") ELSE jobs[k]]
    /\ UNCHANGED attempts

\* Mutant: one retry too many.
CanRetryOnceMore(k) == jobs[k].status = "failed" /\ Len(attempts[k]) <= MaxAttempts

\* Mutant: every finished job with attempts left is retried.
CanRetryFinished(k) ==
    jobs[k].status \in {"failed", "completed"} /\ Len(attempts[k]) < MaxAttempts

CanRetry(k) == jobs[k].status = "failed" /\ Len(attempts[k]) < MaxAttempts

RetryFailedBuilds ==
    /\ jobs' = [k \in Keys |->
                  IF CanRetry(k) THEN Unlocked(jobs[k], "pending") ELSE jobs[k]]
    /\ UNCHANGED attempts

\* Mutant: the reset leaves completed_at as it was.
ResetKeepingCompletion(k) ==
    /\ jobs' = IF k \notin Present THEN jobs
               ELSE [jobs EXCEPT ![k] = Unlocked(@, "pending")]
    /\ UNCHANGED attempts

ResetBuildAttempts(k) ==
    /\ jobs' = IF k \notin Present THEN jobs
               ELSE [jobs EXCEPT ![k] =
                       [Unlocked(@, "pending") EXCEPT !.completed_at = FALSE]]
    /\ UNCHANGED attempts

\* One heartbeat interval passes: what is not NULL grows older.
Tick ==
    /\ jobs' = [k \in Keys |->
                  IF jobs[k].heartbeat \in 0 .. MaxAge - 1
                  THEN [jobs[k] EXCEPT !.heartbeat = @ + 1] ELSE jobs[k]]
    /\ UNCHANGED attempts

-----------------------------------------------------------------------------
Verdicts == {"completed", "failed"}
Cutoffs == StuckThreshold - MaxAhead .. StuckThreshold + MaxElapsed

WorkerStatement(w, k) ==
    \/ ClaimNextBuild(w, k)
    \/ \E st \in Verdicts : UpdateAttempt(k, st) \/ UpdateJob(k, st)
    \/ UpdateHeartbeat(k, w)
    \/ ReleaseAttempt(k, w)
    \/ ReleaseRow(k, w)

JanitorStatement ==
    \/ \E cutoff \in Cutoffs : RescueAttempts(cutoff) \/ RescueJobs(cutoff)
    \/ RetryFailedBuilds

ApiStatement(k) == InsertJob(k) \/ ResetBuildAttempts(k)

QueueNext ==
    \/ \E w \in Workers, k \in Keys : WorkerStatement(w, k)
    \/ JanitorStatement
    \/ \E k \in Keys : ApiStatement(k)
    \/ Tick

QueueSpec == QueueInit /\ [][QueueNext]_queueVars

-----------------------------------------------------------------------------
(* The two tables keep the types and the NOT NULLs of the schema, and an   *)
(* attempt is never pending: that is for the job to be.                      *)
QueueTypeOK ==
    /\ jobs \in [Keys -> Job]
    /\ attempts \in [Keys -> Seq(Attempt)]

(* A job has an owner and a heartbeat exactly while it is being built.  A  *)
(* building row with heartbeat_at NULL would never satisfy heartbeat_at <  *)
(* cutoff: the janitor could not see it and the job would hang for ever.   *)
LockIffBuilding ==
    \A k \in Keys :
        /\ jobs[k].status = "building" <=> jobs[k].worker # NoWorker
        /\ jobs[k].status = "building" <=> jobs[k].heartbeat # NoHeartbeat

(* A completed job has what serving it dereferences (storage_key,          *)
(* *build.CompletedAt), and no other job looks completed, whatever         *)
(* verdicts, rescues and forced resets came before.                        *)
CompletedIsServable ==
    \A k \in Keys :
        /\ jobs[k].status = "completed" => jobs[k].storage_key
        /\ jobs[k].status = "completed" <=> jobs[k].completed_at

(* The owner of a building job is the worker of its newest attempt: what   *)
(* a status query shows as worker and attempt belong together even after   *)
(* rescues, releases and resets handed the job from worker to worker.      *)
OwnerIsNewestAttempt ==
    \A k \in Keys :
        jobs[k].status = "building" =>
            /\ attempts[k] # << >>
            /\ attempts[k][Len(attempts[k])].worker = jobs[k].worker

(* The history of a job only grows, and an attempt that has a verdict      *)
(* keeps it: no statement of a late worker or of the janitor rewrites it.  *)
VerdictsAreFinal ==
    [][\A k \in Keys :
          /\ Len(attempts[k]) <= Len(attempts'[k])
          /\ \A i \in DOMAIN attempts[k] :
                /\ attempts'[k][i].worker = attempts[k][i].worker
                /\ attempts[k][i].status # "building" =>
                       attempts'[k][i] = attempts[k][i]]_queueVars

(* A job changes hands only through a claim of the pending job, which      *)
(* opens an attempt for the new owner: two workers never swap a lock.      *)
LockPassesThroughPending ==
    [][\A k \in Keys :
          jobs'[k].worker \notin {NoWorker, jobs[k].worker} =>
              /\ jobs[k].status = "pending"
              /\ Len(attempts'[k]) = Len(attempts[k]) + 1]_queueVars
=============================================================================
