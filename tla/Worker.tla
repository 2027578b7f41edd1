------------------------------- MODULE Worker -------------------------------
(***************************************************************************)
(* The worker processes of pkg/worker/worker.go.  A worker is one claim    *)
(* loop (Start), one goroutine per claimed job (processBuild and its       *)
(* heartbeat) and, where preemption is configured, one goroutine that      *)
(* waits for a preemption event (watchPreemption).  They share the         *)
(* jobTracker: a counting semaphore, the map of active jobs and the        *)
(* shuttingDown flag.                                                      *)
(*                                                                         *)
(* A goroutine of a job occupies a slot: its number names the goroutine in *)
(* the active map, whose values in the code are the goroutines' cancel     *)
(* functions.  A process that ends never comes back: a restarted one       *)
(* calls itself by a new id (generateWorkerID).                            *)
(***************************************************************************)
EXTENDS BuildQueue, Faults

CONSTANTS
    NoKey,          \* no job in hand
    MaxConcurrent,  \* capacity of the semaphore (max_jobs)
    Preemptible,    \* workers with a preemptor configured
    Stoppable,      \* workers somebody may stop in an orderly way
    Mortal          \* workers that may die without warning

ASSUME NoKeyAssumption == NoKey \notin Keys
ASSUME WorkerAssumption ==
    /\ MaxConcurrent \in Nat \ {0}
    /\ Preemptible \subseteq Workers
    /\ Stoppable \subseteq Workers
    /\ Mortal \subseteq Workers

VARIABLES
    loop,           \* where Start and tryClaimJob are
    inHand,         \* the job the loop has claimed and not yet registered
    sem,            \* tokens in jobTracker.inProgress
    filled,         \* tokens put there by waitForJobsToComplete
    active,         \* jobTracker.active: key -> slot, 0 where there is none
    run,            \* the goroutine in each slot
    shuttingDown,   \* jobTracker.shuttingDown
    stopRequested,  \* Worker.done is closed and the context cancelled
    watch           \* where watchPreemption and cancelAllActiveJobs are

workerVars == <<loop, inHand, sem, filled, active, run, shuttingDown,
                stopRequested, watch>>

-----------------------------------------------------------------------------
Slots == 1 .. MaxConcurrent

\* "building" is Builder.Build; "attempt" and "job" are before the statements
\* of UpdateBuildStatus; "remove" and "release" are the deferred calls.
RunPCs == {"idle", "building", "attempt", "job", "remove", "release"}

Run == [pc : RunPCs,
        key : Keys \cup {NoKey},
        outcome : Verdicts \cup {"none"},
        beat : {"off", "waiting", "due"},   \* the heartbeat goroutine
        cancelled : BOOLEAN]                \* the job's context

NoRun == [pc |-> "idle", key |-> NoKey, outcome |-> "none", beat |-> "off",
          cancelled |-> FALSE]

\* Mutant: no heartbeat goroutine is started.
NewRunWithoutHeartbeat(k) == [pc |-> "building", key |-> k, outcome |-> "none",
                              beat |-> "off", cancelled |-> FALSE]

NewRun(k) == [pc |-> "building", key |-> k, outcome |-> "none",
              beat |-> "waiting", cancelled |-> FALSE]

\* processBuild has returned: the heartbeat is off, the deferred calls are left.
Returned(r) == [r EXCEPT !.pc = "remove", !.outcome = "none", !.beat = "off"]

NoWatch == [pc |-> "watching", todo |-> {}, key |-> NoKey]

WorkerInit ==
    /\ loop = [w \in Workers |-> "select"]
    /\ inHand = [w \in Workers |-> NoKey]
    /\ sem = [w \in Workers |-> 0]
    /\ filled = [w \in Workers |-> 0]
    /\ active = [w \in Workers |-> [k \in Keys |-> 0]]
    /\ run = [w \in Workers |-> [s \in Slots |-> NoRun]]
    /\ shuttingDown = [w \in Workers |-> FALSE]
    /\ stopRequested = [w \in Workers |-> FALSE]
    /\ watch = [w \in Workers |-> NoWatch]
    /\ faults = 0

Alive(w) == loop[w] # "dead"

\* The goroutine in slot s of w still works on job k.
Builds(w, s, k) == run[w][s].key = k /\ run[w][s].pc \in {"building", "attempt", "job"}

Busy(w) == {s \in Slots : run[w][s].pc # "idle"}

Active(w) == {k \in Keys : active[w][k] # 0}

\* cancelAllActiveJobs holds activeMu for reading: the map cannot be written.
MapLocked(w) == watch[w].pc \in {"next", "row", "cancel"}

SetRun(w, s, r) == run' = [run EXCEPT ![w][s] = r]

-----------------------------------------------------------------------------
(* The claim loop: Start and tryClaimJob.                                  *)

\* Mutant: the claim does not look at shuttingDown.
TryClaimShuttingDown(w) ==
    /\ loop[w] = "select"
    /\ ~ stopRequested[w]
    /\ sem[w] < MaxConcurrent
    /\ sem' = [sem EXCEPT ![w] = @ + 1]
    /\ loop' = [loop EXCEPT ![w] = "claiming"]
    /\ UNCHANGED <<queueVars, inHand, filled, active, run, shuttingDown,
                   stopRequested, watch, faults>>

\* A tick of the poll timer with capacity left.  After a stop the context is
\* cancelled: the claim fails before it reaches the database, its token is put
\* back, and nothing has changed.
TryClaim(w) ==
    /\ loop[w] = "select"
    /\ ~ shuttingDown[w]
    /\ ~ stopRequested[w]
    /\ sem[w] < MaxConcurrent
    /\ sem' = [sem EXCEPT ![w] = @ + 1]
    /\ loop' = [loop EXCEPT ![w] = "claiming"]
    /\ UNCHANGED <<queueVars, inHand, filled, active, run, shuttingDown,
                   stopRequested, watch, faults>>

ClaimOne(w, k) ==
    /\ loop[w] = "claiming"
    /\ ClaimNextBuild(w, k)
    /\ loop' = [loop EXCEPT ![w] = "claimed"]
    /\ inHand' = [inHand EXCEPT ![w] = k]
    /\ UNCHANGED <<sem, filled, active, run, shuttingDown, stopRequested,
                   watch, faults>>

\* Mutant: the token of a claim that came to nothing is kept.
BackWithToken(w) ==
    /\ loop[w] = "claiming"
    /\ loop' = [loop EXCEPT ![w] = "select"]
    /\ UNCHANGED <<sem, inHand, filled, active, run, shuttingDown, stopRequested, watch>>

\* Mutant: the token goes back twice, once on the path of the claim and once in
\* a deferred call.
BackTwice(w) ==
    /\ loop[w] = "claiming"
    /\ loop' = [loop EXCEPT ![w] = "select"]
    /\ sem' = [sem EXCEPT ![w] = @ - 2]
    /\ UNCHANGED <<inHand, filled, active, run, shuttingDown, stopRequested, watch>>

\* The token of a claim that came to nothing goes back.
BackToSelect(w) ==
    /\ loop[w] = "claiming"
    /\ loop' = [loop EXCEPT ![w] = "select"]
    /\ sem' = [sem EXCEPT ![w] = @ - 1]
    /\ UNCHANGED <<inHand, filled, active, run, shuttingDown, stopRequested, watch>>

ClaimNone(w) ==
    /\ Pending \in LockedRows
    /\ BackToSelect(w)
    /\ UNCHANGED <<queueVars, faults>>

\* The claim uses the loop's context: a stop cancels a claim in flight, and the
\* database may fail by itself.  In both cases the row may be claimed or not.
ClaimFails(w) ==
    /\ BackToSelect(w)
    /\ IF stopRequested[w] THEN UNCHANGED faults ELSE Fault
    /\ \/ UNCHANGED queueVars
       \/ \E k \in Keys : ClaimNextBuild(w, k)

\* addActiveJob, and the goroutine starts.
Register(w) ==
    /\ loop[w] = "claimed"
    /\ ~ MapLocked(w)
    /\ \E s \in Slots \ Busy(w) :
          /\ \A t \in Slots \ Busy(w) : s <= t
          /\ active' = [active EXCEPT ![w][inHand[w]] = s]
          /\ SetRun(w, s, NewRun(inHand[w]))
    /\ loop' = [loop EXCEPT ![w] = "select"]
    /\ inHand' = [inHand EXCEPT ![w] = NoKey]
    /\ UNCHANGED <<queueVars, sem, filled, shuttingDown, stopRequested, watch, faults>>

\* The select sees w.preempted, w.done or the cancelled context.
LoopSeesStop(w) ==
    /\ loop[w] = "select"
    /\ watch[w].pc = "done" \/ stopRequested[w]
    /\ loop' = [loop EXCEPT ![w] = "draining"]
    /\ shuttingDown' = [shuttingDown EXCEPT ![w] = TRUE]
    /\ UNCHANGED <<queueVars, inHand, sem, filled, active, run, stopRequested,
                   watch, faults>>

\* waitForJobsToComplete takes the whole semaphore, token by token.
FillSem(w) ==
    /\ loop[w] = "draining"
    /\ filled[w] < MaxConcurrent
    /\ sem[w] < MaxConcurrent
    /\ sem' = [sem EXCEPT ![w] = @ + 1]
    /\ filled' = [filled EXCEPT ![w] = @ + 1]
    /\ UNCHANGED <<queueVars, loop, inHand, active, run, shuttingDown,
                   stopRequested, watch, faults>>

\* Start returns; after a preemption the shutdowner stops the application.
StartReturns(w) ==
    /\ loop[w] = "draining"
    /\ filled[w] = MaxConcurrent
    /\ loop' = [loop EXCEPT ![w] = "returned"]
    /\ stopRequested' = [stopRequested EXCEPT ![w] = TRUE]
    /\ UNCHANGED <<queueVars, inHand, sem, filled, active, run, shuttingDown,
                   watch, faults>>

-----------------------------------------------------------------------------
(* The goroutine of a job: processBuild, its heartbeat, the deferred calls. *)

RunVars == <<loop, inHand, filled, shuttingDown, stopRequested, watch>>

\* Builder.Build returns.  An error of a cancelled build ends processBuild.
BuildReturns(w, s) ==
    LET r == run[w][s] IN
    /\ r.pc = "building"
    /\ \/ \E outcome \in Verdicts :
             /\ r.cancelled => outcome = "completed"
             /\ SetRun(w, s, [r EXCEPT !.pc = "attempt", !.outcome = outcome])
       \/ r.cancelled /\ SetRun(w, s, Returned(r))
    /\ UNCHANGED <<queueVars, RunVars, sem, active, faults>>

RecordAttempt(w, s) ==
    LET r == run[w][s] IN
    /\ r.pc = "attempt"
    /\ ~ r.cancelled
    /\ UpdateAttempt(r.key, r.outcome)
    /\ SetRun(w, s, [r EXCEPT !.pc = "job"])
    /\ UNCHANGED <<RunVars, sem, active, faults>>

RecordJob(w, s) ==
    LET r == run[w][s] IN
    /\ r.pc = "job"
    /\ ~ r.cancelled
    /\ UpdateJob(r.key, r.outcome)
    /\ SetRun(w, s, Returned(r))
    /\ UNCHANGED <<RunVars, sem, active, faults>>

\* A statement of UpdateBuildStatus fails; the error is logged, nothing else.
RecordFails(w, s) ==
    LET r == run[w][s] IN
    /\ r.pc \in {"attempt", "job"}
    /\ IF r.cancelled THEN UNCHANGED faults ELSE Fault
    /\ SetRun(w, s, Returned(r))
    /\ UNCHANGED <<queueVars, RunVars, sem, active>>

Heartbeat(w, s) ==
    LET r == run[w][s] IN
    /\ r.beat = "due"
    /\ Owns(w, r.key)
    /\ UpdateHeartbeat(r.key, w)
    /\ SetRun(w, s, [r EXCEPT !.beat = "waiting"])
    /\ UNCHANGED <<RunVars, sem, active, faults>>

\* No row updated, or a database error: the heartbeat goroutine ends for good.
HeartbeatFails(w, s) ==
    LET r == run[w][s] IN
    /\ r.beat = "due"
    /\ IF Owns(w, r.key) THEN Fault ELSE UNCHANGED faults
    /\ SetRun(w, s, [r EXCEPT !.beat = "off"])
    /\ UNCHANGED <<queueVars, RunVars, sem, active>>

\* Mutant: the entry is removed without the lock of the map.
RemoveUnlocked(w, s) ==
    LET r == run[w][s] IN
    /\ r.pc = "remove"
    /\ active' = [active EXCEPT ![w][r.key] = 0]
    /\ SetRun(w, s, [r EXCEPT !.pc = "release"])
    /\ UNCHANGED <<queueVars, RunVars, sem, faults>>

RemoveActive(w, s) ==
    LET r == run[w][s] IN
    /\ r.pc = "remove"
    /\ ~ MapLocked(w)
    /\ active' = [active EXCEPT ![w][r.key] = 0]
    /\ SetRun(w, s, [r EXCEPT !.pc = "release"])
    /\ UNCHANGED <<queueVars, RunVars, sem, faults>>

\* Mutant: the deferred release runs before the entry is removed.
ReleaseSemFirst(w, s) ==
    /\ run[w][s].pc \in {"remove", "release"}
    /\ sem' = [sem EXCEPT ![w] = @ - 1]
    /\ SetRun(w, s, NoRun)
    /\ UNCHANGED <<queueVars, RunVars, active, faults>>

\* Mutant: a cancelled job returns without releasing its token.
ReleaseSemUncancelled(w, s) ==
    /\ run[w][s].pc = "release"
    /\ sem' = [sem EXCEPT ![w] = IF run[w][s].cancelled THEN @ ELSE @ - 1]
    /\ SetRun(w, s, NoRun)
    /\ UNCHANGED <<queueVars, RunVars, active, faults>>

ReleaseSem(w, s) ==
    /\ run[w][s].pc = "release"
    /\ sem' = [sem EXCEPT ![w] = @ - 1]
    /\ SetRun(w, s, NoRun)
    /\ UNCHANGED <<queueVars, RunVars, active, faults>>

-----------------------------------------------------------------------------
(* The preemption goroutine: watchPreemption and cancelAllActiveJobs.      *)

WatchVars == <<loop, inHand, sem, filled, active, stopRequested>>

SetWatch(w, r) == watch' = [watch EXCEPT ![w] = r]

\* The first event; the ones after it are never read.
Preempt(w) ==
    /\ w \in Preemptible
    /\ Alive(w)
    /\ watch[w].pc = "watching"
    /\ shuttingDown' = [shuttingDown EXCEPT ![w] = TRUE]
    /\ SetWatch(w, [watch[w] EXCEPT !.pc = "preempted"])
    /\ UNCHANGED <<queueVars, WatchVars, run, faults>>

BeginRelease(w) ==
    /\ watch[w].pc = "preempted"
    /\ SetWatch(w, [watch[w] EXCEPT !.pc = "next", !.todo = Active(w)])
    /\ UNCHANGED <<queueVars, WatchVars, run, shuttingDown, faults>>

\* The iteration order of a Go map is arbitrary.
ReleaseFirst(w, k) ==
    /\ watch[w].pc = "next"
    /\ k \in watch[w].todo
    /\ ReleaseAttempt(k, w)
    /\ SetWatch(w, [watch[w] EXCEPT !.pc = "row", !.key = k])
    /\ UNCHANGED <<WatchVars, run, shuttingDown, faults>>

ReleaseSecond(w) ==
    /\ watch[w].pc = "row"
    /\ ReleaseRow(watch[w].key, w)
    /\ SetWatch(w, [watch[w] EXCEPT !.pc = "cancel"])
    /\ UNCHANGED <<WatchVars, run, shuttingDown, faults>>

\* Either statement of ReleaseJob fails: logged, and the job is cancelled.
ReleaseFails(w) ==
    /\ \/ /\ watch[w].pc = "next"
          /\ \E k \in watch[w].todo :
                SetWatch(w, [watch[w] EXCEPT !.pc = "cancel", !.key = k])
       \/ /\ watch[w].pc = "row"
          /\ SetWatch(w, [watch[w] EXCEPT !.pc = "cancel"])
    /\ Fault
    /\ UNCHANGED <<queueVars, WatchVars, run, shuttingDown>>

\* cancelFunc(): the context of the job, and of its heartbeat with it.
CancelJob(w) ==
    LET k == watch[w].key
        s == active[w][k]
    IN
    /\ watch[w].pc = "cancel"
    /\ SetRun(w, s, [run[w][s] EXCEPT !.cancelled = TRUE, !.beat = "off"])
    /\ SetWatch(w, [pc |-> "next", todo |-> watch[w].todo \ {k}, key |-> NoKey])
    /\ UNCHANGED <<queueVars, WatchVars, shuttingDown, faults>>

\* close(w.preempted)
ReleaseDone(w) ==
    /\ watch[w].pc = "next"
    /\ watch[w].todo = {}
    /\ SetWatch(w, [watch[w] EXCEPT !.pc = "done"])
    /\ UNCHANGED <<queueVars, WatchVars, run, shuttingDown, faults>>

-----------------------------------------------------------------------------
(* The process, and time.                                                  *)

RequestStop(w) ==  \* the OnStop hook: Stop() and cancel()
    /\ w \in Stoppable
    /\ Alive(w)
    /\ ~ stopRequested[w]
    /\ stopRequested' = [stopRequested EXCEPT ![w] = TRUE]
    /\ UNCHANGED <<queueVars, loop, inHand, sem, filled, active, run,
                   shuttingDown, watch, faults>>

\* The goroutines are gone; only the database remembers the jobs.
ProcessEnds(w) ==
    /\ loop' = [loop EXCEPT ![w] = "dead"]
    /\ inHand' = [inHand EXCEPT ![w] = NoKey]
    /\ sem' = [sem EXCEPT ![w] = 0]
    /\ filled' = [filled EXCEPT ![w] = 0]
    /\ active' = [active EXCEPT ![w] = [k \in Keys |-> 0]]
    /\ run' = [run EXCEPT ![w] = [s \in Slots |-> NoRun]]
    /\ SetWatch(w, IF watch[w] = NoWatch THEN NoWatch
                   ELSE [pc |-> "done", todo |-> {}, key |-> NoKey])
    /\ UNCHANGED <<queueVars, shuttingDown, stopRequested>>

Exit(w) ==  \* the hook returns: Start has, or the stop timeout has passed
    /\ Alive(w)
    /\ stopRequested[w]
    /\ ProcessEnds(w)
    /\ UNCHANGED faults

Crash(w) ==
    /\ w \in Mortal
    /\ Alive(w)
    /\ ProcessEnds(w)
    /\ Fault

\* A heartbeat is due, or a job claimed and not yet started, when time passes.
Late == \E w \in Workers :
            \/ loop[w] = "claimed"
            \/ \E s \in Slots : run[w][s].beat = "due"

\* A heartbeat interval passes and every heartbeat ticker fires.  A process
\* that has fallen behind by then counts as a failure of the environment.
ClockTick ==
    /\ Tick
    /\ run' = [w \in Workers |-> [s \in Slots |->
                 IF run[w][s].beat = "waiting"
                 THEN [run[w][s] EXCEPT !.beat = "due"] ELSE run[w][s]]]
    /\ IF Late THEN Fault ELSE UNCHANGED faults
    /\ UNCHANGED <<loop, inHand, sem, filled, active, shuttingDown,
                   stopRequested, watch>>

-----------------------------------------------------------------------------
LoopStep(w) ==
    \/ TryClaim(w)
    \/ \E k \in Keys : ClaimOne(w, k)
    \/ ClaimNone(w)
    \/ ClaimFails(w)
    \/ Register(w)
    \/ LoopSeesStop(w)
    \/ FillSem(w)
    \/ StartReturns(w)

RunStep(w, s) ==
    \/ BuildReturns(w, s)
    \/ RecordAttempt(w, s)
    \/ RecordJob(w, s)
    \/ RecordFails(w, s)
    \/ RemoveActive(w, s)
    \/ ReleaseSem(w, s)

BeatStep(w, s) == Heartbeat(w, s) \/ HeartbeatFails(w, s)

WatchStep(w) ==
    \/ Preempt(w)
    \/ BeginRelease(w)
    \/ \E k \in Keys : ReleaseFirst(w, k)
    \/ ReleaseSecond(w)
    \/ ReleaseFails(w)
    \/ CancelJob(w)
    \/ ReleaseDone(w)

ProcessStep(w) == RequestStop(w) \/ Exit(w) \/ Crash(w)

WorkerStep(w) ==
    \/ LoopStep(w)
    \/ \E s \in Slots : RunStep(w, s) \/ BeatStep(w, s)
    \/ WatchStep(w)
    \/ ProcessStep(w)

\* The other users of the queue, unconstrained: rescue, retry and reset any
\* job at any time.  (The server composes the real ones instead.)
OthersStep ==
    /\ JanitorStatement \/ \E k \in Keys : ApiStatement(k)
    /\ UNCHANGED <<workerVars, faults>>

WorkersNext == (\E w \in Workers : WorkerStep(w)) \/ ClockTick \/ OthersStep

WorkersSpec == QueueInit /\ WorkerInit /\ [][WorkersNext]_<<queueVars, workerVars, faults>>

-----------------------------------------------------------------------------
(* Type correctness of the worker processes' state.                        *)
WorkerTypeOK ==
    /\ loop \in [Workers -> {"select", "claiming", "claimed", "draining",
                             "returned", "dead"}]
    /\ inHand \in [Workers -> Keys \cup {NoKey}]
    /\ sem \in [Workers -> 0 .. MaxConcurrent]
    /\ filled \in [Workers -> 0 .. MaxConcurrent]
    /\ active \in [Workers -> [Keys -> 0 .. MaxConcurrent]]
    /\ run \in [Workers -> [Slots -> Run]]
    /\ shuttingDown \in [Workers -> BOOLEAN]
    /\ stopRequested \in [Workers -> BOOLEAN]
    /\ watch \in [Workers -> [pc : {"watching", "preempted", "next", "row",
                                    "cancel", "done"},
                              todo : SUBSET Keys, key : Keys \cup {NoKey}]]
    /\ faults \in 0 .. MaxFaults

(* The tokens in the semaphore are those of the goroutines, of the claim   *)
(* in flight and of the drain, one each: none is lost on the error paths   *)
(* (the worker would slowly lose capacity) or released twice (it would     *)
(* block, or build more jobs at a time than configured).                   *)
SemCountsJobs ==
    \A w \in Workers :
        sem[w] = Cardinality(Busy(w)) + filled[w]
                 + (IF loop[w] \in {"claiming", "claimed"} THEN 1 ELSE 0)

(* An entry of the active map belongs to a running goroutine of that job,  *)
(* even when a job came back to the worker that was still building it:     *)
(* cancelAllActiveJobs never cancels a goroutine that builds another job.  *)
ActiveIsRunning ==
    \A w \in Workers : \A k \in Active(w) :
        LET r == run[w][active[w][k]] IN
        r.key = k /\ r.pc \in {"building", "attempt", "job", "remove"}

(* While a preemption is being handled the jobs it still has to release    *)
(* are exactly ones in the active map, and every entry it has dealt with   *)
(* is cancelled: no job is skipped and none is released twice.             *)
ReleaseCoversActive ==
    \A w \in Workers :
        MapLocked(w) =>
            \A k \in Keys :
                /\ k \in watch[w].todo => k \in Active(w)
                /\ k \in Active(w) =>
                       (k \in watch[w].todo <=> ~ run[w][active[w][k]].cancelled)
=============================================================================
