----------------------------- MODULE BuildServer -----------------------------
(***************************************************************************)
(* The build server: workers, janitor and API handlers, each a program of  *)
(* its own, around the tables of the build queue.  They share nothing but  *)
(* the tables, so a step of one of them is that component's action with    *)
(* the state of the others unchanged.                                      *)
(***************************************************************************)
EXTENDS Worker, Janitor, Api

\* A worker sends a heartbeat every 30 s; a job is stuck after 60 s without one,
\* by a clock that is not so far ahead that this becomes less than an interval.
ASSUME ThresholdAssumption == StuckThreshold > MaxAhead

vars == <<queueVars, workerVars, rescue, req, faults>>

Init == QueueInit /\ WorkerInit /\ JanitorInit /\ ApiInit /\ faults = 0

TimePasses == ClockTick /\ CyclesAge /\ UNCHANGED req

Next ==
    \/ \E w \in Workers : WorkerStep(w) /\ UNCHANGED <<rescue, req>>
    \/ JanitorStep /\ UNCHANGED <<workerVars, req>>
    \/ ApiStep /\ UNCHANGED <<workerVars, rescue>>
    \/ TimePasses

Spec == Init /\ [][Next]_vars

-----------------------------------------------------------------------------
(* Fairness.  Goroutines that can run do run, and the timers that drive    *)
(* the poll loop, the heartbeats and the janitor's cycles keep firing.     *)
(* Time does not wait for the cycles, although in the model it stands      *)
(* still while one of them is as late as MaxElapsed lets it be: there are  *)
(* not infinitely many cycles within a tick.  Nobody has to request a      *)
(* build, preempt, stop or kill a process, or give up waiting.             *)

WorkerFairness(w) ==
    /\ WF_vars(LoopStep(w) /\ UNCHANGED <<rescue, req>>)
    /\ WF_vars(WatchStep(w) /\ ~ Preempt(w) /\ UNCHANGED <<rescue, req>>)
    /\ \A s \in Slots :
          /\ WF_vars(RunStep(w, s) /\ UNCHANGED <<rescue, req>>)
          /\ WF_vars(BeatStep(w, s) /\ UNCHANGED <<rescue, req>>)

Fairness ==
    /\ \A w \in Workers : WorkerFairness(w)
    /\ \A j \in Cycles : WF_vars(RescueStep(j) /\ UNCHANGED <<workerVars, req>>)
    /\ WF_vars(RetryCycle /\ UNCHANGED <<workerVars, req>>)
    /\ \A c \in Requests : WF_vars(HandlerStep(c) /\ UNCHANGED <<workerVars, rescue>>)
    /\ SF_vars(TimePasses)

FairSpec == Spec /\ Fairness

-----------------------------------------------------------------------------
(* Type correctness of all that the server adds to the tables.             *)
ServerTypeOK == WorkerTypeOK /\ JanitorTypeOK /\ ApiTypeOK

(* What may disturb a job: a failure of the environment, a worker that is  *)
(* preempted or stopped (it can give up as many attempts as it has slots), *)
(* and a forced rebuild that has reset the job.                            *)

TakenDown == {w \in Workers : stopRequested[w] \/ watch[w].pc # "watching"}

Forced(k) == {c \in ForcedRequests : req[c].key = k /\ req[c].reset}

Disturbances(k) == faults + MaxConcurrent * Cardinality(TakenDown)
                   + Cardinality(Forced(k))

Undisturbed(k) == Disturbances(k) = 0

Newest(k) == attempts[k][Len(attempts[k])]

Settled(k) == jobs[k].status = "completed" \/ Terminal(k)

(* Two goroutines build the same job only if something disturbed it, and   *)
(* each disturbance adds at most one.                                      *)
OneBuilderPerDisturbance ==
    \A k \in Keys :
        Cardinality({p \in Workers \X Slots : Builds(p[1], p[2], k)})
            <= 1 + Disturbances(k)

(* max_attempts limits the attempts of a job, except that every            *)
(* disturbance can cost one more: rescues and releases put a job back into *)
(* the queue without a look at the attempts it has had.                    *)
RetryBudget ==
    \A k \in Keys : Len(attempts[k]) <= MaxAttempts + Disturbances(k)

(* The two tables tell the same story of an undisturbed job, although its  *)
(* verdict is written by two statements: a settled verdict is that of the  *)
(* newest attempt, and a job in the queue has no open attempt.             *)
HistoryExplainsJob ==
    \A k \in Keys : Undisturbed(k) =>
        /\ jobs[k].status \in Verdicts => Newest(k).status = jobs[k].status
        /\ jobs[k].status = "pending" =>
               \A i \in DOMAIN attempts[k] : attempts[k][i].status = "failed"
        /\ jobs[k].status = "building" =>
               \A i \in 1 .. Len(attempts[k]) - 1 : attempts[k][i].status = "failed"

(* An undisturbed worker does not lose the job it builds: its heartbeats   *)
(* keep the job out of every rescue, however long the build, however slow  *)
(* the rescue cycle and however wrong the janitor's clock (unless it is    *)
(* ahead by a heartbeat interval or more); the lock ends with the worker's *)
(* own verdict.                                                            *)
HealthyWorkerKeepsJob ==
    [][\A k \in Keys, w \in Workers, s \in Slots :
          /\ Undisturbed(k)'
          /\ Owns(w, k)
          /\ Builds(w, s, k)
          /\ ~ Owns(w, k)'
          => run[w][s].pc = "job"]_vars

\* What a client sees of a job; a failed attempt that will be retried is part
\* of the wait.
ClientView(k) ==
    IF Terminal(k) THEN "failed"
    ELSE CASE jobs[k].status = "absent" -> "absent"
           [] jobs[k].status = "completed" -> "done"
           [] OTHER -> "waiting"

Lifecycle == INSTANCE BuildLifecycle WITH
    state <- [k \in Keys |-> ClientView(k)],
    disturbed <- {k \in Keys : ~ Undisturbed(k)}

(* The server keeps what BuildLifecycle promises: nothing but a            *)
(* disturbance takes a job back from done or failed, whatever the workers, *)
(* the janitor and the handlers do at the same time.                       *)
ImplementsLifecycle == Lifecycle!LifecycleSpec

(* Every requested build is completed or fails for good, through crashes,  *)
(* preemptions, lost claims, failed statements and rescues, as long as     *)
(* these are finitely many and one worker goes on.                         *)
BuildsSettle == \A k \in Keys : jobs[k].status # "absent" ~> Settled(k)

(* The handler of a compat request that waits comes to an end by what      *)
(* becomes of the build, not by its limit of thirty minutes: its poll,     *)
(* which races the retries of the janitor, sees a last verdict if none     *)
(* before.  Its client need not hear of it, as the handler does not know   *)
(* of the write deadline: a reply after that is "unsent".                  *)
CompatHandlerEnds == \A c \in CompatRequests : req[c].pc = "poll" ~> req[c].pc = "done"

(* A worker that is preempted comes to an end by itself: its drain, which  *)
(* has no time limit (waitForJobsToComplete), cannot hang on a job that    *)
(* was released, cancelled, or claimed too late to be released, nor on a   *)
(* token that was lost.                                                    *)
DrainEnds ==
    \A w \in Workers : watch[w].pc = "preempted" ~> loop[w] \in {"returned", "dead"}
=============================================================================
