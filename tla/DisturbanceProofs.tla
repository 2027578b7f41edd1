------------------------- MODULE DisturbanceProofs -------------------------
(***************************************************************************)
(* What the build server keeps up to disturbances, for any number of       *)
(* workers, jobs and requests and any number of failures: the number of    *)
(* goroutines that build one job, the number of its attempts, the          *)
(* agreement of its row with its history, and the promise of BuildLifecycle.*)
(*                                                                         *)
(* The argument follows one job k.  JobStep(k) lists the dozen things that *)
(* a step of the server can do to it; the first half of the module shows   *)
(* that every action does one of them, the second half derives the         *)
(* invariants from that list alone.                                        *)
(***************************************************************************)
EXTENDS BuildServerProofs

One(b) == IF b THEN 1 ELSE 0

-----------------------------------------------------------------------------
(* Who works on a job.                                                     *)

\* The status that the goroutine in slot s of w has left the newest attempt in.
Expected(w, s) == IF run[w][s].pc = "job" THEN run[w][s].outcome ELSE "building"

\* Slot 0 is the claim loop, with a job that it has not handed over yet.
Holds(w, s, st, k) ==
    IF s = 0 THEN loop[w] = "claimed" /\ inHand[w] = k /\ st = "building"
    ELSE Builds(w, s, k) /\ st = Expected(w, s)

Holders(k) ==
    {h \in Workers \X (0 .. MaxConcurrent) \X Statuses : Holds(h[1], h[2], h[3], k)}

\* The release of all jobs is about to cancel the goroutine in slot s.
Cancelling(w, s, k) ==
    watch[w].pc = "cancel" /\ watch[w].key = k /\ active[w][k] = s

\* The goroutine in slot s keeps the row of its job young.
Beats(w, s, k) ==
    /\ Builds(w, s, k)
    /\ \/ run[w][s].beat = "waiting" /\ jobs[k].heartbeat = 0
       \/ run[w][s].beat = "due" /\ jobs[k].heartbeat \in 0 .. 1
    /\ ~ Cancelling(w, s, k)

\* The claim loop of w has just claimed the job.
InHand(w, k) == loop[w] = "claimed" /\ inHand[w] = k /\ jobs[k].heartbeat = 0

\* w owns the job, and does what keeps it from being rescued.
Tends(w, k) == Owns(w, k) /\ (InHand(w, k) \/ \E s \in Slots : Beats(w, s, k))

Tended(k) == \E w \in Workers : Tends(w, k)

\* w may still release the job: not so once it has, or when it never will.
Releasable(w, k) ==
    \/ watch[w].pc \in {"watching", "preempted"}
    \/ k \in watch[w].todo /\ ~ (watch[w].pc = "cancel" /\ watch[w].key = k)

Spent(k) == {w \in Workers : ~ Releasable(w, k)}

\* How many attempts of the job w can still give up when it is taken down: the
\* one it tends and the one it is claiming.  A worker taken down has given up
\* its other slots' worth.
Grip(w, k) == One(Tends(w, k)) + One(loop[w] = "claiming")

GivenUp(k) == {p \in TakenDown \X Slots : p[2] + Grip(p[1], k) <= MaxConcurrent}

\* The job waits for a worker, or has one that does not tend it.
Adrift(k) == jobs[k].status = "pending" \/ (jobs[k].status = "building" /\ ~ Tended(k))

-----------------------------------------------------------------------------
(* What a step can do to a job.                                            *)

SameOwner(k) == jobs'[k].status = jobs[k].status /\ jobs'[k].worker = jobs[k].worker

SameRow(k) == SameOwner(k) /\ attempts'[k] = attempts[k]

Keeps(k) == \A w \in Workers : Tends(w, k) => Tends(w, k)'

Shrinks(k) == Holders(k)' \subseteq Holders(k)

Loses(k, h) == h \in Holders(k) /\ Holders(k)' \subseteq Holders(k) \ {h}

Swaps(k, g, h) == g \in Holders(k) /\ Holders(k)' \subseteq (Holders(k) \ {g}) \cup {h}

OpenAttempt(w) == [worker |-> w, status |-> "building", error |-> "none"]

\* Nothing that counts as a disturbance of any job.
Calm == /\ UNCHANGED <<faults, stopRequested, watch>>
        /\ \A l \in Keys : Forced(l)' = Forced(l)

Quiet(k) == SameRow(k) /\ Keeps(k) /\ Shrinks(k)

Failing(k) == SameRow(k) /\ Shrinks(k) /\ faults' = faults + 1

\* A worker that is stopped ends while it tends the job.
Deserted(k) ==
    /\ SameRow(k)
    /\ \E w \in TakenDown :
          /\ Tends(w, k)
          /\ ~ Tends(w, k)'
          /\ loop'[w] # "claiming"
          /\ \E h \in Holders(k) : Loses(k, h)

\* From the claim loop to a goroutine.
HandedOver(k) ==
    /\ SameRow(k)
    /\ Keeps(k)
    /\ \E w \in Workers, s \in Slots : Swaps(k, <<w, 0, "building">>, <<w, s, "building">>)

\* The first statement of a verdict.
Recorded(k) ==
    /\ SameOwner(k)
    /\ Keeps(k)
    /\ \E w \in Workers, s \in Slots, st \in Verdicts :
          /\ Swaps(k, <<w, s, "building">>, <<w, s, st>>)
          /\ attempts'[k] = Closed(attempts[k], Workers, st, ErrorOf(st))

\* The second one.
Concluded(k) ==
    /\ jobs[k].status # "absent"
    /\ attempts'[k] = attempts[k]
    /\ \E w \in Workers, s \in Slots, st \in Verdicts :
          /\ jobs'[k].status = st
          /\ Loses(k, <<w, s, st>>)
    /\ Calm

ClaimedBy(w, k) ==
    /\ loop[w] = "claiming"
    /\ loop'[w] # "claiming"
    /\ jobs[k].status = "pending"
    /\ jobs'[k].status = "building"
    /\ jobs'[k].worker = w
    /\ attempts'[k] = Append(attempts[k], OpenAttempt(w))

Claimed(k) ==
    \E w \in Workers :
       /\ ClaimedBy(w, k)
       /\ Tends(w, k)'
       /\ Holders(k)' \subseteq Holders(k) \cup {<<w, 0, "building">>}

\* A claim that is committed and reported as failed.
ClaimLost(k) ==
    \E w \in Workers :
       /\ ClaimedBy(w, k)
       /\ Shrinks(k)
       /\ w \in TakenDown \/ faults' = faults + 1

\* Attempts of a job are closed that is stuck, or by a worker being taken down.
ClosedByOthers(k) ==
    /\ SameOwner(k)
    /\ Keeps(k)
    /\ Shrinks(k)
    /\ Len(attempts'[k]) = Len(attempts[k])
    /\ (jobs[k].status = "building" /\ ~ Tended(k)) \/ TakenDown # {}

\* Back into the queue, with attempts and holders as they are.
Requeued(k) ==
    /\ jobs'[k].status = "pending"
    /\ attempts'[k] = attempts[k]
    /\ Shrinks(k)

Inserted(k) == Requeued(k) /\ jobs[k].status = "absent" /\ Calm

Rescued(k) == Requeued(k) /\ jobs[k].status = "building" /\ ~ Tended(k)

Retried(k) == Requeued(k) /\ CanRetry(k)

WasReset(k) ==
    /\ Requeued(k)
    /\ jobs[k].status # "absent"
    /\ \E c \in Requests : c \notin Forced(k) /\ c \in Forced(k)'

Released(k) ==
    /\ Requeued(k)
    /\ \E w \in TakenDown :
          /\ Owns(w, k)
          /\ w \notin Spent(k)
          /\ w \in Spent(k)'
          /\ loop'[w] = loop[w]

JobStep(k) ==
    \/ Quiet(k)
    \/ Failing(k)
    \/ Deserted(k)
    \/ HandedOver(k)
    \/ Recorded(k)
    \/ Concluded(k)
    \/ Claimed(k)
    \/ ClaimLost(k)
    \/ ClosedByOthers(k)
    \/ Inserted(k)
    \/ Rescued(k)
    \/ Retried(k)
    \/ WasReset(k)
    \/ Released(k)

\* The disturbances of a job are never undone, and they come one by one; a worker
\* that is taken down begins no claim.
DisturbancesGrow(k) ==
    /\ faults' \in {faults, faults + 1}
    /\ TakenDown' = TakenDown \/ \E w \in Workers : TakenDown' = TakenDown \cup {w}
    /\ Forced(k)' = Forced(k) \/ \E c \in Requests : Forced(k)' = Forced(k) \cup {c}
    /\ Spent(k) \subseteq Spent(k)'
    /\ \A w \in TakenDown : loop'[w] = "claiming" => loop[w] = "claiming"

-----------------------------------------------------------------------------
(* The invariant that JobStep needs of the components.                     *)

\* Only forced requests reset, and none twice.
HandlersAgree ==
    \A c \in Requests :
        /\ req[c].pc = "reset" => c \in ForcedRequests
        /\ req[c].pc \in {"new", "read", "reset"} => ~ req[c].reset

\* A worker that has been preempted claims no more, and a job that is cancelled
\* has no heartbeat.
WorkersAgree ==
    \A w \in Workers :
        /\ watch[w] = NoWatch \/ shuttingDown[w]
        /\ \A s \in Slots : run[w][s].cancelled => run[w][s].beat = "off"

\* A job that was never inserted has no history.
AbsentIsEmpty == \A k \in Keys : jobs[k].status = "absent" => attempts[k] = << >>

JobInv == ServerInv /\ HandlersAgree /\ WorkersAgree /\ AbsentIsEmpty

\* A request's handler goes on, ends, or resets the job.
HandlerMoves(c) ==
    \/ /\ req'[c].reset = req[c].reset
       /\ \/ req[c].pc = "new" /\ req'[c].pc = "read"
          \/ req[c].pc = "read" /\ req'[c].pc = "reset" /\ c \in ForcedRequests
          \/ req'[c].pc \in {"poll", "late", "done"}
    \/ /\ req[c].pc = "reset" /\ req'[c].pc = "reread"
       /\ req'[c].reset

LEMMA OneHandlerMoves ==
    ASSUME ApiTypeOK, ApiStep
    PROVE  \E c \in Requests :
              /\ \A d \in Requests : d # c => req'[d] = req[d]
              /\ req'[c].key = req[c].key
              /\ HandlerMoves(c)
<1>0. req \in [Requests -> Request]
  BY DEF ApiTypeOK
<1>1. PICK c \in Requests :
         ArriveBuild(c) \/ ArriveCompat(c) \/ HandlerStep(c) \/ WriteDeadline(c) \/ GiveUp(c)
  BY DEF ApiStep
<1>2. ASSUME NEW reply, Reply(c, reply)
      PROVE  /\ \A d \in Requests : d # c => req'[d] = req[d]
             /\ req'[c].key = req[c].key /\ req'[c].reset = req[c].reset
             /\ req'[c].pc = "done"
  BY <1>0, <1>2 DEF Reply, Request
<1>3. ASSUME NEW pc, GoTo(c, pc)
      PROVE  /\ \A d \in Requests : d # c => req'[d] = req[d]
             /\ req'[c].key = req[c].key /\ req'[c].reset = req[c].reset
             /\ req'[c].pc = pc
  BY <1>0, <1>3 DEF GoTo, Request
<1>4. CASE \E reply : Reply(c, reply)
  BY <1>2, <1>4 DEF HandlerMoves
<1>5. CASE req[c].pc = "new" /\ GoTo(c, "read")
  BY <1>3, <1>5 DEF HandlerMoves
<1>6. CASE req[c].pc = "read" /\ GoTo(c, "reset") /\ c \in ForcedRequests
  BY <1>3, <1>6 DEF HandlerMoves
<1>7. CASE GoTo(c, "poll") \/ GoTo(c, "late")
  BY <1>3, <1>7 DEF HandlerMoves
<1>8. CASE ForceReset(c)
  BY <1>0, <1>8 DEF ForceReset, HandlerMoves, Request
<1> QED
  BY <1>1, <1>4, <1>5, <1>6, <1>7, <1>8
     DEF ArriveBuild, ArriveCompat, Create, HandlerStep, ReadBuild, Reread, Answer,
         ReadCompat, Poll, ApiFails, WriteDeadline, GiveUp

LEMMA HandlersKeep ==
    ASSUME ApiTypeOK, HandlersAgree, ApiStep
    PROVE  HandlersAgree'
BY OneHandlerMoves DEF HandlersAgree, HandlerMoves

LEMMA WatchesKeep ==
    ASSUME WorkerTypeOK, NEW w \in Workers, WorkerStep(w), NEW v \in Workers,
           watch[v] = NoWatch \/ shuttingDown[v]
    PROVE  watch'[v] = NoWatch \/ shuttingDown'[v]
<1>0. /\ watch \in [Workers -> [pc : {"watching", "preempted", "next", "row", "cancel", "done"},
                                todo : SUBSET Keys, key : Keys \cup {NoKey}]]
      /\ shuttingDown \in [Workers -> BOOLEAN]
  BY DEF WorkerTypeOK
<1>1. CASE UNCHANGED <<watch, shuttingDown>>
  BY <1>1
<1>2. CASE LoopSeesStop(w) \/ Preempt(w)
  <2>1. /\ shuttingDown' = [shuttingDown EXCEPT ![w] = TRUE]
        /\ v # w => watch'[v] = watch[v]
    BY <1>0, <1>2, Zenon DEF LoopSeesStop, Preempt, SetWatch
  <2>2. CASE v = w
    BY <1>0, <2>1, <2>2
  <2>3. CASE v # w
    BY <1>0, <2>1, <2>3
  <2> QED
    BY <2>2, <2>3
<1>3. CASE UNCHANGED shuttingDown /\ watch[w].pc # "watching" /\ \E r : SetWatch(w, r)
  <2>1. v # w => watch'[v] = watch[v]
    BY <1>0, <1>3 DEF SetWatch
  <2>2. watch[w] # NoWatch
    BY <1>3 DEF NoWatch
  <2> QED
    BY <1>3, <2>1, <2>2
<1>4. CASE Exit(w) \/ Crash(w)
  <2>1. UNCHANGED shuttingDown
    BY <1>4 DEF Exit, Crash, ProcessEnds
  <2>2. watch[v] = NoWatch => watch'[v] = NoWatch
    BY <1>0, <1>4 DEF Exit, Crash, ProcessEnds, SetWatch
  <2> QED
    BY <2>1, <2>2
<1>5. CASE LoopStep(w)
  BY <1>1, <1>2, <1>5 DEF LoopStep, TryClaim, ClaimOne, ClaimNone, ClaimFails, BackToSelect, Register,
              FillSem, StartReturns
<1>6. ASSUME NEW s \in Slots, RunStep(w, s) \/ BeatStep(w, s)
      PROVE  UNCHANGED <<watch, shuttingDown>>
  BY <1>6 DEF RunStep, BeatStep, BuildReturns, RecordAttempt, RecordJob, RecordFails,
              RemoveActive, ReleaseSem, Heartbeat, HeartbeatFails, RunVars
<1>7. CASE WatchStep(w)
  BY <1>2, <1>3, <1>7 DEF WatchStep, BeginRelease, ReleaseFirst, ReleaseSecond,
              ReleaseFails, CancelJob, ReleaseDone
<1> QED
  BY <1>1, <1>4, <1>5, <1>6, <1>7 DEF WorkerStep, ProcessStep, RequestStop

LEMMA CancelledStaysOff ==
    ASSUME WorkerInv, NEW w \in Workers, WorkerStep(w), NEW v \in Workers, NEW s \in Slots,
           run[v][s].cancelled => run[v][s].beat = "off"
    PROVE  run'[v][s].cancelled => run'[v][s].beat = "off"
<1> DEFINE Off(r) == r.cancelled => r.beat = "off"
<1>0. /\ run \in [Workers -> [Slots -> Run]]
      /\ run[v][s] \in Run
      /\ Off(run[v][s])
  BY DEF WorkerInv, WorkerTypeOK
<1>1. ASSUME NEW t, NEW r, SetRun(w, t, r), t = s /\ v = w => Off(r)
      PROVE  Off(run'[v][s])
  BY <1>0, <1>1 DEF SetRun
<1>2. CASE UNCHANGED run
  BY <1>0, <1>2
<1>3. CASE LoopStep(w)
  <2>1. CASE Register(w)
    BY <1>1, <2>1 DEF Register, NewRun
  <2> QED
    BY <1>2, <1>3, <2>1 DEF LoopStep, TryClaim, ClaimOne, ClaimNone, ClaimFails, BackToSelect, LoopSeesStop,
              FillSem, StartReturns
<1>4. ASSUME NEW t \in Slots, RunStep(w, t) \/ BeatStep(w, t)
      PROVE  Off(run'[v][s])
  <2>0. run[w][t] \in Run
    BY DEF WorkerInv, WorkerTypeOK
  <2>7. Off(Returned(run[w][t]))
    BY <2>0 DEF Returned, Run
  <2>1. CASE BuildReturns(w, t)
    <3>1. \/ \E outcome \in Verdicts :
               SetRun(w, t, [run[w][t] EXCEPT !.pc = "attempt", !.outcome = outcome])
          \/ SetRun(w, t, Returned(run[w][t]))
      BY <2>1 DEF BuildReturns
    <3>2. \A outcome : Off(run[w][t]) => Off([run[w][t] EXCEPT !.pc = "attempt", !.outcome = outcome])
      BY <2>0 DEF Run
    <3>3. CASE SetRun(w, t, Returned(run[w][t]))
      BY <1>1, <2>7, <3>3
    <3>4. ASSUME NEW outcome, SetRun(w, t, [run[w][t] EXCEPT !.pc = "attempt", !.outcome = outcome])
          PROVE  Off(run'[v][s])
      <4>1. t = s /\ v = w => Off([run[w][t] EXCEPT !.pc = "attempt", !.outcome = outcome])
        BY <1>0, <3>2
      <4> HIDE DEF Off
      <4> QED
        BY <1>1, <3>4, <4>1
    <3> QED
      BY <3>1, <3>3, <3>4
  <2>2. CASE RecordAttempt(w, t)
    <3>1. \E r : SetRun(w, t, r) /\ (Off(run[w][t]) => Off(r))
      BY <2>0, <2>2 DEF RecordAttempt, Run
    <3> QED
      BY <1>0, <1>1, <3>1
  <2>3. CASE RecordJob(w, t) \/ RecordFails(w, t)
    <3>1. SetRun(w, t, Returned(run[w][t]))
      BY <2>3 DEF RecordJob, RecordFails
    <3> QED
      BY <1>1, <2>7, <3>1
  <2>4. CASE RemoveActive(w, t) \/ ReleaseSem(w, t)
    <3>1. \E r : SetRun(w, t, r) /\ (Off(run[w][t]) => Off(r))
      BY <2>0, <2>4 DEF RemoveActive, ReleaseSem, NoRun, Run
    <3> QED
      BY <1>0, <1>1, <3>1
  <2>5. CASE Heartbeat(w, t)
    <3>1. \E r : SetRun(w, t, r) /\ (Off(run[w][t]) => Off(r))
      BY <2>0, <2>5 DEF Heartbeat, Run
    <3> QED
      BY <1>0, <1>1, <3>1
  <2>6. CASE HeartbeatFails(w, t)
    <3>1. \E r : SetRun(w, t, r) /\ Off(r)
      BY <2>0, <2>6 DEF HeartbeatFails, Run
    <3> QED
      BY <1>0, <1>1, <3>1
  <2> QED
    BY <1>4, <2>1, <2>2, <2>3, <2>4, <2>5, <2>6 DEF RunStep, BeatStep
<1>5. CASE WatchStep(w)
  <2>1. CASE CancelJob(w)
    <3>1. \E t, r : SetRun(w, t, [r EXCEPT !.cancelled = TRUE, !.beat = "off"]) /\ (t = s /\ v = w => r \in Run)
      BY <1>0, <2>1 DEF CancelJob
    <3> QED
      BY <1>1, <3>1 DEF Run
  <2> QED
    BY <1>2, <1>5, <2>1 DEF WatchStep, Preempt, BeginRelease, ReleaseFirst, ReleaseSecond,
              ReleaseFails, ReleaseDone
<1>6. CASE ProcessStep(w)
  <2>1. CASE ProcessEnds(w)
    BY <1>0, <2>1 DEF ProcessEnds, NoRun
  <2> QED
    BY <1>2, <1>6, <2>1 DEF ProcessStep, RequestStop, Exit, Crash
<1> QED
  BY <1>3, <1>4, <1>5, <1>6 DEF WorkerStep

LEMMA ClockKeepsOff ==
    ASSUME WorkerInv, WorkersAgree, ClockTick
    PROVE  WorkersAgree'
<1>1. run \in [Workers -> [Slots -> Run]]
  BY DEF WorkerInv, WorkerTypeOK
<1>2. ASSUME NEW v \in Workers, NEW s \in Slots, run[v][s].cancelled => run[v][s].beat = "off"
      PROVE  run'[v][s].cancelled => run'[v][s].beat = "off"
  BY <1>1, <1>2 DEF ClockTick, Run
<1> QED
  BY <1>2 DEF WorkersAgree, ClockTick

(* A row that is absent has been so before, and nothing adds to its history. *)
LEMMA AbsentBefore ==
    ASSUME QueueTypeOK, QueueNext, NEW k \in Keys, jobs'[k].status = "absent"
    PROVE  /\ jobs[k].status = "absent"
           /\ attempts'[k] = attempts[k] \/ \E W, st, err : attempts'[k] = Closed(attempts[k], W, st, err)
<1>0. /\ jobs \in [Keys -> Job]
      /\ attempts \in [Keys -> Seq(Attempt)]
      /\ jobs[k] \in Job
  BY DEF QueueTypeOK
<1>1. ASSUME NEW w \in Workers, NEW l \in Keys, WorkerStatement(w, l)
      PROVE  /\ jobs[k].status = "absent"
             /\ attempts'[k] = attempts[k] \/ \E W, st, err : attempts'[k] = Closed(attempts[k], W, st, err)
  <2>1. CASE ClaimNextBuild(w, l)
    BY <1>0, <2>1 DEF ClaimNextBuild, Job
  <2>2. CASE (\E st \in Verdicts : UpdateAttempt(l, st)) \/ ReleaseAttempt(l, w)
    BY <1>0, <2>2 DEF UpdateAttempt, ReleaseAttempt
  <2>3. CASE \E st \in Verdicts : UpdateJob(l, st)
    BY <1>0, <2>3 DEF UpdateJob, Unlocked, Job, Present, Verdicts
  <2>4. CASE UpdateHeartbeat(l, w)
    BY <1>0, <2>4 DEF UpdateHeartbeat, Job, Owns
  <2>5. CASE ReleaseRow(l, w)
    BY <1>0, <2>5 DEF ReleaseRow, Unlocked, Job, Owns
  <2> QED
    BY <1>1, <2>1, <2>2, <2>3, <2>4, <2>5 DEF WorkerStatement
<1>2. ASSUME JanitorStatement
      PROVE  /\ jobs[k].status = "absent"
             /\ attempts'[k] = attempts[k] \/ \E W, st, err : attempts'[k] = Closed(attempts[k], W, st, err)
  <2>1. CASE \E cutoff \in Cutoffs : RescueAttempts(cutoff)
    BY <1>0, <2>1 DEF RescueAttempts
  <2>2. CASE (\E cutoff \in Cutoffs : RescueJobs(cutoff)) \/ RetryFailedBuilds
    <3>1. /\ jobs'[k] = jobs[k] \/ jobs'[k] = Unlocked(jobs[k], "pending")
          /\ attempts' = attempts
      BY <2>2 DEF RescueJobs, RetryFailedBuilds
    <3>2. Unlocked(jobs[k], "pending").status = "pending"
      BY <1>0, UnlockedRow DEF Statuses
    <3> QED
      BY <3>1, <3>2
  <2> QED
    BY <1>2, <2>1, <2>2 DEF JanitorStatement
<1>3. ASSUME NEW l \in Keys, ApiStatement(l)
      PROVE  /\ jobs[k].status = "absent"
             /\ attempts'[k] = attempts[k]
  <2>1. CASE InsertJob(l)
    BY <1>0, <2>1 DEF InsertJob, Job
  <2>2. CASE ResetBuildAttempts(l)
    <3>1. /\ jobs'[k] = jobs[k] \/ jobs'[k] = [Unlocked(jobs[k], "pending") EXCEPT !.completed_at = FALSE]
          /\ attempts' = attempts
      BY <1>0, <2>2 DEF ResetBuildAttempts, Present
    <3>2. Unlocked(jobs[k], "pending") \in Job /\ Unlocked(jobs[k], "pending").status = "pending"
      BY <1>0, UnlockedType, UnlockedRow DEF Statuses
    <3> QED
      BY <3>1, <3>2 DEF Job
  <2> QED
    BY <1>3, <2>1, <2>2 DEF ApiStatement
<1>4. CASE Tick
  BY <1>0, <1>4 DEF Tick, Job
<1> QED
  BY <1>1, <1>2, <1>3, <1>4 DEF QueueNext

LEMMA AbsentStaysEmpty ==
    ASSUME QueueTypeOK, AbsentIsEmpty, [QueueNext]_queueVars
    PROVE  AbsentIsEmpty'
<1> SUFFICES ASSUME NEW k \in Keys, jobs'[k].status = "absent"
             PROVE  attempts'[k] = << >>
  BY DEF AbsentIsEmpty
<1>1. CASE UNCHANGED queueVars
  BY <1>1 DEF AbsentIsEmpty, queueVars
<1>2. CASE QueueNext
  <2>1. attempts[k] = << >>
    BY <1>2, AbsentBefore DEF AbsentIsEmpty
  <2>2. \A W, st, err : Closed(<< >>, W, st, err) = << >>
    BY DEF Closed
  <2> QED
    BY <1>2, <2>1, <2>2, AbsentBefore
<1> QED
  BY <1>1, <1>2

LEMMA JobInvInit == Init => JobInv
<1> SUFFICES ASSUME Init PROVE JobInv
  OBVIOUS
<1>1. ServerInv
  BY ServerInvInit
<1>2. HandlersAgree
  BY DEF Init, ApiInit, NewRequest, HandlersAgree
<1>3. WorkersAgree
  BY DEF Init, WorkerInit, WorkersAgree, NoRun
<1>4. AbsentIsEmpty
  BY DEF Init, QueueInit, AbsentIsEmpty
<1> QED
  BY <1>1, <1>2, <1>3, <1>4 DEF JobInv

LEMMA JobInvStep ==
    ASSUME JobInv, [Next]_vars
    PROVE  JobInv'
<1>0. ServerInv /\ QueueTypeOK /\ WorkerInv /\ WorkerTypeOK /\ ApiTypeOK /\ HandlersAgree /\ WorkersAgree /\ AbsentIsEmpty
  BY DEF JobInv, ServerInv, WorkerInv
<1>1. ServerInv'
  BY <1>0, ServerInvStep
<1>2. AbsentIsEmpty'
  BY <1>0, ServerIssues, AbsentStaysEmpty
<1>3. HandlersAgree'
  <2>1. UNCHANGED req => HandlersAgree'
    BY <1>0 DEF HandlersAgree
  <2> QED
    BY <1>0, <2>1, HandlersKeep DEF Next, vars, TimePasses
<1>4. WorkersAgree'
  <2>1. UNCHANGED workerVars => WorkersAgree'
    BY <1>0 DEF WorkersAgree, workerVars
  <2>2. ASSUME NEW w \in Workers, WorkerStep(w)
        PROVE  WorkersAgree'
    BY <1>0, <2>2, WatchesKeep, CancelledStaysOff DEF WorkersAgree
  <2> QED
    BY <1>0, <2>1, <2>2, ClockKeepsOff DEF Next, vars, TimePasses
<1> QED
  BY <1>1, <1>2, <1>3, <1>4 DEF JobInv

LEMMA JobInvHolds == Spec => []JobInv
BY JobInvInit, JobInvStep, PTL DEF Spec

-----------------------------------------------------------------------------
(* Disturbances grow.                                                      *)

\* A worker that a step leaves alone.
Stands(v) ==
    /\ loop'[v] = loop[v] /\ inHand'[v] = inHand[v]
    /\ active'[v] = active[v] /\ run'[v] = run[v]
    /\ watch'[v] = watch[v] /\ stopRequested'[v] = stopRequested[v]

LEMMA OthersStand ==
    ASSUME WorkerTypeOK, NEW w \in Workers, WorkerStep(w), NEW v \in Workers, v # w
    PROVE  Stands(v)
<1>1. CASE LoopStep(w)
  BY <1>1 DEF LoopStep, TryClaim, ClaimOne, ClaimNone, ClaimFails, BackToSelect, Register,
              LoopSeesStop, FillSem, StartReturns, SetRun, Stands, WorkerTypeOK
<1>2. ASSUME NEW s \in Slots, RunStep(w, s) \/ BeatStep(w, s)
      PROVE  Stands(v)
  BY <1>2 DEF RunStep, BeatStep, BuildReturns, RecordAttempt, RecordJob, RecordFails,
              RemoveActive, ReleaseSem, Heartbeat, HeartbeatFails, RunVars, SetRun, Stands, WorkerTypeOK
<1>3. CASE WatchStep(w)
  BY <1>3 DEF WatchStep, Preempt, BeginRelease, ReleaseFirst, ReleaseSecond, ReleaseFails,
              CancelJob, ReleaseDone, WatchVars, SetWatch, SetRun, Stands, WorkerTypeOK
<1>4. CASE ProcessStep(w)
  BY <1>4 DEF ProcessStep, RequestStop, Exit, Crash, ProcessEnds, SetWatch, Stands, WorkerTypeOK
<1> QED
  BY <1>1, <1>2, <1>3, <1>4 DEF WorkerStep

LEMMA FaultsGrow ==
    ASSUME JobInv, [Next]_vars
    PROVE  faults' \in {faults, faults + 1}
<1>1. ASSUME NEW w \in Workers, WorkerStep(w)
      PROVE  faults' \in {faults, faults + 1}
  <2>1. CASE LoopStep(w)
    BY <2>1 DEF LoopStep, TryClaim, ClaimOne, ClaimNone, ClaimFails, Register, LoopSeesStop,
                FillSem, StartReturns, Fault
  <2>2. ASSUME NEW s \in Slots, RunStep(w, s) \/ BeatStep(w, s)
        PROVE  faults' \in {faults, faults + 1}
    BY <2>2 DEF RunStep, BeatStep, BuildReturns, RecordAttempt, RecordJob, RecordFails,
              RemoveActive, ReleaseSem, Heartbeat, HeartbeatFails, Fault
  <2>3. CASE WatchStep(w) \/ ProcessStep(w)
    BY <2>3 DEF WatchStep, Preempt, BeginRelease, ReleaseFirst, ReleaseSecond, ReleaseFails,
              CancelJob, ReleaseDone, ProcessStep, RequestStop, Exit, Crash, Fault
  <2> QED
    BY <1>1, <2>1, <2>2, <2>3 DEF WorkerStep
<1>2. CASE JanitorStep
  BY <1>2 DEF JanitorStep, RescueStep, RescueBegins, RescueFirst, RescueSecond, RescueFails,
              RetryCycle, Fault
<1>3. CASE ApiStep
  BY <1>3 DEF ApiStep, ArriveBuild, ArriveCompat, Create, HandlerStep, ReadBuild, ForceReset,
              Reread, ReadCompat, Poll, ApiFails, WriteDeadline, GiveUp, Fault
<1>4. CASE TimePasses
  BY <1>4 DEF TimePasses, ClockTick, Fault
<1> QED
  BY <1>1, <1>2, <1>3, <1>4 DEF Next, vars

\* Being taken down, and being done with a job, is for good.
LEMMA TakenDownStays ==
    ASSUME WorkerInv, WorkersAgree, NEW w \in Workers, WorkerStep(w), NEW k \in Keys
    PROVE  /\ w \in TakenDown => w \in TakenDown'
           /\ w \in Spent(k) => w \in Spent(k)'
           /\ w \in TakenDown /\ loop'[w] = "claiming" => loop[w] = "claiming"
<1> DEFINE Good ==
           /\ w \in TakenDown => w \in TakenDown'
           /\ w \in Spent(k) => w \in Spent(k)'
           /\ w \in TakenDown /\ loop'[w] = "claiming" => loop[w] = "claiming"
<1>0. /\ WorkerTypeOK
      /\ watch[w].pc # "watching" => shuttingDown[w]
      /\ watch[w].pc \in {"row", "cancel"} => watch[w].key \in watch[w].todo
  BY DEF WorkerInv, WorkersAgree, NoWatch, GoroutinesAgree
<1>1. ASSUME watch'[w] = watch[w], stopRequested[w] => stopRequested'[w],
             loop'[w] # "claiming" \/ loop'[w] = loop[w]
      PROVE  Good
  BY <1>1 DEF TakenDown, Spent, Releasable
<1>2. CASE LoopStep(w)
  <2>1. CASE TryClaim(w)
    <3>1. w \notin TakenDown
      BY <1>0, <2>1 DEF TryClaim, TakenDown
    <3>2. watch' = watch
      BY <2>1 DEF TryClaim
    <3> QED
      BY <3>1, <3>2 DEF Spent, Releasable
  <2>2. CASE StartReturns(w)
    BY <1>0, <1>1, <2>2 DEF StartReturns, WorkerTypeOK
  <2>3. CASE ~ TryClaim(w) /\ ~ StartReturns(w)
    BY <1>0, <1>1, <1>2, <2>3 DEF LoopStep, ClaimOne, ClaimNone, ClaimFails, BackToSelect,
              Register, LoopSeesStop, FillSem, WorkerTypeOK
  <2> QED
    BY <2>1, <2>2, <2>3
<1>3. ASSUME NEW s \in Slots, RunStep(w, s) \/ BeatStep(w, s)
      PROVE  Good
  BY <1>1, <1>3 DEF RunStep, BeatStep, BuildReturns, RecordAttempt, RecordJob, RecordFails,
              RemoveActive, ReleaseSem, Heartbeat, HeartbeatFails, RunVars
<1>4. CASE WatchStep(w)
  <2>1. UNCHANGED <<stopRequested, loop>>
    BY <1>4 DEF WatchStep, Preempt, BeginRelease, ReleaseFirst, ReleaseSecond, ReleaseFails,
              CancelJob, ReleaseDone, WatchVars
  <2> DEFINE On == watch'[w].pc # "watching" /\ (Releasable(w, k)' => Releasable(w, k))
  <2>4. watch \in [Workers -> [pc : {"watching", "preempted", "next", "row", "cancel", "done"},
                                todo : SUBSET Keys, key : Keys \cup {NoKey}]]
    BY <1>0 DEF WorkerTypeOK
  <2>5. ASSUME Preempt(w) \/ BeginRelease(w)
        PROVE  On
    BY <2>4, <2>5 DEF Preempt, BeginRelease, SetWatch, Releasable
  <2>6. ASSUME ReleaseSecond(w) \/ ReleaseFails(w) \/ \E l \in Keys : ReleaseFirst(w, l)
        PROVE  On
    <3>1. /\ watch[w].pc \in {"next", "row"}
          /\ \E pc \in {"row", "cancel"} : \E l : SetWatch(w, [watch[w] EXCEPT !.pc = pc, !.key = l])
      <4>1. [watch[w] EXCEPT !.pc = "cancel"] = [watch[w] EXCEPT !.pc = "cancel", !.key = watch[w].key]
        BY <2>4
      <4> QED
        BY <2>6, <4>1 DEF ReleaseSecond, ReleaseFails, ReleaseFirst
    <3>2. watch'[w].pc \in {"row", "cancel"} /\ watch'[w].todo = watch[w].todo
      BY <2>4, <3>1 DEF SetWatch
    <3>3. watch'[w].pc # "watching"
      BY <3>2
    <3> QED
      BY <3>1, <3>2, <3>3 DEF Releasable
  <2>7. ASSUME CancelJob(w)
        PROVE  On
    <3>1. /\ watch[w].pc = "cancel"
          /\ watch'[w] = [pc |-> "next", todo |-> watch[w].todo \ {watch[w].key}, key |-> NoKey]
      BY <2>4, <2>7 DEF CancelJob, SetWatch
    <3> QED
      BY <3>1 DEF Releasable
  <2>8. ASSUME ReleaseDone(w)
        PROVE  On
    <3>1. /\ watch[w].todo = {}
          /\ watch'[w].pc = "done" /\ watch'[w].todo = {}
      BY <2>4, <2>8 DEF ReleaseDone, SetWatch
    <3> QED
      BY <3>1 DEF Releasable
  <2>2. On
    BY <1>4, <2>5, <2>6, <2>7, <2>8 DEF WatchStep
  <2> QED
    BY <2>1, <2>2, Zenon DEF TakenDown, Spent
<1>5. CASE ProcessStep(w)
  <2>1. CASE RequestStop(w)
    BY <1>0, <1>1, <2>1 DEF RequestStop, WorkerTypeOK
  <2>2. CASE ProcessEnds(w)
    <3>1. /\ loop'[w] = "dead"
          /\ UNCHANGED stopRequested
          /\ watch'[w] = IF watch[w] = NoWatch THEN NoWatch
                         ELSE [pc |-> "done", todo |-> {}, key |-> NoKey]
      BY <1>0, <2>2 DEF ProcessEnds, SetWatch, WorkerTypeOK
    <3> QED
      BY <3>1 DEF TakenDown, Spent, Releasable, NoWatch
  <2> QED
    BY <1>5, <2>1, <2>2 DEF ProcessStep, Exit, Crash
<1> QED
  BY <1>2, <1>3, <1>4, <1>5 DEF WorkerStep

LEMMA TakenDownGrows ==
    ASSUME WorkerInv, WorkersAgree, NEW w \in Workers, WorkerStep(w), NEW k \in Keys
    PROVE  /\ TakenDown' = TakenDown \/ TakenDown' = TakenDown \cup {w}
           /\ Spent(k) \subseteq Spent(k)'
           /\ \A v \in TakenDown : loop'[v] = "claiming" => loop[v] = "claiming"
<1>1. ASSUME NEW v \in Workers, v # w
      PROVE  /\ v \in TakenDown' <=> v \in TakenDown
             /\ v \in Spent(k)' <=> v \in Spent(k)
             /\ loop'[v] = loop[v]
  <2>1. Stands(v)
    BY <1>1, OthersStand DEF WorkerInv
  <2> QED
    BY <2>1 DEF Stands, TakenDown, Spent, Releasable
<1>2. TakenDown \subseteq Workers /\ TakenDown' \subseteq Workers /\ Spent(k) \subseteq Workers
  BY DEF TakenDown, Spent
<1>3. /\ w \in TakenDown => w \in TakenDown'
      /\ w \in Spent(k) => w \in Spent(k)'
      /\ w \in TakenDown /\ loop'[w] = "claiming" => loop[w] = "claiming"
  BY TakenDownStays
<1> QED
  BY <1>1, <1>2, <1>3

LEMMA ForcedGrows ==
    ASSUME ApiTypeOK, HandlersAgree, ApiStep, NEW k \in Keys
    PROVE  Forced(k)' = Forced(k) \/ \E c \in Requests : Forced(k)' = Forced(k) \cup {c}
<1>1. PICK c \in Requests :
         /\ \A d \in Requests : d # c => req'[d] = req[d]
         /\ req'[c].key = req[c].key
         /\ HandlerMoves(c)
  BY OneHandlerMoves
<1>2. ForcedRequests \subseteq Requests
  BY RequestsAssumption DEF Requests
<1>3. \A d : d # c => (d \in Forced(k)' <=> d \in Forced(k))
  BY <1>1, <1>2 DEF Forced
<1>4. c \in Forced(k) => c \in Forced(k)'
  BY <1>1 DEF Forced, HandlerMoves
<1>5. CASE c \in Forced(k)' /\ c \notin Forced(k)
  <2>1. Forced(k)' = Forced(k) \cup {c}
    BY <1>3, <1>4, <1>5
  <2> QED
    BY <2>1
<1>6. CASE ~ (c \in Forced(k)' /\ c \notin Forced(k))
  <2>1. Forced(k)' = Forced(k)
    BY <1>3, <1>4, <1>6
  <2> QED
    BY <2>1
<1> QED
  BY <1>5, <1>6

(* No step undoes a disturbance, and each step adds at most one of a kind. *)
LEMMA StepDisturbs ==
    ASSUME JobInv, [Next]_vars, NEW k \in Keys
    PROVE  DisturbancesGrow(k)
<1>0. ServerInv /\ WorkerInv /\ ApiTypeOK /\ HandlersAgree /\ WorkersAgree
  BY DEF JobInv, ServerInv
<1>1. faults' \in {faults, faults + 1}
  BY FaultsGrow
<1>2. UNCHANGED req => Forced(k)' = Forced(k)
  BY DEF Forced
<1>3. UNCHANGED <<loop, watch, stopRequested>> =>
         /\ TakenDown' = TakenDown /\ Spent(k) \subseteq Spent(k)'
         /\ \A v \in TakenDown : loop'[v] = "claiming" => loop[v] = "claiming"
  BY DEF TakenDown, Spent, Releasable
<1>4. CASE \E w \in Workers : WorkerStep(w) /\ UNCHANGED <<rescue, req>>
  <2>1. PICK w \in Workers : WorkerStep(w) /\ UNCHANGED req
    BY <1>4
  <2>2. /\ TakenDown' = TakenDown \/ TakenDown' = TakenDown \cup {w}
        /\ Spent(k) \subseteq Spent(k)'
        /\ \A v \in TakenDown : loop'[v] = "claiming" => loop[v] = "claiming"
    BY <1>0, <2>1, TakenDownGrows
  <2> QED
    BY <1>1, <1>2, <2>1, <2>2 DEF DisturbancesGrow
<1>5. CASE ApiStep /\ UNCHANGED <<workerVars, rescue>>
  BY <1>0, <1>1, <1>3, <1>5, ForcedGrows DEF DisturbancesGrow, workerVars
<1>6. CASE UNCHANGED req /\ UNCHANGED <<loop, watch, stopRequested>>
  BY <1>1, <1>2, <1>3, <1>6 DEF DisturbancesGrow
<1> QED
  BY <1>4, <1>5, <1>6 DEF Next, vars, workerVars, TimePasses, ClockTick

-----------------------------------------------------------------------------
(* What a step of a worker does to a job: the frame.  Nothing changes for  *)
(* the other workers, nor in the other slots.                              *)

LEMMA StandsKeeps ==
    ASSUME NEW v \in Workers, Stands(v), NEW k \in Keys
    PROVE  /\ \A s, st : Holds(v, s, st, k)' <=> Holds(v, s, st, k)
           /\ jobs'[k] = jobs[k] => (Tends(v, k)' <=> Tends(v, k))
<1>1. \A s, st : Holds(v, s, st, k)' <=> Holds(v, s, st, k)
  BY DEF Stands, Holds, Builds, Expected
<1>2. ASSUME jobs'[k] = jobs[k]
      PROVE  /\ Owns(v, k)' <=> Owns(v, k)
             /\ InHand(v, k)' <=> InHand(v, k)
             /\ \A s : Beats(v, s, k)' <=> Beats(v, s, k)
  BY <1>2 DEF Stands, Owns, InHand, Beats, Builds, Cancelling
<1> QED
  BY <1>1, <1>2 DEF Tends

LEMMA ShrinksIf ==
    ASSUME WorkerTypeOK, NEW w \in Workers, WorkerStep(w), NEW k \in Keys,
           \A s \in 0 .. MaxConcurrent, st \in Statuses : Holds(w, s, st, k)' => Holds(w, s, st, k)
    PROVE  Shrinks(k)
<1> SUFFICES ASSUME NEW h \in Workers \X (0 .. MaxConcurrent) \X Statuses, Holds(h[1], h[2], h[3], k)'
             PROVE  Holds(h[1], h[2], h[3], k)
  BY DEF Shrinks, Holders
<1>1. h[1] \in Workers /\ h[2] \in 0 .. MaxConcurrent /\ h[3] \in Statuses
  OBVIOUS
<1>2. CASE h[1] = w
  BY <1>1, <1>2
<1>3. CASE h[1] # w
  BY <1>1, <1>3, OthersStand, StandsKeeps
<1> QED
  BY <1>2, <1>3

LEMMA KeepsIf ==
    ASSUME WorkerTypeOK, NEW w \in Workers, WorkerStep(w), NEW k \in Keys,
           jobs'[k] = jobs[k] \/ Owns(w, k),
           Tends(w, k) => Tends(w, k)'
    PROVE  Keeps(k)
<1> SUFFICES ASSUME NEW v \in Workers, v # w, Tends(v, k)
             PROVE  Tends(v, k)'
  BY DEF Keeps
<1>1. ~ Owns(w, k)
  BY DEF Tends, Owns
<1> QED
  BY <1>1, OthersStand, StandsKeeps

LEMMA QuietIf ==
    ASSUME WorkerTypeOK, NEW w \in Workers, WorkerStep(w), NEW k \in Keys,
           jobs'[k] = jobs[k], attempts'[k] = attempts[k],
           \A s \in 0 .. MaxConcurrent, st \in Statuses : Holds(w, s, st, k)' => Holds(w, s, st, k),
           Tends(w, k) => Tends(w, k)'
    PROVE  Quiet(k)
BY ShrinksIf, KeepsIf DEF Quiet, SameRow, SameOwner

\* The claim loop of w holds the job as before.
HandStays(w, k) ==
    (loop'[w] = "claimed" /\ inHand'[w] = k) <=> (loop[w] = "claimed" /\ inHand[w] = k)

\* The release of all jobs is not about to cancel more goroutines of the job.
NoMoreCancelling(w, k) == \A s \in Slots : Cancelling(w, s, k)' => Cancelling(w, s, k)

(* A step that leaves the goroutines of w alone.                           *)
LEMMA IdleStep ==
    ASSUME NEW w \in Workers, NEW k \in Keys, run'[w] = run[w], HandStays(w, k)
    PROVE  /\ \A s \in 0 .. MaxConcurrent, st \in Statuses : Holds(w, s, st, k)' <=> Holds(w, s, st, k)
           /\ jobs'[k] = jobs[k] /\ NoMoreCancelling(w, k) /\ Tends(w, k) => Tends(w, k)'
<1>1. \A s \in 0 .. MaxConcurrent, st \in Statuses : Holds(w, s, st, k)' <=> Holds(w, s, st, k)
  BY DEF Holds, HandStays, Builds, Expected
<1>2. ASSUME jobs'[k] = jobs[k], NoMoreCancelling(w, k)
      PROVE  /\ Owns(w, k) => Owns(w, k)'
             /\ InHand(w, k) => InHand(w, k)'
             /\ \A s \in Slots : Beats(w, s, k) => Beats(w, s, k)'
  BY <1>2 DEF Owns, InHand, HandStays, Beats, Builds, NoMoreCancelling
<1> QED
  BY <1>1, <1>2 DEF Tends

(* A step of the goroutine in slot s: it is enough to look at that slot.   *)
LEMMA SlotStep ==
    ASSUME WorkerTypeOK, NEW w \in Workers, NEW s \in Slots, NEW r, SetRun(w, s, r), NEW k \in Keys,
           UNCHANGED <<loop, inHand>>
    PROVE  /\ \A i \in 0 .. MaxConcurrent, st \in Statuses :
                 i # s => (Holds(w, i, st, k)' <=> Holds(w, i, st, k))
           /\ jobs'[k] = jobs[k] /\ NoMoreCancelling(w, k) /\ (Beats(w, s, k) => Beats(w, s, k)')
              /\ Tends(w, k) => Tends(w, k)'
<1>1. \A t \in Slots : t # s => run'[w][t] = run[w][t]
  BY DEF SetRun, WorkerTypeOK
<1>2. ASSUME NEW i \in 0 .. MaxConcurrent, NEW st \in Statuses, i # s
      PROVE  Holds(w, i, st, k)' <=> Holds(w, i, st, k)
  <2>1. CASE i = 0
    BY <2>1 DEF Holds
  <2>2. CASE i # 0
    <3>1. i \in Slots
      BY <2>2, WorkerAssumption DEF Slots
    <3> QED
      BY <1>1, <1>2, <2>2, <3>1 DEF Holds, Builds, Expected
  <2> QED
    BY <2>1, <2>2
<1>3. ASSUME jobs'[k] = jobs[k], NoMoreCancelling(w, k), Beats(w, s, k) => Beats(w, s, k)'
      PROVE  /\ Owns(w, k) => Owns(w, k)'
             /\ InHand(w, k) => InHand(w, k)'
             /\ \A t \in Slots : Beats(w, t, k) => Beats(w, t, k)'
  <2>1. ASSUME NEW t \in Slots, t # s, Beats(w, t, k)
        PROVE  Beats(w, t, k)'
    BY <1>1, <1>3, <2>1 DEF Beats, Builds, NoMoreCancelling
  <2> QED
    BY <1>3, <2>1 DEF Owns, InHand
<1> QED
  BY <1>2, <1>3 DEF Tends

-----------------------------------------------------------------------------
(* The claim loop.                                                         *)

LEMMA ClaimRow ==
    ASSUME QueueTypeOK, NEW w \in Workers, NEW l \in Keys, ClaimNextBuild(w, l), NEW k \in Keys
    PROVE  /\ k # l => jobs'[k] = jobs[k] /\ attempts'[k] = attempts[k]
           /\ jobs[l].status = "pending"
           /\ jobs'[l].status = "building" /\ jobs'[l].worker = w /\ jobs'[l].heartbeat = 0
           /\ attempts'[l] = Append(attempts[l], OpenAttempt(w))
<1>0. /\ jobs \in [Keys -> Job] /\ jobs[l] \in Job
      /\ attempts \in [Keys -> Seq(Attempt)]
  BY DEF QueueTypeOK
<1>1. jobs[l].status = "pending"
  BY DEF ClaimNextBuild, Oldest, Pending
<1>2. /\ jobs' = [jobs EXCEPT ![l].status = "building", ![l].worker = w, ![l].heartbeat = 0]
      /\ attempts' = [attempts EXCEPT ![l] = Append(@, OpenAttempt(w))]
  BY DEF ClaimNextBuild, OpenAttempt
<1> QED
  BY <1>0, <1>1, <1>2 DEF Job

LEMMA LoopDoes ==
    ASSUME JobInv, NEW w \in Workers, LoopStep(w), NEW k \in Keys
    PROVE  JobStep(k)
<1>0. /\ QueueTypeOK /\ WorkerInv /\ WorkerTypeOK
      /\ WorkerStep(w)
      /\ loop[w] = "claimed" => inHand[w] \in Keys
  BY DEF JobInv, ServerInv, WorkerInv, GoroutinesAgree, WorkerStep
<1>1. ASSUME UNCHANGED <<run, active, watch>>, HandStays(w, k),
             jobs'[k] = jobs[k], attempts'[k] = attempts[k]
      PROVE  JobStep(k)
  <2>1. NoMoreCancelling(w, k)
    BY <1>1 DEF NoMoreCancelling, Cancelling
  <2> QED
    BY <1>0, <1>1, <2>1, QuietIf, IdleStep DEF JobStep
<1>2. CASE TryClaim(w) \/ ClaimNone(w) \/ LoopSeesStop(w) \/ FillSem(w) \/ StartReturns(w)
  <2>1. UNCHANGED <<run, active, watch, queueVars, inHand>>
    BY <1>2 DEF TryClaim, ClaimNone, BackToSelect, LoopSeesStop, FillSem, StartReturns
  <2>2. HandStays(w, k)
    BY <1>0, <1>2 DEF TryClaim, ClaimNone, BackToSelect, LoopSeesStop, FillSem, StartReturns,
                      HandStays, WorkerTypeOK
  <2> QED
    BY <1>1, <2>1, <2>2 DEF queueVars
<1>3. ASSUME NEW l \in Keys, ClaimOne(w, l)
      PROVE  JobStep(k)
  <2>0. /\ loop[w] = "claiming" /\ loop'[w] = "claimed" /\ inHand'[w] = l
        /\ ClaimNextBuild(w, l)
        /\ UNCHANGED <<run, active, watch>>
    BY <1>0, <1>3 DEF ClaimOne, WorkerTypeOK
  <2>1. CASE l # k
    <3>1. HandStays(w, k)
      BY <2>0, <2>1 DEF HandStays
    <3> QED
      BY <1>0, <1>1, <2>0, <2>1, <3>1, ClaimRow
  <2>2. CASE l = k
    <3>1. ClaimedBy(w, k)
      BY <1>0, <2>0, <2>2, ClaimRow DEF ClaimedBy
    <3>2. Tends(w, k)'
      BY <1>0, <2>0, <2>2, ClaimRow DEF Tends, Owns, InHand
    <3>3. Holders(k)' \subseteq Holders(k) \cup {<<w, 0, "building">>}
      <4> SUFFICES ASSUME NEW h \in Workers \X (0 .. MaxConcurrent) \X Statuses,
                          Holds(h[1], h[2], h[3], k)'
                   PROVE  Holds(h[1], h[2], h[3], k) \/ h = <<w, 0, "building">>
        BY DEF Holders
      <4>1. CASE h[1] # w
        BY <1>0, <4>1, OthersStand, StandsKeeps
      <4>2. CASE h[1] = w /\ h[2] # 0
        BY <2>0, <4>2 DEF Holds, Builds, Expected
      <4>3. CASE h[1] = w /\ h[2] = 0
        BY <4>3 DEF Holds
      <4> QED
        BY <4>1, <4>2, <4>3
    <3> QED
      BY <3>1, <3>2, <3>3 DEF Claimed, JobStep
  <2> QED
    BY <2>1, <2>2
<1>4. CASE ClaimFails(w)
  <2>0. /\ loop[w] = "claiming" /\ loop'[w] = "select"
        /\ UNCHANGED <<run, active, watch, inHand>>
    BY <1>0, <1>4 DEF ClaimFails, BackToSelect, WorkerTypeOK
  <2>1. HandStays(w, k)
    BY <2>0 DEF HandStays
  <2>2. CASE UNCHANGED queueVars
    BY <1>1, <2>0, <2>1, <2>2 DEF queueVars
  <2>3. ASSUME NEW l \in Keys, ClaimNextBuild(w, l), l # k
        PROVE  JobStep(k)
    BY <1>0, <1>1, <2>0, <2>1, <2>3, ClaimRow
  <2>4. CASE ClaimNextBuild(w, k)
    <3>1. ClaimedBy(w, k)
      BY <1>0, <2>0, <2>4, ClaimRow DEF ClaimedBy
    <3>2. Shrinks(k)
      BY <1>0, <2>0, <2>1, IdleStep, ShrinksIf
    <3>3. w \in TakenDown \/ faults' = faults + 1
      BY <1>4 DEF ClaimFails, TakenDown, Fault
    <3> QED
      BY <3>1, <3>2, <3>3 DEF ClaimLost, JobStep
  <2> QED
    BY <1>4, <2>2, <2>3, <2>4 DEF ClaimFails
<1>5. CASE Register(w)
  <2> DEFINE l == inHand[w]
  <2>1. PICK s \in Slots \ Busy(w) : SetRun(w, s, NewRun(l)) /\ active' = [active EXCEPT ![w][l] = s]
    BY <1>5 DEF Register
  <2>2. /\ loop[w] = "claimed" /\ loop'[w] = "select"
        /\ watch' = watch /\ watch[w].pc # "cancel"
        /\ l \in Keys
        /\ UNCHANGED queueVars
    BY <1>0, <1>5 DEF Register, MapLocked, WorkerTypeOK
  <2>3. /\ run'[w][s] = NewRun(l)
        /\ \A t \in Slots : t # s => run'[w][t] = run[w][t]
        /\ run[w][s].pc = "idle"
    BY <1>0, <2>1 DEF SetRun, Busy, WorkerTypeOK
  <2>4. s \in 1 .. MaxConcurrent /\ s # 0 /\ s \in Slots /\ Slots \subseteq 0 .. MaxConcurrent
    BY <2>1, WorkerAssumption DEF Slots
  <2>5. ASSUME NEW t \in Slots
        PROVE  /\ ~ Cancelling(w, t, k)'
               /\ Beats(w, t, k) => Beats(w, t, k)'
    <3>1. ~ Cancelling(w, t, k)'
      BY <2>2 DEF Cancelling
    <3>2. Beats(w, t, k) => t # s
      BY <2>3 DEF Beats, Builds
    <3> QED
      BY <2>2, <2>3, <3>1, <3>2 DEF Beats, Builds, queueVars
  <2>6. ASSUME NEW i \in 0 .. MaxConcurrent, NEW st \in Statuses, Holds(w, i, st, k)'
        PROVE  Holds(w, i, st, k) \/ (l = k /\ i = s /\ st = "building")
    <3>1. i # 0
      BY <2>2, <2>6 DEF Holds
    <3>2. CASE i # s
      <4>1. run'[w][i] = run[w][i]
        BY <2>3, <3>1, <3>2, WorkerAssumption DEF Slots
      <4> QED
        BY <2>6, <3>1, <4>1 DEF Holds, Builds, Expected
    <3>3. CASE i = s
      BY <2>3, <2>6, <3>1, <3>3 DEF Holds, Builds, Expected, NewRun
    <3> QED
      BY <3>2, <3>3
  <2>7. CASE l # k
    <3>1. Tends(w, k) => Tends(w, k)'
      BY <2>2, <2>5, <2>7 DEF Tends, Owns, InHand, queueVars
    <3> QED
      BY <1>0, <2>2, <2>6, <2>7, <3>1, QuietIf DEF JobStep, queueVars
  <2>8. CASE l = k
    <3>1. Tends(w, k) => Tends(w, k)'
      <4>1. Owns(w, k)' <=> Owns(w, k)
        BY <2>2 DEF Owns, queueVars
      <4>2. InHand(w, k) => Beats(w, s, k)'
        BY <2>2, <2>3, <2>4, <2>5, <2>8 DEF InHand, Beats, Builds, NewRun, queueVars
      <4> QED
        BY <2>4, <2>5, <4>1, <4>2 DEF Tends
    <3>2. Keeps(k)
      BY <1>0, <2>2, <3>1, KeepsIf DEF queueVars
    <3>3. Swaps(k, <<w, 0, "building">>, <<w, s, "building">>)
      <4>1. <<w, 0, "building">> \in Holders(k)
        BY <2>2, <2>8, WorkerAssumption DEF Holders, Holds, Statuses
      <4>2. ASSUME NEW h \in Workers \X (0 .. MaxConcurrent) \X Statuses, Holds(h[1], h[2], h[3], k)'
            PROVE  (Holds(h[1], h[2], h[3], k) /\ h # <<w, 0, "building">>) \/ h = <<w, s, "building">>
        <5>1. CASE h[1] # w
          BY <1>0, <4>2, <5>1, OthersStand, StandsKeeps
        <5>2. CASE h[1] = w
          <6>1. h[2] # 0
            BY <2>2, <4>2, <5>2 DEF Holds
          <6> QED
            BY <2>6, <4>2, <5>2, <6>1
        <5> QED
          BY <5>1, <5>2
      <4> QED
        BY <4>1, <4>2 DEF Swaps, Holders
    <3> QED
      BY <2>2, <2>4, <3>2, <3>3 DEF HandedOver, SameRow, SameOwner, JobStep, queueVars
  <2> QED
    BY <2>7, <2>8
<1> QED
  BY <1>2, <1>3, <1>4, <1>5, LoopStep(w) DEF LoopStep

-----------------------------------------------------------------------------
(* The goroutine of a job and its heartbeat.                               *)

LEMMA SlotQuiet ==
    ASSUME WorkerTypeOK, NEW w \in Workers, WorkerStep(w), NEW s \in Slots, NEW r, SetRun(w, s, r),
           UNCHANGED <<loop, inHand>>, NEW k \in Keys, NoMoreCancelling(w, k),
           jobs'[k] = jobs[k], attempts'[k] = attempts[k],
           \A st \in Statuses : Holds(w, s, st, k)' => Holds(w, s, st, k),
           Tends(w, k) /\ Beats(w, s, k) => Beats(w, s, k)'
    PROVE  Quiet(k)
<1>1. \A i \in 0 .. MaxConcurrent, st \in Statuses : Holds(w, i, st, k)' => Holds(w, i, st, k)
  BY SlotStep
<1>2. Tends(w, k) => Tends(w, k)'
  BY SlotStep
<1> QED
  BY <1>1, <1>2, QuietIf

LEMMA SlotLoses ==
    ASSUME WorkerTypeOK, NEW w \in Workers, WorkerStep(w), NEW s \in Slots, NEW r, SetRun(w, s, r),
           UNCHANGED <<loop, inHand>>, NEW k \in Keys, NEW st \in Statuses, Holds(w, s, st, k),
           \A t \in Statuses : ~ Holds(w, s, t, k)'
    PROVE  Loses(k, <<w, s, st>>)
<1>0. s \in 0 .. MaxConcurrent
  BY WorkerAssumption DEF Slots
<1>1. <<w, s, st>> \in Holders(k)
  BY <1>0 DEF Holders
<1>2. \A i \in 0 .. MaxConcurrent, t \in Statuses : Holds(w, i, t, k)' => Holds(w, i, t, k) /\ i # s
  BY SlotStep
<1>3. Shrinks(k)
  BY <1>2, ShrinksIf
<1>4. <<w, s, st>> \notin Holders(k)'
  BY DEF Holders
<1> QED
  BY <1>1, <1>3, <1>4 DEF Loses, Shrinks

LEMMA SlotSwaps ==
    ASSUME WorkerTypeOK, NEW w \in Workers, WorkerStep(w), NEW s \in Slots, NEW r, SetRun(w, s, r),
           UNCHANGED <<loop, inHand>>, NEW k \in Keys,
           NEW a \in Statuses, NEW b \in Statuses, a # b, Holds(w, s, a, k),
           \A t \in Statuses : Holds(w, s, t, k)' => t = b
    PROVE  Swaps(k, <<w, s, a>>, <<w, s, b>>)
<1>0. s \in 0 .. MaxConcurrent
  BY WorkerAssumption DEF Slots
<1>1. <<w, s, a>> \in Holders(k)
  BY <1>0 DEF Holders
<1>2. ASSUME NEW h \in Workers \X (0 .. MaxConcurrent) \X Statuses, Holds(h[1], h[2], h[3], k)'
      PROVE  (Holds(h[1], h[2], h[3], k) /\ h # <<w, s, a>>) \/ h = <<w, s, b>>
  <2>1. CASE h[1] # w
    BY <1>2, <2>1, OthersStand, StandsKeeps
  <2>2. CASE h[1] = w /\ h[2] # s
    BY <1>2, <2>2, SlotStep
  <2>3. CASE h[1] = w /\ h[2] = s
    BY <1>2, <2>3
  <2> QED
    BY <2>1, <2>2, <2>3
<1> QED
  BY <1>1, <1>2 DEF Swaps, Holders

LEMMA RunDoes ==
    ASSUME JobInv, NEW w \in Workers, NEW s \in Slots, RunStep(w, s), UNCHANGED req, NEW k \in Keys
    PROVE  JobStep(k)
<1> DEFINE r == run[w][s]
           q == run'[w][s]
<1>0. /\ QueueTypeOK /\ WorkerTypeOK
      /\ WorkerStep(w)
      /\ r \in Run
      /\ r.pc # "idle" => r.key \in Keys
      /\ r.pc \in {"attempt", "job"} => r.outcome \in Verdicts
      /\ r.cancelled => r.beat = "off"
  BY DEF JobInv, WorkersAgree, ServerInv, WorkerInv, WorkerTypeOK, GoroutinesAgree, WorkerStep
<1>1. /\ UNCHANGED <<loop, inHand, watch>>
      /\ NoMoreCancelling(w, k)
  <2>1. UNCHANGED <<loop, inHand, watch>>
    BY DEF RunStep, BuildReturns, RecordAttempt, RecordJob, RecordFails, RemoveActive, ReleaseSem, RunVars
  <2>2. active' = active \/ watch[w].pc # "cancel"
    BY DEF RunStep, BuildReturns, RecordAttempt, RecordJob, RecordFails, RemoveActive, ReleaseSem, MapLocked
  <2> QED
    BY <2>1, <2>2 DEF NoMoreCancelling, Cancelling
<1>2. s # 0 /\ s \in 0 .. MaxConcurrent /\ s \in 1 .. MaxConcurrent
  BY WorkerAssumption DEF Slots
<1>3. ASSUME NEW p, SetRun(w, s, p)
      PROVE  q = p
  BY <1>0, <1>3 DEF SetRun, WorkerTypeOK
<1>4. ASSUME NEW st
      PROVE  /\ Holds(w, s, st, k) <=> r.key = k /\ r.pc \in {"building", "attempt", "job"}
                                       /\ st = IF r.pc = "job" THEN r.outcome ELSE "building"
             /\ Holds(w, s, st, k)' <=> q.key = k /\ q.pc \in {"building", "attempt", "job"}
                                       /\ st = IF q.pc = "job" THEN q.outcome ELSE "building"
  BY <1>2 DEF Holds, Builds, Expected
<1>5. Returned(r).key = r.key /\ Returned(r).pc = "remove"
  BY <1>0 DEF Returned, Run
<1>6. CASE BuildReturns(w, s)
  <2>1. CASE r.cancelled /\ SetRun(w, s, Returned(r))
    <3>1. \A st \in Statuses : Holds(w, s, st, k)' => Holds(w, s, st, k)
      BY <1>3, <1>4, <1>5, <2>1
    <3>2. ~ Beats(w, s, k)
      BY <1>0, <2>1 DEF Beats
    <3> QED
      BY <1>0, <1>1, <1>6, <2>1, <3>1, <3>2, SlotQuiet DEF BuildReturns, queueVars, JobStep
  <2>2. ASSUME NEW outcome \in Verdicts, SetRun(w, s, [r EXCEPT !.pc = "attempt", !.outcome = outcome])
        PROVE  JobStep(k)
    <3>1. q.pc = "attempt" /\ q.key = r.key /\ q.beat = r.beat /\ r.pc = "building"
      BY <1>0, <1>3, <1>6, <2>2 DEF Run, BuildReturns
    <3>2. \A st \in Statuses : Holds(w, s, st, k)' => Holds(w, s, st, k)
      BY <1>4, <3>1
    <3>3. Beats(w, s, k) => Beats(w, s, k)'
      BY <1>1, <1>6, <3>1 DEF Beats, Builds, NoMoreCancelling, BuildReturns, queueVars
    <3> QED
      BY <1>0, <1>1, <1>6, <2>2, <3>2, <3>3, SlotQuiet DEF BuildReturns, queueVars, JobStep
  <2> QED
    BY <1>6, <2>1, <2>2 DEF BuildReturns
<1>7. CASE RecordAttempt(w, s)
  <2>0. /\ r.pc = "attempt" /\ jobs' = jobs
        /\ r.key \in Keys /\ r.outcome \in Verdicts
        /\ attempts' = [attempts EXCEPT ![r.key] = Closed(@, Workers, r.outcome, ErrorOf(r.outcome))]
        /\ SetRun(w, s, [r EXCEPT !.pc = "job"])
    BY <1>0, <1>7 DEF RecordAttempt, UpdateAttempt
  <2>1. q.pc = "job" /\ q.key = r.key /\ q.beat = r.beat /\ q.outcome = r.outcome
    BY <1>0, <1>3, <2>0 DEF Run
  <2>2. Beats(w, s, k) => Beats(w, s, k)'
    BY <1>1, <2>0, <2>1 DEF Beats, Builds, NoMoreCancelling
  <2>3. CASE r.key # k
    <3>1. \A st \in Statuses : Holds(w, s, st, k)' => Holds(w, s, st, k)
      BY <1>4, <2>1, <2>3
    <3>2. attempts'[k] = attempts[k]
      BY <1>0, <2>0, <2>3 DEF QueueTypeOK
    <3> QED
      BY <1>0, <1>1, <2>0, <2>2, <3>1, <3>2, SlotQuiet DEF JobStep
  <2>4. CASE r.key = k
    <3>1. attempts'[k] = Closed(attempts[k], Workers, r.outcome, ErrorOf(r.outcome))
      BY <1>0, <2>0, <2>4 DEF QueueTypeOK
    <3>2. Keeps(k)
      BY <1>0, <1>1, <2>0, <2>2, SlotStep, KeepsIf
    <3>3. Swaps(k, <<w, s, "building">>, <<w, s, r.outcome>>)
      <4>1. Holds(w, s, "building", k)
        BY <1>4, <2>0, <2>4
      <4>2. \A t \in Statuses : Holds(w, s, t, k)' => t = r.outcome
        BY <1>4, <2>1
      <4>3. r.outcome \in Statuses /\ "building" \in Statuses /\ r.outcome # "building"
        BY <2>0 DEF Verdicts, Statuses
      <4> QED
        BY <1>0, <1>1, <2>0, <4>1, <4>2, <4>3, SlotSwaps
    <3> QED
      BY <2>0, <3>1, <3>2, <3>3 DEF Recorded, SameOwner, JobStep
  <2> QED
    BY <2>3, <2>4
<1>8. CASE RecordJob(w, s)
  <2>0. /\ r.pc = "job"
        /\ r.key \in Keys /\ r.outcome \in Verdicts
        /\ UpdateJob(r.key, r.outcome)
        /\ SetRun(w, s, Returned(r))
        /\ UNCHANGED <<faults, stopRequested, watch>>
    BY <1>0, <1>8 DEF RecordJob, RunVars
  <2>1. \A t : ~ Holds(w, s, t, k)'
    BY <1>3, <1>4, <1>5, <2>0
  <2>2. CASE r.key # k \/ jobs[k].status = "absent"
    <3>1. jobs'[k] = jobs[k] /\ attempts'[k] = attempts[k]
      BY <1>0, <2>0, <2>2 DEF UpdateJob, Present, QueueTypeOK
    <3>2. ~ (Tends(w, k) /\ Beats(w, s, k))
      BY <2>2 DEF Tends, Owns, Beats, Builds
    <3> QED
      BY <1>0, <1>1, <2>0, <2>1, <3>1, <3>2, SlotQuiet DEF JobStep
  <2>3. CASE r.key = k /\ jobs[k].status # "absent"
    <3>1. jobs'[k].status = r.outcome /\ attempts' = attempts
      <4>1. r.outcome \in Statuses
        BY <2>0 DEF Verdicts, Statuses
      <4>2. jobs' = [jobs EXCEPT ![k] = [Unlocked(@, r.outcome) EXCEPT !.storage_key = (r.outcome = "completed"),
                                               !.completed_at = (r.outcome = "completed")]]
        BY <2>0, <2>3 DEF UpdateJob, Present
      <4>3. jobs'[k] = [Unlocked(jobs[k], r.outcome) EXCEPT !.storage_key = (r.outcome = "completed"),
                                               !.completed_at = (r.outcome = "completed")]
        BY <1>0, <4>2 DEF QueueTypeOK
      <4>4. Unlocked(jobs[k], r.outcome) \in Job /\ Unlocked(jobs[k], r.outcome).status = r.outcome
        BY <1>0, <4>1, UnlockedType, UnlockedRow DEF QueueTypeOK
      <4>5. attempts' = attempts
        BY <2>0 DEF UpdateJob
      <4>6. jobs'[k].status = Unlocked(jobs[k], r.outcome).status
        BY <4>3, <4>4 DEF Job
      <4> QED
        BY <4>4, <4>5, <4>6
    <3>2. Loses(k, <<w, s, r.outcome>>)
      <4>1. Holds(w, s, r.outcome, k) /\ r.outcome \in Statuses
        BY <1>4, <2>0, <2>3 DEF Verdicts, Statuses
      <4> QED
        BY <1>0, <1>1, <2>0, <2>1, <4>1, SlotLoses
    <3>3. Calm
      BY <2>0 DEF Calm, Forced
    <3> QED
      BY <2>0, <2>3, <3>1, <3>2, <3>3 DEF Concluded, JobStep
  <2> QED
    BY <2>2, <2>3
<1>9. CASE RecordFails(w, s)
  <2>0. /\ SetRun(w, s, Returned(r)) /\ UNCHANGED queueVars
        /\ ~ r.cancelled => faults' = faults + 1
    BY <1>9 DEF RecordFails, Fault
  <2>1. \A t \in Statuses : ~ Holds(w, s, t, k)'
    BY <1>3, <1>4, <1>5, <2>0
  <2>2. CASE r.cancelled
    <3>1. ~ Beats(w, s, k)
      BY <1>0, <2>2 DEF Beats
    <3> QED
      BY <1>0, <1>1, <2>0, <2>1, <3>1, SlotQuiet DEF queueVars, JobStep
  <2>3. CASE ~ r.cancelled
    <3>1. Shrinks(k)
      BY <1>0, <1>1, <2>0, <2>1, SlotStep, ShrinksIf
    <3> QED
      BY <2>0, <2>3, <3>1 DEF Failing, SameRow, SameOwner, queueVars, JobStep
  <2> QED
    BY <2>2, <2>3
<1>10. CASE RemoveActive(w, s) \/ ReleaseSem(w, s)
  <2>1. PICK p \in {[r EXCEPT !.pc = "release"], NoRun} : SetRun(w, s, p)
    BY <1>10 DEF RemoveActive, ReleaseSem
  <2>2. /\ q.pc \in {"release", "idle"}
        /\ r.pc \in {"remove", "release"}
        /\ UNCHANGED queueVars
    BY <1>0, <1>3, <1>10, <2>1 DEF RemoveActive, ReleaseSem, NoRun, Run
  <2>3. \A t \in Statuses : ~ Holds(w, s, t, k)'
    BY <1>4, <2>2
  <2>4. ~ Beats(w, s, k)
    BY <2>2 DEF Beats, Builds
  <2> QED
    BY <1>0, <1>1, <2>1, <2>2, <2>3, <2>4, SlotQuiet DEF queueVars, JobStep
<1> QED
  BY <1>6, <1>7, <1>8, <1>9, <1>10, RunStep(w, s) DEF RunStep

LEMMA BeatDoes ==
    ASSUME JobInv, NEW w \in Workers, NEW s \in Slots, BeatStep(w, s), NEW k \in Keys
    PROVE  JobStep(k)
<1> DEFINE r == run[w][s]
           q == run'[w][s]
<1>0. /\ QueueTypeOK /\ WorkerTypeOK
      /\ WorkerStep(w)
      /\ r \in Run
  BY DEF JobInv, ServerInv, WorkerInv, WorkerTypeOK, WorkerStep
<1>1. /\ UNCHANGED <<loop, inHand, watch, active>>
      /\ NoMoreCancelling(w, k)
  BY DEF BeatStep, Heartbeat, HeartbeatFails, RunVars, NoMoreCancelling, Cancelling
<1>2. PICK beat \in {"waiting", "off"} : SetRun(w, s, [r EXCEPT !.beat = beat])
  BY DEF BeatStep, Heartbeat, HeartbeatFails
<1>3. q.pc = r.pc /\ q.key = r.key /\ q.outcome = r.outcome
  BY <1>0, <1>2 DEF SetRun, WorkerTypeOK, Run
<1>4. \A st \in Statuses : Holds(w, s, st, k)' <=> Holds(w, s, st, k)
  BY <1>1, <1>3 DEF Holds, Builds, Expected
<1>5. Shrinks(k)
  <2>1. \A i \in 0 .. MaxConcurrent, st \in Statuses : Holds(w, i, st, k)' => Holds(w, i, st, k)
    BY <1>0, <1>1, <1>2, <1>4, SlotStep
  <2> QED
    BY <1>0, <2>1, ShrinksIf
<1>6. CASE r.key # k /\ jobs'[k] = jobs[k] /\ attempts'[k] = attempts[k]
  <2>1. ~ Beats(w, s, k)
    BY <1>6 DEF Beats, Builds
  <2> QED
    BY <1>0, <1>1, <1>2, <1>4, <1>6, <2>1, SlotQuiet DEF JobStep
<1>7. CASE Heartbeat(w, s)
  <2>0. /\ jobs' = [jobs EXCEPT ![r.key].heartbeat = 0] /\ attempts' = attempts
        /\ Owns(w, r.key)
        /\ SetRun(w, s, [r EXCEPT !.beat = "waiting"])
    BY <1>7 DEF Heartbeat, UpdateHeartbeat
  <2>1. CASE r.key # k
    <3>1. jobs'[k] = jobs[k]
      BY <1>0, <2>0, <2>1 DEF QueueTypeOK
    <3> QED
      BY <1>6, <2>0, <2>1, <3>1
  <2>2. CASE r.key = k
    <3>1. /\ jobs'[k].heartbeat = 0 /\ jobs'[k].status = jobs[k].status /\ jobs'[k].worker = jobs[k].worker
          /\ Owns(w, k) /\ Owns(w, k)'
      BY <1>0, <2>0, <2>2 DEF QueueTypeOK, Job, Owns
    <3>2. ASSUME NEW t \in Slots, Beats(w, t, k)
          PROVE  Beats(w, t, k)'
      <4>1. run'[w][t].pc = run[w][t].pc /\ run'[w][t].key = run[w][t].key
            /\ run'[w][t].beat \in {run[w][t].beat, "waiting"}
        BY <1>0, <2>0 DEF SetRun, WorkerTypeOK, Run
      <4>2. ~ Cancelling(w, t, k)'
        BY <1>1, <3>2 DEF Beats, NoMoreCancelling
      <4>3. Builds(w, t, k)'
        BY <3>2, <4>1 DEF Beats, Builds
      <4>4. run[w][t].beat \in {"waiting", "due"}
        BY <3>2 DEF Beats
      <4>5. 0 \in 0 .. 1
        OBVIOUS
      <4> QED
        BY <3>1, <4>1, <4>2, <4>3, <4>4, <4>5, Zenon DEF Beats
    <3>3. InHand(w, k) => InHand(w, k)'
      BY <1>1, <3>1 DEF InHand
    <3>4. Keeps(k)
      BY <1>0, <3>1, <3>2, <3>3, KeepsIf DEF Tends
    <3> QED
      BY <1>5, <2>0, <3>1, <3>4 DEF Quiet, SameRow, SameOwner, JobStep
  <2> QED
    BY <2>1, <2>2
<1>8. CASE HeartbeatFails(w, s)
  <2>1. CASE Owns(w, r.key)
    <3>1. faults' = faults + 1 /\ UNCHANGED queueVars
      BY <1>8, <2>1 DEF HeartbeatFails, Fault
    <3> QED
      BY <1>5, <3>1 DEF Failing, SameRow, SameOwner, queueVars, JobStep
  <2>2. CASE ~ Owns(w, r.key)
    <3>1. ~ (Tends(w, k) /\ Beats(w, s, k))
      BY <2>2 DEF Tends, Beats, Builds
    <3> QED
      BY <1>0, <1>1, <1>2, <1>4, <1>8, <3>1, SlotQuiet DEF HeartbeatFails, queueVars, JobStep
  <2> QED
    BY <2>1, <2>2
<1> QED
  BY <1>7, <1>8 DEF BeatStep

-----------------------------------------------------------------------------
(* The release of all jobs, and the end of a process.                      *)

LEMMA WatchDoes ==
    ASSUME JobInv, NEW w \in Workers, WatchStep(w), NEW k \in Keys
    PROVE  JobStep(k)
<1>0. /\ QueueTypeOK /\ WorkerInv /\ WorkerTypeOK
      /\ WorkerStep(w)
      /\ watch[w].pc \in {"row", "cancel"} => watch[w].key \in watch[w].todo /\ watch[w].key \in Keys
      /\ watch \in [Workers -> [pc : {"watching", "preempted", "next", "row", "cancel", "done"},
                                todo : SUBSET Keys, key : Keys \cup {NoKey}]]
  BY DEF JobInv, ServerInv, WorkerInv, WorkerTypeOK, GoroutinesAgree, WorkerStep
<1>1. UNCHANGED <<loop, inHand, active>> /\ HandStays(w, k)
  BY DEF WatchStep, Preempt, BeginRelease, ReleaseFirst, ReleaseSecond, ReleaseFails, CancelJob,
         ReleaseDone, WatchVars, HandStays
<1>2. ~ CancelJob(w) => run' = run
  BY DEF WatchStep, Preempt, BeginRelease, ReleaseFirst, ReleaseSecond, ReleaseFails, ReleaseDone
<1>3. ASSUME run' = run, jobs'[k] = jobs[k], attempts'[k] = attempts[k], NoMoreCancelling(w, k) \/ ~ Owns(w, k)
      PROVE  JobStep(k)
  BY <1>0, <1>1, <1>3, QuietIf, IdleStep DEF JobStep, Tends
<1>4. watch'[w].pc # "cancel" => NoMoreCancelling(w, k)
  BY DEF NoMoreCancelling, Cancelling
<1>5. CASE Preempt(w) \/ BeginRelease(w) \/ ReleaseDone(w)
  <2>1. watch'[w].pc # "cancel" /\ run' = run /\ UNCHANGED queueVars
    BY <1>0, <1>5 DEF Preempt, BeginRelease, ReleaseDone, SetWatch
  <2> QED
    BY <1>3, <1>4, <2>1 DEF queueVars
<1>6. ASSUME NEW l \in Keys, ReleaseFirst(w, l)
      PROVE  JobStep(k)
  <2>1. /\ watch'[w].pc # "cancel" /\ run' = run /\ jobs' = jobs
        /\ watch[w].pc = "next"
        /\ attempts' = [attempts EXCEPT ![l] = Closed(@, {w}, "failed", "released")]
    BY <1>0, <1>6 DEF ReleaseFirst, ReleaseAttempt, SetWatch
  <2>2. CASE l # k
    <3>1. attempts'[k] = attempts[k]
      BY <1>0, <2>1, <2>2 DEF QueueTypeOK
    <3> QED
      BY <1>3, <1>4, <2>1, <3>1
  <2>3. CASE l = k
    <3>1. Len(attempts'[k]) = Len(attempts[k])
      <4>1. attempts'[k] = Closed(attempts[k], {w}, "failed", "released") /\ attempts[k] \in Seq(Attempt)
        BY <1>0, <2>1, <2>3 DEF QueueTypeOK
      <4> QED
        BY <4>1, ClosedShape DEF Statuses, Errors
    <3>2. w \in TakenDown
      BY <2>1 DEF TakenDown
    <3>3. Keeps(k) /\ Shrinks(k)
      BY <1>0, <1>1, <1>4, <2>1, IdleStep, KeepsIf, ShrinksIf
    <3> QED
      BY <2>1, <3>1, <3>2, <3>3 DEF ClosedByOthers, SameOwner, JobStep
  <2> QED
    BY <2>2, <2>3
<1>7. CASE ReleaseSecond(w)
  <2> DEFINE l == watch[w].key
  <2>1. /\ watch[w].pc = "row" /\ l \in watch[w].todo /\ l \in Keys
        /\ ReleaseRow(l, w)
        /\ watch'[w].pc = "cancel" /\ watch'[w].key = l /\ watch'[w].todo = watch[w].todo
        /\ run' = run
    BY <1>0, <1>7 DEF ReleaseSecond, SetWatch
  <2>2. CASE l # k
    <3>1. jobs'[k] = jobs[k] /\ attempts' = attempts
      BY <1>0, <2>1, <2>2 DEF ReleaseRow, QueueTypeOK
    <3>2. NoMoreCancelling(w, k)
      BY <2>1, <2>2 DEF NoMoreCancelling, Cancelling
    <3> QED
      BY <1>3, <2>1, <3>1, <3>2
  <2>3. CASE l = k /\ ~ Owns(w, k)
    BY <1>3, <2>1, <2>3 DEF ReleaseRow
  <2>4. CASE l = k /\ Owns(w, k)
    <3>1. jobs'[k].status = "pending" /\ attempts' = attempts
      <4>1. jobs'[k] = Unlocked(jobs[k], "pending") /\ jobs[k] \in Job /\ attempts' = attempts
        BY <1>0, <2>1, <2>4 DEF ReleaseRow, QueueTypeOK
      <4> QED
        BY <4>1, UnlockedRow DEF Statuses
    <3>2. Shrinks(k)
      BY <1>0, <1>1, <2>1, IdleStep, ShrinksIf
    <3>3. w \in TakenDown
      BY <2>1 DEF TakenDown
    <3>4. Releasable(w, k) /\ ~ Releasable(w, k)'
      BY <2>1, <2>4 DEF Releasable
    <3>5. w \notin Spent(k) /\ w \in Spent(k)'
      BY <3>4 DEF Spent
    <3> QED
      BY <1>1, <2>4, <3>1, <3>2, <3>3, <3>5 DEF Released, Requeued, JobStep
  <2> QED
    BY <2>2, <2>3, <2>4
<1>8. CASE ReleaseFails(w)
  <2>1. UNCHANGED queueVars /\ faults' = faults + 1 /\ run' = run
    BY <1>8 DEF ReleaseFails, Fault
  <2>2. Shrinks(k)
    BY <1>0, <1>1, <2>1, IdleStep, ShrinksIf
  <2> QED
    BY <2>1, <2>2 DEF Failing, SameRow, SameOwner, queueVars, JobStep
<1>9. ASSUME CancelJob(w), NEW l \in Keys, NEW s \in Slots,
             l = watch[w].key, s = active[w][l], run[w][s].key = l
      PROVE  JobStep(k)
  <2>1. /\ watch[w].pc = "cancel"
        /\ SetRun(w, s, [run[w][s] EXCEPT !.cancelled = TRUE, !.beat = "off"])
        /\ watch'[w].pc = "next"
        /\ UNCHANGED queueVars
    BY <1>0, <1>9 DEF CancelJob, SetWatch
  <2>2. /\ run'[w][s].pc = run[w][s].pc /\ run'[w][s].key = run[w][s].key
        /\ run'[w][s].outcome = run[w][s].outcome
    <3>1. run[w][s] \in Run
      BY <1>0 DEF WorkerTypeOK
    <3>2. run'[w][s] = [run[w][s] EXCEPT !.cancelled = TRUE, !.beat = "off"]
      BY <1>0, <2>1 DEF SetRun, WorkerTypeOK
    <3> QED
      BY <3>1, <3>2 DEF Run
  <2>3. \A st \in Statuses : Holds(w, s, st, k)' => Holds(w, s, st, k)
    BY <1>1, <2>2 DEF Holds, Builds, Expected
  <2>4. ~ Beats(w, s, k)
    <3>1. CASE k = l
      BY <1>9, <2>1, <3>1 DEF Beats, Cancelling
    <3>2. CASE k # l
      BY <1>9, <3>2 DEF Beats, Builds
    <3> QED
      BY <3>1, <3>2
  <2>5. NoMoreCancelling(w, k)
    BY <1>4, <2>1
  <2> QED
    BY <1>0, <1>1, <2>1, <2>3, <2>4, <2>5, SlotQuiet DEF JobStep, queueVars
<1>10. CASE CancelJob(w)
  <2>1. watch[w].pc = "cancel" /\ watch[w].key \in Keys /\ watch[w].key \in watch[w].todo
    BY <1>0, <1>10 DEF CancelJob
  <2>2. watch[w].key \in Active(w)
    BY <1>0, <2>1 DEF WorkerInv, ReleaseCoversActive, MapLocked
  <2>3. /\ active[w][watch[w].key] \in Slots
        /\ run[w][active[w][watch[w].key]].key = watch[w].key
    BY <1>0, <2>2, WorkerAssumption DEF WorkerInv, ActiveIsRunning, Active, WorkerTypeOK, Slots
  <2> QED
    BY <1>9, <1>10, <2>1, <2>3
<1> QED
  BY <1>5, <1>6, <1>7, <1>8, <1>10, WatchStep(w) DEF WatchStep

LEMMA ProcessDoes ==
    ASSUME JobInv, NEW w \in Workers, ProcessStep(w), NEW k \in Keys
    PROVE  JobStep(k)
<1>0. /\ WorkerTypeOK /\ WorkerInv /\ WorkerStep(w)
      /\ UNCHANGED queueVars
  BY DEF JobInv, ServerInv, WorkerInv, WorkerStep, ProcessStep, RequestStop, Exit, Crash, ProcessEnds
<1>1. CASE RequestStop(w)
  <2>1. UNCHANGED <<run, loop, inHand, active, watch>>
    BY <1>1 DEF RequestStop
  <2>2. HandStays(w, k) /\ NoMoreCancelling(w, k)
    BY <2>1 DEF HandStays, NoMoreCancelling, Cancelling
  <2> QED
    BY <1>0, <2>1, <2>2, QuietIf, IdleStep DEF JobStep, queueVars
<1>2. CASE Exit(w) \/ Crash(w)
  <2>1. loop'[w] = "dead" /\ run'[w] = [s \in Slots |-> NoRun]
    BY <1>0, <1>2 DEF Exit, Crash, ProcessEnds, WorkerTypeOK
  <2>2. \A i \in 0 .. MaxConcurrent : \A st : ~ Holds(w, i, st, k)'
    <3>1. \A s \in Slots : ~ Builds(w, s, k)'
      BY <2>1 DEF Builds, NoRun
    <3>2. \A i \in 0 .. MaxConcurrent : i # 0 => i \in Slots
      BY WorkerAssumption DEF Slots
    <3> QED
      BY <2>1, <3>1, <3>2 DEF Holds
  <2>3. Shrinks(k)
    BY <1>0, <2>2, ShrinksIf
  <2>4. ~ Tends(w, k)'
    BY <2>1 DEF Tends, InHand, Beats, Builds, NoRun
  <2>5. CASE faults' = faults + 1
    BY <1>0, <2>3, <2>5 DEF Failing, SameRow, SameOwner, queueVars, JobStep
  <2>6. CASE ~ Tends(w, k)
    BY <1>0, <2>2, <2>6, QuietIf DEF JobStep, queueVars
  <2>7. CASE Tends(w, k) /\ stopRequested[w]
    <3>1. PICK i \in 0 .. MaxConcurrent, st \in Statuses : Holds(w, i, st, k)
      <4>1. CASE InHand(w, k)
        <5>1. 0 \in 0 .. MaxConcurrent /\ Holds(w, 0, "building", k)
          BY <4>1, WorkerAssumption DEF InHand, Holds
        <5> QED
          BY <5>1 DEF Statuses
      <4>2. ASSUME NEW s \in Slots, Beats(w, s, k)
            PROVE  \E i \in 0 .. MaxConcurrent, st \in Statuses : Holds(w, i, st, k)
        <5>1. Expected(w, s) \in Statuses
          BY <1>0, <4>2 DEF Expected, WorkerInv, GoroutinesAgree, Verdicts, Statuses
        <5>2. s \in 0 .. MaxConcurrent /\ s # 0
          BY <4>2, WorkerAssumption DEF Slots
        <5>3. Holds(w, s, Expected(w, s), k)
          BY <4>2, <5>2 DEF Holds, Beats
        <5> QED
          BY <5>1, <5>2, <5>3
      <4> QED
        BY <2>7, <4>1, <4>2 DEF Tends
    <3>2. <<w, i, st>> \in Holders(k) /\ <<w, i, st>> \notin Holders(k)'
      BY <2>2, <3>1 DEF Holders
    <3>3. Loses(k, <<w, i, st>>)
      BY <2>3, <3>2 DEF Loses, Shrinks
    <3>4. w \in TakenDown
      BY <2>7 DEF TakenDown
    <3> QED
      BY <1>0, <2>1, <2>4, <2>7, <3>2, <3>3, <3>4 DEF Deserted, SameRow, SameOwner, queueVars, JobStep
  <2> QED
    BY <1>2, <2>5, <2>6, <2>7 DEF Exit, Crash, Fault
<1> QED
  BY <1>1, <1>2, ProcessStep(w) DEF ProcessStep

-----------------------------------------------------------------------------
(* What a step of the janitor, of a handler, or of the clock does to a job. *)

LEMMA WorkersStand ==
    ASSUME UNCHANGED workerVars, NEW k \in Keys
    PROVE  /\ Shrinks(k)
           /\ jobs'[k] = jobs[k] => Keeps(k)
           /\ jobs'[k] = jobs[k] /\ attempts'[k] = attempts[k] => Quiet(k)
<1>1. \A v \in Workers : Stands(v)
  BY DEF workerVars, Stands
<1>2. Shrinks(k)
  BY <1>1, StandsKeeps DEF Shrinks, Holders
<1>3. jobs'[k] = jobs[k] => Keeps(k)
  BY <1>1, StandsKeeps DEF Keeps
<1> QED
  BY <1>2, <1>3 DEF Quiet, SameRow, SameOwner

(* A job that is tended is not stuck, whichever cycle looks at it.         *)
LEMMA TendedIsYoung ==
    ASSUME JanitorTypeOK, NEW j \in Cycles, NEW k \in Keys, IsStuck(k, Cutoff(j))
    PROVE  ~ Tended(k) /\ jobs[k].status = "building"
<1>1. Cutoff(j) \in Nat /\ Cutoff(j) >= 1
  BY BoundsAssumption, ThresholdAssumption DEF JanitorTypeOK, Cutoff
<1>2. /\ ~ (jobs[k].heartbeat = 0)
      /\ ~ (jobs[k].heartbeat \in 0 .. 1)
  BY <1>1 DEF IsStuck
<1>3. \A w \in Workers : ~ InHand(w, k) /\ \A s \in Slots : ~ Beats(w, s, k)
  BY <1>2 DEF InHand, Beats
<1> QED
  BY <1>3 DEF Tended, Tends, IsStuck

LEMMA JanitorDoes ==
    ASSUME JobInv, JanitorStep, UNCHANGED <<workerVars, req>>, NEW k \in Keys
    PROVE  JobStep(k)
<1>0. /\ jobs[k] \in Job /\ attempts[k] \in Seq(Attempt)
      /\ JanitorTypeOK
      /\ Shrinks(k)
  BY WorkersStand DEF JobInv, ServerInv, QueueTypeOK
<1>1. ASSUME NEW j \in Cycles, RescueBegins(j) \/ RescueFails(j)
      PROVE  JobStep(k)
  <2>1. UNCHANGED queueVars
    BY <1>1 DEF RescueBegins, RescueFails
  <2> QED
    BY <2>1, WorkersStand DEF queueVars, JobStep
<1>2. ASSUME NEW j \in Cycles, RescueFirst(j)
      PROVE  JobStep(k)
  <2>1. /\ jobs' = jobs
        /\ attempts'[k] = IF IsStuck(k, Cutoff(j)) THEN Closed(attempts[k], Workers, "failed", "rescued")
                          ELSE attempts[k]
    BY <1>2 DEF RescueFirst, RescueAttempts
  <2>2. CASE ~ IsStuck(k, Cutoff(j))
    BY <2>1, <2>2, WorkersStand DEF JobStep
  <2>3. CASE IsStuck(k, Cutoff(j))
    <3>1. jobs[k].status = "building" /\ ~ Tended(k)
      BY <1>0, <2>3, TendedIsYoung
    <3>2. Len(attempts'[k]) = Len(attempts[k])
      BY <1>0, <2>1, <2>3, ClosedShape DEF Statuses, Errors
    <3>3. Keeps(k)
      BY <2>1, WorkersStand
    <3> QED
      BY <1>0, <2>1, <3>1, <3>2, <3>3 DEF ClosedByOthers, SameOwner, JobStep
  <2> QED
    BY <2>2, <2>3
<1>3. ASSUME NEW j \in Cycles, RescueSecond(j)
      PROVE  JobStep(k)
  <2>1. /\ attempts' = attempts
        /\ jobs'[k] = IF IsStuck(k, Cutoff(j)) THEN Unlocked(jobs[k], "pending") ELSE jobs[k]
    BY <1>3 DEF RescueSecond, RescueJobs
  <2>2. CASE ~ IsStuck(k, Cutoff(j))
    BY <2>1, <2>2, WorkersStand DEF JobStep
  <2>3. CASE IsStuck(k, Cutoff(j))
    <3>1. jobs[k].status = "building" /\ ~ Tended(k)
      BY <1>0, <2>3, TendedIsYoung
    <3>2. jobs'[k].status = "pending"
      BY <1>0, <2>1, <2>3, UnlockedRow DEF Statuses
    <3> QED
      BY <1>0, <2>1, <3>1, <3>2 DEF Rescued, Requeued, JobStep
  <2> QED
    BY <2>2, <2>3
<1>4. CASE RetryCycle
  <2>1. /\ attempts' = attempts
        /\ jobs'[k] = IF CanRetry(k) THEN Unlocked(jobs[k], "pending") ELSE jobs[k]
    BY <1>4 DEF RetryCycle, RetryFailedBuilds
  <2>2. CASE ~ CanRetry(k)
    BY <2>1, <2>2, WorkersStand DEF JobStep
  <2>3. CASE CanRetry(k)
    <3>1. jobs'[k].status = "pending"
      BY <1>0, <2>1, <2>3, UnlockedRow DEF Statuses
    <3> QED
      BY <1>0, <2>1, <2>3, <3>1 DEF Retried, Requeued, JobStep
  <2> QED
    BY <2>2, <2>3
<1> QED
  BY <1>1, <1>2, <1>3, <1>4, JanitorStep DEF JanitorStep, RescueStep

LEMMA ApiDoes ==
    ASSUME JobInv, ApiStep, UNCHANGED <<workerVars, rescue>>, NEW k \in Keys
    PROVE  JobStep(k)
<1>0. /\ jobs \in [Keys -> Job] /\ jobs[k] \in Job
      /\ ApiTypeOK /\ HandlersAgree
      /\ Shrinks(k)
  BY WorkersStand DEF JobInv, ServerInv, QueueTypeOK
<1>1. PICK c \in Requests :
         ArriveBuild(c) \/ ArriveCompat(c) \/ HandlerStep(c) \/ WriteDeadline(c) \/ GiveUp(c)
  BY DEF ApiStep
<1>2. ASSUME jobs'[k] = jobs[k], attempts' = attempts
      PROVE  JobStep(k)
  BY <1>2, WorkersStand DEF JobStep
<1>3. CASE Create(c)
  <2>1. InsertJob(req[c].key) /\ attempts' = attempts /\ faults' = faults
        /\ req[c].pc = "new" /\ GoTo(c, "read")
    BY <1>3 DEF Create, InsertJob
  <2>2. CASE req[c].key # k \/ jobs[k].status # "absent"
    <3>1. jobs'[k] = jobs[k]
      BY <1>0, <2>1, <2>2 DEF InsertJob, Present
    <3> QED
      BY <1>2, <2>1, <3>1
  <2>3. CASE req[c].key = k /\ jobs[k].status = "absent"
    <3>1. jobs'[k].status = "pending"
      BY <1>0, <2>1, <2>3 DEF InsertJob, Present, NoJob
    <3>2. \A l \in Keys : Forced(l)' = Forced(l)
      <4>1. \A d \in ForcedRequests :
               req'[d].key = req[d].key /\ req'[d].reset = req[d].reset
        BY <1>0, <2>1, RequestsAssumption DEF ApiTypeOK, Request, GoTo, Requests
      <4> QED
        BY <4>1 DEF Forced
    <3>3. Calm
      BY <2>1, <3>2 DEF Calm, workerVars
    <3> QED
      BY <1>0, <2>1, <2>3, <3>1, <3>3 DEF Inserted, Requeued, JobStep
  <2> QED
    BY <2>2, <2>3
<1>4. CASE ForceReset(c)
  <2>1. ResetBuildAttempts(req[c].key) /\ attempts' = attempts
        /\ req[c].pc = "reset" /\ req' = [req EXCEPT ![c].pc = "reread", ![c].reset = TRUE]
    BY <1>4 DEF ForceReset, ResetBuildAttempts
  <2>2. CASE req[c].key # k \/ jobs[k].status = "absent"
    <3>1. jobs'[k] = jobs[k]
      BY <1>0, <2>1, <2>2 DEF ResetBuildAttempts, Present
    <3> QED
      BY <1>2, <2>1, <3>1
  <2>3. CASE req[c].key = k /\ jobs[k].status # "absent"
    <3>1. jobs'[k].status = "pending"
      <4>1. jobs'[k] = [Unlocked(jobs[k], "pending") EXCEPT !.completed_at = FALSE]
        BY <1>0, <2>1, <2>3 DEF ResetBuildAttempts, Present
      <4>2. Unlocked(jobs[k], "pending").status = "pending" /\ Unlocked(jobs[k], "pending") \in Job
        BY <1>0, UnlockedRow, UnlockedType DEF Statuses
      <4> QED
        BY <4>1, <4>2 DEF Job
    <3>2. c \in ForcedRequests /\ ~ req[c].reset
      BY <1>0, <2>1 DEF HandlersAgree
    <3>3. req'[c].reset /\ req'[c].key = k
      BY <1>0, <2>1, <2>3 DEF ApiTypeOK, Request
    <3>4. c \notin Forced(k) /\ c \in Forced(k)'
      BY <3>2, <3>3 DEF Forced
    <3> QED
      BY <1>0, <2>1, <2>3, <3>1, <3>4 DEF WasReset, Requeued, JobStep
  <2> QED
    BY <2>2, <2>3
<1>5. CASE \/ ReadBuild(c) \/ Reread(c) \/ ReadCompat(c) \/ Poll(c)
           \/ ApiFails(c) \/ WriteDeadline(c) \/ GiveUp(c)
  <2>1. UNCHANGED queueVars
    BY <1>5 DEF ReadBuild, Reread, ReadCompat, Poll, ApiFails, WriteDeadline, GiveUp
  <2> QED
    BY <1>2, <2>1 DEF queueVars
<1> QED
  BY <1>1, <1>3, <1>4, <1>5 DEF ArriveBuild, ArriveCompat, HandlerStep

(* A tick that finds nobody late makes the heartbeat of a job that is      *)
(* tended due, and no older than a tick.                                   *)
LEMMA TimeDoes ==
    ASSUME JobInv, TimePasses, NEW k \in Keys
    PROVE  JobStep(k)
<1>0. /\ jobs[k] \in Job
      /\ WorkerTypeOK
      /\ Tick /\ ClockTick
      /\ MaxAge - 1 \in Nat
  BY BoundsAssumption DEF JobInv, ServerInv, WorkerInv, QueueTypeOK, TimePasses, ClockTick, MaxAge
<1>1. /\ attempts' = attempts
      /\ jobs'[k] = IF jobs[k].heartbeat \in 0 .. MaxAge - 1
                    THEN [jobs[k] EXCEPT !.heartbeat = @ + 1] ELSE jobs[k]
      /\ UNCHANGED <<loop, inHand, active, watch>>
  BY <1>0 DEF Tick, ClockTick
<1>2. /\ jobs'[k].status = jobs[k].status /\ jobs'[k].worker = jobs[k].worker
      /\ jobs[k].heartbeat = 0 => jobs'[k].heartbeat = 1
  BY <1>0, <1>1 DEF Job
<1>3. \A w \in Workers, s \in Slots :
         /\ run'[w][s].pc = run[w][s].pc /\ run'[w][s].key = run[w][s].key
         /\ run'[w][s].outcome = run[w][s].outcome
         /\ run[w][s].beat = "waiting" => run'[w][s].beat = "due"
  <2> SUFFICES ASSUME NEW w \in Workers, NEW s \in Slots
               PROVE  /\ run'[w][s].pc = run[w][s].pc /\ run'[w][s].key = run[w][s].key
                      /\ run'[w][s].outcome = run[w][s].outcome
                      /\ run[w][s].beat = "waiting" => run'[w][s].beat = "due"
    OBVIOUS
  <2>1. /\ run[w][s] \in Run
        /\ run'[w][s] = IF run[w][s].beat = "waiting"
                        THEN [run[w][s] EXCEPT !.beat = "due"] ELSE run[w][s]
    BY <1>0 DEF ClockTick, WorkerTypeOK
  <2> QED
    BY <2>1 DEF Run
<1>4. Shrinks(k)
  <2>1. ASSUME NEW w \in Workers, NEW i \in 0 .. MaxConcurrent, NEW st \in Statuses
        PROVE  Holds(w, i, st, k)' <=> Holds(w, i, st, k)
    <3>1. i # 0 => i \in Slots
      BY WorkerAssumption DEF Slots
    <3> QED
      BY <1>1, <1>3, <3>1 DEF Holds, Builds, Expected
  <2> QED
    BY <2>1 DEF Shrinks, Holders
<1>5. CASE Late
  <2>1. faults' = faults + 1
    BY <1>0, <1>5 DEF ClockTick, Fault
  <2> QED
    BY <1>1, <1>2, <1>4, <2>1 DEF Failing, SameRow, SameOwner, JobStep
<1>6. CASE ~ Late
  <2>1. ASSUME NEW w \in Workers, Tends(w, k)
        PROVE  Tends(w, k)'
    <3>1. PICK s \in Slots : Beats(w, s, k)
      BY <1>6, <2>1 DEF Tends, InHand, Late
    <3>2. run[w][s].beat = "waiting" /\ jobs[k].heartbeat = 0
      BY <1>6, <3>1 DEF Beats, Late
    <3>3. run'[w][s].beat = "due" /\ jobs'[k].heartbeat \in 0 .. 1
      BY <1>2, <1>3, <3>2
    <3>4. Builds(w, s, k)' /\ ~ Cancelling(w, s, k)'
      BY <1>1, <1>3, <3>1 DEF Beats, Builds, Cancelling
    <3>5. Beats(w, s, k)'
      BY <3>3, <3>4 DEF Beats
    <3>6. Owns(w, k)'
      BY <1>2, <2>1 DEF Tends, Owns
    <3> QED
      BY <3>5, <3>6 DEF Tends
  <2> QED
    BY <1>1, <1>2, <1>4, <2>1 DEF Keeps, Quiet, SameRow, SameOwner, JobStep
<1> QED
  BY <1>5, <1>6

LEMMA StepDoes ==
    ASSUME JobInv, [Next]_vars, NEW k \in Keys
    PROVE  JobStep(k)
<1>1. ASSUME NEW w \in Workers, WorkerStep(w), UNCHANGED <<rescue, req>>
      PROVE  JobStep(k)
  BY <1>1, LoopDoes, RunDoes, BeatDoes, WatchDoes, ProcessDoes DEF WorkerStep
<1>2. CASE UNCHANGED vars
  BY <1>2, WorkersStand DEF vars, queueVars, JobStep
<1> QED
  BY <1>1, <1>2, JanitorDoes, ApiDoes, TimeDoes DEF Next

-----------------------------------------------------------------------------
(* Counting.                                                               *)

LEMMA CountSubset ==
    ASSUME NEW T, IsFiniteSet(T), NEW S, S \subseteq T
    PROVE  /\ IsFiniteSet(S)
           /\ Cardinality(S) \in Nat /\ Cardinality(T) \in Nat
           /\ Cardinality(S) <= Cardinality(T)
           /\ \A x \in T : x \notin S => Cardinality(S) + 1 <= Cardinality(T)
<1>1. IsFiniteSet(S) /\ Cardinality(S) \in Nat /\ Cardinality(T) \in Nat
      /\ Cardinality(S) <= Cardinality(T)
  BY FS_Subset, FS_CardinalityType
<1>2. ASSUME NEW x \in T, x \notin S
      PROVE  Cardinality(S) + 1 <= Cardinality(T)
  <2>1. IsFiniteSet(T \ {x}) /\ Cardinality(T \ {x}) = Cardinality(T) - 1
    BY <1>2, FS_RemoveElement
  <2>2. S \in SUBSET (T \ {x})
    BY <1>2
  <2>3. Cardinality(S) <= Cardinality(T \ {x})
    BY <2>1, <2>2, FS_Subset
  <2> QED
    BY <1>1, <2>1, <2>3
<1> QED
  BY <1>1, <1>2

LEMMA CountAdd ==
    ASSUME NEW S, IsFiniteSet(S), NEW x
    PROVE  /\ IsFiniteSet(S \cup {x})
           /\ Cardinality(S) \in Nat /\ Cardinality(S \cup {x}) \in Nat
           /\ Cardinality(S \cup {x}) <= Cardinality(S) + 1
BY FS_AddElement, FS_CardinalityType

\* The disturbances of a job have been finitely many so far.
FewDisturbances(k) == IsFiniteSet(TakenDown) /\ IsFiniteSet(Forced(k))

LEMMA SpentTakenDown == ASSUME NEW k PROVE Spent(k) \subseteq TakenDown
BY DEF Spent, Releasable, TakenDown

LEMMA DisturbancesCount ==
    ASSUME NEW k, DisturbancesGrow(k), FewDisturbances(k)
    PROVE  /\ FewDisturbances(k)'
           /\ Cardinality(Forced(k)) \in Nat /\ Cardinality(Forced(k)') \in Nat
           /\ Cardinality(Spent(k)) \in Nat /\ Cardinality(Spent(k)') \in Nat
           /\ Cardinality(Forced(k)) <= Cardinality(Forced(k)')
           /\ Cardinality(Spent(k)) <= Cardinality(Spent(k)')
           /\ \A c : c \notin Forced(k) /\ c \in Forced(k)' =>
                 Cardinality(Forced(k)) + 1 <= Cardinality(Forced(k)')
           /\ \A w : w \notin Spent(k) /\ w \in Spent(k)' =>
                 Cardinality(Spent(k)) + 1 <= Cardinality(Spent(k)')
<1>1. IsFiniteSet(TakenDown')
  <2>1. CASE TakenDown' = TakenDown
    BY <2>1 DEF FewDisturbances
  <2>2. ASSUME NEW w, TakenDown' = TakenDown \cup {w}
        PROVE  IsFiniteSet(TakenDown')
    BY <2>2, CountAdd DEF FewDisturbances
  <2> QED
    BY <2>1, <2>2 DEF DisturbancesGrow
<1>2. IsFiniteSet(Forced(k)') /\ Forced(k) \subseteq Forced(k)'
  <2>1. CASE Forced(k)' = Forced(k)
    BY <2>1 DEF FewDisturbances
  <2>2. ASSUME NEW c, Forced(k)' = Forced(k) \cup {c}
        PROVE  IsFiniteSet(Forced(k)')
    BY <2>2, CountAdd DEF FewDisturbances
  <2> QED
    BY <2>1, <2>2 DEF DisturbancesGrow
<1>3. Spent(k)' \subseteq TakenDown'
  BY DEF Spent, Releasable, TakenDown
<1>4. IsFiniteSet(Spent(k)') /\ Spent(k) \subseteq Spent(k)'
  BY <1>1, <1>3, CountSubset DEF DisturbancesGrow
<1> QED
  BY <1>1, <1>2, <1>4, CountSubset DEF FewDisturbances

-----------------------------------------------------------------------------
(* The goroutines that hold a job: the one that tends it, and one more for *)
(* each fault, each reset and each worker that has released it.            *)

HoldersBounded(k) ==
    /\ FewDisturbances(k)
    /\ IsFiniteSet(Holders(k))
    /\ Cardinality(Holders(k))
          <= One(Tended(k)) + faults + Cardinality(Forced(k)) + Cardinality(Spent(k))

\* There are m of them.
Many(k, m) == IsFiniteSet(Holders(k)) /\ Cardinality(Holders(k)) = m

LEMMA HoldersChange ==
    ASSUME NEW k, NEW n \in Nat, Many(k, n)
    PROVE  /\ Shrinks(k) => \E m \in 0 .. n : Many(k, m)'
           /\ \A h : Loses(k, h) => \E m \in 0 .. n - 1 : Many(k, m)'
           /\ \A g, h : Swaps(k, g, h) => \E m \in 0 .. n : Many(k, m)'
           /\ \A h : Holders(k)' \subseteq Holders(k) \cup {h} => \E m \in 0 .. n + 1 : Many(k, m)'
<1> DEFINE H == Holders(k)
           J == Holders(k)'
<1>1. ASSUME NEW N \in Nat, NEW T, IsFiniteSet(T), Cardinality(T) = N, J \subseteq T
      PROVE  \E m \in 0 .. N : Many(k, m)'
  <2>1. PICK m \in Nat : IsFiniteSet(J) /\ Cardinality(J) = m /\ m <= N
    BY <1>1, CountSubset
  <2>2. m \in 0 .. N
    BY <2>1
  <2>3. Many(k, m)'
    BY <2>1 DEF Many
  <2> QED
    BY <2>2, <2>3
<1>2. IsFiniteSet(H) /\ Cardinality(H) = n
  BY DEF Many
<1>3. ASSUME NEW h, h \in H
      PROVE  n - 1 \in Nat /\ IsFiniteSet(H \ {h}) /\ Cardinality(H \ {h}) = n - 1
  <2>1. IsFiniteSet(H \ {h}) /\ Cardinality(H \ {h}) = n - 1
    BY <1>2, <1>3, FS_RemoveElement
  <2> QED
    BY <2>1, FS_CardinalityType
<1>4. Shrinks(k) => \E m \in 0 .. n : Many(k, m)'
  BY <1>1, <1>2 DEF Shrinks
<1>5. ASSUME NEW h, Loses(k, h)
      PROVE  \E m \in 0 .. n - 1 : Many(k, m)'
  <2>1. h \in H /\ J \subseteq H \ {h}
    BY <1>5 DEF Loses
  <2> QED
    BY <1>1, <1>3, <2>1
<1>6. ASSUME NEW h, J \subseteq H \cup {h}
      PROVE  \E m \in 0 .. n + 1 : Many(k, m)'
  <2>1. CASE h \in H
    <3>1. PICK m \in 0 .. n : Many(k, m)'
      BY <1>1, <1>2, <1>6, <2>1
    <3>2. m \in 0 .. n + 1
      OBVIOUS
    <3> QED
      BY <3>1, <3>2
  <2>2. CASE h \notin H
    <3>1. IsFiniteSet(H \cup {h}) /\ Cardinality(H \cup {h}) = n + 1
      BY <1>2, <2>2, FS_AddElement
    <3> QED
      BY <1>1, <1>6, <3>1
  <2> QED
    BY <2>1, <2>2
<1>7. ASSUME NEW g, NEW h, Swaps(k, g, h)
      PROVE  \E m \in 0 .. n : Many(k, m)'
  <2>1. g \in H /\ J \subseteq (H \ {g}) \cup {h}
    BY <1>7 DEF Swaps
  <2>2. n - 1 \in Nat /\ IsFiniteSet(H \ {g}) /\ Cardinality(H \ {g}) = n - 1
    BY <1>3, <2>1
  <2>3. CASE h \in H \ {g}
    <3>1. J \subseteq H
      BY <2>1, <2>3
    <3> QED
      BY <1>1, <1>2, <3>1
  <2>4. CASE h \notin H \ {g}
    <3>1. IsFiniteSet((H \ {g}) \cup {h}) /\ Cardinality((H \ {g}) \cup {h}) = n
      BY <2>2, <2>4, FS_AddElement
    <3> QED
      BY <1>1, <2>1, <3>1
  <2> QED
    BY <2>3, <2>4
<1> QED
  BY <1>4, <1>5, <1>6, <1>7

(* A pending job is tended by nobody, a job has one owner.                 *)
LEMMA OneTends ==
    ASSUME NEW k
    PROVE  /\ jobs[k].status # "building" => ~ Tended(k)
           /\ \A v, w \in Workers : Tends(v, k) /\ Tends(w, k) => v = w
BY DEF Tended, Tends, Owns

LEMMA HoldersStep ==
    ASSUME NEW k, HoldersBounded(k), JobStep(k), DisturbancesGrow(k), faults \in Nat
    PROVE  HoldersBounded(k)'
<1>1. PICK f \in Nat, g \in Nat, p \in Nat, q \in Nat :
         /\ f = Cardinality(Forced(k)) /\ g = Cardinality(Forced(k)')
         /\ p = Cardinality(Spent(k)) /\ q = Cardinality(Spent(k)')
  BY DisturbancesCount DEF HoldersBounded
<1>2. f <= g /\ p <= q
  BY <1>1, DisturbancesCount DEF HoldersBounded
<1>3. /\ FewDisturbances(k)'
      /\ \A c : c \notin Forced(k) /\ c \in Forced(k)' => f + 1 <= g
      /\ \A w : w \notin Spent(k) /\ w \in Spent(k)' => p + 1 <= q
  BY <1>1, DisturbancesCount DEF HoldersBounded
<1>4. PICK e \in Nat, d \in Nat : e = faults /\ d = faults'
  BY DEF DisturbancesGrow
<1>5. e <= d
  BY <1>4 DEF DisturbancesGrow
<1>6. PICK t \in 0 .. 1, u \in 0 .. 1 : t = One(Tended(k)) /\ u = One(Tended(k)')
  BY DEF One
<1>7. /\ Keeps(k) => t <= u
      /\ ~ Tended(k) => t = 0
      /\ Tended(k)' => u = 1
  BY <1>6 DEF Keeps, Tended, One
<1>8. PICK n \in Nat : Many(k, n) /\ n <= t + e + f + p
  BY <1>1, <1>4, <1>6, FS_CardinalityType DEF HoldersBounded, Many
<1>9. n <= t + e + f + p
  BY <1>8
<1> SUFFICES \E m \in Nat : Many(k, m)' /\ m <= u + d + g + q
  BY <1>1, <1>3, <1>4, <1>6 DEF HoldersBounded, Many
<1>10. CASE Quiet(k) \/ HandedOver(k) \/ Recorded(k) \/ ClosedByOthers(k)
  <2>1. Keeps(k) /\ (Shrinks(k) \/ \E a, b : Swaps(k, a, b))
    BY <1>10 DEF Quiet, HandedOver, Recorded, ClosedByOthers
  <2>2. PICK m \in 0 .. n : Many(k, m)'
    BY <1>8, <2>1, HoldersChange
  <2>3. t <= u
    BY <1>7, <2>1
  <2>4. m <= u + d + g + q
    BY <1>2, <1>5, <1>9, <2>3
  <2> QED
    BY <2>2, <2>4
<1>11. CASE Failing(k)
  <2>1. PICK m \in 0 .. n : Many(k, m)'
    BY <1>8, <1>11, HoldersChange DEF Failing
  <2>2. d = e + 1
    BY <1>4, <1>11 DEF Failing
  <2>3. m <= u + d + g + q
    BY <1>2, <1>9, <2>2
  <2> QED
    BY <2>1, <2>3
<1>12. CASE Deserted(k) \/ Concluded(k)
  <2>1. \E h : Loses(k, h)
    BY <1>12 DEF Deserted, Concluded
  <2>2. PICK m \in 0 .. n - 1 : Many(k, m)'
    BY <1>8, <2>1, HoldersChange
  <2>3. m <= u + d + g + q
    BY <1>2, <1>5, <1>9
  <2> QED
    BY <2>2, <2>3
<1>13. CASE Claimed(k)
  <2>1. /\ jobs[k].status = "pending" /\ Tended(k)'
        /\ \E h : Holders(k)' \subseteq Holders(k) \cup {h}
    BY <1>13 DEF Claimed, ClaimedBy, Tended
  <2>2. PICK m \in 0 .. n + 1 : Many(k, m)'
    BY <1>8, <2>1, HoldersChange
  <2>3. t = 0 /\ u = 1
    BY <1>7, <2>1, OneTends
  <2>4. m <= u + d + g + q
    BY <1>2, <1>5, <1>9, <2>3
  <2> QED
    BY <2>2, <2>4
<1>14. CASE ClaimLost(k) \/ Inserted(k) \/ Rescued(k) \/ Retried(k)
  <2>1. Shrinks(k) /\ ~ Tended(k)
    BY <1>14, OneTends DEF ClaimLost, ClaimedBy, Inserted, Rescued, Retried, Requeued, CanRetry
  <2>2. PICK m \in 0 .. n : Many(k, m)'
    BY <1>8, <2>1, HoldersChange
  <2>3. t = 0
    BY <1>7, <2>1
  <2>4. m <= u + d + g + q
    BY <1>2, <1>5, <1>9, <2>3
  <2> QED
    BY <2>2, <2>4
<1>15. CASE WasReset(k) \/ Released(k)
  <2>1. Shrinks(k)
    BY <1>15 DEF WasReset, Released, Requeued
  <2>2. PICK m \in 0 .. n : Many(k, m)'
    BY <1>8, <2>1, HoldersChange
  <2>3. f + 1 <= g \/ p + 1 <= q
    BY <1>3, <1>15 DEF WasReset, Released
  <2>4. m <= u + d + g + q
    BY <1>2, <1>5, <1>9, <2>3
  <2> QED
    BY <2>2, <2>4
<1> QED
  BY <1>10, <1>11, <1>12, <1>13, <1>14, <1>15, JobStep(k) DEF JobStep

LEMMA FaultsNatural == JobInv => faults \in Nat
BY FaultsAssumption DEF JobInv, ServerInv, WorkerInv, WorkerTypeOK

(* At the start nobody holds anything, and nothing has happened.           *)
LEMMA NothingYet ==
    ASSUME Init, NEW k \in Keys
    PROVE  /\ TakenDown = {} /\ Forced(k) = {} /\ Holders(k) = {} /\ Spent(k) = {}
           /\ ~ Tended(k) /\ faults = 0
           /\ jobs[k].status = "absent" /\ attempts[k] = << >>
<1>1. /\ faults = 0 /\ jobs[k].status = "absent" /\ attempts[k] = << >>
      /\ loop = [w \in Workers |-> "select"]
      /\ run = [w \in Workers |-> [s \in Slots |-> NoRun]]
      /\ stopRequested = [w \in Workers |-> FALSE]
      /\ watch = [w \in Workers |-> NoWatch]
      /\ \A c \in Requests : ~ req[c].reset
  BY DEF Init, QueueInit, NoJob, WorkerInit, ApiInit, NewRequest
<1>2. TakenDown = {}
  BY <1>1 DEF TakenDown, NoWatch
<1>3. Forced(k) = {}
  BY <1>1, RequestsAssumption DEF Forced, Requests
<1>4. Spent(k) = {}
  BY <1>2, SpentTakenDown
<1>5. ~ Tended(k)
  BY <1>1 DEF Tended, Tends, Owns
<1>6. Holders(k) = {}
  <2> SUFFICES ASSUME NEW w \in Workers, NEW s \in 0 .. MaxConcurrent, NEW st \in Statuses
               PROVE  ~ Holds(w, s, st, k)
    BY DEF Holders
  <2>1. s # 0 => s \in Slots
    BY WorkerAssumption DEF Slots
  <2> QED
    BY <1>1, <2>1 DEF Holds, Builds, NoRun
<1> QED
  BY <1>1, <1>2, <1>3, <1>4, <1>5, <1>6

HoldersInv == \A k \in Keys : HoldersBounded(k)

LEMMA HoldersInvInit == Init => HoldersInv
<1>1. ASSUME Init, NEW k \in Keys
      PROVE  HoldersBounded(k)
  <2>1. /\ TakenDown = {} /\ Forced(k) = {} /\ Holders(k) = {} /\ Spent(k) = {}
        /\ faults = 0
    BY <1>1, NothingYet
  <2>2. One(Tended(k)) \in 0 .. 1
    BY DEF One
  <2>3. 0 <= One(Tended(k)) + 0 + 0 + 0
    BY <2>2
  <2> QED
    BY <2>1, <2>3, FS_EmptySet DEF HoldersBounded, FewDisturbances
<1> QED
  BY <1>1 DEF HoldersInv

LEMMA HoldersInvHolds == Spec => []HoldersInv
<1>1. JobInv /\ HoldersInv /\ [Next]_vars => HoldersInv'
  BY StepDoes, StepDisturbs, HoldersStep, FaultsNatural DEF HoldersInv
<1> QED
  BY <1>1, HoldersInvInit, JobInvHolds, PTL DEF Spec

(* The goroutine of slot s holds the job it builds.                        *)
LEMMA BuilderHolds ==
    ASSUME JobInv, NEW w \in Workers, NEW s \in Slots, NEW k, Builds(w, s, k)
    PROVE  <<w, s, Expected(w, s)>> \in Holders(k)
<1>1. Expected(w, s) \in Statuses
  BY DEF JobInv, ServerInv, WorkerInv, GoroutinesAgree, Expected, Verdicts, Statuses
<1>2. s \in 0 .. MaxConcurrent /\ s # 0
  BY WorkerAssumption DEF Slots
<1>3. Holds(w, s, Expected(w, s), k)
  BY <1>2 DEF Holds
<1> QED
  BY <1>1, <1>2, <1>3 DEF Holders

\* The goroutines that build a job, as OneBuilderPerDisturbance counts them.
Builders(k) == {p \in Workers \X Slots : Builds(p[1], p[2], k)}

(* They hold it, each in its own slot.                                     *)
LEMMA BuildersHold ==
    ASSUME JobInv, NEW k, IsFiniteSet(Holders(k))
    PROVE  IsFiniteSet(Builders(k)) /\ Cardinality(Builders(k)) <= Cardinality(Holders(k))
<1> DEFINE f == [p \in Builders(k) |-> <<p[1], p[2], Expected(p[1], p[2])>>]
<1>1. ASSUME NEW p \in Builders(k)
      PROVE  f[p] \in Holders(k)
  BY BuilderHolds DEF Builders
<1>2. \A p, q \in Builders(k) : f[p] = f[q] => p = q
  BY DEF Builders
<1>3. f \in Injection(Builders(k), Holders(k))
  BY <1>1, <1>2 DEF Injection, IsInjective
<1> QED
  BY <1>3, FS_Injection

LEMMA TimesSlots ==
    ASSUME NEW n \in Nat
    PROVE  MaxConcurrent * n \in Nat /\ n <= MaxConcurrent * n
BY WorkerAssumption

-----------------------------------------------------------------------------
(* The attempts of a job: max_attempts of them, and one more for each      *)
(* fault, each reset and each grip on the job that is given up.            *)

AttemptsBounded(k) ==
    /\ FewDisturbances(k)
    /\ Len(attempts[k]) + One(Adrift(k))
          <= MaxAttempts + faults + Cardinality(Forced(k)) + Cardinality(GivenUp(k))

LEMMA SlotsCount == IsFiniteSet(Slots) /\ Cardinality(Slots) = MaxConcurrent
BY FS_Interval, WorkerAssumption DEF Slots

LEMMA GivenUpFinite ==
    ASSUME NEW k, IsFiniteSet(TakenDown)
    PROVE  /\ IsFiniteSet(GivenUp(k))
           /\ Cardinality(GivenUp(k)) \in Nat
           /\ Cardinality(GivenUp(k)) <= Cardinality(TakenDown \X Slots)
           /\ Cardinality(TakenDown \X Slots) = Cardinality(TakenDown) * MaxConcurrent
<1>1. /\ IsFiniteSet(TakenDown \X Slots)
      /\ Cardinality(TakenDown \X Slots) = Cardinality(TakenDown) * MaxConcurrent
  BY SlotsCount, FS_Product
<1>2. GivenUp(k) \subseteq TakenDown \X Slots
  BY DEF GivenUp
<1> QED
  BY <1>1, <1>2, CountSubset

LEMMA GripType ==
    ASSUME NEW w, NEW k
    PROVE  /\ Grip(w, k) \in 0 .. 2
           /\ Tends(w, k) \/ loop[w] = "claiming" => Grip(w, k) \in 1 .. 2
           /\ ~ Tends(w, k) /\ loop[w] # "claiming" => Grip(w, k) = 0
BY DEF Grip, One

(* A worker that tends a job and claims another has two tokens.            *)
LEMMA GripFits ==
    ASSUME WorkerInv, NEW w \in Workers, NEW k \in Keys
    PROVE  Grip(w, k) <= MaxConcurrent
<1>1. CASE Tends(w, k) /\ loop[w] = "claiming"
  <2>1. PICK s \in Slots : run[w][s].pc # "idle"
    BY <1>1 DEF Tends, InHand, Beats, Builds
  <2>2. s \in Busy(w) /\ IsFiniteSet(Busy(w))
    BY <2>1, SlotsFinite DEF Busy
  <2>3. PICK b \in Nat : b = Cardinality(Busy(w)) /\ b # 0
    BY <2>2, FS_EmptySet, FS_CardinalityType
  <2>4. PICK f \in Nat : f = filled[w]
    BY DEF WorkerInv, WorkerTypeOK
  <2>5. sem[w] = b + f + 1 /\ sem[w] \in 0 .. MaxConcurrent
    BY <1>1, <2>3, <2>4 DEF WorkerInv, SemCountsJobs, WorkerTypeOK
  <2>6. b + f + 1 <= MaxConcurrent /\ b >= 1
    BY <2>3, <2>5, WorkerAssumption
  <2>7. Grip(w, k) <= 2
    BY GripType
  <2> QED
    BY <2>6, <2>7, GripType, WorkerAssumption
<1>2. CASE ~ (Tends(w, k) /\ loop[w] = "claiming")
  <2>1. Grip(w, k) \in 0 .. 1
    BY <1>2 DEF Grip, One
  <2> QED
    BY <2>1, WorkerAssumption
<1> QED
  BY <1>1, <1>2

\* w does not get hold of the job, or does so by ending a claim.
GripFalls(w, k) == Tends(w, k)' => Tends(w, k) \/ (loop[w] = "claiming" /\ loop'[w] # "claiming")

LEMMA GripChange ==
    ASSUME NEW k, DisturbancesGrow(k), NEW w \in TakenDown
    PROVE  /\ Grip(w, k)' <= Grip(w, k) + 1
           /\ GripFalls(w, k) => Grip(w, k)' <= Grip(w, k)
<1>1. loop'[w] = "claiming" => loop[w] = "claiming"
  BY DEF DisturbancesGrow
<1> QED
  BY <1>1 DEF Grip, GripFalls, One

(* What has been given up stays given up, but for one slot's worth when a  *)
(* worker comes back to a job.                                             *)
LEMMA GivenUpStays ==
    ASSUME NEW k, DisturbancesGrow(k), \A w \in TakenDown : GripFalls(w, k)
    PROVE  GivenUp(k) \subseteq GivenUp(k)'
<1> SUFFICES ASSUME NEW p \in GivenUp(k)
             PROVE  p \in GivenUp(k)'
  OBVIOUS
<1>1. p \in TakenDown \X Slots /\ p[1] \in TakenDown /\ p[2] + Grip(p[1], k) <= MaxConcurrent
  BY DEF GivenUp
<1>2. PICK i \in Nat, g \in Nat, h \in Nat : i = p[2] /\ g = Grip(p[1], k) /\ h = Grip(p[1], k)'
  <2>1. Grip(p[1], k) \in Nat /\ Grip(p[1], k)' \in Nat
    BY DEF Grip, One
  <2> QED
    BY <1>1, <2>1 DEF Slots
<1>3. h <= g
  BY <1>1, <1>2, GripChange
<1>4. i + h <= MaxConcurrent
  BY <1>1, <1>2, <1>3, WorkerAssumption
<1>5. p \in TakenDown' \X Slots
  BY <1>1 DEF DisturbancesGrow
<1> QED
  BY <1>2, <1>4, <1>5 DEF GivenUp

LEMMA GivenUpLosesOne ==
    ASSUME NEW k, DisturbancesGrow(k), NEW w, \A v \in TakenDown : v # w => GripFalls(v, k)
    PROVE  GivenUp(k) \subseteq GivenUp(k)' \cup {<<w, MaxConcurrent - Grip(w, k)>>}
<1> SUFFICES ASSUME NEW p \in GivenUp(k), p # <<w, MaxConcurrent - Grip(w, k)>>
             PROVE  p \in GivenUp(k)'
  OBVIOUS
<1>1. p \in TakenDown \X Slots /\ p[1] \in TakenDown /\ p[2] + Grip(p[1], k) <= MaxConcurrent
  BY DEF GivenUp
<1>2. PICK i \in Nat, g \in Nat, h \in Nat : i = p[2] /\ g = Grip(p[1], k) /\ h = Grip(p[1], k)'
  <2>1. Grip(p[1], k) \in Nat /\ Grip(p[1], k)' \in Nat
    BY DEF Grip, One
  <2> QED
    BY <1>1, <2>1 DEF Slots
<1>3. i + h <= MaxConcurrent
  <2>1. i + g <= MaxConcurrent
    BY <1>1, <1>2
  <2>2. CASE p[1] = w
    <3>1. i # MaxConcurrent - g
      BY <1>1, <1>2, <2>2
    <3>2. h <= g + 1
      BY <1>1, <1>2, GripChange
    <3> QED
      BY <2>1, <3>1, <3>2, WorkerAssumption
  <2>3. CASE p[1] # w
    <3>1. h <= g
      BY <1>1, <1>2, <2>3, GripChange
    <3> QED
      BY <2>1, <3>1, WorkerAssumption
  <2> QED
    BY <2>2, <2>3
<1>4. p \in TakenDown' \X Slots
  BY <1>1 DEF DisturbancesGrow
<1> QED
  BY <1>2, <1>3, <1>4 DEF GivenUp

LEMMA GivenUpGains ==
    ASSUME WorkerInv, NEW k \in Keys, DisturbancesGrow(k), NEW w \in TakenDown,
           Grip(w, k)' < Grip(w, k)
    PROVE  \E p \in GivenUp(k)' : p \notin GivenUp(k)
<1>1. w \in Workers /\ w \in TakenDown'
  BY DEF TakenDown, DisturbancesGrow
<1>2. PICK g \in Nat, h \in Nat : g = Grip(w, k) /\ h = Grip(w, k)'
  BY DEF Grip, One
<1>3. h < g /\ g <= MaxConcurrent
  BY <1>1, <1>2, GripFits
<1>4. MaxConcurrent - h \in Slots /\ (MaxConcurrent - h) + h <= MaxConcurrent
      /\ ~ ((MaxConcurrent - h) + g <= MaxConcurrent)
  BY <1>3, WorkerAssumption DEF Slots
<1>5. <<w, MaxConcurrent - h>> \in GivenUp(k)'
  BY <1>1, <1>2, <1>4 DEF GivenUp
<1>6. <<w, MaxConcurrent - h>> \notin GivenUp(k)
  BY <1>2, <1>4 DEF GivenUp
<1> QED
  BY <1>5, <1>6

LEMMA GivenUpCount ==
    ASSUME WorkerInv, NEW k \in Keys, DisturbancesGrow(k), FewDisturbances(k)
    PROVE  /\ Cardinality(GivenUp(k)) \in Nat /\ Cardinality(GivenUp(k)') \in Nat
           /\ (\A w \in TakenDown : GripFalls(w, k)) =>
                 /\ Cardinality(GivenUp(k)) <= Cardinality(GivenUp(k)')
                 /\ \A w \in TakenDown : Grip(w, k)' < Grip(w, k) =>
                       Cardinality(GivenUp(k)) + 1 <= Cardinality(GivenUp(k)')
           /\ \A w : (\A v \in TakenDown : v # w => GripFalls(v, k)) =>
                 Cardinality(GivenUp(k)) <= Cardinality(GivenUp(k)') + 1
<1> DEFINE G == GivenUp(k)
           J == GivenUp(k)'
<1>1. /\ IsFiniteSet(G) /\ Cardinality(G) \in Nat
      /\ IsFiniteSet(J) /\ Cardinality(J) \in Nat
  <2>1. IsFiniteSet(TakenDown) /\ IsFiniteSet(TakenDown')
    BY DisturbancesCount DEF FewDisturbances
  <2>2. J \subseteq TakenDown' \X Slots
    BY DEF GivenUp
  <2>3. IsFiniteSet(TakenDown' \X Slots)
    BY <2>1, SlotsCount, FS_Product
  <2> QED
    BY <2>1, <2>2, <2>3, GivenUpFinite, CountSubset
<1>2. ASSUME \A w \in TakenDown : GripFalls(w, k)
      PROVE  /\ Cardinality(G) <= Cardinality(J)
             /\ \A w \in TakenDown : Grip(w, k)' < Grip(w, k) => Cardinality(G) + 1 <= Cardinality(J)
  <2>1. G \subseteq J
    BY <1>2, GivenUpStays
  <2>2. ASSUME NEW w \in TakenDown, Grip(w, k)' < Grip(w, k)
        PROVE  \E p \in J : p \notin G
    BY <2>2, GivenUpGains
  <2> QED
    BY <1>1, <2>1, <2>2, CountSubset
<1>3. ASSUME NEW w, \A v \in TakenDown : v # w => GripFalls(v, k)
      PROVE  Cardinality(G) <= Cardinality(J) + 1
  <2>1. PICK x : G \subseteq J \cup {x}
    BY <1>3, GivenUpLosesOne
  <2>2. IsFiniteSet(J \cup {x}) /\ Cardinality(J \cup {x}) \in Nat
        /\ Cardinality(J \cup {x}) <= Cardinality(J) + 1
    BY <1>1, CountAdd
  <2>3. Cardinality(G) <= Cardinality(J \cup {x})
    BY <2>1, <2>2, CountSubset
  <2>4. PICK a \in Nat, b \in Nat, c \in Nat :
           a = Cardinality(G) /\ b = Cardinality(J) /\ c = Cardinality(J \cup {x})
    BY <1>1, <2>2
  <2>5. a <= c /\ c <= b + 1
    BY <2>2, <2>3, <2>4
  <2>6. a <= b + 1
    BY <2>5
  <2> QED
    BY <2>4, <2>6
<1> QED
  BY <1>1, <1>2, <1>3

(* Where the owner stays, either nobody gets hold of the job, and it comes *)
(* adrift only when it is left, or the owner comes back to it.             *)
LEMMA OwnerStays ==
    ASSUME NEW k, SameOwner(k)
    PROVE  \/ /\ \A w \in Workers : GripFalls(w, k)
              /\ Adrift(k)' => Adrift(k) \/ (Tended(k) /\ ~ Tended(k)')
           \/ \E w \in Workers :
                 /\ \A v \in Workers : v # w => GripFalls(v, k)
                 /\ Adrift(k)
                 /\ ~ Adrift(k)'
<1>1. ASSUME NEW w \in Workers, ~ Tends(w, k), Tends(w, k)'
      PROVE  /\ \A v \in Workers : v # w => GripFalls(v, k)
             /\ Adrift(k)
             /\ ~ Adrift(k)'
  <2>1. /\ jobs'[k].status = "building" /\ jobs'[k].worker = w
        /\ jobs[k].status = "building" /\ jobs[k].worker = w
    BY <1>1 DEF Tends, Owns, SameOwner
  <2>2. \A v \in Workers : v # w => ~ Tends(v, k) /\ ~ Tends(v, k)'
    BY <2>1 DEF Tends, Owns
  <2> QED
    BY <1>1, <2>1, <2>2 DEF Adrift, Tended, GripFalls
<1>2. CASE \A w \in Workers : Tends(w, k)' => Tends(w, k)
  <2>1. Tended(k)' => Tended(k)
    BY <1>2 DEF Tended
  <2>2. Adrift(k)' => Adrift(k) \/ (Tended(k) /\ ~ Tended(k)')
    BY <2>1 DEF Adrift, SameOwner
  <2> QED
    BY <1>2, <2>2 DEF GripFalls
<1> QED
  BY <1>1, <1>2

(* Where nobody tends the job after the step, everybody's grip falls.      *)
LEMMA NobodyTends ==
    ASSUME NEW k, jobs'[k].status # "building"
    PROVE  (\A w \in Workers : GripFalls(w, k)) /\ ~ Tended(k)'
BY DEF GripFalls, Tended, Tends, Owns

LEMMA AttemptsStep ==
    ASSUME JobInv, NEW k \in Keys, AttemptsBounded(k), JobStep(k), DisturbancesGrow(k)
    PROVE  AttemptsBounded(k)'
<1>1. /\ WorkerInv /\ FewDisturbances(k) /\ FewDisturbances(k)'
      /\ attempts[k] \in Seq(Attempt)
      /\ TakenDown \subseteq Workers
  BY DisturbancesCount DEF JobInv, ServerInv, QueueTypeOK, AttemptsBounded, TakenDown
<1>2. PICK f \in Nat, g \in Nat, b \in Nat, c \in Nat :
         /\ f = Cardinality(Forced(k)) /\ g = Cardinality(Forced(k)')
         /\ b = Cardinality(GivenUp(k)) /\ c = Cardinality(GivenUp(k)')
  BY <1>1, DisturbancesCount, GivenUpCount
<1>3. f <= g
  BY <1>1, <1>2, DisturbancesCount
<1>4. PICK e \in Nat, d \in Nat : e = faults /\ d = faults'
  BY FaultsNatural DEF DisturbancesGrow
<1>5. e <= d
  BY <1>4 DEF DisturbancesGrow
<1>6. PICK a \in 0 .. 1, z \in 0 .. 1 : a = One(Adrift(k)) /\ z = One(Adrift(k)')
  BY DEF One
<1>7. PICK l \in Nat, m \in Nat : l = Len(attempts[k]) /\ m = MaxAttempts /\ m >= 1
  BY <1>1, BoundsAssumption
<1>8. l + a <= m + e + f + b
  BY <1>2, <1>4, <1>6, <1>7 DEF AttemptsBounded
<1>9. /\ Adrift(k) => a = 1
      /\ ~ Adrift(k) => a = 0
      /\ ~ Adrift(k)' => z = 0
  BY <1>6 DEF One
<1>10. /\ (\A w \in TakenDown : GripFalls(w, k)) => b <= c
       /\ \A w \in TakenDown : Grip(w, k)' < Grip(w, k) /\ (\A v \in TakenDown : GripFalls(v, k)) => b + 1 <= c
       /\ \A w : (\A v \in TakenDown : v # w => GripFalls(v, k)) => b <= c + 1
  BY <1>1, <1>2, GivenUpCount
<1> SUFFICES \E n \in Nat : n = Len(attempts'[k]) /\ n + z <= m + d + g + c
  BY <1>1, <1>2, <1>4, <1>6, <1>7 DEF AttemptsBounded
<1>11. ASSUME SameOwner(k), Len(attempts'[k]) = Len(attempts[k])
       PROVE  l + z <= m + d + g + c \/ (d = e /\ Tended(k) /\ ~ Tended(k)')
  <2>1. CASE /\ \A w \in Workers : GripFalls(w, k)
             /\ Adrift(k)' => Adrift(k) \/ (Tended(k) /\ ~ Tended(k)')
    <3>1. b <= c
      BY <1>1, <1>10, <2>1
    <3>2. z <= a \/ (Tended(k) /\ ~ Tended(k)')
      BY <1>9, <2>1
    <3>3. CASE z <= a
      BY <1>3, <1>5, <1>8, <3>1, <3>3
    <3>4. CASE d # e /\ (Tended(k) /\ ~ Tended(k)')
      <4>1. d >= e + 1
        BY <1>5, <3>4
      <4> QED
        BY <1>3, <1>8, <3>1, <4>1
    <3> QED
      BY <3>2, <3>3, <3>4
  <2>2. ASSUME NEW w \in Workers, \A v \in Workers : v # w => GripFalls(v, k), Adrift(k), ~ Adrift(k)'
        PROVE  l + z <= m + d + g + c
    <3>1. b <= c + 1
      BY <1>1, <1>10, <2>2
    <3>2. a = 1 /\ z = 0
      BY <1>9, <2>2
    <3> QED
      BY <1>3, <1>5, <1>8, <3>1, <3>2
  <2> QED
    BY <1>11, <2>1, <2>2, OwnerStays
<1>12. CASE Quiet(k) \/ HandedOver(k) \/ Recorded(k) \/ ClosedByOthers(k)
  <2>1. SameOwner(k) /\ Keeps(k)
    BY <1>12 DEF Quiet, HandedOver, Recorded, ClosedByOthers, SameRow
  <2>2. Len(attempts'[k]) = Len(attempts[k])
    <3>1. \A st \in Verdicts : Len(Closed(attempts[k], Workers, st, ErrorOf(st))) = Len(attempts[k])
      BY <1>1, ClosedShape DEF Verdicts, Statuses, ErrorOf, Errors
    <3>2. CASE Recorded(k)
      BY <3>1, <3>2 DEF Recorded
    <3>3. CASE ~ Recorded(k)
      BY <1>12, <3>3 DEF Quiet, HandedOver, ClosedByOthers, SameRow
    <3> QED
      BY <3>2, <3>3
  <2>3. Tended(k) => Tended(k)'
    BY <2>1 DEF Keeps, Tended
  <2> QED
    BY <1>7, <1>11, <2>1, <2>2, <2>3
<1>13. CASE Failing(k)
  <2>1. SameOwner(k) /\ attempts'[k] = attempts[k] /\ d # e
    BY <1>4, <1>13 DEF Failing, SameRow
  <2> QED
    BY <1>7, <1>11, <2>1
<1>14. CASE Deserted(k)
  <2>1. PICK w \in TakenDown : Tends(w, k) /\ ~ Tends(w, k)' /\ loop'[w] # "claiming"
    BY <1>14 DEF Deserted
  <2>2. \A v \in Workers : GripFalls(v, k)
    <3>1. \A v \in Workers : Tends(v, k)' => v = w
      BY <1>14, <2>1 DEF Deserted, SameRow, SameOwner, Tends, Owns
    <3> QED
      BY <2>1, <3>1 DEF GripFalls
  <2>3. Grip(w, k)' < Grip(w, k)
    BY <2>1 DEF Grip, One
  <2>4. b + 1 <= c
    BY <1>1, <1>10, <2>1, <2>2, <2>3
  <2>5. l + z <= m + d + g + c
    BY <1>3, <1>5, <1>8, <2>4
  <2> QED
    BY <1>7, <1>14, <2>5 DEF Deserted, SameRow
<1>15. CASE Concluded(k)
  <2>1. jobs'[k].status \in Verdicts /\ attempts'[k] = attempts[k]
    BY <1>15 DEF Concluded
  <2>2. ~ Adrift(k)' /\ \A w \in Workers : GripFalls(w, k)
    BY <2>1, NobodyTends DEF Adrift, Verdicts
  <2>3. z = 0 /\ b <= c
    BY <1>1, <1>9, <1>10, <2>2
  <2>4. l + z <= m + d + g + c
    BY <1>3, <1>5, <1>8, <2>3
  <2> QED
    BY <1>7, <2>1, <2>4
<1>16. ASSUME NEW w \in Workers, ClaimedBy(w, k)
       PROVE  /\ a = 1
              /\ Len(attempts'[k]) = l + 1
              /\ \A v \in Workers : GripFalls(v, k)
              /\ b <= c
              /\ Tends(w, k)' => z = 0
              /\ w \in TakenDown /\ ~ Tends(w, k)' => b + 1 <= c
  <2>1. /\ jobs[k].status = "pending" /\ jobs'[k].status = "building" /\ jobs'[k].worker = w
        /\ loop[w] = "claiming" /\ loop'[w] # "claiming"
    BY <1>16 DEF ClaimedBy
  <2>2. \A v \in Workers : GripFalls(v, k)
    BY <2>1 DEF GripFalls, Tends, Owns
  <2>3. ~ Tends(w, k)' => Grip(w, k)' < Grip(w, k)
    BY <2>1 DEF Grip, One
  <2>4. Tends(w, k)' => ~ Adrift(k)'
    BY <2>1 DEF Adrift, Tended
  <2>5. Len(attempts'[k]) = l + 1
    <3>1. OpenAttempt(w) \in Attempt
      BY DEF OpenAttempt, Attempt, Statuses, Errors
    <3> QED
      BY <1>1, <1>7, <1>16, <3>1 DEF ClaimedBy
  <2>6. Adrift(k)
    BY <2>1 DEF Adrift
  <2> QED
    BY <1>1, <1>9, <1>10, <2>2, <2>3, <2>4, <2>5, <2>6
<1>17. CASE Claimed(k) \/ ClaimLost(k)
  <2>1. PICK w \in Workers : /\ ClaimedBy(w, k)
                             /\ Tends(w, k)' \/ w \in TakenDown \/ faults' = faults + 1
    BY <1>17 DEF Claimed, ClaimLost
  <2>2. a = 1 /\ b <= c
    BY <1>16, <2>1
  <2>3. z = 0 \/ b + 1 <= c \/ d = e + 1
    BY <1>4, <1>16, <2>1
  <2>4. (l + 1) + z <= m + d + g + c
    BY <1>3, <1>5, <1>8, <2>2, <2>3
  <2> QED
    BY <1>16, <2>1, <2>4
<1>18. CASE Inserted(k) \/ Retried(k)
  <2>1. attempts'[k] = attempts[k] /\ l < m
    BY <1>7, <1>18 DEF Inserted, Retried, Requeued, CanRetry, JobInv, AbsentIsEmpty
  <2>2. l + z <= m + d + g + c
    BY <2>1
  <2> QED
    BY <1>7, <2>1, <2>2
<1>19. CASE Rescued(k) \/ WasReset(k) \/ Released(k)
  <2>1. attempts'[k] = attempts[k] /\ jobs'[k].status = "pending"
    BY <1>19 DEF Rescued, WasReset, Released, Requeued
  <2>2. \A w \in Workers : GripFalls(w, k) /\ ~ Tends(w, k)'
    BY <2>1, NobodyTends DEF Tended
  <2>3. b <= c
    BY <1>1, <1>10, <2>2
  <2>4. a = 1 \/ f + 1 <= g \/ b + 1 <= c
    <3>1. CASE Rescued(k)
      BY <1>9, <3>1 DEF Rescued, Adrift
    <3>2. CASE WasReset(k)
      BY <1>1, <1>2, <3>2, DisturbancesCount DEF WasReset
    <3>3. CASE Released(k)
      <4>1. PICK w \in TakenDown : Owns(w, k) /\ loop'[w] = loop[w]
        BY <3>3 DEF Released
      <4>2. CASE Tends(w, k)
        <5>1. Grip(w, k)' < Grip(w, k)
          BY <1>1, <2>2, <4>1, <4>2 DEF Grip, One
        <5> QED
          BY <1>1, <1>10, <2>2, <4>1, <5>1
      <4>3. CASE ~ Tends(w, k)
        <5>1. ~ Tended(k) /\ jobs[k].status = "building"
          BY <1>1, <4>1, <4>3 DEF Tended, Tends, Owns
        <5> QED
          BY <1>9, <5>1 DEF Adrift
      <4> QED
        BY <4>2, <4>3
    <3> QED
      BY <1>19, <3>1, <3>2, <3>3
  <2>5. l + z <= m + d + g + c
    BY <1>3, <1>5, <1>8, <2>3, <2>4
  <2> QED
    BY <1>7, <2>1, <2>5
<1> QED
  BY <1>12, <1>13, <1>14, <1>15, <1>17, <1>18, <1>19, JobStep(k) DEF JobStep

AttemptsInv == \A k \in Keys : AttemptsBounded(k)

LEMMA AttemptsInvHolds == Spec => []AttemptsInv
<1>1. ASSUME Init, NEW k \in Keys
      PROVE  AttemptsBounded(k)
  <2>1. /\ TakenDown = {} /\ Forced(k) = {} /\ faults = 0
        /\ jobs[k].status = "absent" /\ attempts[k] = << >>
    BY <1>1, NothingYet
  <2>2. GivenUp(k) = {} /\ One(Adrift(k)) = 0
    BY <2>1 DEF GivenUp, Adrift, One
  <2>3. Len(attempts[k]) = 0 /\ 0 + 0 <= MaxAttempts + 0 + 0 + 0
    BY <2>1, BoundsAssumption
  <2> QED
    BY <2>1, <2>2, <2>3, FS_EmptySet DEF AttemptsBounded, FewDisturbances
<1>2. Init => AttemptsInv
  BY <1>1 DEF AttemptsInv
<1>3. JobInv /\ AttemptsInv /\ [Next]_vars => AttemptsInv'
  BY StepDoes, StepDisturbs, AttemptsStep DEF AttemptsInv
<1> QED
  BY <1>2, <1>3, JobInvHolds, PTL DEF Spec

-----------------------------------------------------------------------------
(* A job that nothing has disturbed: its row and its history agree.        *)

\* Nothing has disturbed the job so far.
Clean(k) == faults = 0 /\ TakenDown = {} /\ Forced(k) = {}

LEMMA UndisturbedIsClean ==
    ASSUME faults \in Nat, NEW k, FewDisturbances(k)
    PROVE  Undisturbed(k) <=> Clean(k)
<1>1. PICK e \in Nat, t \in Nat, f \in Nat :
         e = faults /\ t = Cardinality(TakenDown) /\ f = Cardinality(Forced(k))
  BY FS_CardinalityType DEF FewDisturbances
<1>2. (t = 0 <=> TakenDown = {}) /\ (f = 0 <=> Forced(k) = {})
  BY <1>1, FS_EmptySet DEF FewDisturbances
<1>3. PICK m \in Nat : m = MaxConcurrent * t /\ (m = 0 <=> t = 0)
  <2>1. t <= MaxConcurrent * t /\ MaxConcurrent * t \in Nat
    BY TimesSlots
  <2>2. t = 0 => MaxConcurrent * t = 0
    BY WorkerAssumption
  <2> QED
    BY <2>1, <2>2
<1>4. Disturbances(k) = e + m + f
  BY <1>1, <1>3 DEF Disturbances
<1>5. e + m + f = 0 <=> e = 0 /\ m = 0 /\ f = 0
  OBVIOUS
<1> QED
  BY <1>1, <1>2, <1>3, <1>4, <1>5 DEF Undisturbed, Clean

LEMMA CleanBefore ==
    ASSUME faults \in Nat, NEW k, DisturbancesGrow(k), Clean(k)'
    PROVE  Clean(k)
BY DEF DisturbancesGrow, Clean

NewestStatus(k) == attempts[k][Len(attempts[k])].status

\* All attempts before the newest have failed.
EarlierFailed(k) == \A i \in 1 .. Len(attempts[k]) - 1 : attempts[k][i].status = "failed"

Story(k) ==
    /\ EarlierFailed(k)
    /\ jobs[k].status = "pending" => attempts[k] = << >> \/ NewestStatus(k) = "failed"
    /\ jobs[k].status \in Verdicts => attempts[k] # << >> /\ NewestStatus(k) = jobs[k].status
    /\ jobs[k].status = "building" =>
           /\ attempts[k] # << >>
           /\ Tended(k)
           /\ \A h \in Holders(k) : NewestStatus(k) = h[3]

StoryAgrees(k) == Clean(k) => Story(k)

(* One goroutine holds it while it is built, and none otherwise.           *)
LEMMA CleanHolders ==
    ASSUME NEW k, HoldersBounded(k), Clean(k)
    PROVE  /\ \A g, h \in Holders(k) : g = h
           /\ ~ Tended(k) => Holders(k) = {}
<1>1. /\ faults = 0 /\ Cardinality(Forced(k)) = 0 /\ Cardinality(Spent(k)) = 0
  <2>1. Spent(k) = {}
    BY SpentTakenDown DEF Clean
  <2> QED
    BY <2>1, FS_EmptySet DEF Clean
<1>2. PICK t \in 0 .. 1, n \in Nat :
         /\ t = One(Tended(k)) /\ n = Cardinality(Holders(k)) /\ IsFiniteSet(Holders(k))
  BY FS_CardinalityType DEF HoldersBounded, One
<1>3. n <= t
  <2>1. n <= t + 0 + 0 + 0
    BY <1>1, <1>2 DEF HoldersBounded
  <2> QED
    BY <2>1
<1>4. ~ Tended(k) => Holders(k) = {}
  <2>1. ~ Tended(k) => n = 0
    BY <1>2, <1>3 DEF One
  <2> QED
    BY <1>2, <2>1, FS_EmptySet
<1>5. ASSUME NEW g \in Holders(k), NEW h \in Holders(k), g # h
      PROVE  FALSE
  <2>1. Cardinality({g}) = 1 /\ {g} \subseteq Holders(k) /\ h \notin {g}
    BY <1>5, FS_Singleton
  <2>2. 1 + 1 <= n
    BY <1>2, <2>1, CountSubset
  <2> QED
    BY <1>3, <2>2
<1> QED
  BY <1>4, <1>5

(* What can still happen to it.                                            *)
LEMMA CleanStep ==
    ASSUME JobInv, NEW k, StoryAgrees(k), JobStep(k), DisturbancesGrow(k), Clean(k)'
    PROVE  /\ Clean(k) /\ Story(k)
           /\ \/ Quiet(k)
              \/ HandedOver(k)
              \/ Recorded(k)
              \/ Concluded(k)
              \/ Claimed(k)
              \/ Inserted(k)
              \/ Retried(k)
<1>1. Clean(k) /\ Story(k)
  BY FaultsNatural, CleanBefore DEF StoryAgrees
<1>2. TakenDown = {} /\ faults' # faults + 1 /\ Forced(k)' = {}
  BY <1>1 DEF Clean
<1>3. jobs[k].status = "building" => Tended(k)
  BY <1>1 DEF Story
<1>4. ~ Failing(k) /\ ~ Deserted(k) /\ ~ ClaimLost(k) /\ ~ Released(k) /\ ~ WasReset(k)
  BY <1>2 DEF Failing, Deserted, ClaimLost, Released, WasReset
<1>5. ~ ClosedByOthers(k) /\ ~ Rescued(k)
  BY <1>2, <1>3 DEF ClosedByOthers, Rescued
<1> QED
  BY <1>1, <1>4, <1>5, JobStep(k) DEF JobStep

LEMMA StoryStep ==
    ASSUME JobInv, NEW k \in Keys, HoldersBounded(k), StoryAgrees(k), JobStep(k), DisturbancesGrow(k)
    PROVE  StoryAgrees(k)'
<1> SUFFICES ASSUME Clean(k)'
             PROVE  Story(k)'
  BY DEF StoryAgrees
<1> DEFINE a == attempts[k]
           st == jobs[k].status
<1>0. a \in Seq(Attempt) /\ Len(a) \in Nat
  BY DEF JobInv, ServerInv, QueueTypeOK
<1>1. Clean(k) /\ Story(k)
  BY CleanStep
<1>2. /\ \A g, h \in Holders(k) : g = h
      /\ ~ Tended(k) => Holders(k) = {}
  BY <1>1, CleanHolders
<1>3. ASSUME SameRow(k), Keeps(k),
             \A h \in Holders(k)' : \E g \in Holders(k) : g[3] = h[3]
      PROVE  Story(k)'
  <2>1. Tended(k) => Tended(k)'
    BY <1>3 DEF Keeps, Tended
  <2>2. EarlierFailed(k)' /\ NewestStatus(k)' = NewestStatus(k)
    BY <1>1, <1>3 DEF Story, EarlierFailed, NewestStatus, SameRow
  <2> QED
    BY <1>1, <1>3, <2>1, <2>2 DEF Story, SameRow, SameOwner
<1>4. CASE Quiet(k)
  BY <1>3, <1>4 DEF Quiet, Shrinks
<1>5. CASE HandedOver(k)
  <2>1. \A h \in Holders(k)' : \E g \in Holders(k) : g[3] = h[3]
    BY <1>5 DEF HandedOver, Swaps
  <2> QED
    BY <1>3, <1>5, <2>1 DEF HandedOver
<1>6. ASSUME Holders(k) # {}
      PROVE  jobs[k].status = "building"
  BY <1>2, <1>6, OneTends
<1>7. CASE Recorded(k)
  <2>1. PICK w \in Workers, s \in Slots, v \in Verdicts :
           /\ Swaps(k, <<w, s, "building">>, <<w, s, v>>)
           /\ attempts'[k] = Closed(attempts[k], Workers, v, ErrorOf(v))
    BY <1>7 DEF Recorded
  <2>2. <<w, s, "building">> \in Holders(k)
    BY <2>1 DEF Swaps
  <2>3. /\ jobs[k].status = "building" /\ jobs'[k].status = "building"
        /\ a # << >> /\ NewestStatus(k) = "building"
        /\ Tended(k)'
    BY <1>1, <1>6, <1>7, <2>2 DEF Story, Recorded, SameOwner, Keeps, Tended
  <2>4. Holders(k)' \subseteq {<<w, s, v>>}
    BY <1>2, <2>1, <2>2 DEF Swaps
  <2>5. v \in Statuses \ {"pending"} /\ ErrorOf(v) \in Errors
    BY DEF Verdicts, Statuses, ErrorOf, Errors
  <2>6. /\ attempts'[k] \in Seq(Attempt)
        /\ Len(attempts'[k]) = Len(a)
    <3>1. a \in Seq(Attempt)
      BY <1>0
    <3>2. /\ Closed(a, Workers, v, ErrorOf(v)) \in Seq(Attempt)
          /\ Len(Closed(a, Workers, v, ErrorOf(v))) = Len(a)
      BY <2>5, <3>1, ClosedShape
    <3> QED
      BY <2>1, <3>2
  <2>7. \A i \in 1 .. Len(a) :
           /\ a[i] \in Attempt
           /\ a[i].status = "building" => attempts'[k][i].status = v
           /\ a[i].status # "building" => attempts'[k][i] = a[i]
    <3> SUFFICES ASSUME NEW i \in 1 .. Len(a)
                 PROVE  /\ a[i] \in Attempt
                        /\ a[i].status = "building" => attempts'[k][i].status = v
                        /\ a[i].status # "building" => attempts'[k][i] = a[i]
      OBVIOUS
    <3>1. a[i] \in Attempt /\ i \in DOMAIN a
      BY <1>0
    <3>2. attempts'[k][i] = IF a[i].status = "building" /\ a[i].worker \in Workers
                            THEN [a[i] EXCEPT !.status = v, !.error = ErrorOf(v)]
                            ELSE a[i]
      BY <2>1, <3>1 DEF Closed
    <3> QED
      BY <3>1, <3>2 DEF Attempt
  <2>8. Len(a) \in 1 .. Len(a)
    BY <1>0, <2>3
  <2>9. NewestStatus(k)' = v
    BY <2>3, <2>6, <2>7, <2>8 DEF NewestStatus
  <2>10. EarlierFailed(k)'
    <3> SUFFICES ASSUME NEW i \in 1 .. Len(a) - 1
                 PROVE  attempts'[k][i].status = "failed"
      BY <2>6 DEF EarlierFailed
    <3>1. a[i].status = "failed" /\ i \in 1 .. Len(a)
      BY <1>0, <1>1 DEF Story, EarlierFailed
    <3> QED
      BY <2>7, <3>1
  <2>11. attempts'[k] # << >>
    BY <1>0, <2>3, <2>6
  <2> QED
    BY <2>3, <2>4, <2>9, <2>10, <2>11 DEF Story, Verdicts
<1>8. CASE Concluded(k)
  <2>1. PICK w \in Workers, s \in Slots, v \in Verdicts :
           jobs'[k].status = v /\ Loses(k, <<w, s, v>>) /\ attempts'[k] = a
    BY <1>8 DEF Concluded
  <2>2. <<w, s, v>> \in Holders(k)
    BY <2>1 DEF Loses
  <2>3. a # << >> /\ NewestStatus(k) = v
    BY <1>1, <1>6, <2>2 DEF Story
  <2>4. EarlierFailed(k)' /\ NewestStatus(k)' = v
    BY <1>1, <2>1, <2>3 DEF Story, EarlierFailed, NewestStatus
  <2> QED
    BY <2>1, <2>3, <2>4 DEF Story, Verdicts
<1>9. CASE Claimed(k)
  <2>1. PICK w \in Workers :
           /\ jobs[k].status = "pending" /\ jobs'[k].status = "building"
           /\ attempts'[k] = Append(a, OpenAttempt(w))
           /\ Tends(w, k)'
           /\ Holders(k)' \subseteq Holders(k) \cup {<<w, 0, "building">>}
    BY <1>9 DEF Claimed, ClaimedBy
  <2>2. Tended(k)' /\ Holders(k)' \subseteq {<<w, 0, "building">>}
    BY <1>6, <2>1 DEF Tended
  <2>3. /\ Len(attempts'[k]) = Len(a) + 1 /\ attempts'[k] # << >>
        /\ attempts'[k][Len(a) + 1] = OpenAttempt(w)
        /\ \A i \in 1 .. Len(a) : attempts'[k][i] = a[i]
    <3>1. OpenAttempt(w) \in Attempt
      BY DEF OpenAttempt, Attempt, Statuses, Errors
    <3> QED
      BY <1>0, <2>1, <3>1
  <2>4. NewestStatus(k)' = "building"
    BY <2>3 DEF NewestStatus, OpenAttempt
  <2>5. \A i \in 1 .. Len(a) : a[i].status = "failed"
    <3>1. ASSUME NEW i \in 1 .. Len(a)
          PROVE  a[i].status = "failed"
      <4>1. CASE i = Len(a)
        BY <1>0, <1>1, <2>1, <4>1 DEF Story, NewestStatus
      <4>2. CASE i # Len(a)
        <5>1. i \in 1 .. Len(a) - 1
          BY <1>0, <4>2
        <5> QED
          BY <1>1, <5>1 DEF Story, EarlierFailed
      <4> QED
        BY <4>1, <4>2
    <3> QED
      BY <3>1
  <2>6. EarlierFailed(k)'
    BY <1>0, <2>3, <2>5 DEF EarlierFailed
  <2> QED
    BY <2>1, <2>2, <2>3, <2>4, <2>6 DEF Story, Verdicts
<1>10. CASE Inserted(k)
  <2>1. jobs'[k].status = "pending" /\ attempts'[k] = << >> /\ a = << >>
    BY <1>10 DEF Inserted, Requeued, JobInv, AbsentIsEmpty
  <2>2. EarlierFailed(k)'
    BY <1>1, <2>1 DEF Story, EarlierFailed
  <2> QED
    BY <2>1, <2>2 DEF Story, Verdicts
<1>11. CASE Retried(k)
  <2>1. jobs'[k].status = "pending" /\ attempts'[k] = a /\ jobs[k].status = "failed"
    BY <1>11 DEF Retried, Requeued, CanRetry
  <2>2. EarlierFailed(k)' /\ NewestStatus(k)' = "failed"
    BY <1>1, <2>1 DEF Story, EarlierFailed, NewestStatus, Verdicts
  <2> QED
    BY <2>1, <2>2 DEF Story, Verdicts
<1> QED
  BY <1>4, <1>5, <1>7, <1>8, <1>9, <1>10, <1>11, CleanStep

StoryInv == \A k \in Keys : StoryAgrees(k)

LEMMA StoryInvInit == Init => StoryInv
<1>1. ASSUME Init, NEW k \in Keys
      PROVE  Story(k)
  <2>1. jobs[k].status = "absent" /\ attempts[k] = << >>
    BY <1>1, NothingYet
  <2>2. \A i \in 1 .. Len(attempts[k]) - 1 : FALSE
    BY <2>1
  <2> QED
    BY <2>1, <2>2 DEF Story, EarlierFailed, Verdicts
<1> QED
  BY <1>1 DEF StoryInv, StoryAgrees

LEMMA StoryInvHolds == Spec => []StoryInv
<1>1. JobInv /\ HoldersInv /\ StoryInv /\ [Next]_vars => StoryInv'
  BY StepDoes, StepDisturbs, StoryStep DEF StoryInv, HoldersInv
<1> QED
  BY <1>1, StoryInvInit, JobInvHolds, HoldersInvHolds, PTL DEF Spec

DisturbedInv == \A k \in Keys : Undisturbed(k) <=> Clean(k)

LEMMA DisturbedInvHolds == Spec => []DisturbedInv
<1>1. JobInv /\ HoldersInv => DisturbedInv
  BY FaultsNatural, UndisturbedIsClean DEF HoldersInv, HoldersBounded, DisturbedInv
<1> QED
  BY <1>1, JobInvHolds, HoldersInvHolds, PTL

-----------------------------------------------------------------------------
(* What a client sees of a job.                                            *)

LEMMA ViewOfRow ==
    ASSUME NEW k, jobs'[k].status = jobs[k].status, Len(attempts'[k]) = Len(attempts[k])
    PROVE  ClientView(k)' = ClientView(k)
BY DEF ClientView, Terminal

(* A step changes the view of one job at most: a statement that changes    *)
(* many rows makes jobs wait that have waited before.                      *)
LEMMA OneViewChanges ==
    ASSUME QueueTypeOK, [QueueNext]_queueVars
    PROVE  \E k : \A l \in Keys : l # k => ClientView(l)' = ClientView(l)
<1>0. /\ jobs \in [Keys -> Job]
      /\ attempts \in [Keys -> Seq(Attempt)]
  BY DEF QueueTypeOK
<1>1. ASSUME NEW k, \A l \in Keys : l # k => jobs'[l] = jobs[l] /\ attempts'[l] = attempts[l]
      PROVE  \A l \in Keys : l # k => ClientView(l)' = ClientView(l)
  BY <1>1, ViewOfRow
<1>2. ASSUME \A l \in Keys : ClientView(l)' = ClientView(l)
      PROVE  \E k : \A l \in Keys : l # k => ClientView(l)' = ClientView(l)
  BY <1>2
<1>3. ASSUME NEW w \in Workers, NEW k \in Keys, WorkerStatement(w, k)
      PROVE  \A l \in Keys : l # k => ClientView(l)' = ClientView(l)
  <2>1. \A l \in Keys : l # k => jobs'[l] = jobs[l] /\ attempts'[l] = attempts[l]
    BY <1>0, <1>3 DEF WorkerStatement, ClaimNextBuild, UpdateAttempt, UpdateJob, UpdateHeartbeat,
                      ReleaseAttempt, ReleaseRow
  <2> QED
    BY <1>1, <2>1
<1>4. ASSUME NEW k \in Keys, ApiStatement(k)
      PROVE  \A l \in Keys : l # k => ClientView(l)' = ClientView(l)
  <2>1. \A l \in Keys : l # k => jobs'[l] = jobs[l] /\ attempts'[l] = attempts[l]
    BY <1>0, <1>4 DEF ApiStatement, InsertJob, ResetBuildAttempts
  <2> QED
    BY <1>1, <2>1
<1>5. ASSUME NEW cutoff, RescueAttempts(cutoff), NEW l \in Keys
      PROVE  ClientView(l)' = ClientView(l)
  <2>1. Len(attempts'[l]) = Len(attempts[l])
    <3>1. Len(Closed(attempts[l], Workers, "failed", "rescued")) = Len(attempts[l])
      BY <1>0, ClosedShape DEF Statuses, Errors
    <3> QED
      BY <1>5, <3>1 DEF RescueAttempts
  <2> QED
    BY <1>5, <2>1, ViewOfRow DEF RescueAttempts
<1>6. ASSUME NEW l \in Keys, attempts'[l] = attempts[l],
             jobs'[l].status = "pending",
             jobs[l].status = "building" \/ CanRetry(l)
      PROVE  ClientView(l)' = ClientView(l)
  <2>1. ~ Terminal(l) /\ ~ Terminal(l)'
    BY <1>0, <1>6, BoundsAssumption DEF Terminal, CanRetry
  <2> QED
    BY <1>6, <2>1 DEF ClientView, CanRetry
<1>7. ASSUME NEW cutoff, RescueJobs(cutoff), NEW l \in Keys
      PROVE  ClientView(l)' = ClientView(l)
  <2>1. CASE IsStuck(l, cutoff)
    <3>1. jobs'[l].status = "pending" /\ jobs[l].status = "building"
      BY <1>0, <1>7, <2>1, UnlockedRow DEF RescueJobs, IsStuck, Statuses
    <3> QED
      BY <1>6, <1>7, <3>1 DEF RescueJobs
  <2>2. CASE ~ IsStuck(l, cutoff)
    BY <1>7, <2>2, ViewOfRow DEF RescueJobs
  <2> QED
    BY <2>1, <2>2
<1>8. ASSUME RetryFailedBuilds, NEW l \in Keys
      PROVE  ClientView(l)' = ClientView(l)
  <2>1. CASE CanRetry(l)
    <3>1. jobs'[l].status = "pending"
      BY <1>0, <1>8, <2>1, UnlockedRow DEF RetryFailedBuilds, Statuses
    <3> QED
      BY <1>6, <1>8, <2>1, <3>1 DEF RetryFailedBuilds
  <2>2. CASE ~ CanRetry(l)
    BY <1>8, <2>2, ViewOfRow DEF RetryFailedBuilds
  <2> QED
    BY <2>1, <2>2
<1>9. ASSUME Tick, NEW l \in Keys
      PROVE  ClientView(l)' = ClientView(l)
  <2>1. jobs[l] \in Job /\ attempts'[l] = attempts[l]
    BY <1>0, <1>9 DEF Tick
  <2>2. jobs'[l].status = jobs[l].status
    BY <1>9, <2>1 DEF Tick, Job
  <2> QED
    BY <2>1, <2>2, ViewOfRow
<1>10. CASE UNCHANGED queueVars
  BY <1>2, <1>10, ViewOfRow DEF queueVars
<1>11. CASE QueueNext
  BY <1>2, <1>3, <1>4, <1>5, <1>7, <1>8, <1>9, <1>11 DEF QueueNext, JanitorStatement
<1> QED
  BY <1>10, <1>11

Views == {"absent", "waiting", "done", "failed"}

LEMMA ViewType ==
    ASSUME NEW k
    PROVE  /\ ClientView(k) \in Views
           /\ ClientView(k) = "absent" <=> jobs[k].status = "absent"
BY DEF ClientView, Terminal, Views

(* A job appears by being requested.                                       *)
LEMMA ViewAppears ==
    ASSUME NEW k, JobStep(k), jobs[k].status = "absent", jobs'[k].status # "absent"
    PROVE  Calm /\ ClientView(k)' = "waiting"
<1>1. ~ SameOwner(k)
  BY DEF SameOwner
<1>2. Inserted(k)
  BY <1>1, JobStep(k)
     DEF JobStep, Quiet, Failing, Deserted, HandedOver, Recorded, SameRow, Concluded, Claimed, ClaimLost,
         ClaimedBy, ClosedByOthers, Rescued, Retried, CanRetry, WasReset, Released, Owns
<1>3. jobs'[k].status = "pending" /\ Calm
  BY <1>2 DEF Inserted, Requeued
<1> QED
  BY <1>3 DEF ClientView, Terminal

(* The view of a job that nothing has disturbed changes only at its end.   *)
LEMMA ViewEnds ==
    ASSUME JobInv, NEW k \in Keys, HoldersBounded(k), StoryAgrees(k), JobStep(k), DisturbancesGrow(k),
           Clean(k)', jobs[k].status # "absent", ClientView(k)' # ClientView(k)
    PROVE  /\ Calm
           /\ ClientView(k) = "waiting"
           /\ ClientView(k)' \in {"done", "failed"}
<1>0. attempts[k] \in Seq(Attempt) /\ Len(attempts[k]) \in Nat /\ MaxAttempts \in Nat
  BY BoundsAssumption DEF JobInv, ServerInv, QueueTypeOK
<1>1. ~ SameOwner(k) \/ Len(attempts'[k]) # Len(attempts[k])
  BY ViewOfRow DEF SameOwner
<1>2. ~ Quiet(k) /\ ~ HandedOver(k)
  BY <1>1 DEF Quiet, HandedOver, SameRow
<1>3. ~ Recorded(k)
  <2>1. \A st \in Verdicts : Len(Closed(attempts[k], Workers, st, ErrorOf(st))) = Len(attempts[k])
    BY <1>0, ClosedShape DEF Verdicts, Statuses, ErrorOf, Errors
  <2>2. ASSUME NEW st \in Verdicts, attempts'[k] = Closed(attempts[k], Workers, st, ErrorOf(st))
        PROVE  Len(attempts'[k]) = Len(attempts[k])
    BY <2>1, <2>2
  <2>3. Recorded(k) => SameOwner(k) /\ Len(attempts'[k]) = Len(attempts[k])
    BY <2>2 DEF Recorded
  <2> QED
    BY <1>1, <2>3
<1>4. ~ Claimed(k)
  <2> SUFFICES ASSUME jobs[k].status = "pending", jobs'[k].status = "building"
               PROVE  FALSE
    BY DEF Claimed, ClaimedBy
  <2> QED
    BY DEF ClientView, Terminal
<1>5. ~ Inserted(k)
  BY DEF Inserted
<1>6. ~ Retried(k)
  <2> SUFFICES ASSUME jobs[k].status = "failed", ~ (Len(attempts[k]) >= MaxAttempts),
                      jobs'[k].status = "pending"
               PROVE  FALSE
    BY <1>0 DEF Retried, Requeued, CanRetry
  <2> QED
    BY DEF ClientView, Terminal
<1>7. Concluded(k) /\ Clean(k)
  BY <1>2, <1>3, <1>4, <1>5, <1>6, CleanStep
<1>8. PICK h \in Holders(k), st \in Verdicts : jobs'[k].status = st
  BY <1>7 DEF Concluded, Loses
<1>9. jobs[k].status = "building"
  BY <1>7, <1>8, CleanHolders, OneTends
<1>10. ClientView(k) = "waiting"
  BY <1>9 DEF ClientView, Terminal
<1>11. ClientView(k)' \in {"done", "failed"}
  BY <1>8, <1>10 DEF ClientView, Terminal, Verdicts
<1> QED
  BY <1>7, <1>10, <1>11 DEF Concluded

\* The variables of BuildLifecycle in the server.
State == [k \in Keys |-> ClientView(k)]
Disturbed == {k \in Keys : ~ Undisturbed(k)}

(* Disturbances come to stay, and a calm step brings none.                 *)
LEMMA DisturbedGrows ==
    ASSUME JobInv, HoldersInv, DisturbedInv, DisturbedInv', [Next]_vars
    PROVE  /\ Disturbed \subseteq Disturbed'
           /\ Calm => Disturbed' = Disturbed
<1>1. ASSUME NEW k \in Keys, Undisturbed(k)'
      PROVE  Undisturbed(k)
  BY <1>1, FaultsNatural, StepDisturbs, CleanBefore DEF DisturbedInv
<1>2. ASSUME Calm, NEW k \in Keys
      PROVE  Undisturbed(k)' <=> Undisturbed(k)
  BY <1>2 DEF Calm, Undisturbed, Disturbances, TakenDown
<1> QED
  BY <1>1, <1>2 DEF Disturbed

LEMMA LifecycleStep ==
    ASSUME JobInv, HoldersInv, StoryInv, DisturbedInv, DisturbedInv', [Next]_vars
    PROVE  Lifecycle!LifecycleNext
<1>0. /\ QueueTypeOK /\ [QueueNext]_queueVars
      /\ Disturbed \subseteq Disturbed' /\ Disturbed' \subseteq Keys
      /\ \A k \in Keys : JobStep(k) /\ DisturbancesGrow(k) /\ HoldersBounded(k) /\ StoryAgrees(k)
  BY ServerIssues, DisturbedGrows, StepDoes, StepDisturbs
     DEF JobInv, ServerInv, HoldersInv, StoryInv, Disturbed
<1>1. CASE State' = State
  <2>1. \E D \in SUBSET Keys : Disturbed' = Disturbed \cup D
    BY <1>0
  <2>2. Lifecycle!Disturb
    BY <1>1, <2>1 DEF Lifecycle!Disturb, State, Disturbed
  <2> QED
    BY <2>2 DEF Lifecycle!LifecycleNext
<1>2. CASE State' # State
  <2>1. PICK j : \A l \in Keys : l # j => ClientView(l)' = ClientView(l)
    BY <1>0, OneViewChanges
  <2>2. PICK k \in Keys : ClientView(k)' # ClientView(k)
    BY <1>2 DEF State
  <2>3. State' = [State EXCEPT ![k] = ClientView(k)']
    BY <2>1, <2>2 DEF State
  <2>4. ClientView(k)' \in Views
    BY DEF ClientView, Terminal, Views
  <2>5. CASE ClientView(k) = "absent"
    <3>1. jobs[k].status = "absent" /\ jobs'[k].status # "absent"
      BY <2>2, <2>5 DEF ClientView, Terminal
    <3>2. Calm /\ ClientView(k)' = "waiting"
      BY <1>0, <3>1, ViewAppears
    <3>3. Disturbed' = Disturbed
      BY <3>2, DisturbedGrows
    <3>4. Lifecycle!Request(k)
      BY <2>3, <2>5, <3>2, <3>3 DEF Lifecycle!Request, Lifecycle!Becomes, State, Disturbed
    <3> QED
      BY <3>4 DEF Lifecycle!LifecycleNext
  <2>6. CASE ClientView(k) # "absent" /\ k \in Disturbed'
    <3>1. ClientView(k)' # "absent"
      <4>1. jobs[k].status # "absent"
        BY <2>6 DEF ClientView, Terminal
      <4>2. jobs'[k].status # "absent"
        BY <1>0, <4>1, AbsentBefore DEF queueVars
      <4> QED
        BY <4>2 DEF ClientView, Terminal
    <3>2. ClientView(k)' \in {"done", "failed"} \cup {"waiting"}
      BY <2>4, <3>1 DEF Views
    <3>3. \E D \in SUBSET Keys : Disturbed' = Disturbed \cup D
      BY <1>0
    <3>4. Lifecycle!Disturb
      BY <2>3, <2>6, <3>2, <3>3
         DEF Lifecycle!Disturb, Lifecycle!Becomes, Lifecycle!Results, State, Disturbed
    <3> QED
      BY <3>4 DEF Lifecycle!LifecycleNext
  <2>7. CASE ClientView(k) # "absent" /\ k \notin Disturbed'
    <3>1. Clean(k)'
      BY <2>7 DEF Disturbed, DisturbedInv
    <3>2. jobs[k].status # "absent"
      BY <2>7 DEF ClientView, Terminal
    <3>3. /\ Calm
          /\ ClientView(k) = "waiting"
          /\ ClientView(k)' \in {"done", "failed"}
      BY <1>0, <2>2, <3>1, <3>2, ViewEnds
    <3>4. Disturbed' = Disturbed
      BY <3>3, DisturbedGrows
    <3>5. Lifecycle!Finish(k)
      BY <2>3, <3>3, <3>4
         DEF Lifecycle!Finish, Lifecycle!Becomes, Lifecycle!Results, State, Disturbed
    <3> QED
      BY <3>5 DEF Lifecycle!LifecycleNext
  <2> QED
    BY <2>5, <2>6, <2>7
<1> QED
  BY <1>1, <1>2

-----------------------------------------------------------------------------
(* The theorems.                                                           *)

(* Two goroutines build the same job only if something disturbed it, and   *)
(* each disturbance adds at most one: whatever the number of workers, the  *)
(* capacity of each, and the interleaving of claims, verdicts, rescues,    *)
(* releases and resets.                                                    *)
THEOREM OneBuilderPerDisturbanceHolds == Spec => []OneBuilderPerDisturbance
<1>1. ASSUME JobInv, NEW k \in Keys, HoldersBounded(k)
      PROVE  Cardinality(Builders(k)) <= 1 + Disturbances(k)
  <2>1. PICK b \in Nat, n \in Nat, s \in Nat, t \in Nat, f \in Nat :
           /\ b = Cardinality(Builders(k)) /\ n = Cardinality(Holders(k))
           /\ s = Cardinality(Spent(k)) /\ t = Cardinality(TakenDown)
           /\ f = Cardinality(Forced(k))
           /\ b <= n /\ s <= t
    <3>1. /\ IsFiniteSet(TakenDown) /\ IsFiniteSet(Forced(k))
          /\ IsFiniteSet(Holders(k)) /\ IsFiniteSet(Builders(k))
          /\ Cardinality(Builders(k)) <= Cardinality(Holders(k))
      BY <1>1, BuildersHold DEF HoldersBounded, FewDisturbances
    <3>2. IsFiniteSet(Spent(k)) /\ Cardinality(Spent(k)) <= Cardinality(TakenDown)
      BY <3>1, SpentTakenDown, CountSubset
    <3> QED
      BY <3>1, <3>2, FS_CardinalityType
  <2>2. PICK e \in Nat, u \in 0 .. 1 : e = faults /\ u = One(Tended(k))
    BY <1>1, FaultsNatural DEF One
  <2>3. n <= u + e + f + s
    BY <1>1, <2>1, <2>2 DEF HoldersBounded
  <2>4. PICK m \in Nat : m = MaxConcurrent * t /\ t <= m
    BY TimesSlots
  <2>5. b <= n /\ s <= t
    BY <2>1
  <2>6. b <= 1 + (e + m + f)
    BY <2>3, <2>4, <2>5
  <2>7. Disturbances(k) = e + m + f
    BY <2>1, <2>2, <2>4 DEF Disturbances
  <2> QED
    BY <2>1, <2>6, <2>7
<1>2. JobInv /\ HoldersInv => OneBuilderPerDisturbance
  BY <1>1 DEF OneBuilderPerDisturbance, Builders, HoldersInv
<1> QED
  BY <1>2, JobInvHolds, HoldersInvHolds, PTL

(* max_attempts limits the attempts of a job, up to one more for every     *)
(* disturbance: a worker that is taken down costs no more attempts than it *)
(* has slots, although rescues and releases put a job back without a look  *)
(* at the attempts it has had.                                             *)
THEOREM RetryBudgetHolds == Spec => []RetryBudget
<1>1. ASSUME JobInv, NEW k \in Keys, AttemptsBounded(k)
      PROVE  Len(attempts[k]) <= MaxAttempts + Disturbances(k)
  <2>1. IsFiniteSet(TakenDown) /\ IsFiniteSet(Forced(k)) /\ attempts[k] \in Seq(Attempt)
    BY <1>1 DEF AttemptsBounded, FewDisturbances, JobInv, ServerInv, QueueTypeOK
  <2>2. PICK l \in Nat, m \in Nat, e \in Nat, f \in Nat, t \in Nat, b \in Nat, z \in 0 .. 1 :
           /\ l = Len(attempts[k]) /\ m = MaxAttempts /\ e = faults
           /\ f = Cardinality(Forced(k)) /\ t = Cardinality(TakenDown)
           /\ b = Cardinality(GivenUp(k)) /\ z = One(Adrift(k))
    <3>1. /\ Cardinality(Forced(k)) \in Nat /\ Cardinality(TakenDown) \in Nat
          /\ Cardinality(GivenUp(k)) \in Nat
      BY <2>1, FS_CardinalityType, GivenUpFinite
    <3>2. Len(attempts[k]) \in Nat /\ MaxAttempts \in Nat /\ faults \in Nat
      BY <1>1, <2>1, BoundsAssumption, FaultsNatural
    <3>3. One(Adrift(k)) \in 0 .. 1
      BY DEF One
    <3> QED
      BY <3>1, <3>2, <3>3
  <2>3. l + z <= m + e + f + b
    BY <1>1, <2>2 DEF AttemptsBounded
  <2>4. PICK s \in Nat : s = MaxConcurrent * t
    BY TimesSlots
  <2>5. b <= s
    BY <2>1, <2>2, <2>4, GivenUpFinite, WorkerAssumption
  <2>6. l <= m + (e + s + f)
    BY <2>3, <2>5
  <2>7. Disturbances(k) = e + s + f
    BY <2>2, <2>4 DEF Disturbances
  <2> QED
    BY <2>2, <2>6, <2>7
<1>2. JobInv /\ AttemptsInv => RetryBudget
  BY <1>1 DEF RetryBudget, AttemptsInv
<1> QED
  BY <1>2, JobInvHolds, AttemptsInvHolds, PTL

(* The two tables tell the same story of a job that nothing has disturbed, *)
(* although its verdict is written by two statements.                      *)
THEOREM HistoryExplainsJobHolds == Spec => []HistoryExplainsJob
<1>1. ASSUME JobInv, DisturbedInv, StoryInv, NEW k \in Keys, Undisturbed(k)
      PROVE  /\ jobs[k].status \in Verdicts => Newest(k).status = jobs[k].status
             /\ jobs[k].status = "pending" =>
                    \A i \in DOMAIN attempts[k] : attempts[k][i].status = "failed"
             /\ jobs[k].status = "building" =>
                    \A i \in 1 .. Len(attempts[k]) - 1 : attempts[k][i].status = "failed"
  <2>1. Story(k)
    BY <1>1 DEF DisturbedInv, StoryInv, StoryAgrees
  <2>2. attempts[k] \in Seq(Attempt)
    BY <1>1 DEF JobInv, ServerInv, QueueTypeOK
  <2>3. ASSUME jobs[k].status = "pending", NEW i \in DOMAIN attempts[k]
        PROVE  attempts[k][i].status = "failed"
    <3>1. i \in 1 .. Len(attempts[k]) /\ attempts[k] # << >>
      BY <2>2, <2>3
    <3>2. CASE i = Len(attempts[k])
      BY <2>1, <2>3, <3>1, <3>2 DEF Story, NewestStatus
    <3>3. CASE i # Len(attempts[k])
      <4>1. i \in 1 .. Len(attempts[k]) - 1
        BY <2>2, <3>1, <3>3
      <4> QED
        BY <2>1, <4>1 DEF Story, EarlierFailed
    <3> QED
      BY <3>2, <3>3
  <2> QED
    BY <2>1, <2>3 DEF Story, Newest, NewestStatus, EarlierFailed
<1>2. JobInv /\ DisturbedInv /\ StoryInv => HistoryExplainsJob
  BY <1>1 DEF HistoryExplainsJob
<1> QED
  BY <1>2, JobInvHolds, DisturbedInvHolds, StoryInvHolds, PTL

(* An undisturbed worker does not lose the job it builds, however long the *)
(* build and however slow the rescue cycle; the lock ends with the worker's *)
(* own verdict.                                                            *)
THEOREM HealthyWorkerKeepsJobHolds == Spec => HealthyWorkerKeepsJob
<1>1. ASSUME JobInv, HoldersInv, StoryInv, DisturbedInv', [Next]_vars,
             NEW k \in Keys, NEW w \in Workers, NEW s \in Slots,
             Undisturbed(k)', Owns(w, k), Builds(w, s, k), ~ Owns(w, k)'
      PROVE  run[w][s].pc = "job"
  <2>0. Clean(k)'
    BY <1>1 DEF DisturbedInv
  <2>1. /\ Clean(k)
        /\ \/ Quiet(k) \/ HandedOver(k) \/ Recorded(k) \/ Concluded(k)
           \/ Claimed(k) \/ Inserted(k) \/ Retried(k)
    BY <1>1, <2>0, StepDoes, StepDisturbs, CleanStep DEF StoryInv
  <2>2. jobs[k].status = "building" /\ ~ SameOwner(k)
    BY <1>1 DEF Owns, SameOwner
  <2>3. Concluded(k)
    BY <2>1, <2>2 DEF Quiet, HandedOver, Recorded, SameRow, Claimed, ClaimedBy, Inserted, Retried, CanRetry
  <2>4. PICK v \in Workers, t \in Slots, st \in Verdicts : <<v, t, st>> \in Holders(k)
    BY <2>3 DEF Concluded, Loses
  <2>5. <<w, s, Expected(w, s)>> \in Holders(k)
    BY <1>1, BuilderHolds
  <2>6. <<w, s, Expected(w, s)>> = <<v, t, st>>
    BY <1>1, <2>1, <2>4, <2>5, CleanHolders DEF HoldersInv
  <2>7. Expected(w, s) \in Verdicts
    BY <2>6
  <2> QED
    BY <2>7 DEF Expected, Verdicts
<1> DEFINE Ends == \A k \in Keys, w \in Workers, s \in Slots :
                       /\ Undisturbed(k)'
                       /\ Owns(w, k)
                       /\ Builds(w, s, k)
                       /\ ~ Owns(w, k)'
                       => run[w][s].pc = "job"
<1>2. JobInv /\ HoldersInv /\ StoryInv /\ DisturbedInv' /\ [Next]_vars => [Ends]_vars
  BY <1>1
<1> QED
  BY <1>2, JobInvHolds, HoldersInvHolds, StoryInvHolds, DisturbedInvHolds, PTL DEF Spec, HealthyWorkerKeepsJob

(* The server implements BuildLifecycle: nothing but a disturbance of the  *)
(* job takes it back from done or failed, and no job is forgotten,         *)
(* whatever workers, janitor and handlers do at the same time.             *)
THEOREM ServerImplementsLifecycle == Spec => ImplementsLifecycle
<1>1. ASSUME Init, DisturbedInv
      PROVE  Lifecycle!LifecycleInit
  <2>1. \A k \in Keys : ClientView(k) = "absent"
    BY <1>1 DEF Init, QueueInit, NoJob, ClientView, Terminal
  <2>2. \A k \in Keys : Undisturbed(k)
    BY <1>1, NothingYet DEF DisturbedInv, Clean
  <2> QED
    BY <2>1, <2>2 DEF Lifecycle!LifecycleInit
<1>2. JobInv /\ HoldersInv /\ StoryInv /\ DisturbedInv /\ DisturbedInv' /\ [Next]_vars
        => [Lifecycle!LifecycleNext]_(Lifecycle!lifecycleVars)
  BY LifecycleStep
<1> QED
  BY <1>1, <1>2, JobInvHolds, HoldersInvHolds, StoryInvHolds, DisturbedInvHolds, PTL
     DEF Spec, ImplementsLifecycle, Lifecycle!LifecycleSpec
=============================================================================
