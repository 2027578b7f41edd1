---------------------------- MODULE WorkerProofs ----------------------------
(***************************************************************************)
(* What the worker processes guarantee for any number of workers, slots    *)
(* and jobs, whoever else uses the queue.                                  *)
(***************************************************************************)
EXTENDS Worker, TLAPS, FiniteSetTheorems

\* What the goroutines of a worker have at hand is what they need next; no
\* job is cancelled before the release of all jobs.
GoroutinesAgree(w) ==
    /\ loop[w] = "claimed" => inHand[w] \in Keys
    /\ \A s \in Slots :
          /\ run[w][s].pc # "idle" => run[w][s].key \in Keys
          /\ run[w][s].pc \in {"attempt", "job"} => run[w][s].outcome \in Verdicts
          /\ watch[w].pc \in {"watching", "preempted"} => ~ run[w][s].cancelled
    /\ watch[w].pc \in {"row", "cancel"} => watch[w].key \in watch[w].todo

WorkerInv ==
    /\ WorkerTypeOK
    /\ SemCountsJobs
    /\ ActiveIsRunning
    /\ ReleaseCoversActive
    /\ \A w \in Workers : GoroutinesAgree(w)

-----------------------------------------------------------------------------
(* Counting the slots in use.                                              *)

LEMMA SlotsFinite ==
    ASSUME NEW w \in Workers
    PROVE  /\ IsFiniteSet(Slots)
           /\ IsFiniteSet(Busy(w))
           /\ Cardinality(Busy(w)) \in Nat
<1>1. IsFiniteSet(Slots)
  BY WorkerAssumption, FS_Interval DEF Slots
<1>2. Busy(w) \subseteq Slots
  BY DEF Busy
<1> QED
  BY <1>1, <1>2, FS_Subset, FS_CardinalityType

(* A slot that is taken adds one, a slot that is given up takes one away.  *)
LEMMA BusyGrows ==
    ASSUME NEW w \in Workers, NEW s \in Slots \ Busy(w), Busy(w)' = Busy(w) \cup {s}
    PROVE  Cardinality(Busy(w)') = Cardinality(Busy(w)) + 1
BY SlotsFinite, FS_AddElement

LEMMA BusyShrinks ==
    ASSUME NEW w \in Workers, NEW s \in Busy(w), Busy(w)' = Busy(w) \ {s}
    PROVE  Cardinality(Busy(w)') = Cardinality(Busy(w)) - 1 /\ Cardinality(Busy(w)) > 0
<1>1. Cardinality(Busy(w)') = Cardinality(Busy(w)) - 1
  BY SlotsFinite, FS_RemoveElement
<1>2. Cardinality(Busy(w)) # 0
  BY SlotsFinite, FS_EmptySet
<1> QED
  BY <1>1, <1>2, SlotsFinite

-----------------------------------------------------------------------------
(* The claim loop.                                                         *)

LEMMA LoopKeeps ==
    ASSUME WorkerInv, NEW w \in Workers, LoopStep(w)
    PROVE  WorkerInv'
<1> USE WorkerAssumption DEF WorkerInv, WorkerTypeOK
<1>1. ASSUME UNCHANGED <<active, run, watch>>, WorkerTypeOK', SemCountsJobs',
             \A v \in Workers : loop'[v] = "claimed" => inHand'[v] \in Keys
      PROVE  WorkerInv'
  BY <1>1 DEF ActiveIsRunning, ReleaseCoversActive, Active, MapLocked, GoroutinesAgree
<1>2. UNCHANGED run => \A v \in Workers : Cardinality(Busy(v)') = Cardinality(Busy(v))
  BY DEF Busy
<1>3. CASE TryClaim(w)
  <2>1. WorkerTypeOK'
    BY <1>3 DEF TryClaim
  <2>2. SemCountsJobs'
    BY <1>2, <1>3, SlotsFinite DEF TryClaim, SemCountsJobs
  <2> QED
    BY <1>1, <1>3, <2>1, <2>2 DEF TryClaim, GoroutinesAgree
<1>4. ASSUME NEW k \in Keys, ClaimOne(w, k)
      PROVE  WorkerInv'
  <2>1. WorkerTypeOK'
    BY <1>4 DEF ClaimOne
  <2>2. SemCountsJobs'
    BY <1>2, <1>4, SlotsFinite DEF ClaimOne, SemCountsJobs
  <2> QED
    BY <1>1, <1>4, <2>1, <2>2 DEF ClaimOne, GoroutinesAgree
<1>5. CASE ClaimNone(w) \/ ClaimFails(w)
  <2>1. BackToSelect(w) /\ faults' \in 0 .. MaxFaults
    BY <1>5, FaultsAssumption DEF ClaimNone, ClaimFails, Fault
  <2>2. sem[w] > 0
    BY <2>1, SlotsFinite DEF BackToSelect, SemCountsJobs
  <2>3. WorkerTypeOK'
    BY <2>1, <2>2 DEF BackToSelect
  <2>4. SemCountsJobs'
    BY <1>2, <2>1, SlotsFinite DEF BackToSelect, SemCountsJobs
  <2> QED
    BY <1>1, <2>1, <2>3, <2>4 DEF BackToSelect, GoroutinesAgree
<1>6. CASE Register(w)
  <2>1. PICK s \in Slots \ Busy(w) :
           /\ active' = [active EXCEPT ![w][inHand[w]] = s]
           /\ run' = [run EXCEPT ![w][s] = NewRun(inHand[w])]
    BY <1>6 DEF Register, SetRun
  <2>2. /\ loop[w] = "claimed" /\ inHand[w] \in Keys /\ watch[w].pc \notin {"next", "row", "cancel"}
        /\ loop' = [loop EXCEPT ![w] = "select"]
        /\ inHand' = [inHand EXCEPT ![w] = NoKey]
        /\ UNCHANGED <<sem, filled, shuttingDown, stopRequested, watch, faults>>
    BY <1>6 DEF Register, MapLocked, GoroutinesAgree
  <2>3. s \in Slots /\ run[w][s].pc = "idle" /\ NewRun(inHand[w]) \in Run
    BY <2>2 DEF Busy, NewRun, Run, RunPCs
  <2>4. WorkerTypeOK'
    BY <2>1, <2>2, <2>3 DEF Slots
  <2>5. \A v \in Workers : Busy(v)' = IF v = w THEN Busy(w) \cup {s} ELSE Busy(v)
    BY <2>1, <2>3 DEF Busy, NewRun
  <2>6. SemCountsJobs'
    <3>1. Cardinality(Busy(w)') = Cardinality(Busy(w)) + 1
      BY <2>5, BusyGrows
    <3>2. \A v \in Workers : v # w => Cardinality(Busy(v)') = Cardinality(Busy(v))
      BY <2>5
    <3> QED
      BY <2>2, <3>1, <3>2, SlotsFinite DEF SemCountsJobs
  <2>7. ActiveIsRunning'
    BY <2>1, <2>2, <2>3 DEF ActiveIsRunning, Active, NewRun, Slots
  <2>8. ReleaseCoversActive'
    BY <2>1, <2>2 DEF ReleaseCoversActive, MapLocked, Active
  <2>9. \A v \in Workers : GoroutinesAgree(v)'
    BY <2>1, <2>2, <2>3 DEF GoroutinesAgree, NewRun
  <2> QED
    BY <2>4, <2>6, <2>7, <2>8, <2>9
<1>7. CASE LoopSeesStop(w)
  <2>1. WorkerTypeOK'
    BY <1>7 DEF LoopSeesStop
  <2>2. SemCountsJobs'
    BY <1>2, <1>7, SlotsFinite DEF LoopSeesStop, SemCountsJobs
  <2> QED
    BY <1>1, <1>7, <2>1, <2>2 DEF LoopSeesStop, GoroutinesAgree
<1>8. CASE FillSem(w)
  <2>1. WorkerTypeOK'
    BY <1>8 DEF FillSem
  <2>2. SemCountsJobs'
    BY <1>2, <1>8, SlotsFinite DEF FillSem, SemCountsJobs
  <2> QED
    BY <1>1, <1>8, <2>1, <2>2 DEF FillSem, GoroutinesAgree
<1>9. CASE StartReturns(w)
  <2>1. WorkerTypeOK'
    BY <1>9 DEF StartReturns
  <2>2. SemCountsJobs'
    BY <1>2, <1>9, SlotsFinite DEF StartReturns, SemCountsJobs
  <2> QED
    BY <1>1, <1>9, <2>1, <2>2 DEF StartReturns, GoroutinesAgree
<1> QED
  BY <1>3, <1>4, <1>5, <1>6, <1>7, <1>8, <1>9, Zenon DEF LoopStep

-----------------------------------------------------------------------------
(* The goroutines of the jobs.                                             *)

\* The states in which a goroutine is in the active map.
Mapped == {"building", "attempt", "job", "remove"}

(* A goroutine that goes on with its job, in its slot, disturbs nothing.   *)
LEMMA RunGoesOn ==
    ASSUME WorkerInv, NEW w \in Workers, NEW s \in Slots, NEW r \in Run,
           run' = [run EXCEPT ![w][s] = r],
           UNCHANGED <<loop, inHand, sem, filled, active, shuttingDown, stopRequested, watch>>,
           faults' \in 0 .. MaxFaults,
           r.key = run[w][s].key, r.cancelled = run[w][s].cancelled,
           r.pc = "idle" <=> run[w][s].pc = "idle",
           run[w][s].pc \in Mapped => r.pc \in Mapped,
           r.pc \in {"attempt", "job"} => r.outcome \in Verdicts
    PROVE  WorkerInv'
<1> USE DEF WorkerInv
<1>1. WorkerTypeOK'
  BY DEF WorkerTypeOK
<1>2. SemCountsJobs'
  <2>1. \A v \in Workers : Busy(v)' = Busy(v)
    BY DEF WorkerTypeOK, Busy
  <2> QED
    BY <2>1 DEF SemCountsJobs
<1>3. ActiveIsRunning'
  BY DEF WorkerTypeOK, ActiveIsRunning, Active, Mapped
<1>4. ReleaseCoversActive'
  BY DEF WorkerTypeOK, ReleaseCoversActive, Active, MapLocked
<1>5. \A v \in Workers : GoroutinesAgree(v)'
  BY DEF WorkerTypeOK, GoroutinesAgree
<1> QED
  BY <1>1, <1>2, <1>3, <1>4, <1>5

LEMMA RunKeeps ==
    ASSUME WorkerInv, NEW w \in Workers, NEW s \in Slots, RunStep(w, s)
    PROVE  WorkerInv'
<1> DEFINE r == run[w][s]
<1>1. /\ r \in Run /\ faults \in 0 .. MaxFaults
      /\ r.pc \in {"attempt", "job"} => r.outcome \in Verdicts
      /\ r.pc # "idle" => r.key \in Keys
  BY DEF WorkerInv, WorkerTypeOK, GoroutinesAgree
<1>2. ASSUME NEW pc \in {"attempt", "job"}, NEW outcome \in Verdicts
      PROVE  [r EXCEPT !.pc = pc, !.outcome = outcome] \in Run
  BY <1>1 DEF Run, RunPCs
<1>3. Returned(r) \in Run /\ Returned(r).pc = "remove"
      /\ Returned(r).key = r.key /\ Returned(r).cancelled = r.cancelled
  BY <1>1 DEF Returned, Run, RunPCs
<1>4. CASE BuildReturns(w, s)
  <2>1. CASE run' = [run EXCEPT ![w][s] = Returned(r)]
    BY <1>1, <1>3, <1>4, <2>1, RunGoesOn DEF BuildReturns, RunVars, Mapped
  <2>2. ASSUME NEW outcome \in Verdicts,
               run' = [run EXCEPT ![w][s] = [r EXCEPT !.pc = "attempt", !.outcome = outcome]]
        PROVE  WorkerInv'
    <3> DEFINE q == [r EXCEPT !.pc = "attempt", !.outcome = outcome]
    <3>1. q \in Run /\ q.key = r.key /\ q.cancelled = r.cancelled /\ q.pc = "attempt"
          /\ q.outcome = outcome
      BY <1>1, <1>2 DEF Run
    <3> QED
      BY <1>4, <2>2, <3>1, RunGoesOn, <1>1 DEF BuildReturns, RunVars, Mapped
  <2> QED
    BY <1>4, <2>1, <2>2 DEF BuildReturns, SetRun
<1>5. CASE RecordAttempt(w, s)
  <2> DEFINE q == [r EXCEPT !.pc = "job"]
  <2>1. q \in Run /\ q.key = r.key /\ q.cancelled = r.cancelled /\ q.pc = "job"
        /\ q.outcome = r.outcome
    BY <1>1 DEF Run, RunPCs
  <2> QED
    BY <1>1, <1>5, <2>1, RunGoesOn DEF RecordAttempt, RunVars, SetRun, Mapped
<1>6. CASE RecordJob(w, s)
  BY <1>1, <1>3, <1>6, RunGoesOn DEF RecordJob, RunVars, SetRun, Mapped
<1>7. CASE RecordFails(w, s)
  <2>1. faults' \in 0 .. MaxFaults
    BY <1>1, <1>7, FaultsAssumption DEF RecordFails, Fault
  <2> QED
    BY <1>3, <1>7, <2>1, RunGoesOn DEF RecordFails, RunVars, SetRun, Mapped
<1>8. CASE RemoveActive(w, s)
  <2> USE DEF WorkerInv
  <2> DEFINE q == [r EXCEPT !.pc = "release"]
  <2>1. q \in Run /\ q.key = r.key /\ q.cancelled = r.cancelled /\ q.pc = "release"
    BY <1>1 DEF Run, RunPCs
  <2>2. /\ r.pc = "remove" /\ r.key \in Keys /\ ~ MapLocked(w)
        /\ active' = [active EXCEPT ![w][r.key] = 0]
        /\ run' = [run EXCEPT ![w][s] = q]
        /\ UNCHANGED <<loop, inHand, sem, filled, shuttingDown, stopRequested, watch, faults>>
    BY <1>1, <1>8 DEF RemoveActive, RunVars, SetRun
  <2>3. WorkerTypeOK'
    BY <2>1, <2>2, WorkerAssumption DEF WorkerTypeOK
  <2>4. \A v \in Workers : Busy(v)' = Busy(v)
    BY <2>1, <2>2 DEF WorkerTypeOK, Busy
  <2>5. SemCountsJobs'
    BY <2>2, <2>4 DEF SemCountsJobs
  <2>6. ActiveIsRunning'
    BY <2>1, <2>2 DEF WorkerTypeOK, ActiveIsRunning, Active
  <2>7. ReleaseCoversActive'
    BY <2>1, <2>2 DEF WorkerTypeOK, ReleaseCoversActive, Active, MapLocked
  <2>8. \A v \in Workers : GoroutinesAgree(v)'
    BY <2>1, <2>2 DEF WorkerTypeOK, GoroutinesAgree
  <2> QED
    BY <2>3, <2>5, <2>6, <2>7, <2>8
<1>9. CASE ReleaseSem(w, s)
  <2> USE DEF WorkerInv
  <2>1. /\ r.pc = "release"
        /\ sem' = [sem EXCEPT ![w] = @ - 1]
        /\ run' = [run EXCEPT ![w][s] = NoRun]
        /\ UNCHANGED <<loop, inHand, filled, active, shuttingDown, stopRequested, watch, faults>>
    BY <1>9 DEF ReleaseSem, RunVars, SetRun
  <2>2. NoRun \in Run
    BY DEF NoRun, Run, RunPCs
  <2>3. s \in Busy(w)
    BY <2>1 DEF Busy
  <2>4. \A v \in Workers : Busy(v)' = IF v = w THEN Busy(w) \ {s} ELSE Busy(v)
    BY <2>1 DEF WorkerTypeOK, Busy, NoRun
  <2>5. /\ Cardinality(Busy(w)') = Cardinality(Busy(w)) - 1 /\ Cardinality(Busy(w)) > 0
        /\ \A v \in Workers : v # w => Cardinality(Busy(v)') = Cardinality(Busy(v))
    BY <2>3, <2>4, BusyShrinks
  <2>6. sem[w] > 0
    BY <2>5, SlotsFinite DEF WorkerTypeOK, SemCountsJobs
  <2>7. WorkerTypeOK'
    BY <2>1, <2>2, <2>6, WorkerAssumption DEF WorkerTypeOK
  <2>8. SemCountsJobs'
    BY <2>1, <2>5, SlotsFinite DEF WorkerTypeOK, SemCountsJobs
  <2>9. ActiveIsRunning'
    BY <2>1 DEF WorkerTypeOK, ActiveIsRunning, Active
  <2>10. ReleaseCoversActive'
    <3>1. \A k \in Keys : active[w][k] # 0 => active[w][k] # s
      BY <2>1 DEF ActiveIsRunning, Active
    <3>2. \A v \in Workers, k \in Keys :
             active[v][k] # 0 => run'[v][active[v][k]] = run[v][active[v][k]]
      BY <2>1, <3>1 DEF WorkerTypeOK
    <3> QED
      BY <2>1, <3>2 DEF ReleaseCoversActive, Active, MapLocked
  <2>11. \A v \in Workers : GoroutinesAgree(v)'
    BY <2>1 DEF WorkerTypeOK, GoroutinesAgree, NoRun
  <2> QED
    BY <2>7, <2>8, <2>9, <2>10, <2>11
<1> QED
  BY <1>4, <1>5, <1>6, <1>7, <1>8, <1>9, Zenon DEF RunStep

LEMMA BeatKeeps ==
    ASSUME WorkerInv, NEW w \in Workers, NEW s \in Slots, BeatStep(w, s)
    PROVE  WorkerInv'
<1> DEFINE r == run[w][s]
<1>1. /\ r \in Run /\ faults \in 0 .. MaxFaults
      /\ r.pc \in {"attempt", "job"} => r.outcome \in Verdicts
  BY DEF WorkerInv, WorkerTypeOK, GoroutinesAgree
<1>2. PICK beat \in {"waiting", "off"} : run' = [run EXCEPT ![w][s] = [r EXCEPT !.beat = beat]]
  BY DEF BeatStep, Heartbeat, HeartbeatFails, SetRun
<1> DEFINE q == [r EXCEPT !.beat = beat]
<1>3. q \in Run /\ q.key = r.key /\ q.cancelled = r.cancelled /\ q.pc = r.pc
      /\ q.outcome = r.outcome
  BY <1>1 DEF Run
<1>4. /\ UNCHANGED <<loop, inHand, sem, filled, active, shuttingDown, stopRequested, watch>>
      /\ faults' \in 0 .. MaxFaults
  BY <1>1, FaultsAssumption DEF BeatStep, Heartbeat, HeartbeatFails, RunVars, Fault
<1> QED
  BY <1>1, <1>2, <1>3, <1>4, RunGoesOn

-----------------------------------------------------------------------------
(* The preemption goroutine and the process.                               *)

(* Steps of the preemption goroutine that cancel no job.                   *)
LEMMA WatchGoesOn ==
    ASSUME WorkerInv,
           UNCHANGED <<loop, inHand, sem, filled, active, run, stopRequested>>,
           WorkerTypeOK', ReleaseCoversActive',
           \A v \in Workers :
              /\ watch'[v].pc \in {"row", "cancel"} => watch'[v].key \in watch'[v].todo
              /\ watch'[v].pc \in {"watching", "preempted"} =>
                    watch[v].pc \in {"watching", "preempted"}
    PROVE  WorkerInv'
<1> USE DEF WorkerInv
<1>1. SemCountsJobs'
  <2>1. \A v \in Workers : Busy(v)' = Busy(v)
    BY DEF Busy
  <2> QED
    BY <2>1 DEF SemCountsJobs
<1>2. ActiveIsRunning'
  BY DEF ActiveIsRunning, Active
<1>3. \A v \in Workers : GoroutinesAgree(v)'
  BY DEF GoroutinesAgree
<1> QED
  BY <1>1, <1>2, <1>3

LEMMA WatchKeeps ==
    ASSUME WorkerInv, NEW w \in Workers, WatchStep(w)
    PROVE  WorkerInv'
<1> DEFINE r == watch[w]
<1>1. /\ WorkerTypeOK /\ ReleaseCoversActive /\ ActiveIsRunning
      /\ \A v \in Workers : GoroutinesAgree(v)
  BY DEF WorkerInv
<1>2. Active(w) \subseteq Keys
  BY DEF Active
<1>3. CASE Preempt(w)
  <2>1. WorkerTypeOK'
    BY <1>1, <1>3 DEF Preempt, WatchVars, SetWatch, WorkerTypeOK
  <2>2. ReleaseCoversActive'
    BY <1>1, <1>3
       DEF Preempt, WatchVars, SetWatch, WorkerTypeOK, ReleaseCoversActive, MapLocked, Active
  <2>3. \A v \in Workers :
           /\ watch'[v].pc \in {"row", "cancel"} => watch'[v].key \in watch'[v].todo
           /\ watch'[v].pc \in {"watching", "preempted"} =>
                 watch[v].pc \in {"watching", "preempted"}
    BY <1>1, <1>3 DEF Preempt, SetWatch, WorkerTypeOK, GoroutinesAgree
  <2> QED
    BY <1>3, <2>1, <2>2, <2>3, WatchGoesOn DEF Preempt, WatchVars
<1>4. CASE BeginRelease(w)
  <2>1. WorkerTypeOK'
    BY <1>1, <1>2, <1>4 DEF BeginRelease, WatchVars, SetWatch, WorkerTypeOK
  <2>2. \A k \in Active(w) : ~ run[w][active[w][k]].cancelled
    BY <1>1, <1>4 DEF BeginRelease, GoroutinesAgree, WorkerTypeOK, Active, Slots
  <2>3. ReleaseCoversActive'
    BY <1>1, <1>4, <2>2
       DEF BeginRelease, WatchVars, SetWatch, WorkerTypeOK, ReleaseCoversActive, MapLocked, Active
  <2> QED
    BY <1>1, <1>4, <2>1, <2>3, WatchGoesOn
       DEF BeginRelease, WatchVars, SetWatch, WorkerTypeOK, GoroutinesAgree
<1>5. ASSUME NEW k \in Keys, ReleaseFirst(w, k)
      PROVE  WorkerInv'
  <2>1. WorkerTypeOK'
    BY <1>1, <1>5 DEF ReleaseFirst, WatchVars, SetWatch, WorkerTypeOK
  <2>2. ReleaseCoversActive'
    BY <1>1, <1>5
       DEF ReleaseFirst, WatchVars, SetWatch, WorkerTypeOK, ReleaseCoversActive, MapLocked, Active
  <2> QED
    BY <1>1, <1>5, <2>1, <2>2, WatchGoesOn
       DEF ReleaseFirst, WatchVars, SetWatch, WorkerTypeOK, GoroutinesAgree
<1>6. CASE ReleaseSecond(w)
  <2>1. WorkerTypeOK'
    BY <1>1, <1>6 DEF ReleaseSecond, WatchVars, SetWatch, WorkerTypeOK
  <2>2. ReleaseCoversActive'
    BY <1>1, <1>6
       DEF ReleaseSecond, WatchVars, SetWatch, WorkerTypeOK, ReleaseCoversActive, MapLocked,
           Active
  <2>3. UNCHANGED <<loop, inHand, sem, filled, active, run, stopRequested>>
    BY <1>6 DEF ReleaseSecond, WatchVars
  <2>4. \A v \in Workers :
           /\ watch'[v].pc \in {"row", "cancel"} => watch'[v].key \in watch'[v].todo
           /\ watch'[v].pc \in {"watching", "preempted"} =>
                 watch[v].pc \in {"watching", "preempted"}
    BY <1>1, <1>6 DEF ReleaseSecond, SetWatch, WorkerTypeOK, GoroutinesAgree
  <2> QED
    BY <2>1, <2>2, <2>3, <2>4, WatchGoesOn
<1>7. CASE ReleaseFails(w)
  <2>1. PICK k \in r.todo :
           /\ watch' = [watch EXCEPT ![w] = [r EXCEPT !.pc = "cancel", !.key = k]]
           /\ r.pc \in {"next", "row"}
    BY <1>1, <1>7 DEF ReleaseFails, SetWatch, GoroutinesAgree, WorkerTypeOK
  <2>2. UNCHANGED <<loop, inHand, sem, filled, active, run, shuttingDown, stopRequested>>
    BY <1>7 DEF ReleaseFails, WatchVars
  <2>3. faults' \in 0 .. MaxFaults /\ k \in Keys
    <3>1. faults \in 0 .. MaxFaults /\ r.todo \subseteq Keys
      BY <1>1 DEF WorkerTypeOK
    <3>2. Fault
      BY <1>7 DEF ReleaseFails
    <3>3. faults' \in 0 .. MaxFaults
      BY <3>1, <3>2, FaultsAssumption DEF Fault
    <3> QED
      BY <2>1, <3>1, <3>3
  <2>4. WorkerTypeOK'
    BY <1>1, <2>1, <2>2, <2>3 DEF WorkerTypeOK
  <2>5. ReleaseCoversActive'
    BY <1>1, <2>1, <2>2 DEF WorkerTypeOK, ReleaseCoversActive, MapLocked, Active
  <2>6. \A v \in Workers :
           /\ watch'[v].pc \in {"row", "cancel"} => watch'[v].key \in watch'[v].todo
           /\ watch'[v].pc \in {"watching", "preempted"} =>
                 watch[v].pc \in {"watching", "preempted"}
    BY <1>1, <2>1 DEF WorkerTypeOK, GoroutinesAgree
  <2> QED
    BY <2>2, <2>4, <2>5, <2>6, WatchGoesOn
<1>8. CASE CancelJob(w)
  <2>1. /\ run \in [Workers -> [Slots -> Run]]
        /\ active \in [Workers -> [Keys -> 0 .. MaxConcurrent]]
        /\ watch \in [Workers -> [pc : {"watching", "preempted", "next", "row", "cancel", "done"},
                                  todo : SUBSET Keys, key : Keys \cup {NoKey}]]
    BY <1>1 DEF WorkerTypeOK
  <2>2. PICK k \in Keys : k = r.key /\ r.pc = "cancel" /\ k \in r.todo
    BY <1>1, <1>8, <2>1 DEF CancelJob, GoroutinesAgree
  <2>3. k \in Active(w)
    BY <1>1, <2>2 DEF ReleaseCoversActive, MapLocked
  <2>4. PICK s \in Slots : s = active[w][k] /\ run[w][s].key = k
    BY <1>1, <2>1, <2>3 DEF ActiveIsRunning, Active, Slots
  <2>5. PICK q \in Run : /\ q = [run[w][s] EXCEPT !.cancelled = TRUE, !.beat = "off"]
                         /\ q.key = k /\ q.cancelled
                         /\ q.pc = run[w][s].pc /\ q.outcome = run[w][s].outcome
    <3> DEFINE c == [run[w][s] EXCEPT !.cancelled = TRUE, !.beat = "off"]
    <3>1. run[w][s] \in Run
      BY <2>1
    <3>2. c \in Run /\ c.key = run[w][s].key /\ c.cancelled
          /\ c.pc = run[w][s].pc /\ c.outcome = run[w][s].outcome
      BY <3>1 DEF Run
    <3> QED
      BY <2>4, <3>2
  <2>6. PICK todo \in SUBSET Keys : todo = r.todo \ {k}
    BY <2>1
  <2>7. /\ run' = [run EXCEPT ![w][s] = q]
        /\ watch' = [watch EXCEPT ![w] = [pc |-> "next", todo |-> todo, key |-> NoKey]]
        /\ UNCHANGED <<loop, inHand, sem, filled, active, shuttingDown, stopRequested, faults>>
    BY <1>8, <2>2, <2>4, <2>5, <2>6 DEF CancelJob, SetRun, SetWatch, WatchVars
  <2>8. WorkerTypeOK'
    BY <1>1, <2>7 DEF WorkerTypeOK
  <2>9. /\ \A v \in Workers, t \in Slots : v # w \/ t # s => run'[v][t] = run[v][t]
        /\ run'[w][s] = q
        /\ \A v \in Workers : v # w => watch'[v] = watch[v]
        /\ watch'[w] = [pc |-> "next", todo |-> todo, key |-> NoKey]
    BY <2>1, <2>7
  <2>10. SemCountsJobs'
    <3>1. \A v \in Workers, t \in Slots : run'[v][t].pc = run[v][t].pc
      BY <2>5, <2>9
    <3>2. \A v \in Workers : Busy(v)' = Busy(v)
      BY <3>1 DEF Busy
    <3> QED
      BY <2>7, <3>2 DEF WorkerInv, SemCountsJobs
  <2>11. ActiveIsRunning'
    BY <1>1, <2>1, <2>5, <2>7, <2>9 DEF ActiveIsRunning, Active, Slots
  <2>12. ReleaseCoversActive'
    <3>1. \A l \in Active(w) : l # k => active[w][l] \in Slots /\ active[w][l] # s
      BY <1>1, <2>1, <2>4 DEF ActiveIsRunning, Active, Slots
    <3>2. \A l \in Keys : /\ l \in todo => l \in Active(w)'
                          /\ l \in Active(w)' =>
                                (l \in todo <=> ~ run'[w][active[w][l]].cancelled)
      <4>1. \A l \in Keys : /\ l \in r.todo => l \in Active(w)
                            /\ l \in Active(w) =>
                                  (l \in r.todo <=> ~ run[w][active[w][l]].cancelled)
        BY <1>1, <2>2 DEF ReleaseCoversActive, MapLocked
      <4>2. Active(w)' = Active(w)
        BY <2>7 DEF Active
      <4>3. \A l \in Active(w) : l # k => run'[w][active[w][l]] = run[w][active[w][l]]
        BY <2>9, <3>1
      <4>4. run'[w][active[w][k]].cancelled /\ k \notin todo
        BY <2>4, <2>5, <2>6, <2>9
      <4> QED
        BY <2>6, <4>1, <4>2, <4>3, <4>4
    <3>3. \A v \in Workers : v # w => run'[v] = run[v] /\ watch'[v] = watch[v]
      BY <2>1, <2>7
    <3> QED
      BY <1>1, <2>7, <2>9, <3>2, <3>3 DEF ReleaseCoversActive, MapLocked, Active
  <2>13. \A v \in Workers : GoroutinesAgree(v)'
    BY <1>1, <2>2, <2>5, <2>7, <2>9 DEF GoroutinesAgree
  <2> QED
    BY <2>8, <2>10, <2>11, <2>12, <2>13 DEF WorkerInv
<1>9. CASE ReleaseDone(w)
  <2>1. WorkerTypeOK'
    BY <1>1, <1>9 DEF ReleaseDone, WatchVars, SetWatch, WorkerTypeOK
  <2>2. ReleaseCoversActive'
    BY <1>1, <1>9
       DEF ReleaseDone, WatchVars, SetWatch, WorkerTypeOK, ReleaseCoversActive, MapLocked,
           Active
  <2>3. \A v \in Workers :
           /\ watch'[v].pc \in {"row", "cancel"} => watch'[v].key \in watch'[v].todo
           /\ watch'[v].pc \in {"watching", "preempted"} =>
                 watch[v].pc \in {"watching", "preempted"}
    BY <1>1, <1>9 DEF ReleaseDone, SetWatch, WorkerTypeOK, GoroutinesAgree
  <2> QED
    BY <1>9, <2>1, <2>2, <2>3, WatchGoesOn DEF ReleaseDone, WatchVars
<1> QED
  BY <1>3, <1>4, <1>5, <1>6, <1>7, <1>8, <1>9, Zenon DEF WatchStep

(* The end of a process, for whatever reason.                              *)
LEMMA EndKeeps ==
    ASSUME WorkerInv, NEW w \in Workers, ProcessEnds(w), faults' \in 0 .. MaxFaults
    PROVE  WorkerInv'
<1>0. /\ WorkerTypeOK /\ SemCountsJobs /\ ReleaseCoversActive /\ ActiveIsRunning
      /\ \A v \in Workers : GoroutinesAgree(v)
  BY DEF WorkerInv
<1>1. PICK r \in {NoWatch, [pc |-> "done", todo |-> {}, key |-> NoKey]} :
         /\ watch' = [watch EXCEPT ![w] = r]
         /\ watch[w].pc # "watching" => r.pc = "done"
  <2> DEFINE r == IF watch[w] = NoWatch THEN NoWatch
                  ELSE [pc |-> "done", todo |-> {}, key |-> NoKey]
  <2>1. watch' = [watch EXCEPT ![w] = r]
    BY DEF ProcessEnds, SetWatch
  <2>2. watch[w].pc # "watching" => r.pc = "done"
    BY DEF NoWatch
  <2> QED
    BY <2>1, <2>2
<1>2. /\ loop' = [loop EXCEPT ![w] = "dead"]
      /\ inHand' = [inHand EXCEPT ![w] = NoKey]
      /\ sem' = [sem EXCEPT ![w] = 0]
      /\ filled' = [filled EXCEPT ![w] = 0]
      /\ active' = [active EXCEPT ![w] = [k \in Keys |-> 0]]
      /\ run' = [run EXCEPT ![w] = [s \in Slots |-> NoRun]]
      /\ UNCHANGED <<shuttingDown, stopRequested>>
  BY DEF ProcessEnds
<1>3. NoRun \in Run
  BY DEF NoRun, Run, RunPCs
<1>4. WorkerTypeOK'
  BY <1>0, <1>1, <1>2, <1>3, WorkerAssumption DEF WorkerTypeOK, NoWatch
<1>5. /\ \A v \in Workers : v # w =>
            /\ loop'[v] = loop[v] /\ inHand'[v] = inHand[v] /\ sem'[v] = sem[v]
            /\ filled'[v] = filled[v] /\ active'[v] = active[v] /\ run'[v] = run[v]
            /\ watch'[v] = watch[v]
      /\ loop'[w] = "dead" /\ sem'[w] = 0 /\ filled'[w] = 0
      /\ active'[w] = [k \in Keys |-> 0]
      /\ run'[w] = [s \in Slots |-> NoRun]
      /\ watch'[w].pc \in {"watching", "done"}
  BY <1>0, <1>1, <1>2 DEF WorkerTypeOK, NoWatch
<1>6. SemCountsJobs'
  <2>1. \A v \in Workers : v # w => Busy(v)' = Busy(v)
    BY <1>5 DEF Busy
  <2>2. Busy(w)' = {}
    BY <1>5 DEF Busy, NoRun
  <2>3. Cardinality(Busy(w)') = 0
    BY <2>2, FS_EmptySet
  <2> QED
    BY <1>0, <1>5, <2>1, <2>3 DEF SemCountsJobs
<1>7. Active(w)' = {} /\ ~ MapLocked(w)'
  BY <1>5 DEF Active, MapLocked
<1>8. ActiveIsRunning' /\ ReleaseCoversActive'
  BY <1>0, <1>5, <1>7 DEF ActiveIsRunning, ReleaseCoversActive, Active, MapLocked
<1>9. \A v \in Workers : GoroutinesAgree(v)'
  BY <1>0, <1>5 DEF GoroutinesAgree, NoRun
<1> QED
  BY <1>4, <1>6, <1>8, <1>9 DEF WorkerInv

LEMMA ProcessKeeps ==
    ASSUME WorkerInv, NEW w \in Workers, ProcessStep(w)
    PROVE  WorkerInv'
<1>1. /\ WorkerTypeOK /\ SemCountsJobs /\ ReleaseCoversActive /\ ActiveIsRunning
      /\ \A v \in Workers : GoroutinesAgree(v)
  BY DEF WorkerInv
<1>2. CASE RequestStop(w)
  <2>1. /\ stopRequested' = [stopRequested EXCEPT ![w] = TRUE]
        /\ UNCHANGED <<loop, inHand, sem, filled, active, run, shuttingDown, watch, faults>>
    BY <1>2 DEF RequestStop
  <2>2. WorkerTypeOK'
    BY <1>1, <2>1 DEF WorkerTypeOK
  <2>3. ReleaseCoversActive'
    BY <1>1, <2>1 DEF ReleaseCoversActive, MapLocked, Active
  <2>4. SemCountsJobs'
    <3>1. \A v \in Workers : Busy(v)' = Busy(v)
      BY <2>1 DEF Busy
    <3> QED
      BY <1>1, <2>1, <3>1 DEF SemCountsJobs
  <2>5. ActiveIsRunning' /\ \A v \in Workers : GoroutinesAgree(v)'
    BY <1>1, <2>1 DEF ActiveIsRunning, Active, GoroutinesAgree
  <2> QED
    BY <2>2, <2>3, <2>4, <2>5 DEF WorkerInv
<1>3. CASE Exit(w) \/ Crash(w)
  <2>1. ProcessEnds(w) /\ faults' \in 0 .. MaxFaults
    <3>1. faults \in 0 .. MaxFaults
      BY <1>1 DEF WorkerTypeOK
    <3> QED
      BY <1>3, <3>1, FaultsAssumption DEF Exit, Crash, Fault
  <2> QED
    BY <2>1, EndKeeps
<1> QED
  BY <1>2, <1>3 DEF ProcessStep

(* A step of any part of a worker.                                         *)
LEMMA StepKeeps ==
    ASSUME WorkerInv, NEW w \in Workers, WorkerStep(w)
    PROVE  WorkerInv'
<1>1. ASSUME NEW s \in Slots, RunStep(w, s) \/ BeatStep(w, s)
      PROVE  WorkerInv'
  BY <1>1, RunKeeps, BeatKeeps
<1> QED
  BY <1>1, LoopKeeps, WatchKeeps, ProcessKeeps DEF WorkerStep

LEMMA ClockKeeps ==
    ASSUME WorkerInv, ClockTick
    PROVE  WorkerInv'
<1>1. /\ WorkerTypeOK /\ SemCountsJobs /\ ReleaseCoversActive /\ ActiveIsRunning
      /\ \A v \in Workers : GoroutinesAgree(v)
  BY DEF WorkerInv
<1>2. /\ run' = [v \in Workers |-> [s \in Slots |->
                   IF run[v][s].beat = "waiting"
                   THEN [run[v][s] EXCEPT !.beat = "due"] ELSE run[v][s]]]
      /\ UNCHANGED <<loop, inHand, sem, filled, active, shuttingDown, stopRequested, watch>>
  BY DEF ClockTick
<1>3. \A v \in Workers, s \in Slots :
         /\ run'[v][s] \in Run
         /\ run'[v][s].pc = run[v][s].pc /\ run'[v][s].key = run[v][s].key
         /\ run'[v][s].outcome = run[v][s].outcome
         /\ run'[v][s].cancelled = run[v][s].cancelled
  <2> SUFFICES ASSUME NEW v \in Workers, NEW s \in Slots
               PROVE  /\ run'[v][s] \in Run
                      /\ run'[v][s].pc = run[v][s].pc /\ run'[v][s].key = run[v][s].key
                      /\ run'[v][s].outcome = run[v][s].outcome
                      /\ run'[v][s].cancelled = run[v][s].cancelled
    OBVIOUS
  <2>1. run[v][s] \in Run
    BY <1>1 DEF WorkerTypeOK
  <2> QED
    BY <1>2, <2>1 DEF Run
<1>4. faults' \in 0 .. MaxFaults
  <2>1. faults \in 0 .. MaxFaults
    BY <1>1 DEF WorkerTypeOK
  <2> QED
    BY <2>1, FaultsAssumption DEF ClockTick, Fault
<1>5. run' \in [Workers -> [Slots -> Run]]
  BY <1>2, <1>3
<1>6. WorkerTypeOK'
  BY <1>1, <1>2, <1>4, <1>5 DEF WorkerTypeOK
<1>7. SemCountsJobs'
  <2>1. \A v \in Workers : Busy(v)' = Busy(v)
    BY <1>3 DEF Busy
  <2> QED
    BY <1>1, <1>2, <2>1 DEF SemCountsJobs
<1>8. \A v \in Workers : /\ Active(v)' = Active(v)
                        /\ \A k \in Active(v) : active[v][k] \in Slots
  BY <1>1, <1>2 DEF WorkerTypeOK, Active, Slots
<1>9. ActiveIsRunning'
  BY <1>1, <1>2, <1>3, <1>8 DEF ActiveIsRunning, Active
<1>10. ReleaseCoversActive'
  BY <1>1, <1>2, <1>3, <1>8 DEF ReleaseCoversActive, MapLocked, Active
<1>11. \A v \in Workers : GoroutinesAgree(v)'
  BY <1>1, <1>2, <1>3 DEF GoroutinesAgree
<1> QED
  BY <1>6, <1>7, <1>9, <1>10, <1>11 DEF WorkerInv

LEMMA WorkerInitInv == WorkerInit => WorkerInv
<1> SUFFICES ASSUME WorkerInit
             PROVE  WorkerInv
  OBVIOUS
<1> USE DEF WorkerInit
<1>1. NoRun \in Run
  BY DEF NoRun, Run, RunPCs
<1>2. WorkerTypeOK
  BY <1>1, WorkerAssumption, FaultsAssumption DEF WorkerTypeOK, NoWatch
<1>3. SemCountsJobs
  <2>1. \A w \in Workers : Busy(w) = {}
    BY DEF Busy, NoRun
  <2> QED
    BY <2>1, FS_EmptySet DEF SemCountsJobs
<1>4. ActiveIsRunning /\ ReleaseCoversActive
  BY DEF ActiveIsRunning, ReleaseCoversActive, Active, MapLocked, NoWatch
<1>5. \A w \in Workers : GoroutinesAgree(w)
  BY DEF GoroutinesAgree, NoRun, NoWatch
<1> QED
  BY <1>2, <1>3, <1>4, <1>5 DEF WorkerInv

(* A step of others leaves the state of the workers alone.                 *)
LEMMA WorkerStutter ==
    ASSUME WorkerInv, UNCHANGED workerVars, faults' \in 0 .. MaxFaults
    PROVE  WorkerInv'
<1>1. UNCHANGED <<loop, inHand, sem, filled, active, run, shuttingDown, stopRequested, watch>>
  BY DEF workerVars
<1>2. WorkerTypeOK'
  BY <1>1 DEF WorkerInv, WorkerTypeOK
<1>3. SemCountsJobs'
  <2>1. \A v \in Workers : Busy(v)' = Busy(v)
    BY <1>1 DEF Busy
  <2> QED
    BY <1>1, <2>1 DEF WorkerInv, SemCountsJobs
<1>4. ActiveIsRunning' /\ ReleaseCoversActive' /\ \A v \in Workers : GoroutinesAgree(v)'
  BY <1>1 DEF WorkerInv, ActiveIsRunning, ReleaseCoversActive, Active, MapLocked,
              GoroutinesAgree
<1> QED
  BY <1>2, <1>3, <1>4 DEF WorkerInv

LEMMA WorkerInvHolds == WorkersSpec => []WorkerInv
<1>1. WorkerInv /\ [WorkersNext]_<<queueVars, workerVars, faults>> => WorkerInv'
  <2> SUFFICES ASSUME WorkerInv, [WorkersNext]_<<queueVars, workerVars, faults>>
               PROVE  WorkerInv'
    OBVIOUS
  <2>1. faults \in 0 .. MaxFaults
    BY DEF WorkerInv, WorkerTypeOK
  <2>2. CASE OthersStep \/ UNCHANGED <<queueVars, workerVars, faults>>
    BY <2>1, <2>2, WorkerStutter DEF OthersStep
  <2> QED
    BY <2>2, StepKeeps, ClockKeeps DEF WorkersNext
<1> QED
  BY <1>1, WorkerInitInv, PTL DEF WorkersSpec

-----------------------------------------------------------------------------
(* No token of the semaphore is lost or released twice: a worker keeps its *)
(* capacity, and a drain that holds the whole semaphore knows that no job  *)
(* is left.                                                                *)
THEOREM SemCountsJobsHolds == WorkersSpec => []SemCountsJobs
<1>1. WorkerInv => SemCountsJobs
  BY DEF WorkerInv
<1> QED
  BY <1>1, WorkerInvHolds, PTL

(* An entry of the active map belongs to a running goroutine of that job,  *)
(* so that nothing else is ever cancelled in its place.                    *)
THEOREM ActiveIsRunningHolds == WorkersSpec => []ActiveIsRunning
<1>1. WorkerInv => ActiveIsRunning
  BY DEF WorkerInv
<1> QED
  BY <1>1, WorkerInvHolds, PTL

(* A preemption skips no active job and releases none twice.               *)
THEOREM ReleaseCoversActiveHolds == WorkersSpec => []ReleaseCoversActive
<1>1. WorkerInv => ReleaseCoversActive
  BY DEF WorkerInv
<1> QED
  BY <1>1, WorkerInvHolds, PTL
=============================================================================
