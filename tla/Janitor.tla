------------------------------- MODULE Janitor -------------------------------
(***************************************************************************)
(* The janitor of pkg/janitor/janitor.go: a scheduler that starts a rescue *)
(* cycle and a retry cycle every ten seconds.  The scheduler does not wait *)
(* for a cycle to end before it starts the next one, and nothing keeps two *)
(* janitors apart: Cycles are the rescue cycles that may overlap.          *)
(*                                                                         *)
(* A rescue cycle computes its cutoff once and then issues two statements. *)
(* It takes the cutoff from the clock of its own host (time.Now()), while  *)
(* heartbeat_at is the time of the database (NOW()): the cutoff may be     *)
(* early by up to MaxAhead ticks, where the janitor's clock is ahead, or   *)
(* late, where it is behind.                                               *)
(*                                                                         *)
(* A retry cycle is a single statement, RetryFailedBuilds.                 *)
(***************************************************************************)
EXTENDS BuildQueue, Faults

CONSTANT Cycles  \* rescue cycles that may be in progress at a time

VARIABLE rescue  \* per cycle: the next statement, and how late its cutoff is, in ticks

JanitorInit == rescue = [j \in Cycles |-> [pc |-> "idle", elapsed |-> 0]]

\* Mutant: each statement computes a cutoff of its own.
FreshCutoff(j) == StuckThreshold

\* Mutant: a threshold one heartbeat interval short.
ShortCutoff(j) == StuckThreshold + rescue[j].elapsed - 1

\* The cutoff as an age at the present moment: it was StuckThreshold by the
\* clock of the janitor when it was computed, and has grown older since.
Cutoff(j) == StuckThreshold + rescue[j].elapsed

IdleCycle == [pc |-> "idle", elapsed |-> 0]

RescueBegins(j) ==  \* the cutoff is computed
    /\ rescue[j].pc = "idle"
    /\ \E late \in -MaxAhead .. MaxElapsed :
          rescue' = [rescue EXCEPT ![j] = [pc |-> "attempts", elapsed |-> late]]
    /\ UNCHANGED <<queueVars, faults>>

RescueFirst(j) ==
    /\ rescue[j].pc = "attempts"
    /\ RescueAttempts(Cutoff(j))
    /\ rescue' = [rescue EXCEPT ![j].pc = "jobs"]
    /\ UNCHANGED faults

RescueSecond(j) ==
    /\ rescue[j].pc = "jobs"
    /\ RescueJobs(Cutoff(j))
    /\ rescue' = [rescue EXCEPT ![j] = IdleCycle]
    /\ UNCHANGED faults

\* A statement fails or the janitor dies; the next cycle starts afresh.
RescueFails(j) ==
    /\ rescue[j].pc # "idle"
    /\ rescue' = [rescue EXCEPT ![j] = IdleCycle]
    /\ Fault
    /\ UNCHANGED queueVars

RetryCycle == RetryFailedBuilds /\ UNCHANGED <<rescue, faults>>

RescueStep(j) == RescueBegins(j) \/ RescueFirst(j) \/ RescueSecond(j) \/ RescueFails(j)

JanitorStep == (\E j \in Cycles : RescueStep(j)) \/ RetryCycle

\* A tick passes: the cutoffs of the cycles in progress grow old.  MaxElapsed
\* bounds the time one cycle takes and how far the janitor's clock is behind.
CyclesAge ==
    /\ \A j \in Cycles : rescue[j].elapsed < MaxElapsed \/ rescue[j].pc = "idle"
    /\ rescue' = [j \in Cycles |->
                    IF rescue[j].pc = "idle" THEN rescue[j]
                    ELSE [rescue[j] EXCEPT !.elapsed = @ + 1]]

(* Type correctness of the janitor's state.                                *)
JanitorTypeOK ==
    rescue \in [Cycles -> [pc : {"idle", "attempts", "jobs"}, elapsed : -MaxAhead .. MaxElapsed]]

(* A rescue never puts a job back into the queue with an attempt of it     *)
(* still open: between its two statements no job becomes stuck, because    *)
(* both compare with the same cutoff and a claim or a heartbeat in between *)
(* is younger than that.  Otherwise the old attempt would stay "building"  *)
(* next to the new one.                                                    *)
RescueLeavesNoOpenAttempt ==
    [][\A j \in Cycles : \A k \in Keys :
          /\ rescue[j].pc = "jobs"
          /\ rescue' # rescue
          /\ jobs[k].status = "building"
          /\ jobs'[k].status = "pending"
          => \A i \in DOMAIN attempts[k] : attempts[k][i].status # "building"
      ]_<<queueVars, rescue>>
=============================================================================
