--------------------------- MODULE BuildLifecycle ---------------------------
(***************************************************************************)
(* What the build server promises its clients of a job, without workers,   *)
(* attempts or tables: a job that was asked for is waited for until it is  *)
(* done or failed, and that is its end.  The promise ends with the first   *)
(* disturbance of the job: a failure of a machine or of the database, a    *)
(* worker that is taken down, a forced rebuild.  From then on the job is   *)
(* waiting, done or failed as it comes, but it is never forgotten.         *)
(***************************************************************************)
CONSTANT Keys  \* the jobs

VARIABLES
    state,     \* what a client sees of each job
    disturbed  \* the jobs that something has disturbed

lifecycleVars == <<state, disturbed>>

-----------------------------------------------------------------------------
Results == {"done", "failed"}

LifecycleInit ==
    /\ state = [k \in Keys |-> "absent"]
    /\ disturbed = {}

Becomes(k, s) == state' = [state EXCEPT ![k] = s]

Request(k) ==
    /\ state[k] = "absent"
    /\ Becomes(k, "waiting")
    /\ UNCHANGED disturbed

Finish(k) ==
    /\ state[k] = "waiting"
    /\ \E result \in Results : Becomes(k, result)
    /\ UNCHANGED disturbed

\* Jobs are disturbed, and a disturbed job changes as it may.
Disturb ==
    /\ \E D \in SUBSET Keys : disturbed' = disturbed \cup D
    /\ \/ UNCHANGED state
       \/ \E k \in disturbed' :
             /\ state[k] # "absent"
             /\ \E s \in Results \cup {"waiting"} : Becomes(k, s)

LifecycleNext ==
    \/ \E k \in Keys : Request(k) \/ Finish(k)
    \/ Disturb

LifecycleSpec == LifecycleInit /\ [][LifecycleNext]_lifecycleVars
=============================================================================
