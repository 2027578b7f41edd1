--------------------------- MODULE DocumentedClaims ---------------------------
(***************************************************************************)
(* What the repository's documentation says of the running system and the  *)
(* code does not do: TLC finds a behaviour of the code that violates it.   *)
(***************************************************************************)
EXTENDS BuildServer

(* README.md, preemption: "if it is, it will stop processing jobs, and     *)
(* mark all its jobs as failed, for another worker to automatically        *)
(* retry".  When watchPreemption has finished, every goroutine of the      *)
(* worker is cancelled.                                                    *)
PreemptionStopsAllJobs ==
    \A w \in Workers : watch[w].pc = "done" =>
        \A s \in Slots, k \in Keys : Builds(w, s, k) => run[w][s].cancelled
=============================================================================
