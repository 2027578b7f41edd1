---------------------------- MODULE MCBuildServer ----------------------------
(* TLC instances of BuildServer. *)
EXTENDS BuildServer, TLC

\* For the safety runs: workers that are treated alike, rescue cycles and
\* requests.
WorkerSymmetry == Permutations(Workers)
CycleSymmetry == Permutations(Cycles)
ForceSymmetry == Permutations(ForcedRequests)
=============================================================================
