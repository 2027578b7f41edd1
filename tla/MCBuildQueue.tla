---------------------------- MODULE MCBuildQueue ----------------------------
(* TLC instance of BuildQueue: any statement, by any worker, at any moment. *)
EXTENDS BuildQueue, TLC

\* No operator tells two keys or two workers apart (no CHOOSE among them).
Symmetry == Permutations(Workers) \cup Permutations(Keys)
=============================================================================
