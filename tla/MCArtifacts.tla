----------------------------- MODULE MCArtifacts -----------------------------
(* TLC instance of Artifacts. *)
EXTENDS Artifacts, TLC

Symmetry == Permutations(Workers)
=============================================================================
