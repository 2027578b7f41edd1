---- MODULE Faults ----
(* What goes wrong outside the program: a database statement that fails, a *)
(* process that dies, a process that is too slow for its heartbeat.  Every *)
(* such event is an action of the component it hits and is counted here,   *)
(* so that a property can say how much it tolerates.                       *)
EXTENDS Naturals

CONSTANT MaxFaults  \* bound: failures of the environment in one behaviour

ASSUME FaultsAssumption == MaxFaults \in Nat

VARIABLE faults  \* failures of the environment so far

Fault == faults < MaxFaults /\ faults' = faults + 1
====
