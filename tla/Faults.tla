--------------------------------- MODULE Faults ---------------------------------
(***************************************************************************)
(* The budget of what goes wrong outside the programs: calls that are       *)
(* refused or whose answer is lost, services and jobs that fail.            *)
(***************************************************************************)
EXTENDS Naturals

CONSTANT MaxFaults  \* bound: faults in a behaviour

ASSUME MaxFaultsAssumption == MaxFaults \in Nat

VARIABLE faults

Fault == faults < MaxFaults /\ faults' = faults + 1
=============================================================================
