---------------------------- MODULE MCInspection ----------------------------
(* Small instance of Inspection for TLC: the processes are interchangeable. *)
EXTENDS Inspection, TLC

ProcSymmetry == Permutations(Procs)
=============================================================================
