----------------------------- MODULE MCSession ------------------------------
(* The symmetry of the instance for TLC.                                    *)
EXTENDS Session, TLC

ProcSymmetry == Permutations(Procs)
=============================================================================
