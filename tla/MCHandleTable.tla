---------------------------- MODULE MCHandleTable ----------------------------
(* A small instance of the handle table for TLC.  The objects are addresses *)
(* that are told apart only by equality, so they are symmetric.            *)
EXTENDS HandleTable, TLC

PtrSymmetry == Permutations(Ptr)
=============================================================================
