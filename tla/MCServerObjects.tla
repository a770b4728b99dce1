--------------------------- MODULE MCServerObjects ---------------------------
(* A small instance of the server's objects for TLC.  Addresses of one kind *)
(* are told apart only by equality, and so are names.                       *)
EXTENDS ServerObjects, TLC

Symmetry == Permutations(DbPtr) \cup Permutations(PkgPtr) \cup Permutations(Name)
=============================================================================
