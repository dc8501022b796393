----------------------------- MODULE MCLibrary ------------------------------
(* Small instances of Library for TLC. *)
EXTENDS Library, TLC

Symmetry == Permutations(Requests) \cup Permutations(Paths)
=============================================================================
