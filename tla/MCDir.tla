------------------------------- MODULE MCDir -------------------------------
(* Instances of GemdosDir for TLC: a memory of a few four-byte units. *)
EXTENDS GemdosDir

NodeSymmetry == Permutations(Node) \cup Permutations(Stream)
=============================================================================
