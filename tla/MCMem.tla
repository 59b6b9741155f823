------------------------------- MODULE MCMem -------------------------------
(* Instances of GemdosMem for TLC: a memory of a few four-byte units. *)
EXTENDS GemdosMem

WordAddrs == {0} \cup {a \in MemBot .. MemTop : a % 4 = 0}

NodeSymmetry == Permutations(Node)
=============================================================================
